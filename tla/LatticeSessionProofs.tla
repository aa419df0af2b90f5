------------------------- MODULE LatticeSessionProofs -------------------------
(***************************************************************************)
(* For any texts, with any number of results, and any sequence of calls:   *)
(* the N-best results of the sentence come in order, and nothing of an     *)
(* earlier call shows in a later one.                                      *)
(***************************************************************************)
EXTENDS LatticeSession, SequenceTheorems, TLAPS

(* The part of TypeOK about the lattice and its agenda. *)
LatticeOK(x) ==
  /\ x \in LatticeType
  /\ x.agenda = NoText => x.popped = 0 /\ ~x.live
  /\ x.agenda # NoText => x.popped <= Ways[x.agenda]
  /\ x.constraints \in {NoText, x.sentence}

AskedType == [request_type : SUBSET Types, theta : Thetas, ok : BOOLEAN, served : Nat]

(* The agenda of a caller who asked for N-best results is set for the       *)
(* sentence, its nodes are allocated, and it is as far as the caller.       *)
AgendaServes(a, x) ==
  a.ok /\ "nbest" \in a.request_type /\ ~x.stacked =>
    x.live /\ x.agenda = x.sentence /\ x.popped = a.served

(* A lattice inside a tagger is asked for what the last call asked for. *)
SameTypes == api = "Tagger" => lattice.request_type = asked.request_type

IInv == TypeOK /\ LatticeOK(lattice) /\ AgendaServes(asked, lattice) /\ SameTypes

(* A new sentence, or none. *)
LEMMA Sentenced ==
  ASSUME NEW x, LatticeOK(x), NEW t \in Texts \cup {NoText}
  PROVE  LET y == SetSentence(x, t)
         IN  /\ LatticeOK(y) /\ y.sentence = t /\ y.request_type = x.request_type
             /\ y.agenda = x.agenda /\ y.popped = x.popped /\ ~y.live
  <1> DEFINE c == Clear(x)
             y == SetSentence(x, t)
  <1>1. x \in LatticeType
    BY DEF LatticeOK
  <1>2. /\ c \in LatticeType /\ c.request_type = x.request_type
        /\ c.agenda = x.agenda /\ c.popped = x.popped
        /\ c.live = FALSE /\ c.constraints = NoText
    BY <1>1, ThetaAssumption DEF Clear, LatticeType
  <1> HIDE DEF c
  <1>3. y = [c EXCEPT !.sentence = t]
    BY DEF SetSentence, c
  <1> HIDE DEF y
  <1>4. /\ y \in LatticeType /\ y.sentence = t /\ y.request_type = x.request_type
        /\ y.agenda = x.agenda /\ y.popped = x.popped
        /\ y.live = FALSE /\ y.constraints = NoText
    BY <1>2, <1>3 DEF LatticeType
  <1>5. LatticeOK(y) /\ ~y.live
    BY <1>4 DEF LatticeOK
  <1> QED
    BY <1>4, <1>5 DEF y

LEMMA Partial ==
  ASSUME NEW x, LatticeOK(x)
  PROVE  LET y == InitPartial(x)
         IN  /\ LatticeOK(y) /\ y.sentence = x.sentence /\ y.request_type = x.request_type
             /\ y.agenda = x.agenda /\ y.popped = x.popped
  <1>1. CASE "partial" \in x.request_type
    <2> DEFINE z == SetSentence(x, x.sentence)
    <2>1. /\ LatticeOK(z) /\ z.sentence = x.sentence /\ z.request_type = x.request_type
          /\ z.agenda = x.agenda /\ z.popped = x.popped
      BY Sentenced DEF LatticeOK, LatticeType
    <2>2. InitPartial(x) = [z EXCEPT !.constraints = x.sentence]
      BY <1>1 DEF InitPartial
    <2> HIDE DEF z
    <2>3. z \in LatticeType /\ x.sentence \in Texts \cup {NoText}
      BY <2>1 DEF LatticeOK, LatticeType
    <2>4. LET y == InitPartial(x)
          IN  /\ y \in LatticeType /\ y.constraints = x.sentence
              /\ y.sentence = z.sentence /\ y.request_type = z.request_type
              /\ y.agenda = z.agenda /\ y.popped = z.popped /\ y.live = z.live
      BY <2>2, <2>3 DEF LatticeType
    <2> QED
      BY <2>1, <2>4 DEF LatticeOK
  <1>2. CASE "partial" \notin x.request_type
    BY <1>2 DEF InitPartial
  <1> QED
    BY <1>1, <1>2

(* An analysis: of a lattice with a sentence that has results and the       *)
(* request for N-best ones, the agenda starts afresh; of any other it stays.*)
LEMMA AnalysisFacts ==
  ASSUME NEW x, LatticeOK(x)
  PROVE  LET y == Analyzed(x)
         IN  /\ LatticeOK(y) /\ y.sentence = x.sentence /\ y.request_type = x.request_type
             /\ Succeeds(x) /\ "nbest" \in x.request_type =>
                  y.live /\ y.agenda = x.sentence /\ y.popped = 0
  <1>1. CASE x.sentence = NoText
    BY <1>1 DEF Analyzed, Succeeds
  <1>2. CASE x.sentence # NoText
    <2> DEFINE p == InitPartial(x)
               f == Filed(p)
               m == Forwardbackward(f)
               y == Analyzed(x)
    <2>1. /\ LatticeOK(p) /\ p.sentence = x.sentence /\ p.request_type = x.request_type
      BY Partial
    <2>2. x.sentence \in Texts /\ Ways[x.sentence] \in Nat
      BY <1>2, WaysAssumption DEF LatticeOK, LatticeType
    <2>3. f = [p EXCEPT !.stacked = p.filed, !.filed = TRUE]
      BY DEF Filed
    <2> HIDE DEF p
    <2>4. /\ LatticeOK(f) /\ f.sentence = x.sentence /\ f.request_type = x.request_type
      <3>1. /\ f \in LatticeType /\ f.sentence = p.sentence /\ f.request_type = p.request_type
            /\ f.agenda = p.agenda /\ f.popped = p.popped /\ f.live = p.live
            /\ f.constraints = p.constraints
        BY <2>1, <2>3 DEF LatticeOK, LatticeType
      <3> QED
        BY <2>1, <3>1 DEF LatticeOK
    <2> HIDE DEF f
    <2>5. /\ LatticeOK(m) /\ m.sentence = x.sentence /\ m.request_type = x.request_type
      <3>1. CASE "marginal" \in f.request_type
        <4>1. m = [f EXCEPT !.Z = f.theta]
          BY <3>1 DEF Forwardbackward
        <4> HIDE DEF m
        <4>2. /\ m \in LatticeType /\ m.sentence = f.sentence /\ m.request_type = f.request_type
              /\ m.agenda = f.agenda /\ m.popped = f.popped /\ m.live = f.live
              /\ m.constraints = f.constraints
          BY <2>4, <4>1 DEF LatticeOK, LatticeType
        <4> QED
          BY <2>4, <4>2 DEF LatticeOK
      <3>2. CASE "marginal" \notin f.request_type
        BY <2>4, <3>2 DEF Forwardbackward
      <3> QED
        BY <3>1, <3>2
    <2>6. y = IF Succeeds(x) THEN InitNBest(m) ELSE f
      BY <1>2 DEF Analyzed, p, f
    <2> HIDE DEF m
    <2>7. CASE Succeeds(x) /\ "nbest" \in x.request_type
      <3>1. y = [m EXCEPT !.agenda = m.sentence, !.popped = 0, !.live = TRUE]
        BY <2>5, <2>6, <2>7 DEF InitNBest
      <3> HIDE DEF y
      <3>2. /\ y \in LatticeType /\ y.sentence = m.sentence /\ y.request_type = m.request_type
            /\ y.agenda = m.sentence /\ y.popped = 0 /\ y.live = TRUE
            /\ y.constraints = m.constraints
        BY <2>5, <3>1 DEF LatticeOK, LatticeType
      <3>3. LatticeOK(y)
        BY <1>2, <2>2, <2>5, <3>2 DEF LatticeOK
      <3> QED
        BY <2>5, <3>2, <3>3 DEF y
    <2>8. CASE ~(Succeeds(x) /\ "nbest" \in x.request_type)
      BY <2>4, <2>5, <2>6, <2>8 DEF InitNBest
    <2> QED
      BY <2>7, <2>8
  <1> QED
    BY <1>1, <1>2

(* What next() may do to the lattice and give. *)
LEMMA NextFacts ==
  ASSUME NEW x, LatticeOK(x), NEW r \in NextResults(x)
  PROVE  /\ LatticeOK(r.x)
         /\ r.x.sentence = x.sentence /\ r.x.request_type = x.request_type
         /\ r.x.agenda = x.agenda /\ r.x.live = x.live /\ r.x.stacked = x.stacked
         /\ r.reads # <<>> => "nbest" \in x.request_type
         /\ x.live /\ ~x.stacked =>
              \/ r.reads = <<>> /\ r.x.popped = x.popped
                 /\ ("nbest" \in x.request_type => x.popped = Ways[x.agenda])
              \/ r.reads = <<Reads(x, x.popped + 1)>> /\ r.x.popped = x.popped + 1
  <1> DEFINE popped == [x EXCEPT !.popped = @ + 1]
             spent == [x EXCEPT !.popped = Ways[x.agenda]]
  <1>1. CASE "nbest" \notin x.request_type \/ Left(x) = 0
    <2>1. r = [x |-> x, reads |-> <<>>]
      BY <1>1 DEF NextResults
    <2>2. x.live /\ "nbest" \in x.request_type => x.popped = Ways[x.agenda]
      <3>1. x.live => x.agenda \in Texts /\ x.popped \in Nat
        BY DEF LatticeOK, LatticeType
      <3>2. x.live => Ways[x.agenda] \in Nat
        BY <3>1, WaysAssumption
      <3> QED
        BY <1>1, <3>1, <3>2, NoTextAssumption DEF Left
    <2> QED
      BY <2>1, <2>2
  <1>2. CASE "nbest" \in x.request_type /\ Left(x) # 0
    <2>1. x \in LatticeType /\ x.agenda \in Texts /\ x.agenda # NoText /\ x.popped \in Nat
          /\ x.popped <= Ways[x.agenda] /\ x.constraints \in {NoText, x.sentence}
      BY <1>2 DEF Left, LatticeOK, LatticeType
    <2>2. Ways[x.agenda] \in Nat /\ x.popped + 1 <= Ways[x.agenda]
      <3>1. Ways[x.agenda] \in Nat
        BY <2>1, WaysAssumption
      <3>2. Ways[x.agenda] - x.popped # 0
        BY <1>2, <2>1 DEF Left
      <3> QED
        BY <2>1, <3>1, <3>2
    <2>3. \A k \in Nat : k <= Ways[x.agenda] =>
            LET y == [x EXCEPT !.popped = k]
            IN  /\ LatticeOK(y) /\ y.popped = k /\ y.sentence = x.sentence
                /\ y.request_type = x.request_type /\ y.agenda = x.agenda
                /\ y.live = x.live /\ y.stacked = x.stacked
      <3> SUFFICES ASSUME NEW k \in Nat, k <= Ways[x.agenda]
                   PROVE  LET y == [x EXCEPT !.popped = k]
                          IN  /\ LatticeOK(y) /\ y.popped = k /\ y.sentence = x.sentence
                              /\ y.request_type = x.request_type /\ y.agenda = x.agenda
                              /\ y.live = x.live /\ y.stacked = x.stacked
        OBVIOUS
      <3> DEFINE y == [x EXCEPT !.popped = k]
      <3>1. /\ y \in LatticeType /\ y.popped = k /\ y.sentence = x.sentence
            /\ y.request_type = x.request_type /\ y.agenda = x.agenda
            /\ y.live = x.live /\ y.stacked = x.stacked /\ y.constraints = x.constraints
        BY <2>1 DEF LatticeType
      <3> HIDE DEF y
      <3>2. LatticeOK(y)
        BY <2>1, <3>1 DEF LatticeOK
      <3> QED
        BY <3>1, <3>2 DEF y
    <2>4. /\ LatticeOK(popped) /\ popped.popped = x.popped + 1 /\ popped.sentence = x.sentence
          /\ popped.request_type = x.request_type /\ popped.agenda = x.agenda
          /\ popped.live = x.live /\ popped.stacked = x.stacked
      <3>1. popped = [x EXCEPT !.popped = x.popped + 1] /\ x.popped + 1 \in Nat
        BY <2>1
      <3> HIDE DEF popped
      <3> QED
        BY <2>2, <2>3, <3>1
    <2>5. /\ LatticeOK(spent) /\ spent.sentence = x.sentence
          /\ spent.request_type = x.request_type /\ spent.agenda = x.agenda
          /\ spent.live = x.live /\ spent.stacked = x.stacked
      BY <2>2, <2>3
    <2> HIDE DEF popped, spent
    <2>6. CASE ~x.live
      <3>1. r \in {[x |-> spent, reads |-> <<>>], [x |-> x, reads |-> << <<Junk, 0>> >>]}
        BY <1>2, <2>6 DEF NextResults, spent
      <3> QED
        BY <1>2, <2>5, <2>6, <3>1
    <2>7. CASE x.live /\ x.stacked
      <3>1. r \in {[x |-> y, reads |-> <<Reads(x, k)>>] : y \in {x, popped}, k \in 1 .. Ways[x.agenda]}
        BY <1>2, <2>7 DEF NextResults, popped
      <3>2. r.x \in {x, popped}
        BY <3>1
      <3> QED
        BY <1>2, <2>4, <2>7, <3>2
    <2>8. CASE x.live /\ ~x.stacked
      <3>1. r = [x |-> popped, reads |-> <<Reads(x, x.popped + 1)>>]
        BY <1>2, <2>8 DEF NextResults, popped
      <3> QED
        BY <1>2, <2>4, <3>1
    <2> QED
      BY <2>6, <2>7, <2>8
  <1> QED
    BY <1>1, <1>2

(* A call of the tagger that parses a text. *)
LEMMA OwnFacts ==
  ASSUME LatticeOK(lattice), tagger \in [request_type : SUBSET Types, theta : Thetas],
         NEW t \in Texts, NEW added \in SUBSET Types
  PROVE  LET y == OwnAnalyzed(t, added)
         IN  /\ LatticeOK(y) /\ y.sentence = t
             /\ y.request_type = tagger.request_type \cup added
             /\ Ways[t] > 0 /\ "nbest" \in y.request_type =>
                  y.live /\ y.agenda = t /\ y.popped = 0
  <1> DEFINE i == InitRequestType(lattice)
             a == [i EXCEPT !.request_type = @ \cup added]
             z == SetSentence(a, t)
  <1>1. lattice \in LatticeType /\ tagger.request_type \in SUBSET Types /\ tagger.theta \in Thetas
    BY DEF LatticeOK
  <1>2. i = [lattice EXCEPT !.request_type = tagger.request_type, !.theta = tagger.theta]
    BY DEF InitRequestType
  <1>3. /\ i \in LatticeType /\ i.request_type = tagger.request_type
        /\ i.agenda = lattice.agenda /\ i.popped = lattice.popped /\ i.live = lattice.live
        /\ i.sentence = lattice.sentence /\ i.constraints = lattice.constraints
    BY <1>1, <1>2 DEF LatticeType
  <1> HIDE DEF i
  <1>4. /\ a \in LatticeType /\ a.request_type = tagger.request_type \cup added
        /\ a.agenda = lattice.agenda /\ a.popped = lattice.popped /\ a.live = lattice.live
        /\ a.sentence = lattice.sentence /\ a.constraints = lattice.constraints
    BY <1>1, <1>3 DEF LatticeType
  <1> HIDE DEF a
  <1>5. LatticeOK(a)
    BY <1>4 DEF LatticeOK
  <1>6. LatticeOK(z) /\ z.sentence = t /\ z.request_type = tagger.request_type \cup added
    BY <1>4, <1>5, Sentenced
  <1>7. OwnAnalyzed(t, added) = Analyzed(z)
    BY DEF OwnAnalyzed, a, i
  <1>8. Ways[t] > 0 => Succeeds(z)
    BY <1>6, NoTextAssumption DEF Succeeds
  <1> HIDE DEF z
  <1> QED
    BY <1>6, <1>7, <1>8, AnalysisFacts

(* A function on 1 .. n is a sequence of length n. *)
LEMMA LengthOfFunction ==
  ASSUME NEW n \in Nat, NEW S, NEW f \in [1 .. n -> S]
  PROVE  Len(f) = n /\ DOMAIN f = 1 .. n
  <1>1. f \in Seq(S)
    BY SeqDef
  <1>2. DOMAIN f = 1 .. Len(f) /\ Len(f) \in Nat /\ DOMAIN f = 1 .. n
    BY <1>1, LenProperties
  <1> QED
    BY <1>2

(* The list of the first n results of an agenda that has given none yet. *)
LEMMA EnumeratedFacts ==
  ASSUME NEW x, LatticeOK(x), x.agenda \in Texts, x.popped = 0, NEW n \in Nat
  PROVE  LET e == Enumerated(x, n)
         IN  /\ LatticeOK(e.x)
             /\ e.x.sentence = x.sentence /\ e.x.request_type = x.request_type
             /\ e.x.agenda = x.agenda /\ e.x.live = x.live
             /\ e.x.popped = Len(e.reads) /\ Len(e.reads) \in Nat
             /\ Listable(n) => Len(e.reads) = Least(n, Ways[x.agenda])
             /\ \A i \in DOMAIN e.reads : e.reads[i] = Reads(x, i)
  <1> DEFINE e == Enumerated(x, n)
             count == IF Listable(n) THEN Least(n, Left(x)) ELSE 0
             list == [i \in 1 .. count |-> Reads(x, x.popped + i)]
  <1>1. Ways[x.agenda] \in Nat /\ x.agenda # NoText
    BY WaysAssumption, NoTextAssumption
  <1>2. Left(x) = Ways[x.agenda]
    BY <1>1 DEF Left
  <1>3. count \in Nat /\ count <= Ways[x.agenda] /\ (Listable(n) => count = Least(n, Ways[x.agenda]))
    BY <1>1, <1>2 DEF Least
  <1>4. e.x = [x EXCEPT !.popped = @ + count] /\ e.reads = list
    BY DEF Enumerated
  <1> HIDE DEF count
  <1>5. Len(list) = count /\ DOMAIN list = 1 .. count
    <2> DEFINE S == {Reads(x, x.popped + i) : i \in 1 .. count}
    <2>1. list \in [1 .. count -> S]
      OBVIOUS
    <2> HIDE DEF list, S
    <2> QED
      BY <1>3, <2>1, LengthOfFunction
  <1>6. \A i \in 1 .. count : list[i] = Reads(x, i)
    BY <1>3
  <1> HIDE DEF list
  <1>7. e.x = [x EXCEPT !.popped = count]
    BY <1>3, <1>4
  <1> HIDE DEF e
  <1>8. /\ e.x \in LatticeType /\ e.x.popped = count /\ e.x.sentence = x.sentence
        /\ e.x.request_type = x.request_type /\ e.x.agenda = x.agenda
        /\ e.x.live = x.live /\ e.x.constraints = x.constraints
    BY <1>3, <1>7 DEF LatticeOK, LatticeType
  <1>9. LatticeOK(e.x)
    BY <1>1, <1>3, <1>8 DEF LatticeOK
  <1> QED
    BY <1>3, <1>4, <1>5, <1>6, <1>8, <1>9 DEF e
-----------------------------------------------------------------------------
Shown == ServesSentence /\ ListsFirstN /\ NoResultUnasked

(* Only next() and parseNBest show more than one way through a sentence. *)
LEMMA QuietAnswer ==
  ASSUME LatticeOK(lattice)', answer'.call \in {"none", "parse"}
  PROVE  Shown'
  BY DEF Shown, ServesSentence, ListsFirstN, NoResultUnasked, LatticeOK

LEMMA TypeFromParts ==
  ASSUME api' \in {"Tagger", "Lattice"}, tagger' \in [request_type : SUBSET Types, theta : Thetas],
         LatticeOK(lattice)', asked' \in AskedType,
         answer'.call \in {"none", "parse", "enum", "next"}, answer'.n \in Nat
  PROVE  TypeOK'
  BY DEF TypeOK, LatticeOK, AskedType

LEMMA InitHolds == Init => IInv /\ Shown
  <1> SUFFICES ASSUME Init PROVE IInv /\ Shown
    OBVIOUS
  <1>1. LatticeOK(lattice) /\ lattice.request_type = {} /\ lattice.constraints = NoText
    BY ThetaAssumption DEF Init, NewLattice, LatticeOK, LatticeType
  <1>2. /\ asked \in AskedType /\ asked.ok = FALSE /\ asked.request_type = {}
        /\ answer.call = "none" /\ answer.n = 0
        /\ tagger \in [request_type : SUBSET Types, theta : Thetas]
        /\ api \in {"Tagger", "Lattice"}
    BY ThetaAssumption DEF Init, NotAsked, NoAnswer, Answer, AskedType
  <1>3. TypeOK
    BY <1>1, <1>2 DEF TypeOK, LatticeOK, AskedType
  <1>4. AgendaServes(asked, lattice) /\ SameTypes
    BY <1>1, <1>2 DEF AgendaServes, SameTypes
  <1>5. Shown
    BY <1>1, <1>2 DEF Shown, ServesSentence, ListsFirstN, NoResultUnasked
  <1> QED
    BY <1>1, <1>3, <1>4, <1>5 DEF IInv

LEMMA SetterStep ==
  ASSUME IInv, NEW types \in SUBSET Types, NEW theta \in Thetas, TaggerSets(types, theta)
  PROVE  IInv' /\ Shown'
  <1>1. /\ tagger' \in [request_type : SUBSET Types, theta : Thetas]
        /\ api' = api /\ lattice' = lattice /\ asked' = asked
        /\ answer'.call = "none" /\ answer'.n = 0
    BY DEF TaggerSets, NoAnswer, Answer
  <1>2. LatticeOK(lattice)' /\ AgendaServes(asked, lattice)' /\ SameTypes'
    BY <1>1 DEF IInv, LatticeOK, AgendaServes, SameTypes
  <1>3. TypeOK'
    BY <1>1, <1>2, TypeFromParts DEF IInv, TypeOK, AskedType
  <1> QED
    BY <1>1, <1>2, <1>3, QuietAnswer DEF IInv

LEMMA TaggerStep ==
  ASSUME IInv,
         SetRequestType \/ SetPartial \/ SetAllMorphs \/ SetLatticeLevel \/ SetTheta
  PROVE  IInv' /\ Shown'
  <1>1. tagger.request_type \in SUBSET Types /\ tagger.theta \in Thetas
    BY DEF IInv, TypeOK
  <1>2. \A type, on : With(tagger.request_type, type, on) \in SUBSET Types
    BY <1>1 DEF With
  <1>3. CASE SetRequestType
    BY <1>1, <1>3, SetterStep DEF SetRequestType
  <1>4. CASE SetPartial
    BY <1>1, <1>2, <1>4, SetterStep DEF SetPartial
  <1>5. CASE SetAllMorphs
    BY <1>1, <1>2, <1>5, SetterStep DEF SetAllMorphs
  <1>6. CASE SetLatticeLevel
    BY <1>1, <1>2, <1>6, SetterStep DEF SetLatticeLevel
  <1>7. CASE SetTheta
    BY <1>1, <1>7, SetterStep DEF SetTheta
  <1> QED
    BY <1>3, <1>4, <1>5, <1>6, <1>7

(* The calls of the tagger that parse a text leave the lattice asked for    *)
(* what the tagger asks for, and its agenda where the caller is.            *)
LEMMA OwnStep ==
  ASSUME IInv, NEW t \in Texts, NEW added \in SUBSET Types, NEW served \in Nat,
         AsksOwn(t, added, served), LatticeOK(lattice'),
         lattice'.sentence = t, lattice'.request_type = tagger.request_type \cup added,
         Ways[t] > 0 /\ "nbest" \in lattice'.request_type =>
           lattice'.live /\ lattice'.agenda = t /\ lattice'.popped = served,
         answer'.call \in {"none", "parse", "enum", "next"}, answer'.n \in Nat
  PROVE  IInv'
  <1> DEFINE types == tagger.request_type \cup added
             ok == Ways[t] > 0
  <1>1. types \in SUBSET Types /\ tagger.theta \in Thetas
    BY DEF IInv, TypeOK
  <1>2. ok \in BOOLEAN
    OBVIOUS
  <1>3. /\ asked' = [request_type |-> types, theta |-> tagger.theta, ok |-> ok, served |-> served]
        /\ api' = api /\ tagger' = tagger
    BY DEF AsksOwn
  <1>4. (ok <=> Ways[t] > 0) /\ types = tagger.request_type \cup added
    OBVIOUS
  <1> HIDE DEF ok, types
  <1>5. /\ asked' \in AskedType /\ asked'.request_type = types
        /\ asked'.ok = ok /\ asked'.served = served
    BY <1>1, <1>2, <1>3 DEF AskedType
  <1>6. TypeOK'
    BY <1>5, <1>3, TypeFromParts DEF IInv, TypeOK, LatticeOK
  <1>7. AgendaServes(asked, lattice)' /\ SameTypes'
    BY <1>5, <1>4 DEF AgendaServes, SameTypes
  <1> QED
    BY <1>6, <1>7 DEF IInv, LatticeOK

LEMMA ParseStep ==
  ASSUME IInv, NEW t \in Texts, Parse(t) \/ ParseNBestInit(t)
  PROVE  IInv' /\ Shown'
  <1>1. LatticeOK(lattice) /\ tagger \in [request_type : SUBSET Types, theta : Thetas]
    BY DEF IInv, TypeOK
  <1>2. CASE Parse(t)
    <2>1. AsksOwn(t, {}, 0) /\ lattice' = OwnAnalyzed(t, {})
      BY <1>2 DEF Parse
    <2>2. answer'.call = "parse" /\ answer'.n = 1
      BY <1>2 DEF Parse, Answer
    <2>3. {} \in SUBSET Types /\ 0 \in Nat
      OBVIOUS
    <2>4. IInv'
      BY <1>1, <2>1, <2>2, <2>3, OwnFacts, OwnStep
    <2> QED
      BY <2>2, <2>4, QuietAnswer DEF IInv
  <1>3. CASE ParseNBestInit(t)
    <2>1. AsksOwn(t, {"nbest"}, 0) /\ lattice' = OwnAnalyzed(t, {"nbest"})
      BY <1>3 DEF ParseNBestInit
    <2>2. answer'.call = "none" /\ answer'.n = 0
      BY <1>3 DEF ParseNBestInit, NoAnswer, Answer
    <2>3. {"nbest"} \in SUBSET Types /\ 0 \in Nat
      BY TypesAssumption
    <2>4. IInv'
      BY <1>1, <2>1, <2>2, <2>3, OwnFacts, OwnStep
    <2> QED
      BY <2>2, <2>4, QuietAnswer DEF IInv
  <1> QED
    BY <1>2, <1>3

LEMMA EnumerateStep ==
  ASSUME IInv, NEW t \in Texts, NEW n \in Nat, ParseNBest(t, n)
  PROVE  IInv' /\ Shown'
  <1> DEFINE x == OwnAnalyzed(t, {"nbest"})
             found == IF Ways[t] > 0 THEN Enumerated(x, n) ELSE [x |-> x, reads |-> <<>>]
  <1>1. /\ LatticeOK(x) /\ x.sentence = t /\ x.request_type = tagger.request_type \cup {"nbest"}
        /\ Ways[t] > 0 => x.live /\ x.agenda = t /\ x.popped = 0
    <2>1. {"nbest"} \in SUBSET Types
      BY TypesAssumption
    <2> QED
      BY <2>1, OwnFacts DEF IInv, TypeOK
  <1>2. ParseNBestOf(t, n, found)
    BY DEF ParseNBest
  <1> HIDE DEF x
  <1>3. CASE Ways[t] > 0
    <2> DEFINE e == Enumerated(x, n)
    <2>1. /\ LatticeOK(e.x) /\ e.x.sentence = t
          /\ e.x.request_type = tagger.request_type \cup {"nbest"}
          /\ e.x.agenda = t /\ e.x.live
          /\ e.x.popped = Len(e.reads) /\ Len(e.reads) \in Nat
          /\ Listable(n) => Len(e.reads) = Least(n, Ways[t])
          /\ \A i \in DOMAIN e.reads : e.reads[i] = Reads(x, i)
      BY <1>1, <1>3, EnumeratedFacts
    <2>2. found = e
      BY <1>3
    <2> HIDE DEF e, found
    <2>3. /\ AsksOwn(t, {"nbest"}, Len(e.reads)) /\ lattice' = e.x
          /\ answer' = IF Listable(n) THEN Answer("enum", n, e.reads) ELSE NoAnswer
      BY <1>2, <1>3, <2>2 DEF ParseNBestOf
    <2>4. /\ answer'.call \in {"none", "enum"} /\ answer'.n \in Nat
          /\ answer'.call = "enum" => Listable(n) /\ answer'.n = n /\ answer'.reads = e.reads
      BY <2>3 DEF Answer, NoAnswer
    <2>5. IInv'
      <3>1. {"nbest"} \in SUBSET Types
        BY TypesAssumption
      <3> QED
        BY <2>1, <2>3, <2>4, <3>1, OwnStep
    <2>6. ListsFirstN'
      <3>1. \A i : Reads(lattice', i) = Reads(x, i)
        BY <1>1, <2>1, <2>3 DEF Reads
      <3> QED
        BY <2>1, <2>3, <2>4, <3>1 DEF ListsFirstN, Result, Reads
    <2>7. ServesSentence' /\ NoResultUnasked'
      BY <2>4, <2>5 DEF ServesSentence, NoResultUnasked, IInv, LatticeOK
    <2> QED
      BY <2>5, <2>6, <2>7 DEF Shown
  <1>4. CASE ~(Ways[t] > 0)
    <2>1. AsksOwn(t, {"nbest"}, 0) /\ lattice' = x /\ answer' = NoAnswer
      BY <1>2, <1>4 DEF ParseNBestOf
    <2>2. answer'.call = "none" /\ answer'.n = 0
      BY <2>1 DEF NoAnswer, Answer
    <2>3. {"nbest"} \in SUBSET Types /\ 0 \in Nat
      BY TypesAssumption
    <2>4. IInv'
      BY <1>1, <1>4, <2>1, <2>2, <2>3, OwnStep
    <2> QED
      BY <2>2, <2>4, QuietAnswer DEF IInv
  <1> QED
    BY <1>3, <1>4

(* The setters of a lattice leave what was asked for, its sentence and its  *)
(* agenda alone.                                                            *)
LEMMA LatticeSetsStep ==
  ASSUME IInv, NEW x, x \in LatticeType, LatticeSets(x),
         x.sentence = lattice.sentence, x.agenda = lattice.agenda, x.popped = lattice.popped,
         x.live = lattice.live, x.stacked = lattice.stacked,
         x.constraints \in {lattice.constraints, lattice.sentence}
  PROVE  IInv' /\ Shown'
  <1>1. /\ api' = "Lattice" /\ tagger' = tagger /\ lattice' = x /\ asked' = asked
        /\ answer'.call = "none" /\ answer'.n = 0
    BY DEF LatticeSets, LatticeBecomes, NoAnswer, Answer
  <1>2. LatticeOK(lattice)' /\ AgendaServes(asked, lattice)' /\ SameTypes'
    BY <1>1 DEF IInv, LatticeOK, AgendaServes, SameTypes
  <1>3. TypeOK'
    BY <1>1, <1>2, TypeFromParts DEF IInv, TypeOK, AskedType
  <1> QED
    BY <1>1, <1>2, <1>3, QuietAnswer DEF IInv

(* clear and set_sentence: nothing has been asked for of the new sentence. *)
LEMMA NewSentenceStep ==
  ASSUME IInv, LatticeOK(lattice'), api' = "Lattice", tagger' = tagger, asked' = NotAsked, answer' = NoAnswer
  PROVE  IInv' /\ Shown'
  <1>1. /\ asked' \in AskedType /\ asked'.ok = FALSE /\ answer'.call = "none" /\ answer'.n = 0
    BY ThetaAssumption DEF NotAsked, AskedType, NoAnswer, Answer
  <1>2. TypeOK'
    BY <1>1, TypeFromParts DEF IInv, TypeOK, LatticeOK
  <1>3. AgendaServes(asked, lattice)' /\ SameTypes'
    BY <1>1 DEF AgendaServes, SameTypes
  <1>4. Shown'
    BY <1>1, QuietAnswer DEF LatticeOK
  <1> QED
    BY <1>2, <1>3, <1>4 DEF IInv, LatticeOK

LEMMA ParseLatticeStep ==
  ASSUME IInv, ParseLattice
  PROVE  IInv' /\ Shown'
  <1>1. LatticeOK(lattice) /\ lattice \in LatticeType
    BY DEF IInv, LatticeOK
  <1>2. /\ api = "Lattice" /\ api' = api /\ tagger' = tagger /\ lattice' = Analyzed(lattice)
        /\ asked' = [request_type |-> lattice.request_type, theta |-> lattice.theta,
                     ok |-> Succeeds(lattice), served |-> 0]
    BY DEF ParseLattice, LatticeBecomes
  <1>3. answer'.call = "parse" /\ answer'.n = 1
    BY DEF ParseLattice, Answer
  <1>4. /\ LatticeOK(lattice') /\ lattice'.sentence = lattice.sentence
        /\ Succeeds(lattice) /\ "nbest" \in lattice.request_type =>
             lattice'.live /\ lattice'.agenda = lattice.sentence /\ lattice'.popped = 0
    BY <1>1, <1>2, AnalysisFacts
  <1>5. /\ asked' \in AskedType /\ asked'.request_type = lattice.request_type
        /\ (asked'.ok <=> Succeeds(lattice)) /\ asked'.served = 0
    BY <1>1, <1>2 DEF AskedType, LatticeType, Succeeds
  <1>6. TypeOK'
    BY <1>2, <1>3, <1>4, <1>5, TypeFromParts DEF IInv, TypeOK, LatticeOK
  <1>7. AgendaServes(asked, lattice)' /\ SameTypes'
    BY <1>2, <1>4, <1>5 DEF AgendaServes, SameTypes
  <1> QED
    BY <1>3, <1>4, <1>6, <1>7, QuietAnswer DEF IInv, LatticeOK

LEMMA LengthOfOne == Len(<<>>) = 0 /\ \A a : Len(<<a>>) = 1
  OBVIOUS

LEMMA NextResultStep ==
  ASSUME IInv, NextResult
  PROVE  IInv' /\ Shown'
  <1>1. PICK r \in NextResults(lattice) :
          /\ lattice' = r.x /\ answer' = Answer("next", 1, r.reads)
          /\ asked' = [asked EXCEPT !.served =
                         IF lattice.live /\ ~lattice.stacked THEN @ + Len(r.reads) ELSE @]
          /\ UNCHANGED <<api, tagger>>
    BY DEF NextResult
  <1> DEFINE x == lattice
  <1>2. /\ LatticeOK(r.x)
        /\ r.x.sentence = x.sentence /\ r.x.request_type = x.request_type
        /\ r.x.agenda = x.agenda /\ r.x.live = x.live /\ r.x.stacked = x.stacked
        /\ r.reads # <<>> => "nbest" \in x.request_type
        /\ x.live /\ ~x.stacked =>
             \/ r.reads = <<>> /\ r.x.popped = x.popped
                /\ ("nbest" \in x.request_type => x.popped = Ways[x.agenda])
             \/ r.reads = <<Reads(x, x.popped + 1)>> /\ r.x.popped = x.popped + 1
    BY NextFacts DEF IInv
  <1>3. answer'.call = "next" /\ answer'.n = 1 /\ answer'.reads = r.reads
    BY <1>1 DEF Answer
  <1>4. asked \in AskedType /\ asked.served \in Nat
    BY DEF IInv, TypeOK, AskedType
  <1>5. x.live /\ ~x.stacked => Len(r.reads) \in {0, 1}
    BY <1>2, LengthOfOne
  <1>6. /\ asked' \in AskedType /\ asked'.ok = asked.ok /\ asked'.request_type = asked.request_type
        /\ x.live /\ ~x.stacked => asked'.served = asked.served + Len(r.reads)
    BY <1>1, <1>4, <1>5 DEF AskedType
  <1>7. TypeOK'
    BY <1>1, <1>2, <1>3, <1>6, TypeFromParts DEF IInv, TypeOK, LatticeOK
  <1>8. ~x.stacked /\ asked.ok /\ "nbest" \in asked.request_type =>
          x.live /\ x.agenda = x.sentence /\ x.popped = asked.served
    BY DEF IInv, AgendaServes
  <1>9. AgendaServes(asked, lattice)'
    <2>1. x.live /\ ~x.stacked => r.x.popped = x.popped + Len(r.reads)
      <3>1. x.popped \in Nat
        BY DEF IInv, LatticeOK, LatticeType
      <3>2. CASE r.reads = <<>> /\ r.x.popped = x.popped
        <4>1. Len(r.reads) = 0
          BY <3>2, LengthOfOne
        <4> QED
          BY <3>1, <3>2, <4>1
      <3>3. CASE r.reads = <<Reads(x, x.popped + 1)>> /\ r.x.popped = x.popped + 1
        <4>1. Len(r.reads) = 1
          BY <3>3, LengthOfOne
        <4> QED
          BY <3>3, <4>1
      <3> QED
        BY <1>2, <3>2, <3>3
    <2> QED
      BY <1>1, <1>2, <1>6, <1>8, <2>1 DEF AgendaServes
  <1>10. SameTypes'
    <2>1. api' = api /\ lattice' = r.x
      BY <1>1
    <2> QED
      BY <1>2, <1>6, <2>1 DEF SameTypes, IInv
  <1>11. ServesSentence'
    <2> SUFFICES ASSUME asked'.ok, "nbest" \in asked'.request_type, ~lattice'.stacked
                 PROVE  IF r.reads = <<>>
                        THEN "nbest" \in lattice'.request_type => asked'.served = Ways[lattice'.sentence]
                        ELSE r.reads = <<Reads(lattice', asked'.served)>>
      BY <1>3 DEF ServesSentence, Enumerating, Result, Reads
    <2>1. /\ x.live /\ ~x.stacked /\ x.agenda = x.sentence /\ x.popped = asked.served
          /\ asked'.served = asked.served + Len(r.reads)
      BY <1>1, <1>2, <1>6, <1>8
    <2>2. CASE r.reads = <<>>
      <3>1. asked'.served = asked.served
        BY <1>4, <2>1, <2>2
      <3>2. "nbest" \in x.request_type => x.popped = Ways[x.agenda]
        BY <1>2, <2>1, <2>2
      <3> QED
        BY <1>1, <1>2, <2>1, <2>2, <3>1, <3>2
    <2>3. CASE r.reads # <<>>
      <3>1. r.reads = <<Reads(x, x.popped + 1)>>
        BY <1>2, <2>1, <2>3
      <3>2. asked'.served = x.popped + 1
        BY <2>1, <3>1
      <3>3. \A k : Reads(lattice', k) = Reads(x, k)
        BY <1>1, <1>2 DEF Reads
      <3> QED
        BY <2>3, <3>1, <3>2, <3>3
    <2> QED
      BY <2>2, <2>3
  <1>12. ListsFirstN'
    BY <1>3 DEF ListsFirstN
  <1>13. NoResultUnasked'
    <2>1. api = "Tagger" => asked.request_type = x.request_type
      BY DEF IInv, SameTypes
    <2> QED
      BY <1>1, <1>2, <1>3, <1>6, <2>1 DEF NoResultUnasked, LatticeOK
  <1> QED
    BY <1>1, <1>2, <1>7, <1>9, <1>10, <1>11, <1>12, <1>13 DEF IInv, Shown, LatticeOK

LEMMA SessionStep == IInv /\ Shown /\ [Next]_vars => IInv' /\ Shown'
  <1> SUFFICES ASSUME IInv, Shown, [Next]_vars PROVE IInv' /\ Shown'
    OBVIOUS
  <1>1. CASE SetRequestType \/ SetPartial \/ SetAllMorphs \/ SetLatticeLevel \/ SetTheta
    BY <1>1, TaggerStep
  <1>2. ASSUME NEW t \in Texts, Parse(t) \/ ParseNBestInit(t) PROVE IInv' /\ Shown'
    BY <1>2, ParseStep
  <1>3. ASSUME NEW t \in Texts, NEW n \in 0 .. NBEST_MAX + 1, ParseNBest(t, n) PROVE IInv' /\ Shown'
    <2>1. n \in Nat
      BY MaxAssumption
    <2> QED
      BY <1>3, <2>1, EnumerateStep
  <1>4. ASSUME NEW t \in Texts, LatticeSetSentence(t) PROVE IInv' /\ Shown'
    <2>1. LatticeOK(SetSentence(lattice, t))
      BY Sentenced DEF IInv
    <2> QED
      BY <1>4, <2>1, NewSentenceStep DEF LatticeSetSentence, LatticeBecomes
  <1>5. CASE LatticeClear
    <2>1. LatticeOK(SetSentence(lattice, NoText))
      BY Sentenced DEF IInv
    <2>2. SetSentence(lattice, NoText) = Clear(lattice)
      BY DEF SetSentence, Clear, IInv, LatticeOK, LatticeType
    <2> QED
      BY <1>5, <2>1, <2>2, NewSentenceStep DEF LatticeClear, LatticeBecomes
  <1>6. CASE LatticeSetConstraint
    <2> DEFINE x == [lattice EXCEPT !.constraints = lattice.sentence]
    <2>1. /\ x \in LatticeType /\ x.sentence = lattice.sentence /\ x.agenda = lattice.agenda
          /\ x.popped = lattice.popped /\ x.live = lattice.live /\ x.stacked = lattice.stacked
          /\ x.constraints = lattice.sentence
      BY DEF IInv, LatticeOK, LatticeType
    <2>2. LatticeSets(x)
      BY <1>6 DEF LatticeSetConstraint
    <2> HIDE DEF x
    <2> QED
      BY <2>1, <2>2, LatticeSetsStep
  <1>7. CASE ParseLattice
    BY <1>7, ParseLatticeStep
  <1>8. ASSUME NEW types \in SUBSET Types, LatticeSetRequestType(types) PROVE IInv' /\ Shown'
    <2> DEFINE x == [lattice EXCEPT !.request_type = types]
    <2>1. /\ x \in LatticeType /\ x.sentence = lattice.sentence /\ x.agenda = lattice.agenda
          /\ x.popped = lattice.popped /\ x.live = lattice.live /\ x.stacked = lattice.stacked
          /\ x.constraints = lattice.constraints
      BY DEF IInv, LatticeOK, LatticeType
    <2>2. LatticeSets(x)
      BY <1>8 DEF LatticeSetRequestType
    <2> HIDE DEF x
    <2> QED
      BY <2>1, <2>2, LatticeSetsStep
  <1>9. ASSUME NEW theta \in Thetas, LatticeSetTheta(theta) PROVE IInv' /\ Shown'
    <2> DEFINE x == [lattice EXCEPT !.theta = theta]
    <2>1. /\ x \in LatticeType /\ x.sentence = lattice.sentence /\ x.agenda = lattice.agenda
          /\ x.popped = lattice.popped /\ x.live = lattice.live /\ x.stacked = lattice.stacked
          /\ x.constraints = lattice.constraints
      BY DEF IInv, LatticeOK, LatticeType
    <2>2. LatticeSets(x)
      BY <1>9 DEF LatticeSetTheta
    <2> HIDE DEF x
    <2> QED
      BY <2>1, <2>2, LatticeSetsStep
  <1>10. CASE NextResult
    BY <1>10, NextResultStep
  <1>11. CASE UNCHANGED vars
    <2>1. api' = api /\ tagger' = tagger /\ lattice' = lattice /\ asked' = asked /\ answer' = answer
      BY <1>11 DEF vars
    <2>2. IInv'
      BY <2>1 DEF IInv, TypeOK, AgendaServes, SameTypes, LatticeOK
    <2>3. Shown'
      BY <2>1 DEF Shown, ServesSentence, ListsFirstN, NoResultUnasked, Enumerating, Result, Reads
    <2> QED
      BY <2>2, <2>3
  <1> QED
    BY <1>1, <1>2, <1>3, <1>4, <1>5, <1>6, <1>7, <1>8, <1>9, <1>10, <1>11 DEF Next

LEMMA SessionInvariant == Spec => [](IInv /\ Shown)
  BY InitHolds, SessionStep, PTL DEF Spec

(* Whatever is called in whatever order, an agenda never gives more        *)
(* results than there are ways through its text (NBestGenerator::next).    *)
THEOREM TypeCorrect == Spec => []TypeOK
  <1>1. IInv => TypeOK
    BY DEF IInv
  <1> QED
    BY <1>1, SessionInvariant, PTL

(* For texts with any number of ways through them: next() gives the N-best *)
(* results of the sentence in order and without a gap, and ends when all   *)
(* have come, whatever the lattice was used for before (tagger.cpp).       *)
THEOREM ServesInOrder == Spec => []ServesSentence
  <1>1. Shown => ServesSentence
    BY DEF Shown
  <1> QED
    BY <1>1, SessionInvariant, PTL

(* parseNBest(N, str) lists the first N results of str in order, or all of *)
(* them if there are fewer, after any other calls.                         *)
THEOREM ListsCorrect == Spec => []ListsFirstN
  <1>1. Shown => ListsFirstN
    BY DEF Shown
  <1> QED
    BY <1>1, SessionInvariant, PTL

(* next() of a tagger gives nothing after a call that did not ask for      *)
(* N-best results, and constraints never outlive their sentence.           *)
THEOREM UnaskedNotServed == Spec => []NoResultUnasked
  <1>1. Shown => NoResultUnasked
    BY DEF Shown
  <1> QED
    BY <1>1, SessionInvariant, PTL
=============================================================================

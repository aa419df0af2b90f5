---------------------------- MODULE ViterbiProofs ----------------------------
(***************************************************************************)
(* Theorems about ViterbiLattice for every dictionary, matrix and text:    *)
(* the lattice the scan builds is complete and exact, so the best path is  *)
(* a cheapest segmentation, the N-best search is handed a lattice in its   *)
(* sense, no text without constraints is given up, and "too long           *)
(* sentence." is said only when it is true.                                *)
(*                                                                         *)
(* The inductive invariant is IInv.  The lemmas before it say what the     *)
(* lookup offers at a position (Offers) and what connect leaves on a node  *)
(* (ConnectedFacts); those after it give one lemma per action.             *)
(*                                                                         *)
(* The last part is about texts with constraints.  The lattice of a call   *)
(* is Bounded, and Fragmented for partial parsing; what lookup offers      *)
(* there (Suits) keeps the constraints, so the tokens of the best path do. *)
(* Last, no node begins or ends outside the entries of the node lists.     *)
(*                                                                         *)
(* Every theorem has two hypotheses that the code does not check.          *)
(* ShortTexts: no length of a node and no window of a lookup is cut to 16  *)
(* bits, so a text has at most LengthMax - 3 bytes, 65532 in the code.     *)
(* NulIsNoSpace: a walk over spaces stops behind the text.                 *)
(***************************************************************************)
EXTENDS ViterbiLattice, FiniteSetTheorems, NaturalsInduction, WellFoundedInduction, TLAPS

LEMMA Smallest ==
  ASSUME NEW S, S \subseteq Nat, S # {}
  PROVE  \E j \in S : \A k \in S : j <= k
  <1> DEFINE Less == {x \in Nat \X Nat : x[1] < x[2]}
  <1>1. IsWellFoundedOn(Less, Nat)
    BY NatLessThanWellFounded DEF OpToRel
  <1>2. PICK j \in S : \A k \in S : <<k, j>> \notin Less
    BY <1>1, WFMin
  <1>3. \A k \in S : ~(k < j)
    BY <1>2
  <1> QED
    BY <1>3

(* Induction: a set that holds 0 and, with each number below n, the next.  *)
LEMMA UpTo ==
  ASSUME NEW n \in Nat, NEW P, 0 \in P, \A k \in 1 .. n : k - 1 \in P => k \in P
  PROVE  0 .. n \subseteq P
  <1> DEFINE T == (0 .. n) \ P
  <1> SUFFICES ASSUME T # {} PROVE FALSE
    OBVIOUS
  <1>0. T \subseteq Nat
    OBVIOUS
  <1> HIDE DEF T
  <1>1. PICK k \in T : \A m \in T : k <= m
    BY <1>0, Smallest
  <1>2. k \in 0 .. n /\ k \notin P
    BY <1>1 DEF T
  <1>3. k # 0
    BY <1>2
  <1>4. k \in 1 .. n /\ k - 1 \in 0 .. n /\ k - 1 \notin T
    BY <1>1, <1>2, <1>3 
  <1>5. k - 1 \in P
    BY <1>4 DEF T
  <1> QED
    BY <1>2, <1>4, <1>5

(* Iteration: from a first value on, n steps give a sequence of values.    *)
AreSteps(step, n, S) == \A k \in 1 .. n : \A x \in S : step[k][x] \in S

IsIteration(g, step, n, S, first) ==
  g \in [0 .. n -> S] /\ g[0] = first /\ \A k \in 1 .. n : g[k] = step[k][g[k - 1]]

LEMMA Iteration ==
  ASSUME NEW n \in Nat, NEW S, NEW first \in S, NEW step, AreSteps(step, n, S)
  PROVE  \E g : IsIteration(g, step, n, S, first)
  <1> DEFINE P == {m \in 0 .. n : \E g : IsIteration(g, step, m, S, first)}
  <1>1. \E g : IsIteration(g, step, 0, S, first)
    <2>1. IsIteration([k \in 0 .. 0 |-> first], step, 0, S, first)
      BY DEF IsIteration
    <2> QED
      BY <2>1
  <1>2. ASSUME NEW m \in 1 .. n, \E g : IsIteration(g, step, m - 1, S, first)
        PROVE  \E g : IsIteration(g, step, m, S, first)
    <2>1. PICK g : IsIteration(g, step, m - 1, S, first)
      BY <1>2
    <2> DEFINE h == [k \in 0 .. m |-> IF k = m THEN step[m][g[m - 1]] ELSE g[k]]
    <2>2. g[m - 1] \in S
      BY <2>1 DEF IsIteration
    <2>3. h \in [0 .. m -> S]
      BY <2>1, <2>2 DEF IsIteration, AreSteps
    <2>4. h[0] = first
      BY <2>1 DEF IsIteration
    <2>5. ASSUME NEW k \in 1 .. m PROVE h[k] = step[k][h[k - 1]]
      BY <2>1 DEF IsIteration
    <2> HIDE DEF h
    <2>6. IsIteration(h, step, m, S, first)
      BY <2>3, <2>4, <2>5 DEF IsIteration
    <2> QED
      BY <2>6
  <1>3. 0 \in P
    BY <1>1
  <1>4. \A m \in 1 .. n : m - 1 \in P => m \in P
    BY <1>2
  <1> HIDE DEF P
  <1>5. 0 .. n \subseteq P
    BY <1>3, <1>4, UpTo
  <1>6. n \in P
    BY <1>5
  <1> QED
    BY <1>6 DEF P

(* What a recursive function gives stays in a set its steps stay in.       *)
LEMMA StaysIn ==
  ASSUME NEW n \in Nat, NEW S, NEW f, f[0] \in S, \A k \in 1 .. n : f[k - 1] \in S => f[k] \in S
  PROVE  \A k \in 0 .. n : f[k] \in S
  <1> DEFINE P == {k \in 0 .. n : f[k] \in S}
  <1>1. 0 \in P
    OBVIOUS
  <1>2. \A k \in 1 .. n : k - 1 \in P => k \in P
    OBVIOUS
  <1>3. 0 .. n \subseteq P
    <2> HIDE DEF P
    <2> QED
      BY <1>1, <1>2, UpTo
  <1> QED
    BY <1>3

LEMMA ConcatSet ==
  ASSUME NEW X, NEW s, s \in Seq(X), NEW t, t \in Seq(X)
  PROVE  s \o t \in Seq(X) /\ ToSet(s \o t) = ToSet(s) \cup ToSet(t)
  <1>1. /\ s \o t \in Seq(X) /\ Len(s) \in Nat /\ Len(t) \in Nat
        /\ Len(s \o t) = Len(s) + Len(t)
        /\ DOMAIN (s \o t) = 1 .. Len(s) + Len(t)
        /\ DOMAIN s = 1 .. Len(s) /\ DOMAIN t = 1 .. Len(t)
        /\ \A i \in 1 .. Len(s) : (s \o t)[i] = s[i]
        /\ \A i \in 1 .. Len(t) : (s \o t)[Len(s) + i] = t[i]
    OBVIOUS
  <1>2. \A i \in 1 .. Len(s) + Len(t) : i \in 1 .. Len(s) \/ i - Len(s) \in 1 .. Len(t)
    BY <1>1
  <1>3. ASSUME NEW x \in ToSet(s \o t) PROVE x \in ToSet(s) \cup ToSet(t)
    <2>1. PICK i \in 1 .. Len(s) + Len(t) : x = (s \o t)[i]
      BY <1>1 DEF ToSet
    <2>2. CASE i \in 1 .. Len(s)
      BY <1>1, <2>1, <2>2 DEF ToSet
    <2>3. CASE i - Len(s) \in 1 .. Len(t)
      <3>1. x = t[i - Len(s)]
        BY <1>1, <2>1, <2>3
      <3> QED
        BY <1>1, <2>3, <3>1 DEF ToSet
    <2> QED
      BY <1>2, <2>2, <2>3
  <1>4. ASSUME NEW i \in 1 .. Len(s) PROVE s[i] \in ToSet(s \o t)
    BY <1>1 DEF ToSet
  <1>5. ASSUME NEW i \in 1 .. Len(t) PROVE t[i] \in ToSet(s \o t)
    <2>1. Len(s) + i \in 1 .. Len(s) + Len(t)
      BY <1>1
    <2> QED
      BY <1>1, <2>1 DEF ToSet
  <1>6. \A x \in ToSet(s) : x \in ToSet(s \o t)
    BY <1>1, <1>4 DEF ToSet
  <1>7. \A x \in ToSet(t) : x \in ToSet(s \o t)
    BY <1>1, <1>5 DEF ToSet
  <1> QED
    BY <1>1, <1>3, <1>6, <1>7

(* Putting sequences together, one after the other.                        *)
AreHeads(ss, f) ==
  /\ FlattenSeq(ss) = f[Len(ss)] /\ f[1] = ss[1]
  /\ \A k \in 1 .. Len(ss) - 1 : f[k + 1] = f[k] \o ss[k + 1]

LEMMA FlattenedHeads ==
  ASSUME NEW X, NEW ss, ss \in Seq(Seq(X)), Len(ss) # 0
  PROVE  \E f : AreHeads(ss, f)
  <1> DEFINE n == Len(ss) - 1
             Body(t) == [i \in 1 .. Len(ss) |-> IF i = 1 THEN ss[i] ELSE t[i - 1] \o ss[i]]
             f == CHOOSE t : t = Body(t)
             step == [k \in 1 .. n |-> [x \in Seq(X) |-> x \o ss[k + 1]]]
  <1>1. n \in Nat /\ Len(ss) = n + 1 /\ \A i \in 1 .. n + 1 : ss[i] \in Seq(X)
    OBVIOUS
  <1> HIDE DEF n
  <1>2. AreSteps(step, n, Seq(X))
    BY <1>1 DEF AreSteps
  <1>3. PICK g : IsIteration(g, step, n, Seq(X), ss[1])
    <2>1. ss[1] \in Seq(X)
      BY <1>1
    <2> HIDE DEF step
    <2> QED
      BY <1>1, <1>2, <2>1, Iteration
  <1> DEFINE h == [i \in 1 .. Len(ss) |-> g[i - 1]]
  <1>4. h = Body(h)
    <2>1. ASSUME NEW k \in 1 .. n PROVE g[k] = g[k - 1] \o ss[k + 1]
      <3>1. g[k] = step[k][g[k - 1]] /\ g[k - 1] \in Seq(X)
        <4> HIDE DEF step, h, f
        <4> QED
          BY <1>3, <1>1 DEF IsIteration
      <3> QED
        BY <3>1
    <2>2. g[0] = ss[1]
      <3> HIDE DEF step
      <3> QED
        BY <1>3 DEF IsIteration
    <2>3. ASSUME NEW i \in 1 .. Len(ss), i # 1 PROVE h[i] = h[i - 1] \o ss[i]
      <3>1. i - 1 \in 1 .. n /\ i - 1 \in 1 .. Len(ss) /\ (i - 1) + 1 = i
        BY <1>1, <2>3
      <3>2. g[i - 1] = g[(i - 1) - 1] \o ss[i]
        BY <2>1, <3>1
      <3> QED
        BY <3>1, <3>2
    <2>4. h[1] = ss[1] /\ 1 \in 1 .. Len(ss)
      BY <1>1, <2>2
    <2>5. \A i \in 1 .. Len(ss) : h[i] = IF i = 1 THEN ss[i] ELSE h[i - 1] \o ss[i]
      BY <2>3, <2>4
    <2>6. h = [i \in 1 .. Len(ss) |-> h[i]]
      OBVIOUS
    <2> HIDE DEF h
    <2> QED
      BY <2>5, <2>6
  <1>5. f = Body(f)
    <2>1. \E t : t = Body(t)
      BY <1>4
    <2> HIDE DEF Body
    <2> QED
      BY <2>1, Zenon
  <1>6. FlattenSeq(ss) = f[Len(ss)]
    BY DEF FlattenSeq
  <1> HIDE DEF f
  <1>7. f[1] = ss[1]
    <2>1. \A i \in 1 .. Len(ss) : f[i] = Body(f)[i]
      BY <1>5, Zenon
    <2> QED
      BY <1>1, <2>1
  <1>8. \A k \in 1 .. n : f[k + 1] = f[k] \o ss[k + 1]
    <2> SUFFICES ASSUME NEW k \in 1 .. n PROVE f[k + 1] = f[k] \o ss[k + 1]
      OBVIOUS
    <2>1. k + 1 \in 1 .. Len(ss) /\ k + 1 # 1 /\ (k + 1) - 1 = k
      BY <1>1
    <2>2. f[k + 1] = Body(f)[k + 1]
      BY <1>5, Zenon
    <2> QED
      BY <2>1, <2>2
  <1> QED
    BY <1>1, <1>6, <1>7, <1>8 DEF AreHeads, n

(* Sequences put together hold what the parts hold.                        *)
LEMMA Flattened ==
  ASSUME NEW X, NEW ss, ss \in Seq(Seq(X))
  PROVE  /\ FlattenSeq(ss) \in Seq(X)
         /\ ToSet(FlattenSeq(ss)) = UNION {ToSet(ss[i]) : i \in DOMAIN ss}
  <1>1. CASE Len(ss) = 0
    <2>1. ss = <<>>
      BY <1>1
    <2>2. FlattenSeq(ss) = <<>>
      BY <1>1, <2>1 DEF FlattenSeq
    <2>3. DOMAIN ss = {} /\ ToSet(ss) = {} /\ ss \in Seq(X)
      BY <2>1 DEF ToSet
    <2> QED
      BY <2>2, <2>3, <2>1
  <1>2. CASE Len(ss) # 0
    <2> DEFINE n == Len(ss) - 1
    <2>1. n \in Nat /\ Len(ss) = n + 1 /\ \A i \in 1 .. n + 1 : ss[i] \in Seq(X)
      BY <1>2
    <2>2. PICK f : AreHeads(ss, f)
      BY <1>2, FlattenedHeads
    <2>6. FlattenSeq(ss) = f[Len(ss)] /\ f[1] = ss[1]
      BY <2>2 DEF AreHeads
    <2>8. \A k \in 1 .. n : f[k + 1] = f[k] \o ss[k + 1]
      BY <2>2 DEF AreHeads
    <2> HIDE DEF n
    <2> DEFINE Holds(k) == /\ f[k + 1] \in Seq(X)
                           /\ ToSet(f[k + 1]) = UNION {ToSet(ss[i]) : i \in 1 .. k + 1}
               P == {k \in 0 .. n : Holds(k)}
    <2>9. Holds(0)
      BY <2>1, <2>6
    <2>10. ASSUME NEW k \in 1 .. n, Holds(k - 1) PROVE Holds(k)
      <3>1. /\ (k - 1) + 1 = k /\ k + 1 \in 1 .. n + 1 /\ k \in Nat
            /\ 1 .. k + 1 = (1 .. k) \cup {k + 1}
        BY <2>1
      <3>2. f[k] \in Seq(X) /\ ToSet(f[k]) = UNION {ToSet(ss[i]) : i \in 1 .. k}
        BY <2>10, <3>1
      <3>3. f[k + 1] = f[k] \o ss[k + 1] /\ ss[k + 1] \in Seq(X)
        BY <2>1, <2>8, <3>1
      <3>4. f[k + 1] \in Seq(X) /\ ToSet(f[k + 1]) = ToSet(f[k]) \cup ToSet(ss[k + 1])
        BY <3>2, <3>3, ConcatSet
      <3> QED
        BY <3>1, <3>2, <3>4
    <2> HIDE DEF Holds
    <2>11. 0 \in P
      BY <2>1, <2>9
    <2>12. \A k \in 1 .. n : k - 1 \in P => k \in P
      BY <2>10
    <2>13. 0 .. n \subseteq P
      <3> HIDE DEF P
      <3> QED
        BY <2>1, <2>11, <2>12, UpTo
    <2>14. Holds(n)
      BY <2>1, <2>13
    <2>15. DOMAIN ss = 1 .. n + 1
      BY <2>1
    <2> QED
      BY <2>1, <2>6, <2>14, <2>15 DEF Holds
  <1> QED
    BY <1>1, <1>2

(* The class infos of char.bin.                                            *)
Classes == {CharMap[b] : b \in DOMAIN CharMap}

LEMMA ClassFacts ==
  ASSUME NEW c \in Classes
  PROVE  /\ c.default \in DOMAIN UnkTokens /\ c.default \in c.type /\ c.length \in Nat
         /\ c.default \in {d.default : d \in Classes}
  BY TablesAssumption DEF Classes

(* A character has a class of the table and at least one byte.             *)
LEMMA CharFacts ==
  ASSUME NEW s \in Seq(Bytes), NEW p \in Nat, NEW end \in Nat
  PROVE  CharAt(s, p, end).info \in Classes /\ CharAt(s, p, end).mblen \in Nat \ {0}
  <1> DEFINE b == ByteAt(s, p)
  <1>1. b \in Bytes
    BY TablesAssumption DEF ByteAt
  <1>2. Width[b] \in Nat /\ (Width[b] > 0 => b \in DOMAIN CharMap)
    BY <1>1, TablesAssumption
  <1>3. Nul \in DOMAIN CharMap
    BY TablesAssumption
  <1>4. CASE Width[b] = 1 \/ (Width[b] > 1 /\ (p > end \/ end - p >= Width[b]))
    <2>1. CharAt(s, p, end) = [info |-> CharMap[b], mblen |-> Width[b]]
      BY <1>4 DEF CharAt
    <2> QED
      BY <1>2, <1>4, <2>1 DEF Classes
  <1>5. CASE ~(Width[b] = 1 \/ (Width[b] > 1 /\ (p > end \/ end - p >= Width[b])))
    <2>1. CharAt(s, p, end) = [info |-> CharMap[Nul], mblen |-> 1]
      BY <1>5 DEF CharAt
    <2> QED
      BY <1>3, <2>1 DEF Classes
  <1> QED
    BY <1>4, <1>5

(* seekToOtherType never goes back, and unless it starts at the end it     *)
(* leaves the length of a character it has seen.                           *)
Seekers(begin, end) ==
  [p : {q \in Nat : q >= begin}, c : Classes, mblen : Nat, clen : Nat, more : BOOLEAN]

LEMMA SeekStepStays ==
  ASSUME NEW s \in Seq(Bytes), NEW begin \in Nat, NEW end \in Nat, 
         NEW w \in Seekers(begin, end)
  PROVE  /\ SeekStep(w, CharAt(s, w.p, end), end) \in Seekers(begin, end)
         /\ w.mblen > 0 \/ (w.more /\ w.p # end) => SeekStep(w, CharAt(s, w.p, end), end).mblen > 0
  <1> DEFINE x == CharAt(s, w.p, end)
  <1>1. x.info \in Classes /\ x.mblen \in Nat \ {0}
    BY CharFacts DEF Seekers
  <1> HIDE DEF x
  <1>2. /\ w.p \in Nat /\ w.p >= begin /\ w.c \in Classes /\ w.mblen \in Nat /\ w.clen \in Nat
        /\ w.more \in BOOLEAN
        /\ w = [p |-> w.p, c |-> w.c, mblen |-> w.mblen, clen |-> w.clen, more |-> w.more]
    BY DEF Seekers
  <1>3. CASE ~w.more \/ w.p = end
    <2>1. SeekStep(w, x, end) = [p |-> w.p, c |-> w.c, mblen |-> w.mblen, clen |-> w.clen, more |-> FALSE]
      BY <1>2, <1>3 DEF SeekStep
    <2> QED
      BY <1>2, <1>3, <2>1 DEF Seekers, x
  <1>4. CASE ~(~w.more \/ w.p = end) /\ ~IsKindOf(w.c, x.info)
    <2>1. SeekStep(w, x, end) = [p |-> w.p, c |-> x.info, mblen |-> x.mblen, clen |-> w.clen, more |-> FALSE]
      BY <1>2, <1>4 DEF SeekStep
    <2> QED
      BY <1>1, <1>2, <1>4, <2>1 DEF Seekers, x
  <1>5. CASE ~(~w.more \/ w.p = end) /\ IsKindOf(w.c, x.info)
    <2>1. SeekStep(w, x, end) =
            [p |-> w.p + x.mblen, c |-> x.info, mblen |-> x.mblen, clen |-> w.clen + 1, more |-> TRUE]
      BY <1>2, <1>5 DEF SeekStep
    <2> QED
      BY <1>1, <1>2, <1>5, <2>1 DEF Seekers, x
  <1> QED
    BY <1>3, <1>4, <1>5

IsSeek(f, s, begin, end, c) ==
  /\ f[0] = [p |-> begin, c |-> c, mblen |-> 0, clen |-> 0, more |-> TRUE]
  /\ \A k \in 1 .. Len(s) + 1 : f[k] = SeekStep(f[k - 1], CharAt(s, f[k - 1].p, end), end)
  /\ \A k \in 0 .. Len(s) + 1 : f[k] \in Seekers(begin, end)
  /\ SeekToOtherType(s, begin, end, c) = f[Len(s) + 1]

LEMMA SeekWalk ==
  ASSUME NEW s \in Seq(Bytes), NEW begin \in Nat, NEW end \in Nat, NEW c \in Classes
  PROVE  \E f : IsSeek(f, s, begin, end, c)
  <1> DEFINE first == [p |-> begin, c |-> c, mblen |-> 0, clen |-> 0, more |-> TRUE]
             n == Len(s) + 1
             S == Seekers(begin, end)
             Body(t) == [k \in 0 .. n |-> IF k = 0 THEN first
                                          ELSE SeekStep(t[k - 1], CharAt(s, t[k - 1].p, end), end)]
             f == CHOOSE t : t = Body(t)
             step == [k \in 1 .. n |-> [x \in S |-> SeekStep(x, CharAt(s, x.p, end), end)]]
  <1>0. SeekToOtherType(s, begin, end, c) = f[n]
    BY DEF SeekToOtherType
  <1>1. n \in Nat /\ n >= 1
    OBVIOUS
  <1>2. first \in S
    BY DEF Seekers
  <1>3. AreSteps(step, n, S)
    BY SeekStepStays DEF AreSteps
  <1>4. PICK g : IsIteration(g, step, n, S, first)
    <2> HIDE DEF step, n, S, first
    <2> QED
      BY <1>1, <1>2, <1>3, Iteration
  <1>5. \A k \in 1 .. n : \A x \in S : step[k][x] = SeekStep(x, CharAt(s, x.p, end), end)
    OBVIOUS
  <1> HIDE DEF n, S, first, step, f
  <1>6. g = Body(g)
    <2>1. g \in [0 .. n -> S] /\ g[0] = first /\ \A k \in 1 .. n : g[k] = step[k][g[k - 1]]
      BY <1>4 DEF IsIteration
    <2>2. ASSUME NEW k \in 1 .. n PROVE g[k] = SeekStep(g[k - 1], CharAt(s, g[k - 1].p, end), end)
      <3>1. PICK x : x = g[k - 1]
        OBVIOUS
      <3>2. x \in S /\ g[k] = step[k][x]
        BY <1>1, <2>1, <3>1
      <3>3. g[k] = SeekStep(x, CharAt(s, x.p, end), end)
        BY <1>5, <3>2
      <3> QED
        BY <3>1, <3>3
    <2>3. \A k \in 0 .. n : g[k] = IF k = 0 THEN first ELSE SeekStep(g[k - 1], CharAt(s, g[k - 1].p, end), end)
      BY <1>1, <2>1, <2>2
    <2>4. g = [k \in 0 .. n |-> g[k]]
      BY <2>1
    <2> QED
      BY <2>3, <2>4
  <1>7. f = Body(f)
    <2>1. \E t : t = Body(t)
      BY <1>6
    <2> HIDE DEF Body
    <2> QED
      BY <2>1, Zenon DEF f
  <1>8. \A k \in 0 .. n : f[k] = Body(f)[k]
    BY <1>7, Zenon
  <1>9. f[0] = first
    BY <1>1, <1>8
  <1>10. ASSUME NEW k \in 1 .. n PROVE f[k] = SeekStep(f[k - 1], CharAt(s, f[k - 1].p, end), end)
    <2>1. k \in 0 .. n /\ k # 0
      BY <1>1
    <2> QED
      BY <1>8, <2>1
  <1>11. \A k \in 1 .. n : f[k - 1] \in S => f[k] \in S
    BY <1>10, SeekStepStays DEF S
  <1>12. \A k \in 0 .. n : f[k] \in S
    <2> HIDE DEF Body
    <2> QED
      BY <1>1, <1>2, <1>9, <1>11, StaysIn
  <1>13. IsSeek(f, s, begin, end, c)
    <2> HIDE DEF Body
    <2> QED
      BY <1>0, <1>9, <1>10, <1>12 DEF IsSeek, first, n, S
  <1> QED
    BY <1>13

LEMMA SeekFacts ==
  ASSUME NEW s \in Seq(Bytes), NEW begin \in Nat, NEW end \in Nat, NEW c \in Classes
  PROVE  /\ SeekToOtherType(s, begin, end, c) \in Seekers(begin, end)
         /\ begin # end => SeekToOtherType(s, begin, end, c).mblen > 0
  <1> DEFINE n == Len(s) + 1
             S == Seekers(begin, end)
  <1>0. PICK f : IsSeek(f, s, begin, end, c)
    BY SeekWalk
  <1>1. n \in Nat /\ n >= 1
    OBVIOUS
  <1>9. f[0] = [p |-> begin, c |-> c, mblen |-> 0, clen |-> 0, more |-> TRUE]
    BY <1>0 DEF IsSeek
  <1>10. \A k \in 1 .. n : f[k] = SeekStep(f[k - 1], CharAt(s, f[k - 1].p, end), end)
    BY <1>0 DEF IsSeek
  <1>12. (\A k \in 0 .. n : f[k] \in S) /\ SeekToOtherType(s, begin, end, c) = f[n]
    BY <1>0 DEF IsSeek
  <1> HIDE DEF n, S
  <1>13. ASSUME begin # end PROVE f[n].mblen > 0
    <2> DEFINE T == {w \in S : w.mblen > 0}
               e == [k \in 0 .. n - 1 |-> f[k + 1]]
               m == n - 1
    <2>1. m \in Nat
      BY <1>1
    <2>2. f[1] \in T
      <3>1. f[1] = SeekStep(f[0], CharAt(s, f[0].p, end), end) /\ f[0] \in S /\ f[0].p # end /\ f[0].more
        BY <1>1, <1>9, <1>10, <1>12, <1>13
      <3> QED
        BY <3>1, SeekStepStays DEF S
    <2>3. e[0] \in T
      BY <1>1, <2>2
    <2>4. ASSUME NEW k \in 1 .. m, e[k - 1] \in T PROVE e[k] \in T
      <3>1. k + 1 \in 1 .. n /\ k \in 0 .. n /\ e[k] = f[k + 1] /\ e[k - 1] = f[k] /\ (k + 1) - 1 = k
        BY <1>1
      <3>2. f[k + 1] = SeekStep(f[k], CharAt(s, f[k].p, end), end)
        BY <1>10, <3>1
      <3>3. f[k] \in S /\ f[k].mblen > 0
        BY <1>12, <2>4, <3>1
      <3> QED
        BY <3>1, <3>2, <3>3, SeekStepStays DEF S
    <2>5. \A k \in 0 .. m : e[k] \in T
      <3> HIDE DEF T, e, m
      <3> QED
        BY <2>1, <2>3, <2>4, StaysIn
    <2>6. m \in 0 .. m /\ e[m] = f[n]
      BY <1>1
    <2> QED
      BY <2>5, <2>6
  <1> QED
    BY <1>1, <1>12, <1>13 DEF S

(* A character begun before the end of the text ends by it.                *)
LEMMA CharWithin ==
  ASSUME NEW s \in Seq(Bytes), NEW p \in Nat, NEW end \in Nat, p <= end
  PROVE  /\ p < end => p + CharAt(s, p, end).mblen <= end
         /\ p = end => CharAt(s, p, end).mblen = 1
  <1> DEFINE b == ByteAt(s, p)
  <1>1. b \in Bytes
    BY TablesAssumption DEF ByteAt
  <1>2. Width[b] \in Nat
    BY <1>1, TablesAssumption
  <1>3. CASE Width[b] = 1 \/ (Width[b] > 1 /\ (p > end \/ end - p >= Width[b]))
    <2>1. CharAt(s, p, end) = [info |-> CharMap[b], mblen |-> Width[b]]
      BY <1>3 DEF CharAt
    <2> HIDE DEF b
    <2> QED
      BY <1>2, <1>3, <2>1
  <1>4. CASE ~(Width[b] = 1 \/ (Width[b] > 1 /\ (p > end \/ end - p >= Width[b])))
    <2>1. CharAt(s, p, end) = [info |-> CharMap[Nul], mblen |-> 1]
      BY <1>4 DEF CharAt
    <2> QED
      BY <2>1
  <1> QED
    BY <1>3, <1>4

(* What seekToOtherType knows after k steps, as long as it began by end.   *)
SeekBound(w, k, end) ==
  /\ w.p <= end
  /\ w.more => w.p >= k
  /\ ~w.more => w.p = end \/ (w.mblen > 0 /\ w.p + w.mblen <= end)

LEMMA SeekStepBound ==
  ASSUME NEW s \in Seq(Bytes), NEW begin \in Nat, NEW end \in Nat, NEW k \in Nat \ {0},
         NEW w \in Seekers(begin, end), SeekBound(w, k - 1, end)
  PROVE  SeekBound(SeekStep(w, CharAt(s, w.p, end), end), k, end)
  <1> DEFINE x == CharAt(s, w.p, end)
  <1>1. /\ w.p \in Nat /\ w.mblen \in Nat /\ w.more \in BOOLEAN /\ w.p <= end
        /\ w = [p |-> w.p, c |-> w.c, mblen |-> w.mblen, clen |-> w.clen, more |-> w.more]
    BY DEF Seekers, SeekBound
  <1>2. x.mblen \in Nat \ {0} /\ (w.p < end => w.p + x.mblen <= end)
    BY <1>1, CharFacts, CharWithin
  <1> HIDE DEF x
  <1>3. CASE ~w.more \/ w.p = end
    <2>1. SeekStep(w, x, end) = [p |-> w.p, c |-> w.c, mblen |-> w.mblen, clen |-> w.clen, more |-> FALSE]
      BY <1>1, <1>3 DEF SeekStep
    <2> QED
      BY <1>1, <1>3, <2>1 DEF SeekBound, x
  <1>4. CASE ~(~w.more \/ w.p = end) /\ ~IsKindOf(w.c, x.info)
    <2>1. SeekStep(w, x, end) = [p |-> w.p, c |-> x.info, mblen |-> x.mblen, clen |-> w.clen, more |-> FALSE]
      BY <1>1, <1>4 DEF SeekStep
    <2> QED
      BY <1>1, <1>2, <1>4, <2>1 DEF SeekBound, x
  <1>5. CASE ~(~w.more \/ w.p = end) /\ IsKindOf(w.c, x.info)
    <2>1. SeekStep(w, x, end) =
            [p |-> w.p + x.mblen, c |-> x.info, mblen |-> x.mblen, clen |-> w.clen + 1, more |-> TRUE]
      BY <1>1, <1>5 DEF SeekStep
    <2> QED
      BY <1>1, <1>2, <1>5, <2>1 DEF SeekBound, x
  <1> QED
    BY <1>3, <1>4, <1>5

(* Begun by the end, the walk over one class stops there at the latest;    *)
(* stopped before, it leaves a character that ends by it.                  *)
LEMMA SeekWithin ==
  ASSUME NEW s \in Seq(Bytes), NEW begin \in Nat, NEW end \in Nat, NEW c \in Classes,
         begin <= end, end <= Len(s)
  PROVE  LET r == SeekToOtherType(s, begin, end, c)
         IN  r.p <= end /\ (r.p < end => r.mblen > 0 /\ r.p + r.mblen <= end)
  <1> DEFINE n == Len(s) + 1
             P(f) == {k \in 0 .. n : SeekBound(f[k], k, end)}
  <1>0. PICK f : IsSeek(f, s, begin, end, c)
    BY SeekWalk
  <1>1. n \in Nat /\ end < n /\ n \in 0 .. n /\ 0 \in 0 .. n
    OBVIOUS
  <1>2. /\ f[0] = [p |-> begin, c |-> c, mblen |-> 0, clen |-> 0, more |-> TRUE]
        /\ \A k \in 1 .. n : f[k] = SeekStep(f[k - 1], CharAt(s, f[k - 1].p, end), end)
        /\ \A k \in 0 .. n : f[k] \in Seekers(begin, end)
        /\ SeekToOtherType(s, begin, end, c) = f[n]
    BY <1>0 DEF IsSeek
  <1>3. 0 \in P(f)
    <2>1. SeekBound(f[0], 0, end)
      BY <1>2 DEF SeekBound
    <2> QED
      BY <1>1, <2>1
  <1>4. ASSUME NEW k \in 1 .. n, k - 1 \in P(f) PROVE k \in P(f)
    <2>1. k - 1 \in 0 .. n /\ k \in 0 .. n /\ k \in Nat \ {0}
      BY <1>1
    <2>2. SeekBound(f[k - 1], k - 1, end)
      BY <1>4
    <2>3. f[k - 1] \in Seekers(begin, end) /\ f[k] = SeekStep(f[k - 1], CharAt(s, f[k - 1].p, end), end)
      BY <1>2, <2>1
    <2>4. SeekBound(f[k], k, end)
      BY <2>1, <2>2, <2>3, SeekStepBound
    <2> QED
      BY <2>1, <2>4
  <1>5. 0 .. n \subseteq P(f)
    <2> HIDE DEF P, n
    <2> QED
      BY <1>1, <1>3, <1>4, UpTo
  <1>6. SeekBound(f[n], n, end) /\ f[n] \in Seekers(begin, end)
    <2>1. n \in P(f)
      BY <1>1, <1>5
    <2> QED
      BY <1>1, <1>2, <2>1
  <1> HIDE DEF n
  <1>7. f[n].more \in BOOLEAN /\ f[n].p \in Nat /\ f[n].mblen \in Nat
    BY <1>6 DEF Seekers
  <1>8. f[n].p <= end /\ (f[n].p < end => f[n].mblen > 0 /\ f[n].p + f[n].mblen <= end)
    BY <1>1, <1>6, <1>7 DEF SeekBound
  <1> QED
    BY <1>2, <1>8

(* Spaces are characters of at most three bytes, and the text ends them.   *)
AreSpaces(K) ==
  /\ K \subseteq Classes /\ CharMap[Space] \in K /\ CharMap[Nul] \notin K
  /\ \A c \in K, d \in Classes : IsKindOf(c, d) => d \in K

LEMMA SpaceNarrow ==
  ASSUME NEW K, AreSpaces(K), NEW s \in Seq(Bytes), NEW p \in Nat, NEW end \in Nat,
         CharAt(s, p, end).info \in K
  PROVE  p < Len(s) /\ CharAt(s, p, end).mblen \in 1 .. 3
  <1> DEFINE b == ByteAt(s, p)
  <1>1. b \in Bytes /\ Width[Nul] = 1
    BY TablesAssumption DEF ByteAt
  <1>2. Width[b] \in Nat /\ (Width[b] > 3 => CharMap[b] = CharMap[Nul])
    BY <1>1, TablesAssumption
  <1>3. CharMap[Nul] \notin K
    BY DEF AreSpaces
  <1>4. CASE Width[b] = 1 \/ (Width[b] > 1 /\ (p > end \/ end - p >= Width[b]))
    <2>1. CharAt(s, p, end) = [info |-> CharMap[b], mblen |-> Width[b]]
      BY <1>4 DEF CharAt
    <2>2. CharMap[b] \in K
      BY <2>1
    <2>3. Width[b] \in 1 .. 3
      BY <1>2, <1>3, <1>4, <2>2
    <2>4. p < Len(s)
      BY <1>3, <2>2 DEF ByteAt
    <2> QED
      BY <2>1, <2>3, <2>4
  <1>5. CASE ~(Width[b] = 1 \/ (Width[b] > 1 /\ (p > end \/ end - p >= Width[b])))
    <2>1. CharAt(s, p, end) = [info |-> CharMap[Nul], mblen |-> 1]
      BY <1>5 DEF CharAt
    <2> QED
      BY <1>3, <2>1
  <1> QED
    BY <1>4, <1>5

(* A walk over spaces: it goes no further than the last character of the   *)
(* text reaches.                                                           *)
Narrow(K, s, begin, end, w) ==
  /\ w.p = begin \/ w.p <= Len(s) + 2
  /\ w.more \/ w.p = end => w.c \in K /\ w.mblen <= 3

LEMMA NarrowStep ==
  ASSUME NEW K, AreSpaces(K), NEW s \in Seq(Bytes), NEW begin \in Nat, NEW end \in Nat,
         NEW w \in Seekers(begin, end), Narrow(K, s, begin, end, w)
  PROVE  Narrow(K, s, begin, end, SeekStep(w, CharAt(s, w.p, end), end))
  <1> DEFINE x == CharAt(s, w.p, end)
             v == SeekStep(w, x, end)
  <1>1. /\ w = [p |-> w.p, c |-> w.c, mblen |-> w.mblen, clen |-> w.clen, more |-> w.more]
        /\ w.p \in Nat /\ w.c \in Classes /\ w.mblen \in Nat /\ w.more \in BOOLEAN
    BY DEF Seekers
  <1>2. x.info \in Classes /\ x.mblen \in Nat \ {0}
    BY <1>1, CharFacts
  <1>3. CASE ~w.more \/ w.p = end
    <2>1. v = [p |-> w.p, c |-> w.c, mblen |-> w.mblen, clen |-> w.clen, more |-> FALSE]
      BY <1>1, <1>3 DEF SeekStep
    <2> QED
      BY <2>1 DEF Narrow
  <1>4. CASE w.more /\ w.p # end /\ ~IsKindOf(w.c, x.info)
    <2>1. v.p = w.p /\ ~v.more
      BY <1>1, <1>4 DEF SeekStep
    <2> QED
      BY <1>4, <2>1 DEF Narrow
  <1>5. CASE w.more /\ w.p # end /\ IsKindOf(w.c, x.info)
    <2>1. v.p = w.p + x.mblen /\ v.c = x.info /\ v.mblen = x.mblen
      BY <1>5 DEF SeekStep
    <2>2. x.info \in K
      BY <1>2, <1>5 DEF Narrow, AreSpaces
    <2>3. w.p < Len(s) /\ x.mblen \in 1 .. 3
      BY <1>1, <2>2, SpaceNarrow
    <2>4. v.p <= Len(s) + 2
      BY <1>1, <2>1, <2>3
    <2> HIDE DEF v, x
    <2>5. Narrow(K, s, begin, end, v)
      BY <2>1, <2>2, <2>3, <2>4 DEF Narrow
    <2> QED
      BY <2>5 DEF v, x
  <1> QED
    BY <1>1, <1>3, <1>4, <1>5

LEMMA SeekNarrow ==
  ASSUME NEW K, AreSpaces(K), NEW s \in Seq(Bytes), NEW begin \in Nat, NEW end \in Nat, NEW c \in K
  PROVE  Narrow(K, s, begin, end, SeekToOtherType(s, begin, end, c))
  <1> DEFINE n == Len(s) + 1
             P(f) == {k \in 0 .. n : Narrow(K, s, begin, end, f[k])}
  <1>0. c \in Classes
    BY DEF AreSpaces
  <1>1. PICK f : IsSeek(f, s, begin, end, c)
    BY <1>0, SeekWalk
  <1>2. /\ n \in Nat /\ n \in 0 .. n /\ 0 \in 0 .. n
        /\ \A k \in 1 .. n : k - 1 \in 0 .. n /\ k \in 0 .. n
    OBVIOUS
  <1>3. /\ f[0] = [p |-> begin, c |-> c, mblen |-> 0, clen |-> 0, more |-> TRUE]
        /\ \A k \in 1 .. n : f[k] = SeekStep(f[k - 1], CharAt(s, f[k - 1].p, end), end)
        /\ \A k \in 0 .. n : f[k] \in Seekers(begin, end)
        /\ SeekToOtherType(s, begin, end, c) = f[n]
    BY <1>1 DEF IsSeek
  <1> HIDE DEF n
  <1>4. 0 \in P(f)
    <2>1. Narrow(K, s, begin, end, f[0])
      BY <1>3 DEF Narrow
    <2> QED
      BY <1>2, <2>1
  <1>5. ASSUME NEW k \in 1 .. n, k - 1 \in P(f) PROVE k \in P(f)
    <2>1. f[k - 1] \in Seekers(begin, end) /\ Narrow(K, s, begin, end, f[k - 1])
      BY <1>2, <1>3, <1>5
    <2>2. Narrow(K, s, begin, end, f[k])
      BY <1>3, <2>1, NarrowStep
    <2> QED
      BY <1>2, <2>2
  <1>6. 0 .. n \subseteq P(f)
    <2> HIDE DEF P
    <2> QED
      BY <1>2, <1>4, <1>5, UpTo
  <1>7. Narrow(K, s, begin, end, f[n])
    BY <1>2, <1>6
  <1> QED
    BY <1>3, <1>7

(* Texts of which no length and no window of a lookup is cut, and whose    *)
(* spaces the end stops.                                                   *)
Lookable(l) ==
  l.sentence \in Seq(Bytes) /\ Len(l.sentence) + 3 <= LengthMax /\ NulIsNoSpace

(* The words a lookup from position p may offer: they end behind it, and   *)
(* the node lists have an entry for them.                                  *)
Candidates(l, p) ==
  {w \in [surface : Nat, length : Int, rlength : Nat \ {0}, stat : {"nor", "unk"},
          type : {c.default : c \in Classes}, lc : LeftIds, rc : RightIds, wcost : Int,
          feature : {t.feature : t \in DicTokens} \cup {l.feature[p]},
          cost : {0}, prev : {0}, lpath : {{}}] :
     EndOf(w) = p + w.rlength /\ EndOf(w) <= Len(l.sentence) + 3}

(* A short length stays as it is.                                          *)
LEMMA CutSame == ASSUME NEW n \in 0 .. LengthMax PROVE Cut(n) = n
  BY TablesAssumption DEF Cut

LEMMA TokenFacts ==
  ASSUME NEW t \in DicTokens
  PROVE  /\ t.lc \in LeftIds /\ t.rc \in RightIds /\ t.wcost \in Int
         /\ t.feature \in {u.feature : u \in DicTokens}
  BY DictionaryAssumption DEF LeftIds, RightIds

LEMMA ReverseFacts ==
  ASSUME NEW X, NEW s \in Seq(X)
  PROVE  Reverse(s) \in Seq(X) /\ ToSet(Reverse(s)) = ToSet(s)
  <1>1. Len(s) \in Nat /\ DOMAIN s = 1 .. Len(s) /\ \A i \in 1 .. Len(s) : s[i] \in X
    OBVIOUS
  <1>2. \A i \in 1 .. Len(s) : (Len(s) - i) + 1 \in 1 .. Len(s) /\ (Len(s) - ((Len(s) - i) + 1)) + 1 = i
    BY <1>1
  <1>3. Reverse(s) \in [1 .. Len(s) -> X] /\ \A i \in 1 .. Len(s) : Reverse(s)[i] = s[(Len(s) - i) + 1]
    BY <1>1, <1>2 DEF Reverse
  <1>4. Reverse(s) \in Seq(X) /\ DOMAIN Reverse(s) = 1 .. Len(s)
    BY <1>1, <1>3
  <1>5. ToSet(Reverse(s)) \subseteq ToSet(s)
    BY <1>1, <1>2, <1>3, <1>4 DEF ToSet
  <1>6. ASSUME NEW i \in 1 .. Len(s) PROVE s[i] \in ToSet(Reverse(s))
    <2>1. Reverse(s)[(Len(s) - i) + 1] = s[i]
      BY <1>2, <1>3
    <2> QED
      BY <1>2, <1>4, <2>1 DEF ToSet
  <1> QED
    BY <1>1, <1>4, <1>5, <1>6 DEF ToSet

LEMMA OneOrNone == ToSet(<<>>) = {} /\ \A x : ToSet(<<x>>) = {x}
  <1>1. DOMAIN <<>> = {}
    OBVIOUS
  <1>2. \A x : DOMAIN <<x>> = {1} /\ <<x>>[1] = x
    OBVIOUS
  <1> QED
    BY <1>1, <1>2 DEF ToSet

LEMMA OnlyIfSome == ASSUME NEW s, NEW x, x \in ToSet(s) PROVE s # <<>>
  BY OneOrNone

(* A list of lists with one list, of one element or none, per index.       *)
LEMMA Picked ==
  ASSUME NEW X, NEW n \in Nat, NEW ss \in [1 .. n -> Seq(X)]
  PROVE  /\ FlattenSeq(ss) \in Seq(X)
         /\ ToSet(FlattenSeq(ss)) = UNION {ToSet(ss[i]) : i \in 1 .. n}
  <1>1. ss \in Seq(Seq(X)) /\ DOMAIN ss = 1 .. n
    OBVIOUS
  <1> QED
    BY <1>1, Flattened

LEMMA PushFacts ==
  ASSUME NEW l, NEW X, NEW nodes_ \in Seq(X), NEW found \in Seq(X)
  PROVE  /\ Push(l, nodes_, found) \in Seq(X)
         /\ ~l.constrained /\ nodes_ # <<>> => Push(l, nodes_, found) # <<>>
         /\ found # <<>> => Push(l, nodes_, found) # <<>>
  <1> DEFINE n == Len(nodes_)
             ss == [i \in DOMAIN nodes_ |-> IF l.constrained /\ ~IsValidNode(l, nodes_[i])
                                            THEN <<>> ELSE <<nodes_[i]>>]
             kept == FlattenSeq(ss)
  <1>1. n \in Nat /\ DOMAIN nodes_ = 1 .. n /\ \A i \in 1 .. n : nodes_[i] \in X
    OBVIOUS
  <1>2. ss \in [1 .. n -> Seq(X)]
    BY <1>1
  <1>3. Push(l, nodes_, found) = Reverse(kept) \o found
    BY DEF Push
  <1>4. kept \in Seq(X) /\ ToSet(kept) = UNION {ToSet(ss[i]) : i \in 1 .. n}
    <2> HIDE DEF ss, n
    <2> QED
      BY <1>1, <1>2, Picked
  <1>5. ASSUME ~l.constrained, nodes_ # <<>> PROVE kept # <<>>
    <2>1. n # 0 /\ 1 \in 1 .. n
      BY <1>1, <1>5
    <2>2. ss[1] = <<nodes_[1]>>
      BY <1>1, <1>5, <2>1
    <2>3. nodes_[1] \in ToSet(kept)
      <3>1. nodes_[1] \in ToSet(ss[1])
        BY <2>2, OneOrNone
      <3> HIDE DEF ss, n, kept
      <3> QED
        BY <1>4, <2>1, <3>1
    <2> HIDE DEF kept
    <2> QED
      BY <2>3 DEF ToSet
  <1> HIDE DEF kept
  <1>6. Reverse(kept) \in Seq(X) /\ ToSet(Reverse(kept)) = ToSet(kept)
    BY <1>4, ReverseFacts
  <1>7. kept # <<>> => Reverse(kept) # <<>>
    <2>1. kept # <<>> => Len(kept) # 0
      BY <1>4
    <2>2. Len(Reverse(kept)) = Len(kept)
      BY <1>4 DEF Reverse
    <2> QED
      BY <1>6, <2>1, <2>2
  <1>8. \A u, v \in Seq(X) : u \o v \in Seq(X) /\ (u # <<>> \/ v # <<>> => u \o v # <<>>)
    OBVIOUS
  <1> QED
    BY <1>3, <1>5, <1>6, <1>7, <1>8

(* The place lookup works at, and where a word from there may end.         *)
Reach(l, at) == at.begin2 + 1 .. Len(l.sentence) + 3

IsPlace(l, at, p) ==
  /\ l.sentence \in Seq(Bytes) /\ Len(l.sentence) + 3 <= LengthMax /\ p \in Nat
  /\ at.begin = p /\ at.end \in Nat /\ at.end > p /\ at.end <= Len(l.sentence)
  /\ at.begin2 \in Nat /\ at.begin2 >= p /\ at.begin2 <= at.end
  /\ at.begin3 \in Reach(l, at)
  /\ at.cinfo \in Classes
  /\ at.begin3 > at.end => \E K : AreSpaces(K) /\ at.cinfo \in K

LEMMA ReachFacts ==
  ASSUME NEW l, NEW at, NEW p, IsPlace(l, at, p), NEW e \in Reach(l, at)
  PROVE  /\ e \in Nat /\ e > p /\ e <= Len(l.sentence) + 3
         /\ e - at.begin2 \in 0 .. LengthMax /\ e - at.begin \in 1 .. LengthMax
         /\ at.begin2 + (e - at.begin2) = p + (e - at.begin)
         /\ at.begin2 + (e - at.begin2) = e /\ e - (e - at.begin) = p
  <1>1. Len(l.sentence) \in Nat /\ LengthMax \in Nat
    BY TablesAssumption DEF IsPlace
  <1> QED
    BY <1>1 DEF IsPlace, Reach

LEMMA NodeFacts ==
  ASSUME NEW l, NEW at, NEW p, IsPlace(l, at, p), NEW e \in Reach(l, at),
         NEW token, NEW stat \in {"nor", "unk"}, NEW type \in {c.default : c \in Classes},
         token.lc \in LeftIds, token.rc \in RightIds, token.wcost \in Int,
         token.feature \in {t.feature : t \in DicTokens} \cup {l.feature[p]}
  PROVE  LET w == NodeOf(token, at.begin2, e - at.begin2, e - at.begin, stat, type)
         IN  /\ w \in Candidates(l, p) /\ w.surface = at.begin2 /\ EndOf(w) = e
             /\ EndOf(w) - w.rlength = p /\ w.surface + w.length = EndOf(w)
             /\ w.feature = token.feature
  <1> DEFINE length == e - at.begin2
             rlength == e - at.begin
  <1>1. PICK w : w = NodeOf(token, at.begin2, length, rlength, stat, type)
    OBVIOUS
  <1>2. /\ length \in 0 .. LengthMax /\ rlength \in 1 .. LengthMax /\ LengthMax \in Nat
        /\ at.begin2 + length = p + rlength /\ at.begin2 + length = e /\ e - rlength = p
        /\ e <= Len(l.sentence) + 3 /\ e \in Nat
    BY ReachFacts, TablesAssumption
  <1>3. at.begin2 \in Nat /\ p \in Nat
    BY DEF IsPlace
  <1> HIDE DEF length, rlength
  <1>4. rlength \in 0 .. LengthMax /\ length \in Int /\ rlength \in Nat \ {0}
    BY <1>2
  <1>5. Cut(length) = length /\ Cut(rlength) = rlength
    BY <1>2, <1>4, CutSame
  <1>6. w = [surface |-> at.begin2, length |-> length, rlength |-> rlength, stat |-> stat,
             type |-> type, lc |-> token.lc, rc |-> token.rc, wcost |-> token.wcost,
             feature |-> token.feature, cost |-> 0, prev |-> 0, lpath |-> {}]
    BY <1>1, <1>5 DEF NodeOf
  <1>7. /\ w.surface = at.begin2 /\ w.length = length /\ w.rlength = rlength
        /\ w.feature = token.feature /\ w.surface + w.length = e
    BY <1>2, <1>6
  <1>8. w \in Candidates(l, p)
    BY <1>2, <1>3, <1>4, <1>6 DEF Candidates, EndOf
  <1>9. EndOf(w) = e /\ EndOf(w) - w.rlength = p /\ w.surface + w.length = EndOf(w)
    BY <1>2, <1>7 DEF EndOf
  <1> QED
    BY <1>1, <1>7, <1>8, <1>9 DEF length, rlength

LEMMA UnknownFacts ==
  ASSUME NEW l, NEW at, NEW p, IsPlace(l, at, p), NEW e \in Reach(l, at), NEW c \in Classes,
         NEW found \in Seq(Candidates(l, p))
  PROVE  /\ AddUnknown(l, at, e, c, found) \in Seq(Candidates(l, p))
         /\ ~l.constrained => AddUnknown(l, at, e, c, found) # <<>>
         /\ found # <<>> => AddUnknown(l, at, e, c, found) # <<>>
  <1> DEFINE tokens == UnkTokens[c.default]
             new == [k \in DOMAIN tokens |->
                       NodeOf(tokens[k], at.begin2, e - at.begin2, e - at.begin, "unk", c.default)]
  <1>1. tokens \in Seq(DicTokens) /\ tokens # <<>>
    BY ClassFacts, DictionaryAssumption
  <1>3. c.default \in {d.default : d \in Classes}
    BY ClassFacts
  <1> HIDE DEF tokens
  <1>4. ASSUME NEW k \in DOMAIN tokens PROVE new[k] \in Candidates(l, p)
    <2>1. tokens[k] \in DicTokens
      BY <1>1
    <2>2. /\ tokens[k].lc \in LeftIds /\ tokens[k].rc \in RightIds /\ tokens[k].wcost \in Int
          /\ tokens[k].feature \in {u.feature : u \in DicTokens} \cup {l.feature[p]}
      BY <2>1, TokenFacts
    <2>3. NodeOf(tokens[k], at.begin2, e - at.begin2, e - at.begin, "unk", c.default) \in Candidates(l, p)
      BY <1>3, <2>2, NodeFacts
    <2> QED
      BY <2>3
  <1>5. new \in Seq(Candidates(l, p)) /\ new # <<>>
    <2>1. DOMAIN new = 1 .. Len(tokens) /\ Len(tokens) \in Nat /\ Len(tokens) # 0
      BY <1>1
    <2>2. new \in [1 .. Len(tokens) -> Candidates(l, p)]
      BY <1>1, <1>4
    <2>3. new \in Seq(Candidates(l, p)) /\ Len(new) # 0
      <3> HIDE DEF new
      <3> QED
        BY <2>1, <2>2
    <2> QED
      BY <2>3
  <1>6. AddUnknown(l, at, e, c, found) = Push(l, new, found)
    BY DEF AddUnknown, tokens
  <1> HIDE DEF new
  <1> QED
    BY <1>5, <1>6, PushFacts

(* The prefix search finds no word that runs over the text, nor any longer *)
(* than it is told, unless it is told 0.                                   *)
Entries(dic, rest, len) ==
  {w \in DOMAIN dic : Len(w) \in 1 .. rest /\ (len # 0 => Len(w) <= len)}

LEMMA SearchWithin ==
  ASSUME NEW dic, NEW s \in Seq(Bytes), NEW p \in Nat, NEW len \in Nat
  PROVE  CommonPrefixSearch(dic, s, p, len) \in Seq(Entries(dic, Len(s) - p, len))
  <1> DEFINE most == IF len = 0 \/ len > Len(s) - p THEN Len(s) - p ELSE len
             first(k) == SubSeq(s, p + 1, p + k)
             W == {w \in DOMAIN dic : Len(w) \in 1 .. Len(s) - p /\ (len # 0 => Len(w) <= len)}
             ss == [k \in 1 .. most |-> IF first(k) \in DOMAIN dic THEN <<first(k)>> ELSE <<>>]
             n == IF most < 0 THEN 0 ELSE most
  <1>1. most \in Int /\ n \in Nat /\ 1 .. n = 1 .. most /\ most <= Len(s) - p /\ (len # 0 => most <= len)
    OBVIOUS
  <1>2. CommonPrefixSearch(dic, s, p, len) = FlattenSeq(ss)
    BY DEF CommonPrefixSearch
  <1>3. \A k \in 1 .. most : Len(first(k)) = k /\ k \in 1 .. Len(s) - p /\ (len # 0 => k <= len)
    BY <1>1
  <1> HIDE DEF most, first
  <1>4. ss \in [1 .. n -> Seq(W)]
    <2>1. ASSUME NEW k \in 1 .. most
          PROVE  (IF first(k) \in DOMAIN dic THEN <<first(k)>> ELSE <<>>) \in Seq(W)
      <3>1. first(k) \in DOMAIN dic => first(k) \in W
        BY <1>3
      <3> HIDE DEF W
      <3> QED
        BY <3>1
    <2> HIDE DEF W
    <2> QED
      BY <1>1, <2>1
  <1> HIDE DEF ss, W, n
  <1>5. FlattenSeq(ss) \in Seq(W)
    BY <1>1, <1>4, Picked
  <1> QED
    BY <1>2, <1>5 DEF W, Entries

LEMMA DictionaryFacts ==
  ASSUME NEW l, NEW at, NEW p, IsPlace(l, at, p)
  PROVE  DictionaryNodes(l, at) \in Seq(Candidates(l, p)) /\ ~WordTooLong(l, at)
  <1> DEFINE C == Candidates(l, p)
             nodesOf(tokens, len) ==
               [j \in DOMAIN tokens |->
                  NodeOf(tokens[j], at.begin2, len, at.begin2 - at.begin + len, "nor", at.cinfo.default)]
             rest == Len(l.sentence) - at.begin2
             ofDic(dic, found) ==
               FlattenSeq([i \in DOMAIN found |-> nodesOf(dic[found[i]], Len(found[i]))])
             ss == [d \in DOMAIN Dics |-> ofDic(Dics[d], Hits(l, at, Dics[d]))]
  <1>1. DictionaryNodes(l, at) = Push(l, FlattenSeq(ss), <<>>)
    BY DEF DictionaryNodes
  <1>2. /\ p \in Nat /\ at.begin = p /\ at.begin2 \in Nat /\ at.begin2 >= p
        /\ at.end - at.begin2 \in Nat /\ l.sentence \in Seq(Bytes) /\ LengthMax \in Nat
        /\ rest \in Nat /\ at.begin2 + rest = Len(l.sentence) /\ Len(l.sentence) \in Nat
        /\ Len(l.sentence) + 3 <= LengthMax
        /\ at.cinfo.default \in {c.default : c \in Classes}
    <2>1. at.cinfo.default \in {c.default : c \in Classes}
      BY DEF IsPlace
    <2>2. /\ l.sentence \in Seq(Bytes) /\ Len(l.sentence) + 3 <= LengthMax /\ p \in Nat
          /\ at.begin = p /\ at.end \in Nat /\ at.end <= Len(l.sentence)
          /\ at.begin2 \in Nat /\ at.begin2 >= p /\ at.begin2 <= at.end
      BY DEF IsPlace
    <2>3. Len(l.sentence) \in Nat /\ LengthMax \in Nat
      BY <2>2, TablesAssumption
    <2> DEFINE n == Len(l.sentence)
    <2>4. n \in Nat /\ at.end <= n
      BY <2>2, <2>3
    <2>5. at.end - at.begin2 \in Nat /\ n - at.begin2 \in Nat /\ at.begin2 + (n - at.begin2) = n
      <3> HIDE DEF n
      <3> QED
        BY <2>2, <2>4
    <2> QED
      BY <2>1, <2>2, <2>3, <2>5
  <1> HIDE DEF rest
  <1>3. ASSUME NEW tokens \in Seq(DicTokens), NEW len \in 1 .. rest
        PROVE  nodesOf(tokens, len) \in Seq(C)
    <2> DEFINE new == nodesOf(tokens, len)
               e == at.begin2 + len
    <2>1. /\ e \in Reach(l, at) /\ e - at.begin2 = len
          /\ e - at.begin = at.begin2 - at.begin + len
      <3> DEFINE n == Len(l.sentence)
      <3>1. n \in Nat /\ at.begin2 + rest = n
        BY <1>2
      <3> HIDE DEF n
      <3>2. e \in at.begin2 + 1 .. n + 3 /\ e - at.begin2 = len /\ e - at.begin = at.begin2 - at.begin + len
        BY <1>2, <3>1
      <3> QED
        BY <3>2 DEF Reach, n
    <2> HIDE DEF e
    <2>2. ASSUME NEW k \in DOMAIN tokens PROVE new[k] \in C
      <3>1. tokens[k] \in DicTokens
        OBVIOUS
      <3>2. /\ tokens[k].lc \in LeftIds /\ tokens[k].rc \in RightIds /\ tokens[k].wcost \in Int
            /\ tokens[k].feature \in {u.feature : u \in DicTokens} \cup {l.feature[p]}
        BY <3>1, TokenFacts
      <3>3. NodeOf(tokens[k], at.begin2, e - at.begin2, e - at.begin, "nor", at.cinfo.default) \in C
        BY <1>2, <2>1, <3>2, NodeFacts
      <3> QED
        BY <2>1, <3>3
    <2>3. DOMAIN tokens = 1 .. Len(tokens) /\ Len(tokens) \in Nat
      OBVIOUS
    <2>4. new \in [1 .. Len(tokens) -> C]
      BY <2>2, <2>3
    <2> HIDE DEF new
    <2> QED
      BY <2>3, <2>4 DEF new
  <1> HIDE DEF nodesOf, C
  <1>4. ASSUME NEW d \in DOMAIN Dics
        PROVE  /\ ofDic(Dics[d], Hits(l, at, Dics[d])) \in Seq(C)
               /\ \A w \in ToSet(Hits(l, at, Dics[d])) : ~(Len(w) > LengthMax)
    <2> DEFINE found == Hits(l, at, Dics[d])
               W == Entries(Dics[d], rest, at.end - at.begin2)
               lists == [i \in DOMAIN found |-> nodesOf(Dics[d][found[i]], Len(found[i]))]
    <2>1. found \in Seq(W)
      BY <1>2, SearchWithin DEF Hits, rest
    <2>2. \A w \in W : Dics[d][w] \in Seq(DicTokens) /\ Len(w) \in 1 .. rest
      BY DictionaryAssumption DEF Entries
    <2>a. \A w \in ToSet(found) : ~(Len(w) > LengthMax)
      <3>1. \A w \in ToSet(found) : w \in W
        <4> HIDE DEF found, W
        <4> QED
          BY <2>1 DEF ToSet
      <3> HIDE DEF found, W
      <3> QED
        BY <1>2, <2>2, <3>1
    <2> HIDE DEF found, W
    <2>3. DOMAIN found = 1 .. Len(found) /\ Len(found) \in Nat /\ \A i \in 1 .. Len(found) : found[i] \in W
      BY <2>1
    <2>4. lists \in [1 .. Len(found) -> Seq(C)]
      BY <1>3, <2>2, <2>3
    <2>5. FlattenSeq(lists) \in Seq(C)
      <3> HIDE DEF lists
      <3> QED
        BY <2>3, <2>4, Picked
    <2> QED
      BY <2>5, <2>a DEF found
  <1> HIDE DEF ofDic
  <1>5. DOMAIN Dics = 1 .. Len(Dics) /\ Len(Dics) \in Nat
    BY DictionaryAssumption
  <1>6. ss \in [1 .. Len(Dics) -> Seq(C)]
    BY <1>4, <1>5
  <1> HIDE DEF ss
  <1>7. FlattenSeq(ss) \in Seq(C)
    BY <1>5, <1>6, Picked
  <1>8. <<>> \in Seq(C)
    OBVIOUS
  <1>9. ~WordTooLong(l, at)
    BY <1>4 DEF WordTooLong
  <1> QED
    BY <1>1, <1>7, <1>8, <1>9, PushFacts DEF C

(* The walk of the unknown words by length.                                *)
Growing(l, at, p) == [begin3 : Reach(l, at), result : Seq(Candidates(l, p)), more : BOOLEAN]

LEMMA LengthStepStays ==
  ASSUME NEW l, NEW at, NEW p, IsPlace(l, at, p), NEW group \in Int, NEW w \in Growing(l, at, p)
  PROVE  LengthStep(l, at, group, w, CharAt(l.sentence, w.begin3, at.end)) \in Growing(l, at, p)
  <1> DEFINE x == CharAt(l.sentence, w.begin3, at.end)
  <1>0. /\ w.begin3 \in Reach(l, at) /\ w.begin3 \in Nat /\ w.result \in Seq(Candidates(l, p))
        /\ w.more \in BOOLEAN /\ at.end <= Len(l.sentence) /\ at.begin2 \in Nat
        /\ w = [begin3 |-> w.begin3, result |-> w.result, more |-> w.more]
        /\ l.sentence \in Seq(Bytes) /\ at.end \in Nat /\ p \in Nat /\ at.cinfo \in Classes
    <2>1. /\ w.begin3 \in Reach(l, at) /\ w.result \in Seq(Candidates(l, p)) /\ w.more \in BOOLEAN
          /\ w = [begin3 |-> w.begin3, result |-> w.result, more |-> w.more]
      BY DEF Growing
    <2>2. /\ at.end <= Len(l.sentence) /\ at.begin2 \in Nat /\ l.sentence \in Seq(Bytes)
          /\ at.end \in Nat /\ p \in Nat /\ at.cinfo \in Classes
      BY DEF IsPlace
    <2> QED
      BY <2>1, <2>2, ReachFacts
  <1>1. x.mblen \in Nat /\ (w.begin3 <= at.end => w.begin3 + x.mblen <= at.end + 1)
    <2>1. x.mblen \in Nat
      BY <1>0, CharFacts
    <2>2. ASSUME w.begin3 <= at.end PROVE w.begin3 + x.mblen <= at.end + 1
      <3>1. /\ w.begin3 < at.end => w.begin3 + x.mblen <= at.end
            /\ w.begin3 = at.end => x.mblen = 1
        BY <1>0, <2>2, CharWithin
      <3> HIDE DEF x
      <3> QED
        BY <1>0, <2>1, <2>2, <3>1
    <2> QED
      BY <2>1, <2>2
  <1> HIDE DEF x
  <1>2. CASE ~w.more \/ w.begin3 > at.end
    <2>1. LengthStep(l, at, group, w, x) = [begin3 |-> w.begin3, result |-> w.result, more |-> FALSE]
      BY <1>0, <1>2 DEF LengthStep
    <2> QED
      BY <1>0, <2>1 DEF Growing, x
  <1>3. CASE ~(~w.more \/ w.begin3 > at.end) /\ w.begin3 = group
    <2>1. LengthStep(l, at, group, w, x) = w
      BY <1>3 DEF LengthStep
    <2> QED
      BY <2>1 DEF x
  <1>4. CASE ~(~w.more \/ w.begin3 > at.end) /\ w.begin3 # group
    <2> DEFINE more == IsKindOf(at.cinfo, x.info)
               next == w.begin3 + IF more THEN x.mblen ELSE 0
               new == AddUnknown(l, at, w.begin3, at.cinfo, w.result)
    <2>1. LengthStep(l, at, group, w, x) = [begin3 |-> next, result |-> new, more |-> more]
      BY <1>4 DEF LengthStep
    <2>2. new \in Seq(Candidates(l, p))
      BY <1>0, UnknownFacts
    <2>3. more \in BOOLEAN
      BY DEF IsKindOf
    <2> HIDE DEF more
    <2>4. next \in Reach(l, at)
      <3>1. w.begin3 <= at.end
        BY <1>0, <1>4
      <3>2. l.sentence \in Seq(Bytes) /\ Len(l.sentence) \in Nat
        BY <1>0
      <3> DEFINE n == Len(l.sentence)
                 d == IF more THEN x.mblen ELSE 0
      <3>3. d \in Nat /\ w.begin3 + d <= at.end + 1 /\ at.end <= n /\ n \in Nat
        BY <1>0, <1>1, <3>1, <3>2
      <3>4. w.begin3 \in at.begin2 + 1 .. n + 3
        BY <1>0 DEF Reach
      <3> HIDE DEF n, d
      <3>5. w.begin3 + d \in at.begin2 + 1 .. n + 3
        <4>1. ASSUME NEW a \in Nat, NEW b \in a + 1 .. n + 3, NEW c \in Nat, b + d <= c + 1, c <= n
              PROVE  b + d \in a + 1 .. n + 3
          BY <3>3, <4>1
        <4> QED
          BY <1>0, <3>3, <3>4, <4>1
      <3> QED
        BY <3>5 DEF Reach, n, d
    <2> QED
      BY <2>1, <2>2, <2>3, <2>4 DEF Growing, x
  <1> QED
    BY <1>2, <1>3, <1>4

IsLengths(f, l, at, p, group, found) ==
  /\ f[0] = [begin3 |-> at.begin3, result |-> found, more |-> TRUE]
  /\ \A k \in 1 .. at.cinfo.length :
       f[k] = LengthStep(l, at, group, f[k - 1], CharAt(l.sentence, f[k - 1].begin3, at.end))
  /\ \A k \in 0 .. at.cinfo.length : f[k] \in Growing(l, at, p)
  /\ UnknownByLength(l, at, group, found) = f[at.cinfo.length]

LEMMA LengthWalk ==
  ASSUME NEW l, NEW at, NEW p, IsPlace(l, at, p), NEW group \in Int,
         NEW found \in Seq(Candidates(l, p))
  PROVE  \E f : IsLengths(f, l, at, p, group, found)
  <1> DEFINE first == [begin3 |-> at.begin3, result |-> found, more |-> TRUE]
             n == at.cinfo.length
             S == Growing(l, at, p)
             Body(t) == [k \in 0 .. n |->
                           IF k = 0 THEN first
                           ELSE LengthStep(l, at, group, t[k - 1],
                                           CharAt(l.sentence, t[k - 1].begin3, at.end))]
             f == CHOOSE t : t = Body(t)
             step == [k \in 1 .. n |->
                        [x \in S |-> LengthStep(l, at, group, x, CharAt(l.sentence, x.begin3, at.end))]]
  <1>0. UnknownByLength(l, at, group, found) = f[n]
    BY DEF UnknownByLength
  <1>1. n \in Nat
    BY ClassFacts DEF IsPlace
  <1>2. first \in S
    BY DEF Growing, IsPlace
  <1>3. AreSteps(step, n, S)
    BY LengthStepStays DEF AreSteps
  <1>4. PICK g : IsIteration(g, step, n, S, first)
    <2> HIDE DEF step, n, S, first
    <2> QED
      BY <1>1, <1>2, <1>3, Iteration
  <1>5. \A k \in 1 .. n : \A x \in S : step[k][x] =
          LengthStep(l, at, group, x, CharAt(l.sentence, x.begin3, at.end))
    OBVIOUS
  <1> HIDE DEF n, S, first, step, f
  <1>6. g = Body(g)
    <2>1. g \in [0 .. n -> S] /\ g[0] = first /\ \A k \in 1 .. n : g[k] = step[k][g[k - 1]]
      BY <1>4 DEF IsIteration
    <2>2. ASSUME NEW k \in 1 .. n
          PROVE  g[k] = LengthStep(l, at, group, g[k - 1], CharAt(l.sentence, g[k - 1].begin3, at.end))
      <3>1. PICK x : x = g[k - 1]
        OBVIOUS
      <3>2. x \in S /\ g[k] = step[k][x]
        BY <1>1, <2>1, <3>1
      <3>3. g[k] = LengthStep(l, at, group, x, CharAt(l.sentence, x.begin3, at.end))
        BY <1>5, <3>2
      <3> QED
        BY <3>1, <3>3
    <2>3. \A k \in 0 .. n : g[k] =
             IF k = 0 THEN first
             ELSE LengthStep(l, at, group, g[k - 1], CharAt(l.sentence, g[k - 1].begin3, at.end))
      BY <1>1, <2>1, <2>2
    <2>4. g = [k \in 0 .. n |-> g[k]]
      BY <2>1
    <2> QED
      BY <2>3, <2>4
  <1>7. f = Body(f)
    <2>1. \E t : t = Body(t)
      BY <1>6
    <2> HIDE DEF Body
    <2> QED
      BY <2>1, Zenon DEF f
  <1>8. \A k \in 0 .. n : f[k] = Body(f)[k]
    BY <1>7, Zenon
  <1>9. f[0] = first
    BY <1>1, <1>8
  <1>10. ASSUME NEW k \in 1 .. n
         PROVE f[k] = LengthStep(l, at, group, f[k - 1], CharAt(l.sentence, f[k - 1].begin3, at.end))
    <2>1. k \in 0 .. n /\ k # 0
      BY <1>1
    <2> QED
      BY <1>8, <2>1
  <1>11. \A k \in 1 .. n : f[k - 1] \in S => f[k] \in S
    BY <1>10, LengthStepStays DEF S
  <1>12. \A k \in 0 .. n : f[k] \in S
    <2> HIDE DEF Body
    <2> QED
      BY <1>1, <1>2, <1>9, <1>11, StaysIn
  <1>13. IsLengths(f, l, at, p, group, found)
    <2> HIDE DEF Body
    <2> QED
      BY <1>0, <1>9, <1>10, <1>12 DEF IsLengths, first, n, S
  <1> QED
    BY <1>13

LEMMA ByLengthFacts ==
  ASSUME NEW l, NEW at, NEW p, IsPlace(l, at, p), NEW group \in Int,
         NEW found \in Seq(Candidates(l, p))
  PROVE  UnknownByLength(l, at, group, found) \in Growing(l, at, p)
  <1>1. PICK f : IsLengths(f, l, at, p, group, found)
    BY LengthWalk
  <1>2. at.cinfo.length \in Nat
    BY ClassFacts DEF IsPlace
  <1> QED
    BY <1>1, <1>2 DEF IsLengths

(* One step of the walk to the next boundary: it leaves where it began,    *)
(* and goes on within the fragment only.                                   *)
Walkers(l, at) ==
  {w \in [begin3 : Reach(l, at) \cup {at.begin2}, c : Classes, more : BOOLEAN] :
     w.more => w.begin3 <= at.end}

LEMMA BoundaryStepStays ==
  ASSUME NEW l, NEW at, NEW p, IsPlace(l, at, p), NEW w \in Walkers(l, at)
  PROVE  /\ BoundaryStep(l, at, w, CharAt(l.sentence, w.begin3, at.end)) \in Walkers(l, at)
         /\ w.more \/ w.begin3 > at.begin2 =>
              BoundaryStep(l, at, w, CharAt(l.sentence, w.begin3, at.end)).begin3 > at.begin2
  <1> DEFINE x == CharAt(l.sentence, w.begin3, at.end)
             next == w.begin3 + x.mblen
             more == ~(next > at.end \/ l.boundary[next] # InsideToken)
  <1>0. /\ w.begin3 \in Nat /\ w.begin3 >= at.begin2 /\ w.more \in BOOLEAN
        /\ w.more => w.begin3 <= at.end
        /\ l.sentence \in Seq(Bytes) /\ at.end \in Nat /\ at.end <= Len(l.sentence)
        /\ at.begin2 \in Nat
    BY DEF IsPlace, Walkers, Reach
  <1>1. /\ x.info \in Classes /\ x.mblen \in Nat \ {0}
        /\ w.begin3 <= at.end => w.begin3 + x.mblen <= at.end + 1
    BY <1>0, CharFacts, CharWithin
  <1> HIDE DEF x
  <1>2. /\ w.more => next \in Reach(l, at)
        /\ more \in BOOLEAN /\ (more => next <= at.end) /\ next \in Nat /\ next > at.begin2
    BY <1>0, <1>1 DEF Reach
  <1> HIDE DEF more
  <1>3. CASE ~w.more
    <2>1. BoundaryStep(l, at, w, x) = w
      BY <1>3 DEF BoundaryStep
    <2> QED
      BY <1>3, <2>1 DEF x
  <1>4. CASE w.more
    <2>1. BoundaryStep(l, at, w, x) = [begin3 |-> next, c |-> x.info, more |-> more]
      BY <1>4 DEF BoundaryStep, more
    <2> QED
      BY <1>0, <1>1, <1>2, <1>4, <2>1 DEF x, Walkers
  <1> QED
    BY <1>0, <1>3, <1>4

IsBoundaryWalk(f, l, at, p) ==
  /\ f[0] = [begin3 |-> at.begin2, c |-> CharMap[Nul], more |-> TRUE]
  /\ \A k \in 1 .. Len(l.sentence) + 1 :
       f[k] = BoundaryStep(l, at, f[k - 1], CharAt(l.sentence, f[k - 1].begin3, at.end))
  /\ \A k \in 0 .. Len(l.sentence) + 1 : f[k] \in Walkers(l, at)
  /\ UpToBoundary(l, at) = f[Len(l.sentence) + 1]

LEMMA BoundaryWalk ==
  ASSUME NEW l, NEW at, NEW p, IsPlace(l, at, p)
  PROVE  \E f : IsBoundaryWalk(f, l, at, p)
  <1> DEFINE first == [begin3 |-> at.begin2, c |-> CharMap[Nul], more |-> TRUE]
             n == Len(l.sentence) + 1
             S == Walkers(l, at)
             Body(t) == [k \in 0 .. n |->
                           IF k = 0 THEN first
                           ELSE BoundaryStep(l, at, t[k - 1],
                                             CharAt(l.sentence, t[k - 1].begin3, at.end))]
             f == CHOOSE t : t = Body(t)
             step == [k \in 1 .. n |->
                        [x \in S |-> BoundaryStep(l, at, x, CharAt(l.sentence, x.begin3, at.end))]]
  <1>0. UpToBoundary(l, at) = f[n]
    BY DEF UpToBoundary
  <1>1. n \in Nat /\ n >= 1
    BY DEF IsPlace
  <1>2. first \in S
    <2>1. Nul \in DOMAIN CharMap
      BY TablesAssumption
    <2> QED
      BY <2>1 DEF IsPlace, Classes, Walkers
  <1>3. AreSteps(step, n, S)
    BY BoundaryStepStays DEF AreSteps
  <1>4. PICK g : IsIteration(g, step, n, S, first)
    <2> HIDE DEF step, n, S, first
    <2> QED
      BY <1>1, <1>2, <1>3, Iteration
  <1>5. \A k \in 1 .. n : \A x \in S : step[k][x] =
          BoundaryStep(l, at, x, CharAt(l.sentence, x.begin3, at.end))
    OBVIOUS
  <1> HIDE DEF n, S, first, step, f
  <1>6. g = Body(g)
    <2>1. g \in [0 .. n -> S] /\ g[0] = first /\ \A k \in 1 .. n : g[k] = step[k][g[k - 1]]
      BY <1>4 DEF IsIteration
    <2>2. ASSUME NEW k \in 1 .. n
          PROVE  g[k] = BoundaryStep(l, at, g[k - 1], CharAt(l.sentence, g[k - 1].begin3, at.end))
      <3>1. PICK x : x = g[k - 1]
        OBVIOUS
      <3>2. x \in S /\ g[k] = step[k][x]
        BY <1>1, <2>1, <3>1
      <3>3. g[k] = BoundaryStep(l, at, x, CharAt(l.sentence, x.begin3, at.end))
        BY <1>5, <3>2
      <3> QED
        BY <3>1, <3>3
    <2>3. \A k \in 0 .. n : g[k] =
             IF k = 0 THEN first
             ELSE BoundaryStep(l, at, g[k - 1], CharAt(l.sentence, g[k - 1].begin3, at.end))
      BY <1>1, <2>1, <2>2
    <2>4. g = [k \in 0 .. n |-> g[k]]
      BY <2>1
    <2> QED
      BY <2>3, <2>4
  <1>7. f = Body(f)
    <2>1. \E t : t = Body(t)
      BY <1>6
    <2> HIDE DEF Body
    <2> QED
      BY <2>1, Zenon DEF f
  <1>8. \A k \in 0 .. n : f[k] = Body(f)[k]
    BY <1>7, Zenon
  <1>9. f[0] = first
    BY <1>1, <1>8
  <1>10. ASSUME NEW k \in 1 .. n
         PROVE f[k] = BoundaryStep(l, at, f[k - 1], CharAt(l.sentence, f[k - 1].begin3, at.end))
    <2>1. k \in 0 .. n /\ k # 0
      BY <1>1
    <2> QED
      BY <1>8, <2>1
  <1>11. \A k \in 1 .. n : f[k - 1] \in S => f[k] \in S
    BY <1>10, BoundaryStepStays DEF S
  <1>12. \A k \in 0 .. n : f[k] \in S
    <2> HIDE DEF Body
    <2> QED
      BY <1>1, <1>2, <1>9, <1>11, StaysIn
  <1>13. IsBoundaryWalk(f, l, at, p)
    <2> HIDE DEF Body
    <2> QED
      BY <1>0, <1>9, <1>10, <1>12 DEF IsBoundaryWalk, first, n, S
  <1> QED
    BY <1>13

LEMMA BoundaryFacts ==
  ASSUME NEW l, NEW at, NEW p, IsPlace(l, at, p)
  PROVE  UpToBoundary(l, at).begin3 \in Reach(l, at) /\ UpToBoundary(l, at).c \in Classes
  <1> DEFINE n == Len(l.sentence) + 1
             S == Walkers(l, at)
  <1>0. PICK f : IsBoundaryWalk(f, l, at, p)
    BY BoundaryWalk
  <1>1. n \in Nat /\ n >= 1
    BY DEF IsPlace
  <1>9. f[0] = [begin3 |-> at.begin2, c |-> CharMap[Nul], more |-> TRUE]
    BY <1>0 DEF IsBoundaryWalk
  <1>10. \A k \in 1 .. n : f[k] = BoundaryStep(l, at, f[k - 1], CharAt(l.sentence, f[k - 1].begin3, at.end))
    BY <1>0 DEF IsBoundaryWalk
  <1>a. (\A k \in 0 .. n : f[k] \in S) /\ UpToBoundary(l, at) = f[n]
    BY <1>0 DEF IsBoundaryWalk
  <1> HIDE DEF n, S
  <1> DEFINE T == {w \in S : w.begin3 > at.begin2}
             e == [k \in 0 .. n - 1 |-> f[k + 1]]
             m == n - 1
  <1>11. m \in Nat
    BY <1>1
  <1>12. f[1] \in T
    <2>1. f[1] = BoundaryStep(l, at, f[0], CharAt(l.sentence, f[0].begin3, at.end)) /\ f[0] \in S /\ f[0].more
      BY <1>1, <1>9, <1>10, <1>a
    <2> QED
      BY <2>1, BoundaryStepStays DEF S
  <1>13. e[0] \in T
    BY <1>1, <1>12
  <1>14. ASSUME NEW k \in 1 .. m, e[k - 1] \in T PROVE e[k] \in T
    <2>1. k + 1 \in 1 .. n /\ k \in 0 .. n /\ e[k] = f[k + 1] /\ e[k - 1] = f[k] /\ (k + 1) - 1 = k
      BY <1>1
    <2>2. f[k + 1] = BoundaryStep(l, at, f[k], CharAt(l.sentence, f[k].begin3, at.end))
      BY <1>10, <2>1
    <2>3. f[k] \in S /\ f[k].begin3 > at.begin2
      BY <1>a, <1>14, <2>1
    <2> QED
      BY <2>1, <2>2, <2>3, BoundaryStepStays DEF S
  <1>15. \A k \in 0 .. m : e[k] \in T
    <2> HIDE DEF T, e, m
    <2> QED
      BY <1>11, <1>13, <1>14, StaysIn
  <1>16. m \in 0 .. m /\ e[m] = f[n]
    BY <1>1
  <1> QED
    BY <1>a, <1>15, <1>16 DEF S, Walkers, IsPlace

(* What a lookup from p may return: candidates, at least one unless an     *)
(* exception leaves it, which needs constraints.                           *)
Offers(l, p, found) ==
  /\ found.died \in BOOLEAN /\ found.nodes \in Seq(Candidates(l, p))
  /\ found.died \/ found.nodes # <<>>
  /\ ~l.constrained => ~found.died

LEMMA ForcedFacts ==
  ASSUME NEW l, NEW at, NEW p, IsPlace(l, at, p), l.constrained
  PROVE  Offers(l, p, Forced(l, at, UpToBoundary(l, at)))
  <1> DEFINE last == UpToBoundary(l, at)
             unknown == AddUnknown(l, at, last.begin3, last.c, <<>>)
             token == [lc |-> 0, rc |-> 0, wcost |-> 0, feature |-> l.feature[at.begin]]
             node == NodeOf(token, at.begin2, last.begin3 - at.begin2, last.begin3 - at.begin,
                            "unk", last.c.default)
  <1>1. last.begin3 \in Reach(l, at) /\ last.c \in Classes
    BY BoundaryFacts
  <1>2. /\ p \in Nat /\ at.begin = p /\ at.begin2 \in Nat
    BY DEF IsPlace
  <1> HIDE DEF last
  <1>3. unknown \in Seq(Candidates(l, p))
    <2>1. <<>> \in Seq(Candidates(l, p))
      OBVIOUS
    <2> QED
      BY <1>1, <2>1, UnknownFacts
  <1>4. node \in Candidates(l, p)
    <2>1. /\ token.lc \in LeftIds /\ token.rc \in RightIds /\ token.wcost \in Int
          /\ token.feature \in {t.feature : t \in DicTokens} \cup {l.feature[p]}
      BY <1>2 DEF LeftIds, RightIds
    <2>3. last.c.default \in {c.default : c \in Classes}
      BY <1>1
    <2> HIDE DEF token
    <2> QED
      BY <1>1, <2>1, <2>3, NodeFacts
  <1>5. Forced(l, at, last) =
          IF unknown # <<>> THEN Found(unknown)
          ELSE IF l.feature[at.begin] # NoFeature THEN Found(<<node>>) ELSE Died
    BY DEF Forced, ForcedNode
  <1> HIDE DEF unknown, node
  <1>6. CASE unknown # <<>>
    BY <1>3, <1>5, <1>6 DEF Offers, Found, last
  <1>7. CASE unknown = <<>> /\ l.feature[at.begin] # NoFeature
    BY <1>4, <1>5, <1>7 DEF Offers, Found, last
  <1>8. CASE unknown = <<>> /\ l.feature[at.begin] = NoFeature
    <2>1. Forced(l, at, last) = [nodes |-> <<>>, died |-> TRUE]
      BY <1>5, <1>8 DEF Died
    <2> QED
      BY <2>1 DEF Offers, last
  <1> QED
    BY <1>6, <1>7, <1>8

(* The run of a class ends in reach.                                       *)
LEMMA RunFacts ==
  ASSUME NEW l, NEW at, NEW p, IsPlace(l, at, p)
  PROVE  LET run == SeekToOtherType(l.sentence, at.begin3, at.end, at.cinfo)
         IN  run.p \in Reach(l, at) /\ (at.begin3 <= at.end => run.p <= at.end)
  <1> DEFINE run == SeekToOtherType(l.sentence, at.begin3, at.end, at.cinfo)
  <1>1. /\ at.begin3 \in Nat /\ at.begin3 <= Len(l.sentence) + 3 /\ at.begin3 > at.begin2
        /\ at.cinfo \in Classes /\ l.sentence \in Seq(Bytes) /\ Len(l.sentence) \in Nat
        /\ at.end \in Nat /\ at.end <= Len(l.sentence) /\ at.begin2 \in Nat
    BY DEF IsPlace, Reach
  <1>2. run.p \in Nat /\ run.p >= at.begin3
    <2>1. run \in Seekers(at.begin3, at.end)
      BY <1>1, SeekFacts
    <2> QED
      BY <2>1 DEF Seekers
  <1>3. CASE at.begin3 <= at.end
    <2>1. run.p <= at.end
      BY <1>1, <1>3, SeekWithin
    <2> HIDE DEF run
    <2>2. run.p \in Reach(l, at)
      BY <1>1, <1>2, <2>1 DEF Reach
    <2> QED
      BY <2>1, <2>2 DEF run
  <1>4. CASE at.begin3 > at.end
    <2>1. PICK K : AreSpaces(K) /\ at.cinfo \in K
      BY <1>4 DEF IsPlace
    <2>2. Narrow(K, l.sentence, at.begin3, at.end, run)
      BY <1>1, <2>1, SeekNarrow
    <2> HIDE DEF run
    <2>3. run.p \in Reach(l, at)
      BY <1>1, <1>2, <2>2 DEF Reach, Narrow
    <2> QED
      BY <1>1, <1>4, <2>3 DEF run
  <1> QED
    BY <1>1, <1>3, <1>4

LEMMA LookupAtFacts ==
  ASSUME NEW l, NEW at, NEW p, IsPlace(l, at, p)
  PROVE  Offers(l, p, LookupAt(l, at))
  <1> DEFINE C == Candidates(l, p)
             words == DictionaryNodes(l, at)
             beyond == IF at.begin3 > at.end
                       THEN AddUnknown(l, at, at.begin3, at.cinfo, words) ELSE words
             run == SeekToOtherType(l.sentence, at.begin3, at.end, at.cinfo)
             group == IF at.cinfo.group THEN run.p ELSE -1
             grouped == IF at.cinfo.group /\ run.clen <= MaxGroupingSize
                        THEN AddUnknown(l, at, run.p, at.cinfo, beyond) ELSE beyond
             w == UnknownByLength(l, at, group, grouped)
             last == Fallback(l, at, w.begin3, w.result)
  <1>1. at.begin3 \in Reach(l, at) /\ at.cinfo \in Classes
    BY DEF IsPlace
  <1>2. words \in Seq(C) /\ ~WordTooLong(l, at)
    BY DictionaryFacts
  <1> HIDE DEF words
  <1>3. beyond \in Seq(C)
    BY <1>1, <1>2, UnknownFacts
  <1> HIDE DEF beyond
  <1>4. run.p \in Reach(l, at) /\ run.p \in Nat
    BY RunFacts, ReachFacts
  <1> HIDE DEF run
  <1>5. group \in Int
    BY <1>4
  <1>6. grouped \in Seq(C)
    BY <1>1, <1>3, <1>4, UnknownFacts
  <1> HIDE DEF group, grouped
  <1>7. w.begin3 \in Reach(l, at) /\ w.result \in Seq(C)
    BY <1>5, <1>6, ByLengthFacts DEF Growing
  <1> HIDE DEF w
  <1>8. last \in Seq(C) /\ (~l.constrained => last # <<>>)
    <2>1. <<>> \in Seq(C)
      OBVIOUS
    <2>2. CASE w.result # <<>>
      BY <1>7, <2>2 DEF Fallback
    <2>3. CASE w.result = <<>>
      <3>1. last = AddUnknown(l, at, w.begin3, at.cinfo, <<>>)
        BY <2>3 DEF Fallback
      <3> QED
        BY <1>1, <1>7, <2>1, <3>1, UnknownFacts
    <2> QED
      BY <2>2, <2>3
  <1> HIDE DEF last
  <1>9. \A found \in Seq(C) : found # <<>> => Offers(l, p, Found(found))
    BY DEF Found, Offers
  <1>10. Offers(l, p, LastResort(l, at, last))
    BY <1>8, <1>9, ForcedFacts DEF LastResort
  <1>11. Offers(l, p, Beyond(l, at, beyond))
    <2>1. Grouped(l, at, beyond, run) = LastResort(l, at, last)
      BY DEF Grouped, ByLength, last, w, grouped, group
    <2>2. \/ Beyond(l, at, beyond) = Found(beyond) /\ beyond # <<>>
          \/ Beyond(l, at, beyond) = LastResort(l, at, last)
      BY <2>1 DEF Beyond, run
    <2> QED
      BY <1>3, <1>9, <1>10, <2>2
  <1>12. \/ LookupAt(l, at) = Found(words) /\ words # <<>>
         \/ LookupAt(l, at) = Beyond(l, at, beyond)
    BY <1>2 DEF LookupAt, Words, words, beyond
  <1> QED
    BY <1>2, <1>9, <1>11, <1>12

(* In a short text the window of a lookup reaches to the end, and a word   *)
(* must end by the next strong boundary only.                              *)
LEMMA WholeWindow ==
  ASSUME NEW l, Lookable(l), NEW p \in Nat
  PROVE  FragmentEnd(l, p) = NextBoundary(l, p, Len(l.sentence))
  <1>1. Len(l.sentence) \in Nat /\ LengthMax \in Nat /\ Len(l.sentence) + 3 <= LengthMax
    BY TablesAssumption DEF Lookable
  <1>2. ~(p + LengthMax < Len(l.sentence))
    BY <1>1
  <1> QED
    BY <1>2 DEF FragmentEnd

LEMMA WindowFacts ==
  ASSUME NEW l, Lookable(l), NEW p \in Nat, p < Len(l.sentence)
  PROVE  /\ FragmentEnd(l, p) \in Nat /\ FragmentEnd(l, p) > p
         /\ FragmentEnd(l, p) <= Len(l.sentence)
  <1> DEFINE end == FragmentEnd(l, p)
             strong == {n \in p + 1 .. Len(l.sentence) - 1 : l.boundary[n] = TokenBoundary}
  <1>1. Len(l.sentence) \in Nat
    BY DEF Lookable
  <1>2. strong \subseteq Nat /\ \A n \in strong : n > p /\ n <= Len(l.sentence)
    BY <1>1
  <1>3. end = IF l.constrained /\ strong # {} THEN CHOOSE n \in strong : \A m \in strong : n <= m
              ELSE Len(l.sentence)
    BY WholeWindow DEF NextBoundary
  <1> HIDE DEF strong, end
  <1>4. CASE l.constrained /\ strong # {}
    <2>1. \E n \in strong : \A m \in strong : n <= m
      BY <1>2, <1>4, Smallest
    <2>2. end \in strong
      BY <1>3, <1>4, <2>1
    <2> QED
      BY <1>2, <2>2 DEF end
  <1>5. CASE ~(l.constrained /\ strong # {})
    BY <1>1, <1>3, <1>5 DEF end
  <1> QED
    BY <1>4, <1>5

(* The first character behind the spaces starts in reach; where there is   *)
(* none, the character before was a space.                                 *)
LEMMA PlaceIs ==
  ASSUME NEW l, Lookable(l), NEW p \in Nat, p < Len(l.sentence)
  PROVE  LET end  == FragmentEnd(l, p)
             seek == SeekToOtherType(l.sentence, p, end, CharMap[Space])
             at   == Place(p, end, seek)
         IN  IsPlace(l, at, p) /\ (at.begin2 < at.end <=> at.begin3 <= at.end)
  <1> DEFINE end == FragmentEnd(l, p)
             seek == SeekToOtherType(l.sentence, p, end, CharMap[Space])
             at == Place(p, end, seek)
  <1>1. /\ end \in Nat /\ end > p /\ end <= Len(l.sentence) /\ l.sentence \in Seq(Bytes)
        /\ Len(l.sentence) \in Nat /\ Len(l.sentence) + 3 <= LengthMax
    BY WindowFacts DEF Lookable
  <1> HIDE DEF end
  <1>2. PICK K : AreSpaces(K)
    BY DEF Lookable, NulIsNoSpace, AreSpaces, Classes
  <1>3. CharMap[Space] \in Classes /\ CharMap[Space] \in K
    BY <1>2 DEF AreSpaces
  <1>4. seek \in Seekers(p, end) /\ seek.mblen > 0
    BY <1>1, <1>3, SeekFacts
  <1>5. seek.p <= end /\ (seek.p < end => seek.p + seek.mblen <= end)
    BY <1>1, <1>3, SeekWithin
  <1>6. Narrow(K, l.sentence, p, end, seek)
    BY <1>1, <1>2, <1>3, SeekNarrow
  <1> HIDE DEF seek
  <1>7. /\ seek.p \in Nat /\ seek.p >= p /\ seek.c \in Classes /\ seek.mblen \in Nat
    BY <1>4 DEF Seekers
  <1>8. seek.p = end => seek.c \in K /\ seek.mblen <= 3
    BY <1>6 DEF Narrow
  <1>9. /\ at.begin = p /\ at.end = end /\ at.begin2 = seek.p /\ at.cinfo = seek.c
        /\ at.begin3 = seek.p + seek.mblen
    BY DEF Place
  <1> HIDE DEF at
  <1>10. at.begin2 < at.end <=> at.begin3 <= at.end
    BY <1>1, <1>4, <1>5, <1>7, <1>9
  <1>11. at.begin3 \in Reach(l, at)
    BY <1>1, <1>4, <1>5, <1>7, <1>8, <1>9 DEF Reach
  <1>12. at.begin3 > at.end => at.cinfo \in K
    BY <1>1, <1>4, <1>5, <1>7, <1>8, <1>9
  <1>13. IsPlace(l, at, p)
    BY <1>1, <1>2, <1>5, <1>7, <1>9, <1>11, <1>12 DEF IsPlace
  <1> QED
    BY <1>10, <1>13 DEF at, seek, end

LEMMA LookupFacts ==
  ASSUME NEW l, Lookable(l), NEW p \in Nat, p < Len(l.sentence)
  PROVE  Offers(l, p, Lookup(l, p))
  <1> DEFINE at == Place(p, FragmentEnd(l, p),
                         SeekToOtherType(l.sentence, p, FragmentEnd(l, p), CharMap[Space]))
  <1>1. IsPlace(l, at, p)
    BY PlaceIs
  <1>2. Lookup(l, p) = LookupAt(l, at)
    BY DEF Lookup, LookupUpTo
  <1> HIDE DEF at
  <1> QED
    BY <1>1, <1>2, LookupAtFacts

(* Lattices over one sentence, whatever the constraints are.               *)
Over(s, B, F) ==
  [sentence : {s}, constrained : BOOLEAN,
   boundary : [Offsets(s) -> B], feature : [Offsets(s) -> F]]

LEMMA BoundaryKeeps ==
  ASSUME NEW s, NEW B, NEW F, NEW l \in Over(s, B, F), NEW p, NEW t \in B
  PROVE  SetBoundaryConstraint(l, p, t) \in Over(s, B, F)
  BY DEF Over, SetBoundaryConstraint

LEMMA FeatureKeeps ==
  ASSUME NEW s, NEW B, NEW F, NEW l \in Over(s, B, F), NEW b, NEW e, NEW f \in F,
         {TokenBoundary, InsideToken} \subseteq B
  PROVE  SetFeatureConstraint(l, b, e, f) \in Over(s, B, F)
  <1> DEFINE last == IF e < Len(l.sentence) THEN e ELSE Len(l.sentence)
             new == [p \in DOMAIN l.boundary |-> IF p \in {b, last} THEN TokenBoundary
                                                 ELSE IF b < p /\ p < last THEN InsideToken
                                                 ELSE l.boundary[p]]
  <1>1. CASE b >= e \/ f = NoFeature
    BY <1>1 DEF SetFeatureConstraint
  <1>2. CASE ~(b >= e \/ f = NoFeature)
    <2>1. SetFeatureConstraint(l, b, e, f) =
            [l EXCEPT !.constrained = TRUE, !.boundary = new, !.feature[b] = f]
      BY <1>2, Zenon DEF SetFeatureConstraint
    <2>2. l.boundary \in [Offsets(s) -> B]
      BY DEF Over
    <2> HIDE DEF last
    <2>3. new \in [Offsets(s) -> B]
      BY <2>2
    <2>4. [l.feature EXCEPT ![b] = f] \in [Offsets(s) -> F]
      BY DEF Over
    <2>5. l.sentence = s
      BY DEF Over
    <2> HIDE DEF new
    <2>6. SetFeatureConstraint(l, b, e, f) =
            [sentence |-> s, constrained |-> TRUE, boundary |-> new,
             feature |-> [l.feature EXCEPT ![b] = f]]
      BY <2>1, <2>5 DEF Over
    <2> QED
      BY <2>3, <2>4, <2>6 DEF Over
  <1> QED
    BY <1>1, <1>2

LEMMA BareOver ==
  ASSUME NEW s, NEW B, NEW F, AnyBoundary \in B, NoFeature \in F
  PROVE  BareLattice(s) \in Over(s, B, F)
  BY DEF BareLattice, Over

(* The lattice after each call of the caller.                              *)
UserOver(s, calls) ==
  Over(s, {AnyBoundary, TokenBoundary, InsideToken} \cup {calls[i].type : i \in DOMAIN calls},
          {NoFeature} \cup {calls[i].feature : i \in DOMAIN calls})

EndsBound(l, s) ==
  SetBoundaryConstraint(SetBoundaryConstraint(l, 0, TokenBoundary), Len(s), TokenBoundary)

IsCalled(f, s, calls) ==
  /\ f[0] = BareLattice(s)
  /\ \A k \in 1 .. Len(calls) : f[k] = ApplyCall(f[k - 1], calls[k])
  /\ \A k \in 0 .. Len(calls) : f[k] \in UserOver(s, calls)
  /\ UserLattice(s, calls) =
       IF f[Len(calls)].constrained THEN EndsBound(f[Len(calls)], s) ELSE f[Len(calls)]
  /\ UserLattice(s, calls) \in UserOver(s, calls)

LEMMA CallWalk ==
  ASSUME NEW s, NEW calls, calls \in Seq(ToSet(calls))
  PROVE  \E f : IsCalled(f, s, calls)
  <1> DEFINE n == Len(calls)
             B == {AnyBoundary, TokenBoundary, InsideToken} \cup {calls[i].type : i \in DOMAIN calls}
             F == {NoFeature} \cup {calls[i].feature : i \in DOMAIN calls}
             first == BareLattice(s)
             S == Over(s, B, F)
             Body(t) == [k \in 0 .. n |-> IF k = 0 THEN first ELSE ApplyCall(t[k - 1], calls[k])]
             f == CHOOSE t : t = Body(t)
             step == [k \in 1 .. n |-> [x \in S |-> ApplyCall(x, calls[k])]]
  <1>0. UserLattice(s, calls) =
          IF f[n].constrained
          THEN SetBoundaryConstraint(SetBoundaryConstraint(f[n], 0, TokenBoundary), Len(s), TokenBoundary)
          ELSE f[n]
    BY DEF UserLattice
  <1>1. n \in Nat /\ DOMAIN calls = 1 .. n
    OBVIOUS
  <1>2. first \in S
    BY BareOver
  <1>3. ASSUME NEW k \in 1 .. n, NEW x \in S PROVE ApplyCall(x, calls[k]) \in S
    <2>1. calls[k].type \in B /\ calls[k].feature \in F /\ {TokenBoundary, InsideToken} \subseteq B
      BY <1>1
    <2> HIDE DEF B, F
    <2> QED
      BY <2>1, BoundaryKeeps, FeatureKeeps DEF ApplyCall
  <1>4. AreSteps(step, n, S)
    <2> HIDE DEF S
    <2> QED
      BY <1>3 DEF AreSteps
  <1>5. PICK g : IsIteration(g, step, n, S, first)
    <2> HIDE DEF step, n, S, first
    <2> QED
      BY <1>1, <1>2, <1>4, Iteration
  <1>6. \A k \in 1 .. n : \A x \in S : step[k][x] = ApplyCall(x, calls[k])
    OBVIOUS
  <1>7. TokenBoundary \in B
    OBVIOUS
  <1> HIDE DEF n, S, first, step, f, B, F
  <1>8. g = Body(g)
    <2>1. g \in [0 .. n -> S] /\ g[0] = first /\ \A k \in 1 .. n : g[k] = step[k][g[k - 1]]
      BY <1>5 DEF IsIteration
    <2>2. ASSUME NEW k \in 1 .. n PROVE g[k] = ApplyCall(g[k - 1], calls[k])
      <3>1. PICK x : x = g[k - 1]
        OBVIOUS
      <3>2. x \in S /\ g[k] = step[k][x]
        BY <1>1, <2>1, <3>1
      <3>3. g[k] = ApplyCall(x, calls[k])
        BY <1>6, <3>2
      <3> QED
        BY <3>1, <3>3
    <2>3. \A k \in 0 .. n : g[k] = IF k = 0 THEN first ELSE ApplyCall(g[k - 1], calls[k])
      BY <1>1, <2>1, <2>2
    <2>4. g = [k \in 0 .. n |-> g[k]]
      BY <2>1
    <2> QED
      BY <2>3, <2>4
  <1>9. f = Body(f)
    <2>1. \E t : t = Body(t)
      BY <1>8
    <2> HIDE DEF Body
    <2> QED
      BY <2>1, Zenon DEF f
  <1>10. \A k \in 0 .. n : f[k] = Body(f)[k]
    BY <1>9, Zenon
  <1>11. f[0] = first
    BY <1>1, <1>10
  <1>12. ASSUME NEW k \in 1 .. n PROVE f[k] = ApplyCall(f[k - 1], calls[k])
    <2>1. k \in 0 .. n /\ k # 0
      BY <1>1
    <2> QED
      BY <1>10, <2>1
  <1>13. \A k \in 0 .. n : f[k] \in S
    <2>1. \A k \in 1 .. n : f[k - 1] \in S => f[k] \in S
      BY <1>3, <1>12
    <2> HIDE DEF Body
    <2> QED
      BY <1>1, <1>2, <1>11, <2>1, StaysIn
  <1>14. UserLattice(s, calls) \in S
    <2>1. f[n] \in S
      BY <1>1, <1>13
    <2> QED
      BY <1>0, <1>7, <2>1, BoundaryKeeps DEF S
  <1>15. IsCalled(f, s, calls)
    <2>1. S = UserOver(s, calls)
      BY DEF S, B, F, UserOver
    <2> HIDE DEF Body
    <2> QED
      BY <1>0, <1>11, <1>12, <1>13, <1>14, <2>1 DEF IsCalled, first, n, EndsBound
  <1> QED
    BY <1>15

(* The lattice after each fragment, and where the fragment ends.           *)
TextOf(fragments) == FlattenSeq([i \in DOMAIN fragments |-> fragments[i].surface])

PartialOver(fragments) ==
  [at : Nat, l : Over(TextOf(fragments), {AnyBoundary, TokenBoundary, InsideToken},
                      {NoFeature} \cup {fragments[i].feature : i \in DOMAIN fragments})]

IsLaidOut(f, fragments) ==
  /\ f[0] = [at |-> 0, l |-> BareLattice(TextOf(fragments))]
  /\ \A k \in 1 .. Len(fragments) : f[k] = AddFragment(f[k - 1], fragments[k])
  /\ \A k \in 0 .. Len(fragments) : f[k] \in PartialOver(fragments)
  /\ PartialLattice(fragments) = f[Len(fragments)].l

LEMMA FragmentWalk ==
  ASSUME NEW fragments, fragments \in Seq(ToSet(fragments)),
         \A f \in ToSet(fragments) : f.surface \in Seq(Bytes)
  PROVE  TextOf(fragments) \in Seq(Bytes) /\ \E f : IsLaidOut(f, fragments)
  <1> DEFINE n == Len(fragments)
             s == TextOf(fragments)
             B == {AnyBoundary, TokenBoundary, InsideToken}
             F == {NoFeature} \cup {fragments[i].feature : i \in DOMAIN fragments}
             first == [at |-> 0, l |-> BareLattice(s)]
             S == [at : Nat, l : Over(s, B, F)]
             Body(t) == [k \in 0 .. n |-> IF k = 0 THEN first ELSE AddFragment(t[k - 1], fragments[k])]
             f == CHOOSE t : t = Body(t)
             step == [k \in 1 .. n |-> [x \in S |-> AddFragment(x, fragments[k])]]
  <1>0. PartialLattice(fragments) = f[n].l
    BY DEF PartialLattice, TextOf
  <1>1. n \in Nat /\ DOMAIN fragments = 1 .. n
    OBVIOUS
  <1>a. \A k \in 1 .. n : fragments[k].surface \in Seq(Bytes)
    BY <1>1 DEF ToSet
  <1>b. s \in Seq(Bytes)
    <2> DEFINE ss == [i \in DOMAIN fragments |-> fragments[i].surface]
    <2>1. ss \in [1 .. n -> Seq(Bytes)]
      BY <1>1, <1>a
    <2> HIDE DEF ss, n
    <2>2. FlattenSeq(ss) \in Seq(Bytes)
      BY <1>1, <2>1, Picked
    <2> QED
      BY <2>2 DEF ss, TextOf
  <1> HIDE DEF s
  <1>2. first \in S
    <2>1. BareLattice(s) \in Over(s, B, F)
      BY BareOver
    <2> QED
      BY <2>1
  <1>3. ASSUME NEW k \in 1 .. n, NEW x \in S PROVE AddFragment(x, fragments[k]) \in S
    <2> DEFINE e == x.at + Len(fragments[k].surface)
               once == SetBoundaryConstraint(x.l, x.at, TokenBoundary)
               bounded == SetBoundaryConstraint(once, e, TokenBoundary)
    <2>1. /\ fragments[k].feature \in F /\ {TokenBoundary, InsideToken} \subseteq B
          /\ TokenBoundary \in B
      BY <1>1
    <2>2. e \in Nat /\ x.l \in Over(s, B, F)
      BY <1>a
    <2> HIDE DEF B, F, e
    <2>3. once \in Over(s, B, F)
      BY <2>1, <2>2, BoundaryKeeps
    <2>4. bounded \in Over(s, B, F)
      BY <2>1, <2>3, BoundaryKeeps
    <2>5. SetFeatureConstraint(bounded, x.at, e, fragments[k].feature) \in Over(s, B, F)
      <3> HIDE DEF bounded
      <3> QED
        BY <2>1, <2>4, FeatureKeeps
    <2>6. AddFragment(x, fragments[k]) =
            [at |-> e, l |-> SetFeatureConstraint(bounded, x.at, e, fragments[k].feature)]
      BY DEF AddFragment, e
    <2> QED
      BY <2>2, <2>5, <2>6
  <1>4. AreSteps(step, n, S)
    <2> HIDE DEF S
    <2> QED
      BY <1>3 DEF AreSteps
  <1>5. PICK g : IsIteration(g, step, n, S, first)
    <2> HIDE DEF step, n, S, first
    <2> QED
      BY <1>1, <1>2, <1>4, Iteration
  <1>6. \A k \in 1 .. n : \A x \in S : step[k][x] = AddFragment(x, fragments[k])
    OBVIOUS
  <1> HIDE DEF n, S, first, step, f, B, F
  <1>8. g = Body(g)
    <2>1. g \in [0 .. n -> S] /\ g[0] = first /\ \A k \in 1 .. n : g[k] = step[k][g[k - 1]]
      BY <1>5 DEF IsIteration
    <2>2. ASSUME NEW k \in 1 .. n PROVE g[k] = AddFragment(g[k - 1], fragments[k])
      <3>1. PICK x : x = g[k - 1]
        OBVIOUS
      <3>2. x \in S /\ g[k] = step[k][x]
        BY <1>1, <2>1, <3>1
      <3>3. g[k] = AddFragment(x, fragments[k])
        BY <1>6, <3>2
      <3> QED
        BY <3>1, <3>3
    <2>3. \A k \in 0 .. n : g[k] = IF k = 0 THEN first ELSE AddFragment(g[k - 1], fragments[k])
      BY <1>1, <2>1, <2>2
    <2>4. g = [k \in 0 .. n |-> g[k]]
      BY <2>1
    <2> QED
      BY <2>3, <2>4
  <1>9. f = Body(f)
    <2>1. \E t : t = Body(t)
      BY <1>8
    <2> HIDE DEF Body
    <2> QED
      BY <2>1, Zenon DEF f
  <1>10. \A k \in 0 .. n : f[k] = Body(f)[k]
    BY <1>9, Zenon
  <1>11. f[0] = first
    BY <1>1, <1>10
  <1>12. ASSUME NEW k \in 1 .. n PROVE f[k] = AddFragment(f[k - 1], fragments[k])
    <2>1. k \in 0 .. n /\ k # 0
      BY <1>1
    <2> QED
      BY <1>10, <2>1
  <1>13. \A k \in 0 .. n : f[k] \in S
    <2>1. \A k \in 1 .. n : f[k - 1] \in S => f[k] \in S
      BY <1>3, <1>12
    <2> HIDE DEF Body
    <2> QED
      BY <1>1, <1>2, <1>11, <2>1, StaysIn
  <1>14. IsLaidOut(f, fragments)
    <2>1. S = PartialOver(fragments)
      BY DEF S, B, F, PartialOver, s
    <2> HIDE DEF Body
    <2> QED
      BY <1>0, <1>11, <1>12, <1>13, <2>1 DEF IsLaidOut, first, n, s
  <1> QED
    BY <1>b, <1>14 DEF s

(* The lattice of a call is over bytes, whatever fragments or constraints  *)
(* the caller handed over.                                                 *)
LEMMA SentenceOfBytes ==
  ASSUME NEW in \in Inputs
  PROVE  InitPartial(in).sentence \in Seq(Bytes)
  <1>1. CASE in.partial
    <2>1. in.fragments \in Seq(ToSet(in.fragments)) /\ \A f \in ToSet(in.fragments) : f.surface \in Seq(Bytes)
      BY <1>1, InputsAssumption
    <2>2. TextOf(in.fragments) \in Seq(Bytes)
      BY <2>1, FragmentWalk
    <2>3. PICK f : IsLaidOut(f, in.fragments)
      BY <2>1, FragmentWalk
    <2>4. Len(in.fragments) \in 0 .. Len(in.fragments)
      BY <2>1
    <2>5. PartialLattice(in.fragments).sentence = TextOf(in.fragments)
      BY <2>3, <2>4 DEF IsLaidOut, PartialOver, Over
    <2> QED
      BY <1>1, <2>2, <2>5 DEF InitPartial
  <1>2. CASE ~in.partial
    <2>1. in.sentence \in Seq(Bytes) /\ in.calls \in Seq(ToSet(in.calls))
      BY <1>2, InputsAssumption
    <2>2. PICK f : IsCalled(f, in.sentence, in.calls)
      BY <2>1, CallWalk
    <2> QED
      BY <1>2, <2>1, <2>2 DEF InitPartial, IsCalled, UserOver, Over
  <1> QED
    BY <1>1, <1>2

(* The nodes of a lattice; Zeroed is a node as lookup made it.             *)
NodeSet(l) ==
  [surface : Nat, length : Int, rlength : Nat, stat : {"bos", "eos", "nor", "unk"},
   type : {c.default : c \in Classes} \cup {"none"}, lc : LeftIds, rc : RightIds, wcost : Int,
   feature : {t.feature : t \in DicTokens} \cup {l.feature[p] : p \in Nat} \cup {NoFeature},
   cost : Int, prev : Nat, lpath : SUBSET Paths(Nat)]

Rewire(n, prev, cost, lpath) == [n EXCEPT !.prev = prev, !.cost = cost, !.lpath = lpath]

Zeroed(n) == Rewire(n, 0, 0, {})

Fresh(l) == {w \in NodeSet(l) : w.cost = 0 /\ w.prev = 0 /\ w.lpath = {}}

LEMMA CandidateFacts ==
  ASSUME NEW l, NEW p \in Nat, NEW w \in Candidates(l, p)
  PROVE  /\ w \in Fresh(l) /\ w.stat \in {"nor", "unk"} /\ w.rlength \in Nat \ {0}
         /\ BeginOf(w) = p /\ EndOf(w) = p + w.rlength
  BY DEF Candidates, Fresh, NodeSet, BeginOf, EndOf

LEMMA SentinelFacts ==
  ASSUME NEW l, NEW at \in Nat, NEW stat \in {"bos", "eos"}
  PROVE  /\ Sentinel(stat, at) \in Fresh(l)
         /\ Sentinel(stat, at).stat = stat
         /\ BeginOf(Sentinel(stat, at)) = at /\ EndOf(Sentinel(stat, at)) = at
  <1>1. 0 \in LeftIds /\ 0 \in RightIds
    BY DEF LeftIds, RightIds
  <1> QED
    BY <1>1 DEF Sentinel, Fresh, NodeSet, BeginOf, EndOf

LEMMA CostFacts ==
  ASSUME matrix \in Matrices, NEW l, NEW x \in NodeSet(l), NEW y \in NodeSet(l)
  PROVE  LocalCost(x, y) \in Int
  <1>1. x.rc \in RightIds /\ y.lc \in LeftIds /\ y.wcost \in Int
    BY DEF NodeSet
  <1>2. matrix[<<x.rc, y.lc>>] \in Int
    BY <1>1, MatrixAssumption
  <1> QED
    BY <1>1, <1>2 DEF LocalCost

LEMMA Cheapest ==
  ASSUME NEW n \in Nat, n # 0, NEW f \in [1 .. n -> Int]
  PROVE  \E i \in 1 .. n : \A j \in 1 .. n : f[i] <= f[j]
  <1> DEFINE P == {k \in Nat : k + 1 > n \/ \E i \in 1 .. k + 1 : \A j \in 1 .. k + 1 : f[i] <= f[j]}
             m == n - 1
  <1>1. 0 \in P
    <2>1. 1 \in 1 .. 1 /\ \A j \in 1 .. 1 : f[1] <= f[j]
      OBVIOUS
    <2> QED
      BY <2>1
  <1>2. ASSUME NEW k \in 1 .. m, k - 1 \in P PROVE k \in P
    <2>1. PICK i \in 1 .. k : \A j \in 1 .. k : f[i] <= f[j]
      BY <1>2
    <2>2. k + 1 \in 1 .. n /\ i \in 1 .. n /\ f[k + 1] \in Int /\ f[i] \in Int
      OBVIOUS
    <2>3. CASE f[i] <= f[k + 1]
      <3>1. \A j \in 1 .. k + 1 : f[i] <= f[j]
        BY <2>1, <2>3
      <3> QED
        BY <3>1
    <2>4. CASE f[k + 1] < f[i]
      <3>1. ASSUME NEW j \in 1 .. k + 1 PROVE f[k + 1] <= f[j]
        <4>1. CASE j = k + 1
          BY <2>2, <4>1
        <4>2. CASE j # k + 1
          <5>1. j \in 1 .. k /\ j \in 1 .. n /\ f[j] \in Int
            BY <4>2
          <5> QED
            BY <2>1, <2>2, <2>4, <5>1
        <4> QED
          BY <4>1, <4>2
      <3> QED
        BY <3>1
    <2> QED
      BY <2>2, <2>3, <2>4
  <1>3. m \in Nat /\ n = m + 1
    OBVIOUS
  <1> HIDE DEF P, m
  <1>4. 0 .. m \subseteq P
    BY <1>1, <1>2, <1>3, UpTo
  <1>5. m \in P
    BY <1>3, <1>4
  <1> QED
    BY <1>3, <1>5 DEF P

Same(c, r) ==
  /\ Zeroed(c) = r /\ c.surface = r.surface /\ c.length = r.length /\ c.rlength = r.rlength
  /\ c.stat = r.stat /\ c.lc = r.lc /\ c.rc = r.rc /\ c.wcost = r.wcost

LEMMA Rewired ==
  ASSUME NEW l, NEW r \in Fresh(l), NEW prev \in Nat, NEW cost \in Int,
         NEW lpath \in SUBSET Paths(Nat), NEW c, c = Rewire(r, prev, cost, lpath)
  PROVE  c \in NodeSet(l) /\ Same(c, r) /\ c.prev = prev /\ c.cost = cost /\ c.lpath = lpath
  <1>1. r \in NodeSet(l) /\ r.cost = 0 /\ r.prev = 0 /\ r.lpath = {}
    BY DEF Fresh
  <1>0. ASSUME NEW x \in NodeSet(l), NEW p \in Nat, NEW k \in Int, NEW h \in SUBSET Paths(Nat)
        PROVE  LET y == Rewire(x, p, k, h)
               IN  /\ y \in NodeSet(l) /\ y.prev = p /\ y.cost = k /\ y.lpath = h
                   /\ y.surface = x.surface /\ y.length = x.length /\ y.rlength = x.rlength
                   /\ y.stat = x.stat /\ y.lc = x.lc /\ y.rc = x.rc /\ y.wcost = x.wcost
                   /\ y.type = x.type /\ y.feature = x.feature
    BY DEF NodeSet, Rewire
  <1>2. c \in NodeSet(l) /\ c.prev = prev /\ c.cost = cost /\ c.lpath = lpath
    BY <1>0, <1>1
  <1>3. /\ c.surface = r.surface /\ c.length = r.length /\ c.rlength = r.rlength
        /\ c.stat = r.stat /\ c.lc = r.lc /\ c.rc = r.rc /\ c.wcost = r.wcost
        /\ c.type = r.type /\ c.feature = r.feature
    BY <1>0, <1>1
  <1> DEFINE z == Zeroed(c)
  <1>4. z \in NodeSet(l) /\ z.prev = 0 /\ z.cost = 0 /\ z.lpath = {}
    <2>1. 0 \in Nat /\ 0 \in Int /\ {} \in SUBSET Paths(Nat)
      OBVIOUS
    <2> QED
      BY <1>0, <1>2, <2>1 DEF Zeroed
  <1>5. /\ z.surface = r.surface /\ z.length = r.length /\ z.rlength = r.rlength
        /\ z.stat = r.stat /\ z.lc = r.lc /\ z.rc = r.rc /\ z.wcost = r.wcost
        /\ z.type = r.type /\ z.feature = r.feature
    <2>1. 0 \in Nat /\ 0 \in Int /\ {} \in SUBSET Paths(Nat)
      OBVIOUS
    <2> QED
      BY <1>0, <1>2, <1>3, <2>1 DEF Zeroed
  <1> HIDE DEF z
  <1>6. z = r
    BY <1>1, <1>4, <1>5 DEF NodeSet
  <1> QED
    BY <1>2, <1>3, <1>6 DEF Same, z

LEMMA CostOfSame ==
  ASSUME NEW c, NEW r, Same(c, r), NEW l
  PROVE  CostVia(nodes, l, c) = CostVia(nodes, l, r) /\ PathTo(nodes, l, c) = PathTo(nodes, l, r)
  BY DEF Same, CostVia, PathTo, LocalCost

LEMMA CostViaInt ==
  ASSUME matrix \in Matrices, nodes \in Seq(NodeSet(lat)), NEW l \in DOMAIN nodes,
         NEW r \in NodeSet(lat)
  PROVE  CostVia(nodes, l, r) \in Int /\ PathTo(nodes, l, r) \in [lnode : {l}, cost : Int]
  <1>1. nodes[l] \in NodeSet(lat)
    OBVIOUS
  <1>2. LocalCost(nodes[l], r) \in Int /\ nodes[l].cost \in Int
    BY <1>1, CostFacts DEF NodeSet
  <1> QED
    BY <1>2 DEF CostVia, PathTo

(* One step of connect: a right node is joined to all left nodes, at the   *)
(* cost of a cheapest; it stays unlinked if none is below the limit.       *)
LEMMA ConnectedFacts ==
  ASSUME matrix \in Matrices, nodes \in Seq(NodeSet(lat)), NEW lefts \in Seq(DOMAIN nodes),
         lefts # <<>>, NEW r \in Fresh(lat)
  PROVE  /\ Connected(nodes, r, lefts) \in NodeSet(lat)
         /\ Same(Connected(nodes, r, lefts), r)
         /\ Connected(nodes, r, lefts).lpath = {PathTo(nodes, l, r) : l \in ToSet(lefts)}
         /\ Connected(nodes, r, lefts).prev # 0 =>
              /\ Connected(nodes, r, lefts).prev \in ToSet(lefts)
              /\ Connected(nodes, r, lefts).cost = CostVia(nodes, Connected(nodes, r, lefts).prev, r)
              /\ \A l \in ToSet(lefts) : Connected(nodes, r, lefts).cost <= CostVia(nodes, l, r)
         /\ Connected(nodes, r, lefts).prev = 0 => \A l \in ToSet(lefts) : CostVia(nodes, l, r) >= CostLimit
  <1> DEFINE n == Len(lefts)
             via == [i \in 1 .. n |-> CostVia(nodes, lefts[i], r)]
             cheapest == {i \in DOMAIN lefts :
                     /\ CostVia(nodes, lefts[i], r) < CostLimit
                     /\ \A k \in DOMAIN lefts : CostVia(nodes, lefts[i], r) <= CostVia(nodes, lefts[k], r)}
             at == CHOOSE i \in cheapest : \A k \in cheapest : i <= k
             prev == IF cheapest = {} THEN 0 ELSE lefts[at]
             cost == IF cheapest = {} THEN CostLimit ELSE CostVia(nodes, lefts[at], r)
             lpath == {PathTo(nodes, lefts[i], r) : i \in DOMAIN lefts}
  <1>1. /\ n \in Nat /\ n # 0 /\ DOMAIN lefts = 1 .. n
        /\ \A i \in 1 .. n : lefts[i] \in DOMAIN nodes
    OBVIOUS
  <1>2. r \in NodeSet(lat) /\ r.cost = 0 /\ r.prev = 0 /\ r.lpath = {} /\ CostLimit \in Int
    BY MatrixAssumption DEF Fresh
  <1>3. Connected(nodes, r, lefts) = Rewire(r, prev, cost, lpath)
    BY DEF Connected, Rewire
  <1>4. \A i \in 1 .. n : CostVia(nodes, lefts[i], r) \in Int
    BY <1>1, <1>2, CostViaInt
  <1>5. ASSUME cheapest # {} PROVE at \in cheapest
    <2>1. cheapest \subseteq Nat
      BY <1>1
    <2> HIDE DEF cheapest
    <2> QED
      BY <1>5, <2>1, Smallest
  <1>6. ASSUME cheapest = {} PROVE \A l \in ToSet(lefts) : CostVia(nodes, l, r) >= CostLimit
    <2>1. via \in [1 .. n -> Int]
      BY <1>4
    <2>2. PICK i \in 1 .. n : \A j \in 1 .. n : via[i] <= via[j]
      <3> HIDE DEF via, n
      <3> QED
        BY <1>1, <2>1, Cheapest
    <2>3. \A j \in 1 .. n : via[j] = CostVia(nodes, lefts[j], r)
      OBVIOUS
    <2> HIDE DEF via, n
    <2>4. i \notin cheapest
      BY <1>6
    <2>5. ~(CostVia(nodes, lefts[i], r) < CostLimit)
      BY <1>1, <2>2, <2>3, <2>4
    <2>6. \A j \in 1 .. n : CostVia(nodes, lefts[j], r) >= CostLimit
      <3> HIDE DEF cheapest
      <3> QED
        BY <1>2, <1>4, <2>2, <2>3, <2>5
    <2> QED
      BY <1>1, <2>6 DEF ToSet
  <1>7. ASSUME cheapest # {}
        PROVE  /\ lefts[at] \in ToSet(lefts) /\ lefts[at] \in DOMAIN nodes
               /\ \A l \in ToSet(lefts) : CostVia(nodes, lefts[at], r) <= CostVia(nodes, l, r)
    <2>1. at \in DOMAIN lefts /\ \A k \in DOMAIN lefts : CostVia(nodes, lefts[at], r) <= CostVia(nodes, lefts[k], r)
      BY <1>5, <1>7
    <2> HIDE DEF at, cheapest
    <2> QED
      BY <1>1, <2>1 DEF ToSet
  <1>8. prev \in Nat /\ cost \in Int
    <2>1. cheapest # {} => lefts[at] \in Nat /\ CostVia(nodes, lefts[at], r) \in Int
      <3> HIDE DEF at, cheapest
      <3>1. cheapest # {} => lefts[at] \in DOMAIN nodes
        BY <1>7
      <3>2. DOMAIN nodes \subseteq Nat
        OBVIOUS
      <3> QED
        BY <1>2, <3>1, <3>2, CostViaInt
    <2> HIDE DEF at, cheapest
    <2> QED
      BY <1>2, <2>1
  <1>9. lpath \in SUBSET Paths(Nat)
    <2>1. ASSUME NEW i \in DOMAIN lefts PROVE PathTo(nodes, lefts[i], r) \in Paths(Nat)
      <3>1. lefts[i] \in DOMAIN nodes /\ lefts[i] \in Nat
        BY <1>1
      <3>2. PathTo(nodes, lefts[i], r) \in [lnode : {lefts[i]}, cost : Int]
        BY <1>2, <3>1, CostViaInt
      <3> QED
        BY <3>1, <3>2 DEF Paths
    <2> QED
      BY <2>1
  <1>10. lpath = {PathTo(nodes, l, r) : l \in ToSet(lefts)}
    BY DEF ToSet
  <1>11. cheapest # {} => prev # 0
    <2> HIDE DEF at, cheapest
    <2>1. cheapest # {} => lefts[at] \in DOMAIN nodes
      BY <1>7
    <2>2. 0 \notin DOMAIN nodes
      OBVIOUS
    <2> QED
      BY <2>1, <2>2
  <1> DEFINE c == Connected(nodes, r, lefts)
  <1>12. c.prev = prev /\ c.cost = cost /\ c.lpath = lpath /\ c \in NodeSet(lat) /\ Same(c, r)
    <2> HIDE DEF prev, cost, lpath
    <2>1. c = Rewire(r, prev, cost, lpath)
      BY <1>3
    <2> HIDE DEF c
    <2> QED
      BY <1>8, <1>9, <2>1, Rewired
  <1> HIDE DEF c, lpath
  <1>13. CASE cheapest = {}
    <2> HIDE DEF cheapest, at
    <2> QED
      BY <1>6, <1>10, <1>12, <1>13 DEF c
  <1>14. CASE cheapest # {}
    <2>1. prev = lefts[at] /\ cost = CostVia(nodes, lefts[at], r)
      BY <1>14
    <2> HIDE DEF cheapest, at, prev, cost
    <2> QED
      BY <1>7, <1>10, <1>11, <1>12, <1>14, <2>1 DEF c
  <1> QED
    BY <1>13, <1>14

(* The nodes filed at a position as left nodes: EOS, filed last, is none.  *)
Ends(q) == {n \in ToSet(end_node_list[q]) : nodes[n].stat # "eos"}

(* What connect leaves on a right node: one path per left node, all made   *)
(* before it, and the cheapest of the ways over them.                      *)
Joined(n, L) ==
  /\ L # {} /\ L \subseteq 1 .. n - 1
  /\ nodes[n].lpath = {PathTo(nodes, l, nodes[n]) : l \in L}
  /\ nodes[n].prev \in L
  /\ nodes[n].cost = CostVia(nodes, nodes[n].prev, nodes[n])
  /\ \A l \in L : nodes[n].cost <= CostVia(nodes, l, nodes[n])

Phases == {"start", "scan", "built", "done", "failed", "died"}

Shape ==
  /\ Lookable(lat)
  /\ pos \in 0 .. Size
  /\ nodes \in Seq(NodeSet(lat)) /\ nodes # <<>>
  /\ begin_node_list \in [Offsets(lat.sentence) -> Seq(DOMAIN nodes)]
  /\ end_node_list \in [Offsets(lat.sentence) -> Seq(DOMAIN nodes)]

BosFirst == nodes[1] = Sentinel("bos", 0) /\ Ends(0) = {1}

EosLast == \A n \in DOMAIN nodes : nodes[n].stat = "eos" <=> Finished /\ n = Len(nodes)

Filed == \A q \in 0 .. Size : \A n \in Ends(q) : EndOf(nodes[n]) = q

(* A word node is an offer of the lookup at a position already scanned,    *)
(* joined to everything that ends there.                                   *)
WordAt(n, q) ==
  /\ q \in 0 .. pos - 1
  /\ Zeroed(nodes[n]) \in ToSet(Lookup(lat, q).nodes)
  /\ Joined(n, Ends(q))

WordsJoined ==
  \A n \in DOMAIN nodes : n # 1 /\ nodes[n].stat # "eos" => WordAt(n, BeginOf(nodes[n]))

(* Every offer at a scanned position has its node where it ends.           *)
Taken(q) ==
  /\ ~Lookup(lat, q).died /\ begin_node_list[q] # <<>>
  /\ \A w \in ToSet(Lookup(lat, q).nodes) :
       EndOf(w) <= Size => \E n \in Ends(EndOf(w)) : Zeroed(nodes[n]) = w

AllTaken == \A q \in 0 .. pos - 1 : end_node_list[q] # <<>> => Taken(q)

EosJoined ==
  Finished =>
    /\ pos = Size /\ nodes[EOS].stat = "eos"
    /\ Zeroed(nodes[EOS]) = Sentinel("eos", Size)
    /\ Joined(EOS, Ends(LastEnd))

(* Where "too long sentence." is said, some right node has no way to it    *)
(* below the limit.                                                        *)
FailedAt ==
  phase = "failed" =>
    \/ /\ pos < Size /\ end_node_list[pos] # <<>>
       /\ \E w \in ToSet(Lookup(lat, pos).nodes) : \A l \in Ends(pos) : CostVia(nodes, l, w) >= CostLimit
    \/ /\ pos = Size
       /\ \A l \in Ends(LastEnd) : CostVia(nodes, l, Sentinel("eos", Size)) >= CostLimit

DiedAt == phase = "died" => pos < Size /\ Lookup(lat, pos).died

Built ==
  /\ Shape /\ BosFirst /\ EosLast /\ Filed /\ WordsJoined /\ AllTaken
  /\ EosJoined /\ FailedAt /\ DiedAt

IInv ==
  /\ input \in Inputs /\ matrix \in Matrices /\ phase \in Phases
  /\ phase = "start" => pos = 0 /\ ~lat.constrained
  /\ phase # "start" => Built

LEMMA InitInv == Init => IInv
  BY DEF Init, IInv, Phases, BareLattice

LEMMA ShapeFacts ==
  ASSUME Shape
  PROVE  /\ Size \in Nat /\ pos \in Nat /\ pos <= Size
         /\ 0 .. Size \subseteq Offsets(lat.sentence)
         /\ Len(nodes) \in Nat \ {0} /\ DOMAIN nodes = 1 .. Len(nodes)
         /\ \A q \in 0 .. Size : end_node_list[q] \in Seq(DOMAIN nodes)
  <1>1. Len(lat.sentence) \in Nat /\ Size = Len(lat.sentence)
    BY DEF Shape, Size, Lookable
  <1>2. pos \in 0 .. Size
    BY DEF Shape
  <1>3. 0 .. Size \subseteq Offsets(lat.sentence)
    BY <1>1 DEF Offsets
  <1>4. Len(nodes) \in Nat \ {0} /\ DOMAIN nodes = 1 .. Len(nodes)
    BY DEF Shape
  <1>5. \A q \in Offsets(lat.sentence) : end_node_list[q] \in Seq(DOMAIN nodes)
    BY DEF Shape
  <1>6. Size \in Nat
    BY <1>1
  <1>7. pos \in Nat /\ pos <= Size
    BY <1>2, <1>6
  <1>8. \A q \in 0 .. Size : end_node_list[q] \in Seq(DOMAIN nodes)
    BY <1>3, <1>5
  <1> QED
    BY <1>3, <1>4, <1>6, <1>7, <1>8

LEMMA EndsOfScan ==
  ASSUME EosLast, Shape, ~Finished, NEW q \in 0 .. Size
  PROVE  Ends(q) = ToSet(end_node_list[q]) /\ Ends(q) \subseteq DOMAIN nodes
  <1>1. \A n \in DOMAIN nodes : nodes[n].stat # "eos"
    BY DEF EosLast
  <1>2. end_node_list[q] \in Seq(DOMAIN nodes)
    BY ShapeFacts
  <1>3. ToSet(end_node_list[q]) \subseteq DOMAIN nodes
    BY <1>2 DEF ToSet
  <1> QED
    BY <1>1, <1>3 DEF Ends

LEMMA StartStep == ASSUME NulIsNoSpace, ShortTexts, IInv, Start PROVE IInv'
  <1>1. /\ phase = "start" /\ phase' = "scan" /\ input' = input /\ matrix' = matrix /\ pos' = pos
        /\ input \in Inputs /\ matrix \in Matrices /\ pos = 0
    BY DEF IInv, Start
  <1>2. /\ lat' = InitPartial(input) /\ nodes' = <<Sentinel("bos", 0)>>
        /\ begin_node_list' = [p \in Offsets(lat'.sentence) |-> <<>>]
        /\ end_node_list' = [p \in Offsets(lat'.sentence) |-> IF p = 0 THEN <<BOS>> ELSE <<>>]
    BY DEF Start
  <1>3. lat'.sentence \in Seq(Bytes)
    BY <1>1, <1>2, SentenceOfBytes
  <1>4. Len(lat'.sentence) \in Nat /\ Size' = Len(lat'.sentence)
    BY <1>3 DEF Size
  <1>a. Lookable(lat')
    BY <1>1, <1>2, <1>3 DEF Lookable, ShortTexts
  <1>5. /\ DOMAIN nodes' = {1} /\ Len(nodes') = 1 /\ nodes'[1] = Sentinel("bos", 0)
        /\ nodes'[1].stat = "bos" /\ EndOf(nodes'[1]) = 0
    BY <1>2, SentinelFacts DEF Sentinel, EndOf
  <1>6. nodes' \in Seq(NodeSet(lat')) /\ nodes' # <<>>
    <2>1. Sentinel("bos", 0) \in NodeSet(lat')
      BY SentinelFacts DEF Fresh
    <2> QED
      BY <1>2, <2>1
  <1>7. /\ 0 \in Offsets(lat'.sentence)
        /\ \A p \in 0 .. Size' : p \in Offsets(lat'.sentence)
    BY <1>4 DEF Offsets
  <1>8. Shape'
    <2>1. pos' \in 0 .. Size'
      BY <1>1, <1>4
    <2>2. <<>> \in Seq(DOMAIN nodes') /\ <<BOS>> \in Seq(DOMAIN nodes')
      BY <1>5 DEF BOS
    <2>3. /\ begin_node_list' \in [Offsets(lat'.sentence) -> Seq(DOMAIN nodes')]
          /\ end_node_list' \in [Offsets(lat'.sentence) -> Seq(DOMAIN nodes')]
      BY <1>2, <2>2
    <2> QED
      BY <1>a, <1>6, <2>1, <2>3 DEF Shape
  <1>9. Ends(0)' = {1} /\ \A q \in 0 .. Size' : q # 0 => Ends(q)' = {}
    <2>1. end_node_list'[0] = <<1>> /\ \A q \in 0 .. Size' : q # 0 => end_node_list'[q] = <<>>
      BY <1>2, <1>7 DEF BOS
    <2>2. ToSet(end_node_list'[0]) = {1} /\ \A q \in 0 .. Size' : q # 0 => ToSet(end_node_list'[q]) = {}
      BY <2>1, OneOrNone
    <2> QED
      BY <1>5, <2>2 DEF Ends
  <1>10. BosFirst'
    BY <1>5, <1>9 DEF BosFirst
  <1>11. ~Finished'
    BY <1>1 DEF Finished
  <1>12. EosLast'
    BY <1>5, <1>11 DEF EosLast
  <1>13. Filed'
    <2> SUFFICES ASSUME NEW q \in 0 .. Size', NEW n \in Ends(q)' PROVE EndOf(nodes'[n]) = q
      BY DEF Filed
    <2>1. q = 0 /\ n = 1
      BY <1>9
    <2> QED
      BY <1>5, <2>1
  <1>14. WordsJoined'
    BY <1>5 DEF WordsJoined
  <1>15. AllTaken'
    BY <1>1 DEF AllTaken
  <1>16. EosJoined' /\ FailedAt' /\ DiedAt'
    BY <1>1, <1>11 DEF EosJoined, FailedAt, DiedAt
  <1> QED
    BY <1>1, <1>8, <1>10, <1>12, <1>13, <1>14, <1>15, <1>16 DEF IInv, Built, Phases

LEMMA Further ==
  ASSUME NEW m \in Nat, NEW k, k = m \/ k = m + 1
  PROVE  /\ \A q \in 0 .. m - 1 : q \in 0 .. k - 1
         /\ \A q \in 0 .. k - 1 : q \in 0 .. m - 1 \/ (q = m /\ k # m)
  OBVIOUS

(* The steps that only move on: nothing is added to the lattice.           *)
LEMMA StructureKept ==
  ASSUME Built, UNCHANGED <<input, matrix, lat, nodes, begin_node_list, end_node_list>>,
         Finished' <=> Finished, pos' \in {pos, pos + 1}, pos' \in 0 .. Size,
         pos' # pos => end_node_list[pos] = <<>>
  PROVE  Shape' /\ BosFirst' /\ EosLast' /\ Filed' /\ WordsJoined' /\ AllTaken'
  <1>0. pos \in Nat /\ (pos' = pos \/ pos' = pos + 1)
    BY ShapeFacts DEF Built
  <1>a. /\ \A q \in 0 .. pos - 1 : q \in 0 .. pos' - 1
        /\ \A q \in 0 .. pos' - 1 : q \in 0 .. pos - 1 \/ (q = pos /\ pos' # pos)
    BY <1>0, Further
  <1>1. Shape' /\ Size' = Size
    BY DEF Built, Shape, Size
  <1>2. \A q : Ends(q)' = Ends(q)
    BY DEF Ends
  <1>3. BosFirst'
    BY <1>2 DEF Built, BosFirst
  <1>4. EosLast'
    BY DEF Built, EosLast
  <1>5. Filed'
    BY <1>1, <1>2 DEF Built, Filed
  <1>6. ASSUME NEW n \in DOMAIN nodes, NEW q, WordAt(n, q) PROVE WordAt(n, q)'
    <2>1. q \in 0 .. pos' - 1
      BY <1>a, <1>6 DEF WordAt
    <2>2. Lookup(lat, q)' = Lookup(lat, q)
      OBVIOUS
    <2>3. \A l, r : CostVia(nodes, l, r)' = CostVia(nodes, l, r) /\ PathTo(nodes, l, r)' = PathTo(nodes, l, r)
      BY DEF CostVia, PathTo, LocalCost
    <2>4. Joined(n, Ends(q))'
      BY <1>2, <1>6, <2>3 DEF Joined, WordAt
    <2> QED
      BY <1>6, <2>1, <2>2, <2>4 DEF WordAt
  <1>7. WordsJoined'
    <2> SUFFICES ASSUME NEW n \in DOMAIN nodes, n # 1, nodes[n].stat # "eos"
                 PROVE  WordAt(n, BeginOf(nodes[n]))'
      BY DEF WordsJoined
    <2>1. WordAt(n, BeginOf(nodes[n]))
      BY DEF Built, WordsJoined
    <2> QED
      BY <1>6, <2>1
  <1>8. AllTaken'
    <2> SUFFICES ASSUME NEW q \in 0 .. pos' - 1, end_node_list[q] # <<>> PROVE Taken(q)'
      BY DEF AllTaken
    <2>1. q \in 0 .. pos - 1
      BY <1>a
    <2>2. Taken(q)
      BY <2>1 DEF Built, AllTaken
    <2> QED
      BY <1>1, <1>2, <2>2 DEF Taken
  <1> QED
    BY <1>1, <1>3, <1>4, <1>5, <1>7, <1>8

LEMMA ScanFacts ==
  ASSUME IInv, phase = "scan"
  PROVE  /\ Built /\ Shape /\ matrix \in Matrices /\ nodes \in Seq(NodeSet(lat)) /\ ~Finished
         /\ Lookable(lat)
         /\ \A q \in 0 .. Size : Ends(q) = ToSet(end_node_list[q])
  <1>1. Built /\ Shape /\ matrix \in Matrices
    BY DEF IInv, Built
  <1>2. ~Finished
    BY DEF Finished
  <1>3. EosLast
    BY <1>1 DEF Built
  <1> QED
    BY <1>1, <1>2, <1>3, EndsOfScan DEF Shape

LEMMA SkipStep == ASSUME IInv, SkipPosition PROVE IInv'
  <1>1. /\ phase = "scan" /\ phase' = "scan" /\ pos < Size /\ end_node_list[pos] = <<>> /\ pos' = pos + 1
        /\ UNCHANGED <<input, matrix, lat, nodes, begin_node_list, end_node_list>>
        /\ input \in Inputs /\ matrix \in Matrices
    BY DEF SkipPosition, IInv
  <1>2. Built /\ Shape
    BY <1>1, ScanFacts
  <1>3. pos' \in 0 .. Size
    BY <1>1, <1>2, ShapeFacts
  <1>4. ~Finished' /\ ~Finished
    BY <1>1 DEF Finished
  <1>5. Shape' /\ BosFirst' /\ EosLast' /\ Filed' /\ WordsJoined' /\ AllTaken'
    BY <1>1, <1>2, <1>3, <1>4, StructureKept
  <1>6. EosJoined' /\ FailedAt' /\ DiedAt'
    BY <1>1, <1>4 DEF EosJoined, FailedAt, DiedAt
  <1> QED
    BY <1>1, <1>5, <1>6 DEF IInv, Built, Phases

LEMMA SameCosts ==
  ASSUME UNCHANGED <<matrix, nodes>>
  PROVE  \A l, r : CostVia(nodes, l, r)' = CostVia(nodes, l, r) /\ PathTo(nodes, l, r)' = PathTo(nodes, l, r)
  BY DEF CostVia, PathTo, LocalCost

LEMMA BuildStep == ASSUME IInv, BuildResult PROVE IInv'
  <1>1. /\ phase = "built" /\ phase' = "done"
        /\ UNCHANGED <<input, matrix, lat, nodes, begin_node_list, end_node_list, pos>>
        /\ input \in Inputs /\ matrix \in Matrices
    BY DEF BuildResult, IInv
  <1>2. Built /\ Shape
    BY <1>1 DEF IInv, Built
  <1>3. pos' \in 0 .. Size
    BY <1>1, <1>2 DEF Shape
  <1>4. Finished' /\ Finished
    BY <1>1 DEF Finished
  <1>5. Shape' /\ BosFirst' /\ EosLast' /\ Filed' /\ WordsJoined' /\ AllTaken'
    BY <1>1, <1>2, <1>3, <1>4, StructureKept
  <1>6. FailedAt' /\ DiedAt'
    BY <1>1 DEF FailedAt, DiedAt
  <1>7. EosJoined'
    <2>1. Size' = Size /\ LastEnd' = LastEnd /\ EOS' = EOS /\ \A q : Ends(q)' = Ends(q)
      BY <1>1 DEF Size, LastEnd, EOS, Ends
    <2>2. \A l, r : CostVia(nodes, l, r)' = CostVia(nodes, l, r) /\ PathTo(nodes, l, r)' = PathTo(nodes, l, r)
      BY <1>1, SameCosts
    <2>3. EosJoined
      BY <1>2 DEF Built
    <2>4. Joined(EOS, Ends(LastEnd))
      BY <1>4, <2>3 DEF EosJoined
    <2>5. Joined(EOS, Ends(LastEnd))'
      BY <1>1, <2>1, <2>2, <2>4 DEF Joined
    <2> QED
      BY <1>1, <1>4, <2>1, <2>3, <2>5 DEF EosJoined
  <1> QED
    BY <1>1, <1>5, <1>6, <1>7 DEF IInv, Built, Phases

(* Where the analysis stops short.                                         *)
LEMMA StopStep ==
  ASSUME IInv, phase = "scan", phase' \in {"failed", "died"},
         UNCHANGED <<input, matrix, lat, nodes, begin_node_list, end_node_list, pos>>,
         phase' = "died" => pos < Size /\ Lookup(lat, pos).died,
         phase' = "failed" =>
           \/ /\ pos < Size /\ end_node_list[pos] # <<>>
              /\ \E w \in ToSet(Lookup(lat, pos).nodes) : \A l \in Ends(pos) : CostVia(nodes, l, w) >= CostLimit
           \/ /\ pos = Size
              /\ \A l \in Ends(LastEnd) : CostVia(nodes, l, Sentinel("eos", Size)) >= CostLimit
  PROVE  IInv'
  <1>1. Built /\ Shape /\ ~Finished
    BY ScanFacts
  <1>2. ~Finished'
    BY DEF Finished
  <1>3. pos' \in 0 .. Size
    BY <1>1 DEF Shape
  <1>4. Shape' /\ BosFirst' /\ EosLast' /\ Filed' /\ WordsJoined' /\ AllTaken'
    BY <1>1, <1>2, <1>3, StructureKept
  <1>5. Size' = Size /\ LastEnd' = LastEnd /\ \A q : Ends(q)' = Ends(q)
    BY DEF Size, LastEnd, Ends
  <1>6. \A l, r : CostVia(nodes, l, r)' = CostVia(nodes, l, r)
    BY SameCosts
  <1>7. DiedAt'
    BY <1>5 DEF DiedAt
  <1>8. FailedAt'
    BY <1>5, <1>6 DEF FailedAt
  <1>9. EosJoined'
    BY <1>2 DEF EosJoined
  <1> QED
    BY <1>4, <1>7, <1>8, <1>9 DEF IInv, Built, Phases

(* None of the words of a lookup is filed where it begins, so what is made *)
(* of one does not show in the next.                                       *)
LEMMA ConnectedSame ==
  ASSUME NEW ns, NEW ms, NEW r, NEW Y, NEW lefts, lefts \in Seq(Y),
         \A i \in DOMAIN lefts : ns[lefts[i]] = ms[lefts[i]]
  PROVE  Connected(ns, r, lefts) = Connected(ms, r, lefts)
  <1> DEFINE I == DOMAIN lefts
             cheapest(us) == {i \in I : /\ CostVia(us, lefts[i], r) < CostLimit
                                        /\ \A k \in I : CostVia(us, lefts[i], r) <= CostVia(us, lefts[k], r)}
             best(us) == CHOOSE i \in cheapest(us) : \A k \in cheapest(us) : i <= k
             lpath(us) == {PathTo(us, lefts[i], r) : i \in I}
             prev(us) == IF cheapest(us) = {} THEN 0 ELSE lefts[best(us)]
             cost(us) == IF cheapest(us) = {} THEN CostLimit ELSE CostVia(us, lefts[best(us)], r)
  <1>1. \A i \in I : CostVia(ns, lefts[i], r) = CostVia(ms, lefts[i], r)
    BY DEF CostVia
  <1>2. \A i \in I : PathTo(ns, lefts[i], r) = PathTo(ms, lefts[i], r)
    BY DEF PathTo
  <1>3. cheapest(ns) = cheapest(ms)
    BY <1>1
  <1>4. lpath(ns) = lpath(ms)
    BY <1>2
  <1>5. \A us : Connected(us, r, lefts) = Rewire(r, prev(us), cost(us), lpath(us))
    BY DEF Connected, Rewire
  <1>6. best(ns) = best(ms)
    <2> HIDE DEF cheapest
    <2> QED
      BY <1>3
  <1>7. cheapest(ns) # {} => best(ns) \in I
    <2>1. cheapest(ns) \subseteq I /\ I \subseteq Nat
      OBVIOUS
    <2>2. ASSUME cheapest(ns) # {} PROVE \E i \in cheapest(ns) : \A k \in cheapest(ns) : i <= k
      <3> HIDE DEF cheapest, I
      <3> QED
        BY <2>1, <2>2, Smallest
    <2> HIDE DEF cheapest, I
    <2> QED
      BY <2>1, <2>2
  <1> HIDE DEF cheapest, best, lpath, I
  <1>8. prev(ns) = prev(ms) /\ cost(ns) = cost(ms)
    BY <1>1, <1>3, <1>6, <1>7
  <1> QED
    BY <1>4, <1>5, <1>8

LEMMA LinkedEach ==
  ASSUME nodes \in Seq(NodeSet(lat)), NEW lefts \in Seq(DOMAIN nodes), NEW X,
         NEW rnodes \in Seq(X), \A x \in X : x.rlength # 0
  PROVE  Linked(rnodes, lefts) = [i \in 1 .. Len(rnodes) |-> Connected(nodes, rnodes[i], lefts)]
  <1> DEFINE n == Len(rnodes)
             made(i) == Connected(nodes, rnodes[i], lefts)
             upTo(k) == [linked |-> [i \in 1 .. k |-> made(i)], lefts |-> lefts]
             g == [k \in 0 .. n |-> upTo(k)]
             first == [linked |-> <<>>, lefts |-> lefts]
             Body(t) == [i \in 0 .. n |-> IF i = 0 THEN first ELSE LinkStep(t[i - 1], rnodes[i])]
             f == CHOOSE t : t = Body(t)
             M == {made(i) : i \in 1 .. n}
  <1>0. Linked(rnodes, lefts) = f[n].linked
    BY DEF Linked
  <1>1. n \in Nat /\ \A i \in 1 .. n : rnodes[i] \in X
    OBVIOUS
  <1>2. upTo(0) = first
    OBVIOUS
  <1>3. ASSUME NEW k \in 1 .. n PROVE LinkStep(upTo(k - 1), rnodes[k]) = upTo(k)
    <2> DEFINE before == [i \in 1 .. k - 1 |-> made(i)]
               ns == nodes \o before
    <2>1. before \in Seq(M) /\ Len(before) = k - 1
      <3>1. \A i \in 1 .. k - 1 : made(i) \in M
        BY <1>1
      <3> HIDE DEF made, M
      <3> QED
        BY <1>1, <3>1
    <2> HIDE DEF before
    <2>2. \A l \in DOMAIN nodes : ns[l] = nodes[l]
      BY <2>1
    <2>3. \A i \in DOMAIN lefts : ns[lefts[i]] = nodes[lefts[i]]
      BY <2>2
    <2> HIDE DEF ns
    <2>4. Connected(ns, rnodes[k], lefts) = made(k)
      <3>1. PICK us, ms, r : us = ns /\ ms = nodes /\ r = rnodes[k]
        OBVIOUS
      <3>2. lefts \in Seq(DOMAIN nodes)
        OBVIOUS
      <3>3. \A i \in DOMAIN lefts : us[lefts[i]] = ms[lefts[i]]
        BY <2>3, <3>1
      <3>4. Connected(us, r, lefts) = Connected(ms, r, lefts)
        BY <3>2, <3>3, ConnectedSame
      <3> QED
        BY <3>1, <3>4
    <2>5. rnodes[k].rlength # 0
      BY <1>1
    <2>6. LinkStep(upTo(k - 1), rnodes[k]) =
            [linked |-> Append(before, Connected(ns, rnodes[k], lefts)), lefts |-> lefts]
      BY <2>5 DEF LinkStep, before, ns
    <2>7. Append(before, made(k)) = [i \in 1 .. k |-> made(i)]
      <3>1. made(k) \in M
        OBVIOUS
      <3>2. \A i \in 1 .. k - 1 : before[i] = made(i)
        BY DEF before
      <3> HIDE DEF made, M
      <3>3. /\ Append(before, made(k)) \in Seq(M) /\ Len(Append(before, made(k))) = k
            /\ \A i \in 1 .. k : Append(before, made(k))[i] = made(i)
        BY <1>1, <2>1, <3>1, <3>2
      <3>4. \A s \in Seq(M) : Len(s) = k => s = [i \in 1 .. k |-> s[i]]
        OBVIOUS
      <3> QED
        BY <3>3, <3>4
    <2> HIDE DEF made
    <2> QED
      BY <2>4, <2>6, <2>7
  <1> HIDE DEF M, made
  <1>4. g = Body(g)
    <2>1. ASSUME NEW k \in 0 .. n
          PROVE  upTo(k) = IF k = 0 THEN first ELSE LinkStep(g[k - 1], rnodes[k])
      <3>1. CASE k = 0
        BY <1>2, <3>1
      <3>2. CASE k # 0
        <4>1. k \in 1 .. n /\ k - 1 \in 0 .. n
          BY <1>1, <3>2
        <4>2. g[k - 1] = upTo(k - 1)
          BY <4>1
        <4> HIDE DEF g, upTo, n
        <4> QED
          BY <1>3, <3>2, <4>1, <4>2
      <3> QED
        BY <3>1, <3>2
    <2> HIDE DEF upTo, first
    <2> QED
      BY <2>1
  <1> HIDE DEF g, f, first, upTo
  <1>5. f = Body(f)
    <2>1. \E t : t = Body(t)
      BY <1>4
    <2> HIDE DEF Body
    <2> QED
      BY <2>1, Zenon DEF f
  <1>6. \A k \in 0 .. n : f[k] = Body(f)[k]
    BY <1>5, Zenon
  <1> DEFINE P == {k \in 0 .. n : f[k] = upTo(k)}
  <1>7. \A k \in 0 .. n : k \in P
    <2>1. 0 \in P
      <3>1. 0 \in 0 .. n
        BY <1>1
      <3>2. f[0] = first
        BY <1>6, <3>1
      <3> HIDE DEF n
      <3> QED
        BY <1>2, <3>1, <3>2
    <2>2. ASSUME NEW k \in 1 .. n, k - 1 \in P PROVE k \in P
      <3>1. k \in 0 .. n /\ k # 0
        BY <1>1
      <3>2. f[k] = LinkStep(f[k - 1], rnodes[k])
        BY <1>6, <3>1
      <3> HIDE DEF n, Body
      <3> QED
        BY <1>3, <2>2, <3>1, <3>2
    <2> HIDE DEF P, n
    <2>3. 0 .. n \subseteq P
      BY <1>1, <2>1, <2>2, UpTo
    <2> QED
      BY <2>3
  <1>8. f[n] = upTo(n)
    <2>1. n \in P
      <3> HIDE DEF P, n
      <3> QED
        BY <1>1, <1>7
    <2> HIDE DEF n, Body
    <2> QED
      BY <2>1
  <1> HIDE DEF n
  <1> QED
    BY <1>0, <1>8 DEF upTo, made, n

(* What connect makes of the words of a lookup.                            *)
LEMMA LinkedFacts ==
  ASSUME IInv, phase = "scan", pos < Size, end_node_list[pos] # <<>>,
         NEW found, found = Lookup(lat, pos)
  PROVE  /\ Offers(lat, pos, found)
         /\ Len(found.nodes) \in Nat /\ DOMAIN found.nodes = 1 .. Len(found.nodes)
         /\ DOMAIN Linked(found.nodes, end_node_list[pos]) = 1 .. Len(found.nodes)
         /\ Linked(found.nodes, end_node_list[pos]) =
              [i \in 1 .. Len(found.nodes) |-> Linked(found.nodes, end_node_list[pos])[i]]
         /\ \A i \in 1 .. Len(found.nodes) :
              LET r == found.nodes[i]
                  c == Linked(found.nodes, end_node_list[pos])[i]
              IN  /\ r \in Candidates(lat, pos) /\ c \in NodeSet(lat) /\ Same(c, r)
                  /\ c.lpath = {PathTo(nodes, l, r) : l \in Ends(pos)}
                  /\ c.prev # 0 => /\ c.prev \in Ends(pos) /\ c.cost = CostVia(nodes, c.prev, r)
                                   /\ \A l \in Ends(pos) : c.cost <= CostVia(nodes, l, r)
                  /\ c.prev = 0 => \A l \in Ends(pos) : CostVia(nodes, l, r) >= CostLimit
  <1>1. /\ Built /\ Shape /\ matrix \in Matrices /\ nodes \in Seq(NodeSet(lat))
        /\ Lookable(lat) /\ \A q \in 0 .. Size : Ends(q) = ToSet(end_node_list[q])
    BY ScanFacts
  <1>2. pos \in Nat /\ pos \in 0 .. Size /\ Size = Len(lat.sentence) /\ end_node_list[pos] \in Seq(DOMAIN nodes)
    BY <1>1, ShapeFacts DEF Size
  <1>3. Offers(lat, pos, found)
    BY <1>1, <1>2, LookupFacts
  <1>4. found.nodes \in Seq(Candidates(lat, pos))
    BY <1>3 DEF Offers
  <1> DEFINE lefts == end_node_list[pos]
             linked == Linked(found.nodes, lefts)
  <1>5. /\ Len(found.nodes) \in Nat /\ DOMAIN found.nodes = 1 .. Len(found.nodes)
        /\ \A i \in 1 .. Len(found.nodes) : found.nodes[i] \in Candidates(lat, pos)
    BY <1>4
  <1>6. linked = [i \in 1 .. Len(found.nodes) |-> Connected(nodes, found.nodes[i], lefts)]
    <2>1. \A w \in Candidates(lat, pos) : w.rlength # 0
      BY <1>2, CandidateFacts
    <2>2. lefts \in Seq(DOMAIN nodes)
      BY <1>2
    <2> HIDE DEF lefts
    <2> QED
      BY <1>1, <1>4, <2>1, <2>2, LinkedEach
  <1>9. linked = [i \in 1 .. Len(found.nodes) |-> linked[i]]
    <2> HIDE DEF linked
    <2> QED
      BY <1>6
  <1>a. /\ DOMAIN linked = 1 .. Len(found.nodes)
        /\ \A i \in 1 .. Len(found.nodes) : linked[i] = Connected(nodes, found.nodes[i], lefts)
    <2> HIDE DEF linked
    <2> QED
      BY <1>6
  <1>7. Ends(pos) = ToSet(lefts) /\ lefts \in Seq(DOMAIN nodes) /\ lefts # <<>>
    BY <1>1, <1>2
  <1> HIDE DEF lefts
  <1>8. ASSUME NEW i \in 1 .. Len(found.nodes)
        PROVE  LET r == found.nodes[i]
                   c == linked[i]
               IN  /\ r \in Candidates(lat, pos) /\ c \in NodeSet(lat) /\ Same(c, r)
                   /\ c.lpath = {PathTo(nodes, l, r) : l \in Ends(pos)}
                   /\ c.prev # 0 => /\ c.prev \in Ends(pos) /\ c.cost = CostVia(nodes, c.prev, r)
                                    /\ \A l \in Ends(pos) : c.cost <= CostVia(nodes, l, r)
                   /\ c.prev = 0 => \A l \in Ends(pos) : CostVia(nodes, l, r) >= CostLimit
    <2> DEFINE r == found.nodes[i]
    <2>1. r \in Candidates(lat, pos) /\ linked[i] = Connected(nodes, r, lefts)
      BY <1>5, <1>a
    <2>2. r \in Fresh(lat)
      BY <1>2, <2>1, CandidateFacts
    <2> HIDE DEF r, linked
    <2>3. /\ Connected(nodes, r, lefts) \in NodeSet(lat)
          /\ Same(Connected(nodes, r, lefts), r)
          /\ Connected(nodes, r, lefts).lpath = {PathTo(nodes, l, r) : l \in ToSet(lefts)}
          /\ Connected(nodes, r, lefts).prev # 0 =>
               /\ Connected(nodes, r, lefts).prev \in ToSet(lefts)
               /\ Connected(nodes, r, lefts).cost = CostVia(nodes, Connected(nodes, r, lefts).prev, r)
               /\ \A l \in ToSet(lefts) : Connected(nodes, r, lefts).cost <= CostVia(nodes, l, r)
          /\ Connected(nodes, r, lefts).prev = 0 => \A l \in ToSet(lefts) : CostVia(nodes, l, r) >= CostLimit
      BY <1>1, <1>7, <2>2, ConnectedFacts
    <2> QED
      BY <1>7, <2>1, <2>3 DEF r
  <1> QED
    BY <1>3, <1>5, <1>9, <1>a, <1>8 DEF lefts

(* Filing new nodes at the front of a list.                                *)
LEMMA SeqGrows ==
  ASSUME NEW N \in Nat, NEW m \in Nat, NEW s \in Seq(1 .. N)
  PROVE  s \in Seq(1 .. N + m)
  OBVIOUS

Shifted(N, P) == {N + i : i \in P}

AreSlots(ss, m, N, P) ==
  /\ P \subseteq 1 .. m
  /\ ss \in [1 .. m -> Seq(1 .. N + m)]
  /\ \A i \in P : ss[i] = <<N + i>>
  /\ \A i \in (1 .. m) \ P : ss[i] = <<>>

(* What is filed: new nodes N + 1 .. N + m, those of P, before the list s. *)
IsFiling(ss, m, N, P, s) ==
  m \in Nat /\ N \in Nat /\ s \in Seq(1 .. N) /\ AreSlots(ss, m, N, P)

LEMMA FiledInFront ==
  ASSUME NEW m, NEW N, NEW P, NEW s, NEW ss, IsFiling(ss, m, N, P, s)
  PROVE  /\ Reverse(FlattenSeq(ss)) \o s \in Seq(1 .. N + m)
         /\ ToSet(Reverse(FlattenSeq(ss)) \o s) = ToSet(s) \cup Shifted(N, P)
  <1>0. m \in Nat /\ N \in Nat /\ s \in Seq(1 .. N) /\ AreSlots(ss, m, N, P)
    BY DEF IsFiling
  <1> DEFINE X == 1 .. N + m
             flat == FlattenSeq(ss)
  <1>1. \A i \in 1 .. m : ToSet(ss[i]) = IF i \in P THEN {N + i} ELSE {}
    BY <1>0, OneOrNone DEF AreSlots
  <1>2. s \in Seq(X)
    BY <1>0, SeqGrows
  <1> HIDE DEF X
  <1>3. flat \in Seq(X) /\ ToSet(flat) = UNION {ToSet(ss[i]) : i \in 1 .. m}
    <2>1. m \in Nat /\ ss \in [1 .. m -> Seq(X)]
      BY <1>0 DEF X, AreSlots
    <2> QED
      BY <2>1, Picked
  <1>4. ToSet(flat) = {N + i : i \in P}
    <2>1. ASSUME NEW x \in ToSet(flat) PROVE x \in {N + i : i \in P}
      <3>1. PICK i \in 1 .. m : x \in ToSet(ss[i])
        BY <1>3, <2>1
      <3> QED
        BY <1>1, <3>1
    <2>2. ASSUME NEW i \in P PROVE N + i \in ToSet(flat)
      <3>1. i \in 1 .. m /\ N + i \in ToSet(ss[i])
        BY <1>0, <1>1 DEF AreSlots
      <3> HIDE DEF flat
      <3> QED
        BY <1>3, <3>1
    <2> HIDE DEF flat
    <2> QED
      BY <2>1, <2>2
  <1> HIDE DEF flat
  <1>5. Reverse(flat) \in Seq(X) /\ ToSet(Reverse(flat)) = {N + i : i \in P}
    BY <1>3, <1>4, ReverseFacts
  <1>6. /\ Reverse(flat) \o s \in Seq(X)
        /\ ToSet(Reverse(flat) \o s) = ToSet(Reverse(flat)) \cup ToSet(s)
    BY <1>2, <1>5, ConcatSet
  <1> QED
    BY <1>5, <1>6 DEF X, flat, Shifted

(* A node d at n is joined to L after the step.                            *)
Rejoins(n, L, d) ==
  /\ nodes'[n] = d /\ L # {} /\ L \subseteq 1 .. n - 1
  /\ d.lpath = {PathTo(nodes, l, d)' : l \in L} /\ d.prev \in L
  /\ \A l \in L : l = d.prev => d.cost = CostVia(nodes, l, d)'
  /\ \A l \in L : d.cost <= CostVia(nodes, l, d)'

LEMMA JoinedAgain == ASSUME NEW n, NEW L, NEW d, Rejoins(n, L, d) PROVE Joined(n, L)'
  BY DEF Rejoins, Joined, PathTo, CostVia, LocalCost

(* Paths and costs that stay what they were.                               *)
LEMMA PathsStay ==
  ASSUME NEW L, NEW d, NEW r,
         \A l \in L : CostVia(nodes, l, d)' = CostVia(nodes, l, r) /\ PathTo(nodes, l, d)' = PathTo(nodes, l, r)
  PROVE  {PathTo(nodes, l, d)' : l \in L} = {PathTo(nodes, l, r) : l \in L}
  <1> DEFINE A == {PathTo(nodes, l, r) : l \in L}
             B == {PathTo(nodes, l, d)' : l \in L}
  <1>1. ASSUME NEW x \in A PROVE x \in B
    <2>1. PICK l \in L : x = PathTo(nodes, l, r)
      OBVIOUS
    <2> QED
      BY <2>1
  <1>2. ASSUME NEW x \in B PROVE x \in A
    <2>1. PICK l \in L : x = PathTo(nodes, l, d)'
      OBVIOUS
    <2> QED
      BY <2>1
  <1> HIDE DEF A, B
  <1>3. A = B
    BY <1>1, <1>2
  <1> QED
    BY <1>3 DEF A, B

LEMMA Concatenated ==
  ASSUME NEW X, NEW s \in Seq(X), NEW t \in Seq(X), NEW u, u = s \o t
  PROVE  /\ u \in Seq(X) /\ Len(u) = Len(s) + Len(t) /\ DOMAIN u = 1 .. Len(s) + Len(t)
         /\ \A n \in 1 .. Len(s) : u[n] = s[n]
         /\ \A i \in 1 .. Len(t) : u[Len(s) + i] = t[i]
  OBVIOUS

LEMMA NonEmpty ==
  ASSUME NEW X, NEW s \in Seq(X)
  PROVE  s # <<>> <=> ToSet(s) # {}
  <1>1. CASE Len(s) = 0
    <2>1. s = <<>>
      BY <1>1
    <2> QED
      BY <2>1, OneOrNone
  <1>2. CASE Len(s) # 0
    <2>1. 1 \in DOMAIN s /\ s # <<>>
      BY <1>2
    <2> QED
      BY <2>1 DEF ToSet
  <1> QED
    BY <1>1, <1>2

(* A word node keeps its place while the nodes before it stay.             *)
LEMMA WordKept ==
  ASSUME NEW n, NEW q, NEW L, WordAt(n, q), Ends(q) = L, Ends(q)' = L, q \in 0 .. pos' - 1,
         lat' = lat, matrix' = matrix, nodes'[n] = nodes[n], \A l \in L : nodes'[l] = nodes[l]
  PROVE  WordAt(n, q)'
  <1>1. PICK d : d = nodes[n]
    OBVIOUS
  <1>2. \A l \in L : CostVia(nodes, l, d)' = CostVia(nodes, l, d) /\ PathTo(nodes, l, d)' = PathTo(nodes, l, d)
    BY DEF CostVia, PathTo, LocalCost
  <1>3. Joined(n, L)
    BY DEF WordAt
  <1>4. /\ L # {} /\ L \subseteq 1 .. n - 1
        /\ d.lpath = {PathTo(nodes, l, d) : l \in L} /\ d.prev \in L
        /\ d.cost = CostVia(nodes, d.prev, d) /\ \A l \in L : d.cost <= CostVia(nodes, l, d)
    BY <1>1, <1>3 DEF Joined
  <1>5. nodes'[n] = d
    BY <1>1
  <1>6. /\ d.lpath = {PathTo(nodes, l, d)' : l \in L}
        /\ \A l \in L : l = d.prev => d.cost = CostVia(nodes, l, d)'
        /\ \A l \in L : d.cost <= CostVia(nodes, l, d)'
    <2>1. {PathTo(nodes, l, d)' : l \in L} = {PathTo(nodes, l, d) : l \in L}
      BY <1>2, PathsStay
    <2> QED
      BY <1>2, <1>4, <2>1
  <1>7. Joined(n, L)'
    <2>1. Rejoins(n, L, d)
      BY <1>4, <1>5, <1>6 DEF Rejoins
    <2> QED
      BY <2>1, JoinedAgain
  <1>8. Joined(n, Ends(q))'
    BY <1>7 DEF Joined
  <1> QED
    BY <1>8 DEF WordAt

(* What connect files among the nodes that end at a position: the new ones *)
(* that end there, before the ones it had.                                 *)
EndingAt(linked, m, x) == {j \in 1 .. m : linked[j].rlength + pos = x}

LEMMA EndsGrow ==
  ASSUME Shape, NEW m \in Nat, NEW linked, DOMAIN linked = 1 .. m, Connect(pos, linked),
         NEW x \in Offsets(lat.sentence)
  PROVE  /\ end_node_list'[x] \in Seq(1 .. Len(nodes) + m)
         /\ ToSet(end_node_list'[x]) =
              ToSet(end_node_list[x]) \cup Shifted(Len(nodes), EndingAt(linked, m, x))
  <1> DEFINE N == Len(nodes)
             ss == [i \in 1 .. m |-> IF linked[i].rlength + pos = x THEN <<N + i>> ELSE <<>>]
             P == {j \in 1 .. m : linked[j].rlength + pos = x}
  <1>1. N \in Nat /\ DOMAIN nodes = 1 .. N
    BY ShapeFacts
  <1>2. end_node_list[x] \in Seq(1 .. N) /\ x \in DOMAIN end_node_list
    BY <1>1 DEF Shape
  <1>3. end_node_list'[x] = Reverse(FlattenSeq(ss)) \o end_node_list[x]
    BY <1>2 DEF Connect
  <1> HIDE DEF N
  <1>4. /\ \A i \in P : ss[i] = <<N + i>>
        /\ \A i \in (1 .. m) \ P : ss[i] = <<>>
    OBVIOUS
  <1>5. ss \in [1 .. m -> Seq(1 .. N + m)]
    <2>1. ASSUME NEW i \in 1 .. m PROVE ss[i] \in Seq(1 .. N + m)
      <3>1. N + i \in 1 .. N + m
        BY <1>1
      <3>2. <<N + i>> \in Seq(1 .. N + m) /\ <<>> \in Seq(1 .. N + m)
        BY <3>1
      <3>3. ss[i] = <<N + i>> \/ ss[i] = <<>>
        OBVIOUS
      <3> QED
        BY <3>2, <3>3
    <2> QED
      BY <2>1
  <1>6. P \in SUBSET (1 .. m)
    OBVIOUS
  <1> HIDE DEF ss, P
  <1>7. AreSlots(ss, m, N, P)
    BY <1>4, <1>5, <1>6 DEF AreSlots
  <1>8. PICK s : s = end_node_list[x]
    OBVIOUS
  <1>9. IsFiling(ss, m, N, P, s)
    BY <1>1, <1>2, <1>7, <1>8 DEF IsFiling
  <1>10. /\ Reverse(FlattenSeq(ss)) \o s \in Seq(1 .. N + m)
         /\ ToSet(Reverse(FlattenSeq(ss)) \o s) = ToSet(s) \cup Shifted(N, P)
    BY <1>9, FiledInFront
  <1> QED
    BY <1>3, <1>8, <1>10 DEF N, P, EndingAt

LEMMA ConnectStep ==
  ASSUME IInv, phase = "scan", pos < Size, end_node_list[pos] # <<>>,
         ~Lookup(lat, pos).died,
         Connect(pos, Linked(Lookup(lat, pos).nodes, end_node_list[pos])),
         pos' = pos + 1, UNCHANGED <<input, matrix, phase, lat>>
  PROVE  IInv'
  <1> DEFINE found == Lookup(lat, pos)
             linked == Linked(found.nodes, end_node_list[pos])
             N == Len(nodes)
             m == Len(found.nodes)
  <1>1. /\ Built /\ Shape /\ matrix \in Matrices /\ nodes \in Seq(NodeSet(lat)) /\ ~Finished
        /\ Lookable(lat) /\ \A q \in 0 .. Size : Ends(q) = ToSet(end_node_list[q])
    BY ScanFacts
  <1>2. /\ pos \in Nat /\ Size \in Nat /\ pos \in 0 .. Size /\ 0 .. Size \subseteq Offsets(lat.sentence)
        /\ N \in Nat \ {0} /\ DOMAIN nodes = 1 .. N
    BY <1>1, ShapeFacts
  <1>3. /\ Offers(lat, pos, found) /\ m \in Nat /\ DOMAIN found.nodes = 1 .. m
        /\ DOMAIN linked = 1 .. m
        /\ \A i \in 1 .. m :
              LET r == found.nodes[i]
                  c == linked[i]
              IN  /\ r \in Candidates(lat, pos) /\ c \in NodeSet(lat) /\ Same(c, r)
                  /\ c.lpath = {PathTo(nodes, l, r) : l \in Ends(pos)}
                  /\ c.prev # 0 => /\ c.prev \in Ends(pos) /\ c.cost = CostVia(nodes, c.prev, r)
                                   /\ \A l \in Ends(pos) : c.cost <= CostVia(nodes, l, r)
                  /\ c.prev = 0 => \A l \in Ends(pos) : CostVia(nodes, l, r) >= CostLimit
    BY LinkedFacts
  <1>4. m # 0
    <2>1. found.nodes # <<>> /\ found.nodes \in Seq(Candidates(lat, pos))
      BY <1>3 DEF Offers
    <2> QED
      BY <2>1
  <1>5. linked \in Seq(NodeSet(lat)) /\ Len(linked) = m
    <2>1. linked = [i \in 1 .. m |-> linked[i]]
      BY LinkedFacts
    <2> HIDE DEF linked, found, m
    <2>2. linked \in [1 .. m -> NodeSet(lat)]
      BY <1>3, <2>1
    <2> QED
      BY <1>3, <2>2
  <1>6. /\ nodes' = nodes \o linked
        /\ begin_node_list' = [begin_node_list EXCEPT ![pos] = [i \in DOMAIN linked |-> Len(nodes) + i]]
        /\ end_node_list' =
             [x \in DOMAIN end_node_list |->
                LET ends == FlattenSeq([i \in DOMAIN linked |->
                                          IF linked[i].rlength + pos = x THEN <<Len(nodes) + i>> ELSE <<>>])
                IN  Reverse(ends) \o end_node_list[x]]
        /\ \A i \in DOMAIN linked : linked[i].prev # 0
    BY DEF Connect
  <1> HIDE DEF linked, found, m
  <1>7. /\ nodes' \in Seq(NodeSet(lat)) /\ Len(nodes') = N + m /\ DOMAIN nodes' = 1 .. N + m
        /\ \A n \in 1 .. N : nodes'[n] = nodes[n]
        /\ \A i \in 1 .. m : nodes'[N + i] = linked[i]
    <2>1. nodes' = nodes \o linked
      BY <1>6
    <2> QED
      BY <1>1, <1>5, <2>1, Concatenated
  <1> HIDE DEF N
  <1>8. ASSUME NEW i \in 1 .. m
        PROVE  /\ linked[i].stat \in {"nor", "unk"} /\ linked[i].rlength \in Nat \ {0}
               /\ BeginOf(linked[i]) = pos /\ EndOf(linked[i]) = linked[i].rlength + pos
               /\ Zeroed(linked[i]) = found.nodes[i] /\ EndOf(found.nodes[i]) = EndOf(linked[i])
    <2>1. found.nodes[i] \in Candidates(lat, pos) /\ Same(linked[i], found.nodes[i])
      BY <1>3
    <2>2. LET r == found.nodes[i]
          IN  /\ r.stat \in {"nor", "unk"} /\ r.rlength \in Nat \ {0}
              /\ BeginOf(r) = pos /\ EndOf(r) = pos + r.rlength
      BY <1>2, <2>1, CandidateFacts
    <2>3. BeginOf(linked[i]) = BeginOf(found.nodes[i]) /\ EndOf(linked[i]) = EndOf(found.nodes[i])
      BY <2>1 DEF Same, BeginOf, EndOf
    <2> QED
      BY <1>2, <2>1, <2>2, <2>3 DEF Same
  <1> DEFINE New(x) == {N + i : i \in {j \in 1 .. m : linked[j].rlength + pos = x}}
  <1>9. ASSUME NEW x \in Offsets(lat.sentence)
        PROVE  /\ end_node_list'[x] \in Seq(1 .. N + m)
               /\ ToSet(end_node_list'[x]) = ToSet(end_node_list[x]) \cup New(x)
    <2>1. Connect(pos, linked) /\ DOMAIN linked = 1 .. m /\ m \in Nat
      BY <1>3 DEF linked, found
    <2>2. New(x) = Shifted(N, EndingAt(linked, m, x))
      BY DEF Shifted, EndingAt
    <2> HIDE DEF New
    <2>3. /\ end_node_list'[x] \in Seq(1 .. N + m)
          /\ ToSet(end_node_list'[x]) = ToSet(end_node_list[x]) \cup Shifted(N, EndingAt(linked, m, x))
      BY <1>1, <2>1, EndsGrow DEF N
    <2> QED
      BY <2>2, <2>3
  <1>10. Size' = Size /\ pos' = pos + 1 /\ lat' = lat /\ matrix' = matrix
    BY DEF Size
  <1>11. ASSUME NEW x \in 0 .. Size
         PROVE  Ends(x)' = Ends(x) \cup New(x) /\ Ends(x) \subseteq 1 .. N
    <2>1. Ends(x) = ToSet(end_node_list[x]) /\ x \in Offsets(lat.sentence)
      BY <1>1, <1>2
    <2>2. Ends(x) \subseteq 1 .. N
      BY <1>1, <1>2, EndsOfScan DEF Built
    <2>3. \A n \in Ends(x) : nodes'[n].stat # "eos"
      BY <1>7, <2>2 DEF Ends
    <2>4. \A n \in New(x) : nodes'[n].stat # "eos"
      BY <1>7, <1>8
    <2>5. ToSet(end_node_list'[x]) = Ends(x) \cup New(x)
      BY <1>9, <2>1
    <2> HIDE DEF New
    <2> QED
      BY <2>2, <2>3, <2>4, <2>5 DEF Ends
  <1>12. \A x \in 0 .. pos : New(x) = {}
    BY <1>2, <1>8
  <1>13. \A x \in 0 .. pos : x \in 0 .. Size /\ Ends(x)' = Ends(x) /\ Ends(x) \subseteq 1 .. N
    <2> HIDE DEF New
    <2>1. \A x \in 0 .. pos : x \in 0 .. Size
      BY <1>2
    <2> QED
      BY <1>11, <1>12, <2>1
  <1>14. \A l \in 1 .. N : \A r : CostVia(nodes, l, r)' = CostVia(nodes, l, r) /\ PathTo(nodes, l, r)' = PathTo(nodes, l, r)
    BY <1>7, <1>10 DEF CostVia, PathTo, LocalCost
  <1>15. Shape'
    <2>1. pos' \in 0 .. Size'
      BY <1>2, <1>10
    <2>2. \A x \in Offsets(lat.sentence) : begin_node_list'[x] \in Seq(1 .. N + m)
      <3>1. [i \in 1 .. m |-> N + i] \in Seq(1 .. N + m)
        <4>1. [i \in 1 .. m |-> N + i] \in [1 .. m -> 1 .. N + m]
          BY <1>2, <1>3
        <4> QED
          BY <1>3, <4>1
      <3>2. begin_node_list \in [Offsets(lat.sentence) -> Seq(1 .. N)]
        BY <1>1, <1>2 DEF Shape
      <3>3. \A s \in Seq(1 .. N) : s \in Seq(1 .. N + m)
        BY <1>2, <1>3, SeqGrows
      <3>4. begin_node_list' = [begin_node_list EXCEPT ![pos] = [i \in 1 .. m |-> N + i]]
        BY <1>3, <1>6 DEF N
      <3> QED
        BY <3>1, <3>2, <3>3, <3>4
    <2>3. /\ begin_node_list' = [x \in Offsets(lat.sentence) |-> begin_node_list'[x]]
          /\ end_node_list' = [x \in Offsets(lat.sentence) |-> end_node_list'[x]]
      <3>1. DOMAIN begin_node_list = Offsets(lat.sentence) /\ DOMAIN end_node_list = Offsets(lat.sentence)
        BY <1>1 DEF Shape
      <3> QED
        BY <1>6, <3>1
    <2>4. /\ begin_node_list' \in [Offsets(lat.sentence) -> Seq(1 .. N + m)]
          /\ end_node_list' \in [Offsets(lat.sentence) -> Seq(1 .. N + m)]
      BY <1>9, <2>2, <2>3
    <2>5. nodes' # <<>>
      BY <1>2, <1>3, <1>7
    <2> QED
      BY <1>1, <1>7, <1>10, <2>1, <2>4, <2>5 DEF Shape
  <1>16. BosFirst'
    <2>1. 0 \in 0 .. pos /\ 1 \in 1 .. N
      BY <1>2
    <2> QED
      BY <1>1, <1>7, <1>13, <2>1 DEF Built, BosFirst
  <1>17. EosLast'
    <2>1. ~Finished'
      BY DEF Finished
    <2>2. \A n \in 1 .. N : nodes[n].stat # "eos"
      BY <1>1, <1>2 DEF Built, EosLast
    <2>3. \A n \in 1 .. N + m : n \in 1 .. N \/ \E i \in 1 .. m : n = N + i
      <3> TAKE n \in 1 .. N + m
      <3>1. n > N => n - N \in 1 .. m /\ n = N + (n - N)
        BY <1>2, <1>3
      <3>2. n <= N => n \in 1 .. N
        BY <1>2
      <3> QED
        BY <1>2, <3>1, <3>2
    <2>4. ASSUME NEW n \in 1 .. N + m PROVE nodes'[n].stat # "eos"
      <3>1. CASE n \in 1 .. N
        BY <1>7, <2>2, <3>1
      <3>2. ASSUME NEW i \in 1 .. m, n = N + i PROVE nodes'[n].stat # "eos"
        <4>1. nodes'[N + i] = linked[i] /\ linked[i].stat # "eos"
          BY <1>7, <1>8
        <4> QED
          BY <3>2, <4>1
      <3> QED
        BY <2>3, <3>1, <3>2
    <2> QED
      BY <1>7, <2>1, <2>4 DEF EosLast
  <1>18. Filed'
    <2> SUFFICES ASSUME NEW q \in 0 .. Size, NEW n \in Ends(q)' PROVE EndOf(nodes'[n]) = q
      BY <1>10 DEF Filed
    <2>1. CASE n \in Ends(q)
      <3>1. n \in 1 .. N /\ EndOf(nodes[n]) = q
        BY <1>1, <1>11, <2>1 DEF Built, Filed
      <3> QED
        BY <1>7, <3>1
    <2>2. CASE n \in New(q)
      BY <1>7, <1>8, <2>2
    <2> QED
      <3> HIDE DEF New
      <3> QED
        BY <1>11, <2>1, <2>2
  <1>19. ASSUME NEW n \in 1 .. N, n # 1 PROVE WordAt(n, BeginOf(nodes[n]))'
    <2> DEFINE q == BeginOf(nodes[n])
    <2>1. WordAt(n, q)
      BY <1>1, <1>2, <1>19 DEF Built, WordsJoined, EosLast
    <2>2. q \in 0 .. pos - 1 /\ q \in 0 .. pos' - 1 /\ q \in 0 .. pos
      BY <1>2, <2>1 DEF WordAt
    <2>4. nodes'[n] = nodes[n] /\ BeginOf(nodes[n])' = q
      BY <1>7 DEF BeginOf
    <2> HIDE DEF q
    <2>5. PICK L : L = Ends(q)
      OBVIOUS
    <2>6. PICK k : k = q
      OBVIOUS
    <2>7. Ends(k) = L /\ L \subseteq 1 .. N
      BY <1>13, <2>2, <2>5, <2>6
    <2>8. Ends(k)' = L
      BY <1>13, <2>2, <2>5, <2>6
    <2>9. \A l \in L : nodes'[l] = nodes[l]
      BY <1>7, <2>7
    <2>10. WordAt(n, k) /\ k \in 0 .. pos' - 1
      BY <2>1, <2>2, <2>6
    <2>11. WordAt(n, k)'
      BY <1>10, <2>4, <2>7, <2>8, <2>9, <2>10, WordKept
    <2> QED
      BY <2>4, <2>6, <2>11 DEF WordAt
  <1>20. ASSUME NEW i \in 1 .. m, NEW n, n = N + i PROVE WordAt(n, BeginOf(nodes[n]))'
    <2> DEFINE c == linked[i]
               r == found.nodes[i]
    <2>1. nodes'[n] = c /\ BeginOf(c) = pos
      BY <1>7, <1>8, <1>20
    <2>2. pos \in 0 .. pos' - 1 /\ pos \in 0 .. pos
      BY <1>2, <1>10
    <2>3. /\ Same(c, r) /\ c.lpath = {PathTo(nodes, l, r) : l \in Ends(pos)}
          /\ c.prev \in Ends(pos) /\ c.cost = CostVia(nodes, c.prev, r)
          /\ \A l \in Ends(pos) : c.cost <= CostVia(nodes, l, r)
      BY <1>3, <1>6
    <2>4. Zeroed(c) = r /\ r \in ToSet(found.nodes)
      BY <1>3, <1>8 DEF ToSet
    <2>5. PICK L : L = Ends(pos)
      OBVIOUS
    <2>6. PICK p : p = pos
      OBVIOUS
    <2>7. PICK d : d = c
      OBVIOUS
    <2>8. Ends(p)' = L
      BY <1>13, <2>2, <2>5, <2>6
    <2>9. L # {} /\ L \subseteq 1 .. n - 1 /\ L \subseteq 1 .. N
      <3>1. L \subseteq 1 .. N /\ L # {}
        BY <1>13, <2>2, <2>3, <2>5
      <3>2. \A x \in 1 .. N : x \in 1 .. n - 1
        BY <1>2, <1>20
      <3> QED
        BY <3>1, <3>2
    <2> HIDE DEF c, r
    <2>10. nodes'[n] = d
      BY <2>1, <2>7
    <2>11. \A l : CostVia(nodes, l, d) = CostVia(nodes, l, r) /\ PathTo(nodes, l, d) = PathTo(nodes, l, r)
      BY <2>3, <2>7, CostOfSame
    <2>12. \A l \in L : CostVia(nodes, l, d)' = CostVia(nodes, l, d) /\ PathTo(nodes, l, d)' = PathTo(nodes, l, d)
      BY <1>14, <2>9
    <2>13. \A l \in L : CostVia(nodes, l, d)' = CostVia(nodes, l, r) /\ PathTo(nodes, l, d)' = PathTo(nodes, l, r)
      BY <2>11, <2>12
    <2>14. /\ d.lpath = {PathTo(nodes, l, r) : l \in L} /\ d.prev \in L /\ d.cost = CostVia(nodes, d.prev, r)
           /\ \A l \in L : d.cost <= CostVia(nodes, l, r)
      BY <2>3, <2>5, <2>7
    <2>15. /\ d.lpath = {PathTo(nodes, l, d)' : l \in L}
           /\ \A l \in L : l = d.prev => d.cost = CostVia(nodes, l, d)'
           /\ \A l \in L : d.cost <= CostVia(nodes, l, d)'
      <3>1. {PathTo(nodes, l, d)' : l \in L} = {PathTo(nodes, l, r) : l \in L}
        BY <2>13, PathsStay
      <3> QED
        BY <2>13, <2>14, <3>1
    <2>16. Rejoins(n, L, d)
      BY <2>9, <2>10, <2>14, <2>15 DEF Rejoins
    <2>17. Joined(n, L)'
      BY <2>16, JoinedAgain
    <2>18. Joined(n, Ends(p))'
      BY <2>8, <2>17 DEF Joined
    <2>19. Zeroed(nodes'[n]) \in ToSet(Lookup(lat, p)'.nodes)
      BY <1>10, <2>1, <2>4, <2>6 DEF found
    <2>20. WordAt(n, p)'
      BY <2>2, <2>6, <2>18, <2>19 DEF WordAt
    <2>21. BeginOf(nodes'[n]) = p
      BY <2>1, <2>6
    <2> QED
      BY <2>20, <2>21 DEF WordAt
  <1>21. \A n \in 1 .. N + m : n \in 1 .. N \/ \E i \in 1 .. m : n = N + i
    <2> TAKE n \in 1 .. N + m
    <2>1. n > N => n - N \in 1 .. m /\ n = N + (n - N)
      BY <1>2, <1>3
    <2>2. n <= N => n \in 1 .. N
      BY <1>2
    <2> QED
      BY <1>2, <2>1, <2>2
  <1>22. WordsJoined'
    <2> SUFFICES ASSUME NEW n \in 1 .. N + m, n # 1 PROVE WordAt(n, BeginOf(nodes[n]))'
      BY <1>7 DEF WordsJoined
    <2>1. CASE n \in 1 .. N
      BY <1>19, <2>1
    <2>2. CASE \E i \in 1 .. m : n = N + i
      BY <1>20, <2>2
    <2> QED
      BY <1>21, <2>1, <2>2
  <1>23. ASSUME NEW q \in 0 .. pos - 1, end_node_list'[q] # <<>> PROVE Taken(q)'
    <2>1. q \in 0 .. pos /\ q \in 0 .. Size /\ q \in Offsets(lat.sentence) /\ q # pos /\ q \in Nat
          /\ q < Len(lat.sentence)
      BY <1>2 DEF Size
    <2>2. end_node_list[q] # <<>>
      <3>1. end_node_list'[q] \in Seq(1 .. N + m) /\ end_node_list[q] \in Seq(1 .. N)
        BY <1>1, <1>2, <1>9, <2>1 DEF Shape
      <3>2. ToSet(end_node_list'[q]) = ToSet(end_node_list[q])
        <4> HIDE DEF New
        <4> QED
          BY <1>9, <1>12, <2>1
      <3> QED
        BY <1>23, <3>1, <3>2, NonEmpty
    <2>3. Taken(q)
      BY <1>1, <2>2 DEF Built, AllTaken
    <2>4. begin_node_list'[q] = begin_node_list[q]
      <3>1. q \in DOMAIN begin_node_list
        BY <1>1, <2>1 DEF Shape
      <3> QED
        BY <1>6, <2>1, <3>1
    <2>5. ASSUME NEW w \in ToSet(Lookup(lat, q).nodes), EndOf(w) <= Size
          PROVE  \E n \in Ends(EndOf(w))' : Zeroed(nodes'[n]) = w
      <3>1. PICK n \in Ends(EndOf(w)) : Zeroed(nodes[n]) = w
        BY <2>3, <2>5 DEF Taken
      <3>2. EndOf(w) \in 0 .. Size
        <4>1. Offers(lat, q, Lookup(lat, q))
          BY <1>1, <2>1, LookupFacts
        <4>2. w \in Candidates(lat, q)
          BY <4>1 DEF Offers, ToSet
        <4>3. EndOf(w) = q + w.rlength /\ w.rlength \in Nat
          BY <2>1, <4>2, CandidateFacts
        <4> QED
          BY <1>2, <2>1, <2>5, <4>3
      <3>3. n \in Ends(EndOf(w))' /\ n \in 1 .. N
        <4> HIDE DEF New
        <4> QED
          BY <1>11, <3>2
      <3>4. nodes'[n] = nodes[n]
        BY <1>7, <3>3
      <3> QED
        BY <3>1, <3>3, <3>4
    <2> QED
      BY <1>10, <2>3, <2>4, <2>5 DEF Taken
  <1>24. ASSUME NEW p, p = pos PROVE Taken(p)'
    <2>0. p = pos
      BY <1>24
    <2>1. begin_node_list'[p] # <<>>
      <3>1. pos \in DOMAIN begin_node_list
        BY <1>1, <1>2 DEF Shape
      <3>2. begin_node_list'[p] = [i \in 1 .. m |-> N + i]
        BY <1>3, <1>6, <2>0, <3>1 DEF N
      <3> DEFINE new == [i \in 1 .. m |-> N + i]
      <3>3. Len(new) = m
        BY <1>3
      <3> HIDE DEF new
      <3>4. new # <<>>
        BY <1>4, <3>3
      <3> QED
        BY <3>2, <3>4 DEF new
    <2>2. ASSUME NEW w \in ToSet(found.nodes), EndOf(w) <= Size
          PROVE  \E n \in Ends(EndOf(w))' : Zeroed(nodes'[n]) = w
      <3>1. PICK i \in 1 .. m : w = found.nodes[i]
        BY <1>3 DEF ToSet
      <3>2. EndOf(w) = linked[i].rlength + pos /\ linked[i].rlength \in Nat /\ Zeroed(linked[i]) = w
        BY <1>8, <3>1
      <3>3. EndOf(w) \in 0 .. Size
        BY <1>2, <2>2, <3>2
      <3>4. N + i \in New(EndOf(w))
        BY <3>2
      <3>5. N + i \in Ends(EndOf(w))'
        <4> HIDE DEF New
        <4> QED
          BY <1>11, <3>3, <3>4
      <3>6. nodes'[N + i] = linked[i]
        BY <1>7
      <3> QED
        BY <3>2, <3>5, <3>6
    <2>3. ~Lookup(lat, p)'.died /\ Lookup(lat, p)'.nodes = found.nodes
      BY <1>10, <2>0 DEF found
    <2>4. Taken(p)'
      BY <1>10, <2>1, <2>2, <2>3 DEF Taken
    <2> QED
      BY <2>4
  <1>25. AllTaken'
    <2> SUFFICES ASSUME NEW q \in 0 .. pos' - 1, end_node_list'[q] # <<>> PROVE Taken(q)'
      BY DEF AllTaken
    <2>1. q \in 0 .. pos - 1 \/ q = pos
      BY <1>2, <1>10, Further
    <2>2. CASE q \in 0 .. pos - 1
      BY <1>23, <2>2
    <2>3. CASE q = pos
      BY <1>24, <2>3
    <2> QED
      BY <2>1, <2>2, <2>3
  <1>26. EosJoined' /\ FailedAt' /\ DiedAt'
    BY DEF EosJoined, FailedAt, DiedAt, Finished
  <1> QED
    BY <1>15, <1>16, <1>17, <1>18, <1>22, <1>25, <1>26 DEF IInv, Built

IsLast(list, n, p) == p \in 0 .. n /\ list[p] # <<>> /\ \A q \in p + 1 .. n : list[q] = <<>>

LEMMA LastExists ==
  ASSUME NEW n \in Nat, NEW list, list[0] # <<>>
  PROVE  \E p : IsLast(list, n, p)
  <1> DEFINE S == {k \in 0 .. n : list[n - k] # <<>>}
  <1>1. S \subseteq Nat /\ n \in S
    OBVIOUS
  <1> HIDE DEF S
  <1>2. PICK k \in S : \A j \in S : k <= j
    BY <1>1, Smallest
  <1>3. k \in 0 .. n /\ list[n - k] # <<>> /\ n - k \in 0 .. n
    BY <1>2 DEF S
  <1>4. ASSUME NEW q \in (n - k) + 1 .. n PROVE list[q] = <<>>
    <2>1. n - q \in 0 .. n /\ n - q < k /\ n - (n - q) = q
      BY <1>3
    <2>2. n - q \notin S
      BY <1>2, <1>3, <2>1
    <2> QED
      BY <2>1, <2>2 DEF S
  <1> QED
    BY <1>3, <1>4 DEF IsLast

LEMMA LastUnique ==
  ASSUME NEW n \in Nat, NEW list, NEW p, NEW r, IsLast(list, n, p), IsLast(list, n, r)
  PROVE  p = r
  <1>1. p \in 0 .. n /\ r \in 0 .. n /\ list[p] # <<>> /\ list[r] # <<>>
    BY DEF IsLast
  <1>2. ~(p < r)
    BY <1>1 DEF IsLast
  <1>3. ~(r < p)
    BY <1>1 DEF IsLast
  <1> QED
    BY <1>1, <1>2, <1>3

LEMMA LastEndIs ==
  ASSUME NEW p, Size \in Nat, IsLast(end_node_list, Size, p)
  PROVE  LastEnd = p
  <1>1. LastEnd = CHOOSE r \in 0 .. Size : IsLast(end_node_list, Size, r)
    BY DEF LastEnd, IsLast
  <1>2. \E r \in 0 .. Size : IsLast(end_node_list, Size, r)
    BY DEF IsLast
  <1>3. IsLast(end_node_list, Size, LastEnd)
    BY <1>1, <1>2, Zenon
  <1> QED
    BY <1>3, LastUnique

LEMMA LastEndFacts ==
  ASSUME Shape, BosFirst
  PROVE  IsLast(end_node_list, Size, LastEnd)
  <1>1. Size \in Nat /\ end_node_list[0] \in Seq(DOMAIN nodes)
    BY ShapeFacts
  <1>2. 1 \in Ends(0)
    BY DEF BosFirst
  <1>3. end_node_list[0] # <<>>
    BY <1>1, <1>2, NonEmpty DEF Ends
  <1>4. PICK p : IsLast(end_node_list, Size, p)
    BY <1>1, <1>3, LastExists
  <1> QED
    BY <1>1, <1>4, LastEndIs

LEMMA InFront ==
  ASSUME NEW M \in Nat \ {0}, NEW s \in Seq(1 .. M)
  PROVE  <<M>> \o s \in Seq(1 .. M) /\ ToSet(<<M>> \o s) = {M} \cup ToSet(s)
  <1> DEFINE X == 1 .. M
             one == <<M>>
  <1>1. one \in Seq(X) /\ s \in Seq(X) /\ ToSet(one) = {M}
    BY OneOrNone
  <1> HIDE DEF X, one
  <1>2. one \o s \in Seq(X) /\ ToSet(one \o s) = ToSet(one) \cup ToSet(s)
    BY <1>1, ConcatSet
  <1> QED
    BY <1>1, <1>2 DEF X, one

PathsTo(L, r) == {PathTo(nodes, l, r) : l \in L}

LEMMA JoinedNew ==
  ASSUME NEW n, NEW L, NEW r, NEW d, nodes'[n] = d, matrix' = matrix,
         L # {}, L \subseteq 1 .. n - 1, \A l \in L : nodes'[l] = nodes[l],
         Same(d, r), d.lpath = PathsTo(L, r), d.prev \in L, d.cost = CostVia(nodes, d.prev, r),
         \A l \in L : d.cost <= CostVia(nodes, l, r)
  PROVE  Joined(n, L)'
  <1>1. \A l : CostVia(nodes, l, d) = CostVia(nodes, l, r) /\ PathTo(nodes, l, d) = PathTo(nodes, l, r)
    BY CostOfSame
  <1>2. \A l \in L : CostVia(nodes, l, d)' = CostVia(nodes, l, r) /\ PathTo(nodes, l, d)' = PathTo(nodes, l, r)
    BY <1>1 DEF CostVia, PathTo, LocalCost
  <1>3. /\ \A l \in L : l = d.prev => d.cost = CostVia(nodes, l, d)'
        /\ \A l \in L : d.cost <= CostVia(nodes, l, d)'
    BY <1>2
  <1>4. d.lpath = {PathTo(nodes, l, r) : l \in L}
    BY DEF PathsTo
  <1>5. \A l \in L : PathTo(nodes, l, d)' = PathTo(nodes, l, r)
    BY <1>2
  <1>7. d.lpath = {PathTo(nodes, l, d)' : l \in L}
    <2> DEFINE A == {PathTo(nodes, l, r) : l \in L}
               B == {PathTo(nodes, l, d)' : l \in L}
    <2>1. ASSUME NEW x \in A PROVE x \in B
      <3>1. PICK l \in L : x = PathTo(nodes, l, r)
        OBVIOUS
      <3> QED
        BY <1>5, <3>1
    <2>2. ASSUME NEW x \in B PROVE x \in A
      <3>1. PICK l \in L : x = PathTo(nodes, l, d)'
        OBVIOUS
      <3> QED
        BY <1>5, <3>1
    <2> HIDE DEF A, B
    <2>3. A = B
      BY <2>1, <2>2
    <2> QED
      BY <1>4, <2>3 DEF A, B
  <1> QED
    BY <1>3, <1>7 DEF Joined, PathTo, CostVia, LocalCost

LEMMA EosStep ==
  ASSUME IInv, phase = "scan", pos = Size, phase' = "built",
         NEW eos, eos = Connected(nodes, Sentinel("eos", Size), end_node_list[LastEnd]), eos.prev # 0,
         nodes' = Append(nodes, eos),
         begin_node_list' = [begin_node_list EXCEPT ![Size] = <<Len(nodes) + 1>>],
         end_node_list' =
           [[end_node_list EXCEPT ![LastEnd] = <<Len(nodes) + 1>> \o @] EXCEPT ![0] = <<BOS>>],
         UNCHANGED <<input, matrix, lat, pos>>
  PROVE  IInv'
  <1> DEFINE N == Len(nodes)
  <1>1. /\ Built /\ Shape /\ matrix \in Matrices /\ nodes \in Seq(NodeSet(lat)) /\ ~Finished
        /\ Lookable(lat) /\ \A q \in 0 .. Size : Ends(q) = ToSet(end_node_list[q])
    BY ScanFacts
  <1>2. /\ Size \in Nat /\ 0 .. Size \subseteq Offsets(lat.sentence)
        /\ N \in Nat \ {0} /\ DOMAIN nodes = 1 .. N
        /\ \A q \in 0 .. Size : end_node_list[q] \in Seq(1 .. N)
    BY <1>1, ShapeFacts
  <1>3. IsLast(end_node_list, Size, LastEnd)
    BY <1>1, LastEndFacts DEF Built
  <1>4. PICK E : E = LastEnd
    OBVIOUS
  <1>5. E \in 0 .. Size /\ end_node_list[E] # <<>> /\ IsLast(end_node_list, Size, E)
    BY <1>3, <1>4 DEF IsLast
  <1> DEFINE r == Sentinel("eos", Size)
             lefts == end_node_list[E]
  <1>6. r \in Fresh(lat) /\ r.stat = "eos" /\ BeginOf(r) = Size
    BY <1>2, SentinelFacts
  <1>7. lefts \in Seq(DOMAIN nodes) /\ lefts # <<>> /\ ToSet(lefts) = Ends(E) /\ eos = Connected(nodes, r, lefts)
    BY <1>1, <1>2, <1>4, <1>5
  <1> HIDE DEF r, lefts
  <1>8. /\ eos \in NodeSet(lat) /\ Same(eos, r)
        /\ eos.lpath = {PathTo(nodes, l, r) : l \in Ends(E)}
        /\ eos.prev \in Ends(E) /\ eos.cost = CostVia(nodes, eos.prev, r)
        /\ \A l \in Ends(E) : eos.cost <= CostVia(nodes, l, r)
    BY <1>1, <1>6, <1>7, ConnectedFacts
  <1>9. eos.stat = "eos" /\ Zeroed(eos) = r
    BY <1>6, <1>8 DEF Same
  <1>10. PICK M : M = N + 1
    OBVIOUS
  <1>11. /\ nodes' \in Seq(NodeSet(lat)) /\ Len(nodes') = M /\ DOMAIN nodes' = 1 .. M
         /\ \A n \in 1 .. N : nodes'[n] = nodes[n]
         /\ nodes'[M] = eos
    <2>1. nodes' = Append(nodes, eos)
      OBVIOUS
    <2> QED
      BY <1>1, <1>8, <1>10, <2>1
  <1> HIDE DEF N
  <1>12. /\ M \in Nat \ {0} /\ M = N + 1 /\ \A n \in 1 .. M : n \in 1 .. N \/ n = M
         /\ \A n \in 1 .. N : n \in 1 .. M /\ n # M /\ n \in 1 .. M - 1
    BY <1>2, <1>10
  <1>13. Size' = Size /\ lat' = lat /\ matrix' = matrix /\ pos' = pos /\ EOS' = M
    BY <1>11 DEF Size, EOS
  <1>14. /\ DOMAIN end_node_list = Offsets(lat.sentence) /\ DOMAIN begin_node_list = Offsets(lat.sentence)
         /\ \A x \in Offsets(lat.sentence) : end_node_list[x] \in Seq(1 .. M) /\ begin_node_list[x] \in Seq(1 .. M)
    <2>1. /\ DOMAIN end_node_list = Offsets(lat.sentence) /\ DOMAIN begin_node_list = Offsets(lat.sentence)
          /\ \A x \in Offsets(lat.sentence) : end_node_list[x] \in Seq(1 .. N) /\ begin_node_list[x] \in Seq(1 .. N)
      BY <1>1, <1>2 DEF Shape
    <2>2. \A s \in Seq(1 .. N) : s \in Seq(1 .. N + 1)
      BY <1>2, SeqGrows
    <2> QED
      BY <1>12, <2>1, <2>2
  <1>15. /\ DOMAIN end_node_list' = Offsets(lat.sentence)
         /\ end_node_list'[0] = <<1>>
         /\ E # 0 => end_node_list'[E] = <<M>> \o end_node_list[E]
         /\ \A x \in Offsets(lat.sentence) : x # 0 /\ x # E => end_node_list'[x] = end_node_list[x]
    <2>1. end_node_list' = [[end_node_list EXCEPT ![E] = <<M>> \o @] EXCEPT ![0] = <<1>>]
      BY <1>4, <1>10 DEF BOS, N
    <2>2. 0 \in Offsets(lat.sentence) /\ E \in Offsets(lat.sentence)
      <3>1. 0 \in 0 .. Size /\ E \in 0 .. Size
        BY <1>2, <1>5
      <3> QED
        BY <1>2, <3>1
    <2> QED
      BY <1>14, <2>1, <2>2
  <1>16. /\ DOMAIN begin_node_list' = Offsets(lat.sentence)
         /\ begin_node_list'[Size] = <<M>>
         /\ \A x \in Offsets(lat.sentence) : x # Size => begin_node_list'[x] = begin_node_list[x]
    <2>1. begin_node_list' = [begin_node_list EXCEPT ![Size] = <<M>>]
      BY <1>10 DEF N
    <2>2. Size \in Offsets(lat.sentence)
      BY <1>2
    <2> QED
      BY <1>14, <2>1, <2>2
  <1>17. <<M>> \in Seq(1 .. M) /\ <<1>> \in Seq(1 .. M) /\ M \in 1 .. M
    BY <1>12
  <1>18. E # 0 => /\ end_node_list'[E] \in Seq(1 .. M)
                  /\ ToSet(end_node_list'[E]) = {M} \cup Ends(E)
    <2>1. end_node_list[E] \in Seq(1 .. M)
      BY <1>2, <1>5, <1>14
    <2>2. PICK s : s = end_node_list[E]
      OBVIOUS
    <2>3. <<M>> \o s \in Seq(1 .. M) /\ ToSet(<<M>> \o s) = {M} \cup ToSet(s)
      BY <1>12, <2>1, <2>2, InFront
    <2> QED
      BY <1>7, <1>15, <2>2, <2>3 DEF lefts
  <1>19. Shape'
    <2>1. \A x \in Offsets(lat.sentence) : end_node_list'[x] \in Seq(1 .. M) /\ begin_node_list'[x] \in Seq(1 .. M)
      BY <1>14, <1>15, <1>16, <1>17, <1>18
    <2>2. /\ begin_node_list' = [x \in Offsets(lat.sentence) |-> begin_node_list'[x]]
          /\ end_node_list' = [x \in Offsets(lat.sentence) |-> end_node_list'[x]]
      BY <1>14
    <2>3. /\ begin_node_list' \in [Offsets(lat.sentence) -> Seq(1 .. M)]
          /\ end_node_list' \in [Offsets(lat.sentence) -> Seq(1 .. M)]
      BY <2>1, <2>2
    <2>4. nodes' # <<>>
      BY <1>11, <1>12
    <2>5. pos' \in 0 .. Size'
      BY <1>2, <1>13
    <2> QED
      BY <1>1, <1>11, <1>13, <2>3, <2>4, <2>5 DEF Shape
  <1>20. \A n \in 1 .. N : nodes[n].stat # "eos"
    BY <1>1, <1>2 DEF Built, EosLast
  <1>21. ASSUME NEW x \in 0 .. Size
         PROVE  /\ Ends(x)' = Ends(x) /\ Ends(x) \subseteq 1 .. N
                /\ end_node_list'[x] # <<>> <=> end_node_list[x] # <<>>
    <2>1. x \in Offsets(lat.sentence) /\ Ends(x) = ToSet(end_node_list[x]) /\ end_node_list[x] \in Seq(1 .. N)
      BY <1>1, <1>2
    <2>2. Ends(x) \subseteq 1 .. N
      BY <1>1, <1>2, EndsOfScan DEF Built
    <2>3. \A n \in Ends(x) : nodes'[n].stat # "eos"
      BY <1>11, <1>20, <2>2
    <2>4. CASE x = 0
      <3>1. Ends(0) = {1} /\ nodes[1].stat # "eos"
        BY <1>1, <1>2, <1>20 DEF Built, BosFirst
      <3>2. ToSet(end_node_list'[0]) = {1} /\ nodes'[1].stat # "eos"
        BY <1>2, <1>11, <1>15, <3>1, OneOrNone
      <3>3. Ends(0)' = {1}
        BY <3>2 DEF Ends
      <3>4. 1 \in ToSet(end_node_list[0]) /\ 1 \in ToSet(end_node_list'[0])
        BY <2>1, <2>4, <3>1, <3>2
      <3>5. end_node_list[0] # <<>> /\ end_node_list'[0] # <<>>
        BY <3>4, OnlyIfSome
      <3> QED
        BY <2>2, <2>4, <3>1, <3>3, <3>5
    <2>5. CASE x = E /\ E # 0
      <3>1. ToSet(end_node_list'[E]) = {M} \cup Ends(E) /\ nodes'[M].stat = "eos"
        BY <1>9, <1>11, <1>18, <2>5
      <3>2. Ends(x)' = Ends(x)
        BY <2>3, <2>5, <3>1 DEF Ends
      <3>3. end_node_list'[E] # <<>>
        BY <3>1, OneOrNone
      <3> QED
        BY <1>5, <2>2, <2>5, <3>2, <3>3
    <2>6. CASE x # 0 /\ x # E
      <3>1. end_node_list'[x] = end_node_list[x]
        BY <1>15, <2>1, <2>6
      <3>2. Ends(x)' = Ends(x)
        BY <2>1, <2>3, <3>1 DEF Ends
      <3> QED
        BY <2>2, <3>1, <3>2
    <2> QED
      BY <2>4, <2>5, <2>6
  <1>22. LastEnd' = E
    <2>1. IsLast(end_node_list', Size, E)
      <3>1. \A q \in E + 1 .. Size : q \in 0 .. Size
        BY <1>2, <1>5
      <3> QED
        BY <1>5, <1>21, <3>1 DEF IsLast
    <2>2. LastEnd' = CHOOSE p \in 0 .. Size : IsLast(end_node_list', Size, p)
      BY <1>13 DEF LastEnd, IsLast
    <2>3. \E p \in 0 .. Size : IsLast(end_node_list', Size, p)
      BY <1>5, <2>1
    <2>4. IsLast(end_node_list', Size, LastEnd')
      BY <2>2, <2>3, Zenon
    <2> QED
      BY <1>2, <2>1, <2>4, LastUnique
  <1>23. BosFirst'
    <2>1. 0 \in 0 .. Size /\ 1 \in 1 .. N
      BY <1>2
    <2> QED
      BY <1>1, <1>11, <1>21, <2>1 DEF Built, BosFirst
  <1>24. Finished'
    BY DEF Finished
  <1>25. EosLast'
    BY <1>9, <1>11, <1>12, <1>20, <1>24 DEF EosLast
  <1>26. Filed'
    <2> SUFFICES ASSUME NEW q \in 0 .. Size, NEW n \in Ends(q)' PROVE EndOf(nodes'[n]) = q
      BY <1>13 DEF Filed
    <2>1. n \in Ends(q) /\ n \in 1 .. N
      BY <1>21
    <2>2. EndOf(nodes[n]) = q
      BY <1>1, <2>1 DEF Built, Filed
    <2> QED
      BY <1>11, <2>1, <2>2
  <1>27. WordsJoined'
    <2> SUFFICES ASSUME NEW n \in 1 .. M, n # 1, nodes'[n].stat # "eos"
                 PROVE  WordAt(n, BeginOf(nodes[n]))'
      BY <1>11 DEF WordsJoined
    <2>1. n \in 1 .. N
      BY <1>9, <1>11, <1>12
    <2>2. nodes'[n] = nodes[n] /\ BeginOf(nodes[n])' = BeginOf(nodes[n]) /\ nodes[n].stat # "eos"
      BY <1>11, <1>20, <2>1 DEF BeginOf
    <2>3. WordAt(n, BeginOf(nodes[n]))
      BY <1>1, <1>2, <2>1, <2>2 DEF Built, WordsJoined
    <2>4. PICK k : k = BeginOf(nodes[n])
      OBVIOUS
    <2>5. WordAt(n, k) /\ k \in 0 .. pos - 1 /\ k \in 0 .. pos' - 1 /\ k \in 0 .. Size
      BY <1>2, <1>13, <2>3, <2>4 DEF WordAt
    <2>6. PICK L : L = Ends(k)
      OBVIOUS
    <2>7. Ends(k) = L /\ L \subseteq 1 .. N
      BY <1>21, <2>5, <2>6
    <2>8. Ends(k)' = L
      BY <1>21, <2>5, <2>6
    <2>9. \A l \in L : nodes'[l] = nodes[l]
      BY <1>11, <2>7
    <2>10. WordAt(n, k)'
      BY <1>13, <2>2, <2>5, <2>7, <2>8, <2>9, WordKept
    <2> QED
      BY <2>2, <2>4, <2>10 DEF WordAt
  <1>28. AllTaken'
    <2> SUFFICES ASSUME NEW q \in 0 .. Size - 1, end_node_list'[q] # <<>> PROVE Taken(q)'
      BY <1>13 DEF AllTaken
    <2>1. q \in 0 .. Size /\ q \in 0 .. pos - 1 /\ q # Size /\ q \in Nat /\ q < Len(lat.sentence)
      <3>1. pos = Size /\ Size \in Nat
        BY <1>2
      <3>2. q \in 0 .. Size /\ q \in 0 .. pos - 1 /\ q # Size /\ q \in Nat /\ q < Size
        BY <3>1
      <3> QED
        BY <3>2 DEF Size
    <2>2. Taken(q)
      BY <1>1, <1>21, <2>1 DEF Built, AllTaken
    <2>3. begin_node_list'[q] = begin_node_list[q]
      BY <1>2, <1>16, <2>1
    <2>4. ASSUME NEW w \in ToSet(Lookup(lat, q).nodes), EndOf(w) <= Size
          PROVE  \E n \in Ends(EndOf(w))' : Zeroed(nodes'[n]) = w
      <3>1. PICK n \in Ends(EndOf(w)) : Zeroed(nodes[n]) = w
        BY <2>2, <2>4 DEF Taken
      <3>2. EndOf(w) \in 0 .. Size
        <4>1. Offers(lat, q, Lookup(lat, q))
          BY <1>1, <2>1, LookupFacts
        <4>2. w \in Candidates(lat, q)
          BY <4>1 DEF Offers, ToSet
        <4>3. EndOf(w) = q + w.rlength /\ w.rlength \in Nat
          BY <2>1, <4>2, CandidateFacts
        <4> QED
          BY <1>2, <2>1, <2>4, <4>3
      <3>3. n \in Ends(EndOf(w))' /\ n \in 1 .. N
        BY <1>21, <3>2
      <3> QED
        BY <1>11, <3>1, <3>3
    <2> QED
      BY <1>13, <2>2, <2>3, <2>4 DEF Taken
  <1>29. EosJoined'
    <2>1. PICK L : L = Ends(E)
      OBVIOUS
    <2>2. /\ L # {} /\ L \subseteq 1 .. N /\ Ends(E)' = L
      BY <1>5, <1>8, <1>21, <2>1
    <2>3. L \subseteq 1 .. M - 1
      BY <1>12, <2>2
    <2>4. \A l \in L : nodes'[l] = nodes[l]
      BY <1>11, <2>2
    <2>5. /\ eos.lpath = PathsTo(L, r) /\ eos.prev \in L /\ eos.cost = CostVia(nodes, eos.prev, r)
          /\ \A l \in L : eos.cost <= CostVia(nodes, l, r)
      BY <1>8, <2>1 DEF PathsTo
    <2>6. nodes'[M] = eos /\ matrix' = matrix /\ Same(eos, r)
      BY <1>8, <1>11
    <2>7. Joined(M, L)'
      BY <2>2, <2>3, <2>4, <2>5, <2>6, JoinedNew
    <2>8. Joined(EOS, Ends(LastEnd))'
      BY <1>13, <1>22, <2>2, <2>7 DEF Joined
    <2>9. Zeroed(nodes'[M]) = Sentinel("eos", Size) /\ nodes'[M].stat = "eos"
      BY <1>9, <1>11 DEF r
    <2> QED
      BY <1>13, <1>24, <2>8, <2>9 DEF EosJoined
  <1>30. FailedAt' /\ DiedAt'
    BY DEF FailedAt, DiedAt
  <1> QED
    BY <1>19, <1>23, <1>25, <1>26, <1>27, <1>28, <1>29, <1>30 DEF IInv, Built, Phases

LEMMA ScanStep == ASSUME IInv, Scan PROVE IInv'
  <1> DEFINE linked(found) == Linked(found.nodes, end_node_list[pos])
  <1>1. /\ phase = "scan" /\ pos < Size /\ end_node_list[pos] # <<>>
        /\ UNCHANGED <<input, matrix, lat>>
        /\ ScanFound(Lookup(lat, pos))
    BY DEF Scan
  <1>2. PICK found : found = Lookup(lat, pos)
    OBVIOUS
  <1>3. ScanOutcome(found, linked(found))
    BY <1>1, <1>2 DEF ScanFound
  <1>4. CASE found.died /\ phase' = "died" /\ UNCHANGED <<nodes, begin_node_list, end_node_list, pos>>
    BY <1>1, <1>2, <1>4, StopStep
  <1>5. CASE ~found.died /\ Connect(pos, linked(found)) /\ pos' = pos + 1 /\ phase' = phase
    BY <1>1, <1>2, <1>5, ConnectStep
  <1>6. CASE /\ \E i \in DOMAIN linked(found) : linked(found)[i].prev = 0
             /\ phase' = "failed" /\ UNCHANGED <<nodes, begin_node_list, end_node_list, pos>>
    <2>1. /\ DOMAIN linked(found) = DOMAIN found.nodes
          /\ \A i \in DOMAIN found.nodes :
               linked(found)[i].prev = 0 => \A l \in Ends(pos) : CostVia(nodes, l, found.nodes[i]) >= CostLimit
      BY <1>1, <1>2, LinkedFacts
    <2>2. \E w \in ToSet(found.nodes) : \A l \in Ends(pos) : CostVia(nodes, l, w) >= CostLimit
      BY <1>6, <2>1 DEF ToSet
    <2> QED
      BY <1>1, <1>2, <1>6, <2>2, StopStep
  <1> QED
    BY <1>3, <1>4, <1>5, <1>6 DEF ScanOutcome

LEMMA EosConnectStep == ASSUME IInv, ConnectEOS PROVE IInv'
  <1>1. /\ phase = "scan" /\ pos = Size /\ UNCHANGED <<input, matrix, lat, pos>>
        /\ FileEOS(Connected(nodes, Sentinel("eos", Size), end_node_list[LastEnd]))
    BY DEF ConnectEOS
  <1>2. PICK eos : eos = Connected(nodes, Sentinel("eos", Size), end_node_list[LastEnd])
    OBVIOUS
  <1>3. FileEOS(eos)
    BY <1>1, <1>2
  <1>4. CASE eos.prev = 0 /\ phase' = "failed" /\ UNCHANGED <<nodes, begin_node_list, end_node_list>>
    <2>1. /\ Built /\ Shape /\ matrix \in Matrices /\ nodes \in Seq(NodeSet(lat))
          /\ \A q \in 0 .. Size : Ends(q) = ToSet(end_node_list[q])
      BY <1>1, ScanFacts
    <2>2. IsLast(end_node_list, Size, LastEnd)
      BY <2>1, LastEndFacts DEF Built
    <2>3. PICK E : E = LastEnd
      OBVIOUS
    <2>4. /\ E \in 0 .. Size /\ Size \in Nat
          /\ end_node_list[E] \in Seq(DOMAIN nodes) /\ end_node_list[E] # <<>>
      BY <2>1, <2>2, <2>3, ShapeFacts DEF IsLast
    <2>5. Sentinel("eos", Size) \in Fresh(lat)
      BY <2>4, SentinelFacts
    <2>6. PICK r : r = Sentinel("eos", Size)
      OBVIOUS
    <2>7. PICK lefts : lefts = end_node_list[E]
      OBVIOUS
    <2>8. Connected(nodes, r, lefts).prev = 0 => \A l \in ToSet(lefts) : CostVia(nodes, l, r) >= CostLimit
      BY <2>1, <2>4, <2>5, <2>6, <2>7, ConnectedFacts
    <2>9. \A l \in Ends(LastEnd) : CostVia(nodes, l, Sentinel("eos", Size)) >= CostLimit
      BY <1>2, <1>4, <2>1, <2>3, <2>4, <2>6, <2>7, <2>8
    <2> QED
      BY <1>1, <1>4, <2>9, StopStep
  <1>5. CASE ~(eos.prev = 0 /\ phase' = "failed" /\ UNCHANGED <<nodes, begin_node_list, end_node_list>>)
    <2>1. /\ eos.prev # 0 /\ phase' = "built" /\ nodes' = Append(nodes, eos)
          /\ begin_node_list' = [begin_node_list EXCEPT ![Size] = <<Len(nodes) + 1>>]
          /\ end_node_list' =
               [[end_node_list EXCEPT ![LastEnd] = <<Len(nodes) + 1>> \o @] EXCEPT ![0] = <<BOS>>]
      BY <1>3, <1>5 DEF FileEOS
    <2> QED
      BY <1>1, <1>2, <2>1, EosStep
  <1> QED
    BY <1>4, <1>5

LEMMA StutterStep == ASSUME IInv, UNCHANGED vars PROVE IInv'
  <1>1. UNCHANGED <<input, matrix, phase, lat, nodes, begin_node_list, end_node_list, pos>>
    BY DEF vars
  <1>2. input \in Inputs /\ matrix \in Matrices /\ phase \in Phases
    BY DEF IInv
  <1>3. CASE phase = "start"
    BY <1>1, <1>2, <1>3 DEF IInv
  <1>4. CASE phase # "start"
    <2>1. Built /\ Shape
      BY <1>4 DEF IInv, Built
    <2>2. pos' \in 0 .. Size /\ (Finished' <=> Finished)
      BY <1>1, <2>1 DEF Shape, Finished
    <2>3. Shape' /\ BosFirst' /\ EosLast' /\ Filed' /\ WordsJoined' /\ AllTaken'
      BY <1>1, <2>1, <2>2, StructureKept
    <2>4. Size' = Size /\ LastEnd' = LastEnd /\ EOS' = EOS /\ \A q : Ends(q)' = Ends(q)
      BY <1>1 DEF Size, LastEnd, EOS, Ends
    <2>5. \A l, r : CostVia(nodes, l, r)' = CostVia(nodes, l, r) /\ PathTo(nodes, l, r)' = PathTo(nodes, l, r)
      BY <1>1, SameCosts
    <2>6. FailedAt' /\ DiedAt'
      BY <1>1, <2>1, <2>4, <2>5 DEF Built, FailedAt, DiedAt
    <2>7. EosJoined'
      <3>1. CASE Finished
        <4>1. Joined(EOS, Ends(LastEnd))
          BY <2>1, <3>1 DEF Built, EosJoined
        <4>2. Joined(EOS, Ends(LastEnd))'
          BY <1>1, <2>4, <2>5, <4>1 DEF Joined
        <4> QED
          BY <1>1, <2>1, <2>2, <2>4, <3>1, <4>2 DEF Built, EosJoined
      <3>2. CASE ~Finished
        BY <2>2, <3>2 DEF EosJoined
      <3> QED
        BY <3>1, <3>2
    <2> QED
      BY <1>1, <1>2, <1>4, <2>3, <2>6, <2>7 DEF IInv, Built
  <1> QED
    BY <1>3, <1>4

(* The lattice the scan has built so far is complete and exact: every word *)
(* offered at a position reached has its node, each node one path per node *)
(* that ends where it begins and the cost of the cheapest way over them.   *)
THEOREM Invariance == NulIsNoSpace /\ ShortTexts => (Spec => []IInv)
  <1> SUFFICES ASSUME NulIsNoSpace, ShortTexts PROVE Spec => []IInv
    OBVIOUS
  <1>1. Init => IInv
    BY InitInv
  <1>2. IInv /\ [Next]_vars => IInv'
    <2> SUFFICES ASSUME IInv, [Next]_vars PROVE IInv'
      OBVIOUS
    <2>1. CASE Start
      BY <2>1, StartStep
    <2>2. CASE Scan
      BY <2>2, ScanStep
    <2>3. CASE SkipPosition
      BY <2>3, SkipStep
    <2>4. CASE ConnectEOS
      BY <2>4, EosConnectStep
    <2>5. CASE BuildResult
      BY <2>5, BuildStep
    <2>6. CASE UNCHANGED vars
      BY <2>6, StutterStep
    <2> QED
      BY <2>1, <2>2, <2>3, <2>4, <2>5, <2>6 DEF Next
  <1> QED
    BY <1>1, <1>2, PTL DEF Spec

LEMMA LatticeBuilt == ASSUME IInv PROVE YieldsLattice
  <1> SUFFICES ASSUME Finished PROVE YieldsLattice
    BY DEF YieldsLattice
  <1>1. Built /\ Shape /\ BosFirst /\ EosLast /\ WordsJoined /\ EosJoined
    BY DEF IInv, Built, Finished
  <1> DEFINE N == DOMAIN nodes
             G == [lpath |-> [n \in N |-> nodes[n].lpath], cost |-> [n \in N |-> nodes[n].cost],
                   id |-> [n \in N |-> n]]
  <1>2. /\ N = 1 .. Len(nodes) /\ Len(nodes) \in Nat \ {0} /\ nodes \in Seq(NodeSet(lat))
        /\ \A n \in N : nodes[n] \in NodeSet(lat)
    BY <1>1, ShapeFacts DEF Shape
  <1>3. \A n \in N : nodes[n].cost \in Int
    BY <1>2 DEF NodeSet
  <1>4. /\ nodes[BOS].lpath = {} /\ nodes[BOS].cost = 0 /\ nodes[BOS].stat = "bos" /\ BOS \in N
    BY <1>1, <1>2 DEF BOS, BosFirst, Sentinel
  <1>5. ASSUME NEW n \in N, n # BOS PROVE \E L : Joined(n, L)
    <2>1. CASE nodes[n].stat = "eos"
      BY <1>1, <1>2, <2>1 DEF EosLast, EosJoined, EOS
    <2>2. CASE nodes[n].stat # "eos"
      BY <1>1, <1>5, <2>2 DEF WordsJoined, WordAt, BOS
    <2> QED
      BY <2>1, <2>2
  <1>6. EOS \in N /\ EOS # BOS
    <2>1. nodes[EOS].stat = "eos" /\ EOS \in N
      BY <1>1, <1>2 DEF EosJoined, EOS
    <2> QED
      BY <1>4, <2>1
  <1>7. ASSUME NEW n \in N, n # BOS
        PROVE  /\ nodes[n].lpath \in SUBSET Paths(N)
               /\ \A p \in nodes[n].lpath : p.lnode < n
               /\ \A p, q \in nodes[n].lpath : p.lnode = q.lnode => p = q
               /\ \E p \in nodes[n].lpath : nodes[n].cost = nodes[p.lnode].cost + p.cost
               /\ \A p \in nodes[n].lpath : nodes[n].cost <= nodes[p.lnode].cost + p.cost
    <2>1. PICK L : Joined(n, L)
      BY <1>5, <1>7
    <2> DEFINE d == nodes[n]
    <2>2. /\ L \subseteq 1 .. n - 1 /\ d.lpath = {PathTo(nodes, l, d) : l \in L}
          /\ d.prev \in L /\ d.cost = CostVia(nodes, d.prev, d) /\ \A l \in L : d.cost <= CostVia(nodes, l, d)
      BY <2>1 DEF Joined
    <2>3. \A l \in L : l \in N /\ l < n
      BY <1>2, <2>2
    <2>4. d \in NodeSet(lat)
      BY <1>2
    <2> HIDE DEF d
    <2>5. ASSUME NEW l \in L
          PROVE  /\ PathTo(nodes, l, d) \in Paths(N) /\ PathTo(nodes, l, d).lnode = l
                 /\ CostVia(nodes, l, d) = nodes[l].cost + PathTo(nodes, l, d).cost
      <3>1. LocalCost(nodes[l], d) \in Int
        BY <1>1, <1>2, <2>3, <2>4, CostFacts DEF IInv
      <3>2. PathTo(nodes, l, d) = [lnode |-> l, cost |-> LocalCost(nodes[l], d)]
        BY DEF PathTo
      <3>3. CostVia(nodes, l, d) = nodes[l].cost + LocalCost(nodes[l], d)
        BY DEF CostVia
      <3> QED
        BY <2>3, <3>1, <3>2, <3>3 DEF Paths
    <2>6. \A p \in d.lpath : p.lnode \in L /\ p = PathTo(nodes, p.lnode, d)
      BY <2>2, <2>5
    <2>7. d.lpath \subseteq Paths(N)
      BY <2>5, <2>6
    <2>8. \A p \in d.lpath : d.cost <= nodes[p.lnode].cost + p.cost
      BY <2>2, <2>5, <2>6
    <2>9. \E p \in d.lpath : d.cost = nodes[p.lnode].cost + p.cost
      <3>1. PathTo(nodes, d.prev, d) \in d.lpath
        BY <2>2
      <3> QED
        BY <2>2, <2>5, <3>1
    <2> QED
      BY <2>3, <2>6, <2>7, <2>8, <2>9 DEF d
  <1>8. IsLattice(G, N, BOS, EOS)
    <2>1. \A n \in N : G.lpath[n] = nodes[n].lpath /\ G.cost[n] = nodes[n].cost /\ G.id[n] = n
      OBVIOUS
    <2>2. \A n \in N : nodes[n].lpath \in SUBSET Paths(N) /\ n \in Nat
      BY <1>2, <1>4, <1>7
    <2>3. /\ G.lpath \in [N -> SUBSET Paths(N)] /\ G.cost \in [N -> Int] /\ G.id \in [N -> Nat]
      BY <1>3, <2>2
    <2>4. \A n \in N : \A p \in nodes[n].lpath : p.lnode \in N
      BY <2>2 DEF Paths
    <2> HIDE DEF G
    <2>5. \A n \in N : \A p \in G.lpath[n] : G.id[p.lnode] < G.id[n]
      BY <1>4, <1>7, <2>1, <2>4
    <2>6. \A n \in N : \A p, q \in G.lpath[n] : p.lnode = q.lnode => p = q
      BY <1>4, <1>7, <2>1
    <2>7. G.lpath[BOS] = {} /\ G.cost[BOS] = 0
      BY <1>4, <2>1
    <2>8. ASSUME NEW n \in N \ {BOS}
          PROVE  /\ \E p \in G.lpath[n] : G.cost[n] = G.cost[p.lnode] + p.cost
                 /\ \A p \in G.lpath[n] : G.cost[n] <= G.cost[p.lnode] + p.cost
      BY <1>7, <2>1, <2>4
    <2> QED
      BY <1>4, <1>6, <2>3, <2>5, <2>6, <2>7, <2>8 DEF IsLattice
  <1> QED
    BY <1>8 DEF YieldsLattice

(* connect hands the N-best search a lattice in its sense (viterbi.cpp     *)
(* 195-240): one path per left node, left nodes made before, exact costs.  *)
THEOREM LatticesYielded == NulIsNoSpace /\ ShortTexts => (Spec => []YieldsLattice)
  BY Invariance, LatticeBuilt, PTL

LEMMA NoneCutOff == ASSUME IInv PROVE NoDeadEnd
  <1> SUFFICES ASSUME ~lat.constrained
               PROVE  /\ phase # "died"
                      /\ \A p \in 0 .. pos - 1 : end_node_list[p] # <<>> => begin_node_list[p] # <<>>
    BY DEF NoDeadEnd
  <1>1. CASE phase = "start"
    BY <1>1 DEF IInv
  <1>2. CASE phase # "start"
    <2>1. Built /\ Shape
      BY <1>2 DEF IInv, Built
    <2>2. \A p \in 0 .. pos - 1 : end_node_list[p] # <<>> => begin_node_list[p] # <<>>
      BY <2>1 DEF Built, AllTaken, Taken
    <2>3. ASSUME phase = "died" PROVE FALSE
      <3>1. pos < Size /\ Lookup(lat, pos).died
        BY <2>1, <2>3 DEF Built, DiedAt
      <3>2. pos \in Nat /\ pos < Len(lat.sentence) /\ Lookable(lat)
        BY <2>1, <3>1, ShapeFacts DEF Size, Shape
      <3>3. Offers(lat, pos, Lookup(lat, pos))
        BY <3>2, LookupFacts
      <3> QED
        BY <3>1, <3>3 DEF Offers
    <2> QED
      BY <2>2, <2>3
  <1> QED
    BY <1>1, <1>2

(* Without constraints no exception leaves lookup, and every position some *)
(* word ends at offers a word again (tokenizer.cpp 284-345).               *)
THEOREM NeverCutOff == NulIsNoSpace /\ ShortTexts => (Spec => []NoDeadEnd)
  BY Invariance, NoneCutOff, PTL

(* The cost of a chain of words is a running sum.                          *)
AreCosts(chain, to) ==
  /\ to \in [1 .. Len(chain) -> Int] /\ to[1] = 0
  /\ \A i \in 2 .. Len(chain) : to[i] = to[i - 1] + LocalCost(chain[i - 1], chain[i])

LEMMA CostsExist ==
  ASSUME matrix \in Matrices, NEW chain \in Seq(NodeSet(lat)), chain # <<>>
  PROVE  \E to : AreCosts(chain, to) /\ ChainCost(chain) = to[Len(chain)]
  <1> DEFINE n == Len(chain) - 1
             step == [k \in 1 .. n |-> [x \in Int |-> x + LocalCost(chain[k], chain[k + 1])]]
  <1>0. n \in Nat /\ Len(chain) = n + 1 /\ Len(chain) \in Nat
    OBVIOUS
  <1>1. ASSUME NEW k \in 1 .. n PROVE LocalCost(chain[k], chain[k + 1]) \in Int
    <2>1. chain[k] \in NodeSet(lat) /\ chain[k + 1] \in NodeSet(lat)
      OBVIOUS
    <2> QED
      BY <2>1, CostFacts
  <1>2. AreSteps(step, n, Int)
    BY <1>1 DEF AreSteps
  <1>3. PICK g : IsIteration(g, step, n, Int, 0)
    <2> HIDE DEF step, n
    <2>1. n \in Nat /\ 0 \in Int
      BY <1>0
    <2> QED
      BY <1>2, <2>1, Iteration
  <1>4. \A k \in 1 .. n : g[k] = g[k - 1] + LocalCost(chain[k], chain[k + 1])
    <2>1. \A k \in 1 .. n : g[k - 1] \in Int
      BY <1>3, <1>0 DEF IsIteration
    <2> QED
      BY <1>3, <2>1 DEF IsIteration
  <1> HIDE DEF step, n
  <1> DEFINE Body(t) == [i \in 1 .. Len(chain) |->
                          IF i = 1 THEN 0 ELSE t[i - 1] + LocalCost(chain[i - 1], chain[i])]
             h == [i \in 1 .. Len(chain) |-> g[i - 1]]
             to == CHOOSE t : t = Body(t)
  <1>5. h = Body(h)
    <2>1. ASSUME NEW i \in 1 .. Len(chain), i # 1
          PROVE  g[i - 1] = h[i - 1] + LocalCost(chain[i - 1], chain[i])
      <3>1. i - 1 \in 1 .. n /\ i - 1 \in 1 .. Len(chain) /\ (i - 1) - 1 = i - 2 /\ (i - 1) + 1 = i
        BY <2>1, <1>0
      <3>2. h[i - 1] = g[(i - 1) - 1]
        BY <3>1
      <3> QED
        BY <1>4, <3>1, <3>2
    <2>2. \A i \in 1 .. Len(chain) : g[i - 1] =
            IF i = 1 THEN 0 ELSE h[i - 1] + LocalCost(chain[i - 1], chain[i])
      BY <2>1, <1>3 DEF IsIteration
    <2> QED
      BY <2>2
  <1>6. \E t : t = Body(t)
    BY <1>5
  <1>7. to = Body(to)
    <2> HIDE DEF Body
    <2> QED
      BY <1>6, Zenon
  <1>8. ChainCost(chain) = to[Len(chain)]
    BY DEF ChainCost
  <1> HIDE DEF to
  <1>9. /\ DOMAIN to = 1 .. Len(chain) /\ to = [i \in 1 .. Len(chain) |-> to[i]]
        /\ to[1] = 0
        /\ \A i \in 2 .. Len(chain) : to[i] = to[i - 1] + LocalCost(chain[i - 1], chain[i])
    <2>1. \A i \in 1 .. Len(chain) : to[i] = Body(to)[i]
      BY <1>7, Zenon
    <2>2. DOMAIN to = 1 .. Len(chain) /\ to = [i \in 1 .. Len(chain) |-> to[i]]
      BY <1>7
    <2>3. to[1] = 0
      BY <2>1, <1>0
    <2>4. \A i \in 2 .. Len(chain) : to[i] = to[i - 1] + LocalCost(chain[i - 1], chain[i])
      <3> SUFFICES ASSUME NEW i \in 2 .. Len(chain)
                   PROVE  to[i] = to[i - 1] + LocalCost(chain[i - 1], chain[i])
        OBVIOUS
      <3>1. i \in 1 .. Len(chain) /\ i # 1
        BY <1>0
      <3> QED
        BY <2>1, <3>1, Zenon
    <2> QED
      BY <2>2, <2>3, <2>4
  <1> HIDE DEF Body
  <1>10. to \in [1 .. Len(chain) -> Int]
    <2> DEFINE P == {k \in 0 .. n : to[k + 1] \in Int}
    <2>1. 0 \in P
      BY <1>0, <1>9
    <2>2. ASSUME NEW k \in 1 .. n, k - 1 \in P PROVE k \in P
      <3>1. (k - 1) + 1 = k /\ (k + 1) - 1 = k /\ k + 1 \in 2 .. Len(chain)
        BY <1>0
      <3>2. to[k] \in Int /\ to[k + 1] = to[k] + LocalCost(chain[k], chain[k + 1])
        BY <1>9, <2>2, <3>1
      <3> QED
        BY <1>1, <1>0, <3>2
    <2> HIDE DEF P
    <2>3. 0 .. n \subseteq P
      BY <1>0, <2>1, <2>2, UpTo
    <2>4. ASSUME NEW i \in 1 .. Len(chain) PROVE to[i] \in Int
      <3>1. i - 1 \in 0 .. n /\ (i - 1) + 1 = i
        BY <1>0
      <3> QED
        BY <2>3, <3>1 DEF P
    <2> QED
      BY <1>9, <2>4
  <1> QED
    BY <1>8, <1>9, <1>10 DEF AreCosts

(* Nodes that connect at the same costs; chains of them have the same sums *)
(* as far as both go.                                                      *)
CostsLike(x, y) == x.rc = y.rc /\ x.lc = y.lc /\ x.wcost = y.wcost

LEMMA CostsAgree ==
  ASSUME NEW c, NEW d, Len(c) \in Nat \ {0}, Len(d) \in Nat, Len(c) <= Len(d),
         \A i \in 1 .. Len(c) : CostsLike(c[i], d[i]),
         NEW s, AreCosts(c, s), NEW t, AreCosts(d, t)
  PROVE  \A i \in 1 .. Len(c) : s[i] = t[i]
  <1> DEFINE n == Len(c) - 1
             P == {k \in 0 .. n : s[k + 1] = t[k + 1]}
  <1>1. n \in Nat /\ Len(c) = n + 1 /\ n + 1 <= Len(d)
    OBVIOUS
  <1> HIDE DEF n
  <1>2. 0 \in P
    BY <1>1 DEF AreCosts
  <1>3. ASSUME NEW k \in 1 .. n, k - 1 \in P PROVE k \in P
    <2>1. /\ (k - 1) + 1 = k /\ (k + 1) - 1 = k /\ k + 1 \in 2 .. Len(c) /\ k + 1 \in 2 .. Len(d)
          /\ k \in 1 .. Len(c) /\ k + 1 \in 1 .. Len(c) /\ k \in 0 .. n
      BY <1>1
    <2>2. LocalCost(c[k], c[k + 1]) = LocalCost(d[k], d[k + 1])
      <3>1. CostsLike(c[k], d[k]) /\ CostsLike(c[k + 1], d[k + 1])
        BY <2>1
      <3> QED
        BY <3>1 DEF CostsLike, LocalCost
    <2>3. s[k] = t[k]
      BY <1>3, <2>1
    <2>4. s[k + 1] = s[k] + LocalCost(c[k], c[k + 1])
      BY <2>1, Zenon DEF AreCosts
    <2>5. t[k + 1] = t[k] + LocalCost(d[k], d[k + 1])
      BY <2>1, Zenon DEF AreCosts
    <2> QED
      BY <2>1, <2>2, <2>3, <2>4, <2>5
  <1> HIDE DEF P
  <1>4. 0 .. n \subseteq P
    BY <1>1, <1>2, <1>3, UpTo
  <1> SUFFICES ASSUME NEW i \in 1 .. Len(c) PROVE s[i] = t[i]
    OBVIOUS
  <1>5. i - 1 \in 0 .. n /\ (i - 1) + 1 = i
    BY <1>1
  <1> QED
    BY <1>4, <1>5 DEF P

LEMMA SameChainCost ==
  ASSUME matrix \in Matrices, NEW c \in Seq(NodeSet(lat)), c # <<>>, NEW d \in Seq(NodeSet(lat)),
         Len(d) = Len(c), \A i \in 1 .. Len(c) : CostsLike(c[i], d[i])
  PROVE  ChainCost(c) = ChainCost(d)
  <1>1. Len(c) \in Nat \ {0} /\ d # <<>> /\ Len(c) \in 1 .. Len(c)
    OBVIOUS
  <1>2. PICK s : AreCosts(c, s) /\ ChainCost(c) = s[Len(c)]
    BY CostsExist
  <1>3. PICK t : AreCosts(d, t) /\ ChainCost(d) = t[Len(d)]
    BY <1>1, CostsExist
  <1> QED
    BY <1>1, <1>2, <1>3, CostsAgree

(* One word more costs its connection.                                     *)
LEMMA CostOfLonger ==
  ASSUME matrix \in Matrices, NEW c \in Seq(NodeSet(lat)), c # <<>>, NEW w \in NodeSet(lat)
  PROVE  /\ ChainCost(c) \in Int /\ ChainCost(Append(c, w)) \in Int
         /\ ChainCost(Append(c, w)) = ChainCost(c) + LocalCost(c[Len(c)], w)
  <1> DEFINE d == Append(c, w)
             n == Len(c)
  <1>1. /\ n \in Nat \ {0} /\ d \in Seq(NodeSet(lat)) /\ d # <<>> /\ Len(d) = n + 1
        /\ d[n] = c[n] /\ d[n + 1] = w
    OBVIOUS
  <1> HIDE DEF d
  <1>2. PICK s : AreCosts(c, s) /\ ChainCost(c) = s[n]
    BY CostsExist
  <1>3. PICK t : AreCosts(d, t) /\ ChainCost(d) = t[n + 1]
    BY <1>1, CostsExist
  <1>4. s[n] = t[n]
    <2>1. \A i \in 1 .. n : CostsLike(c[i], d[i])
      BY DEF CostsLike, d
    <2>2. \A i \in 1 .. n : s[i] = t[i]
      BY <1>1, <1>2, <1>3, <2>1, CostsAgree
    <2> QED
      BY <1>1, <2>2
  <1>5. t[n + 1] = t[n] + LocalCost(d[n], d[n + 1])
    <2>1. n + 1 \in 2 .. Len(d) /\ (n + 1) - 1 = n
      BY <1>1
    <2> QED
      BY <1>3, <2>1, Zenon DEF AreCosts
  <1>6. s[n] \in Int /\ t[n + 1] \in Int
    BY <1>1, <1>2, <1>3 DEF AreCosts
  <1> QED
    BY <1>1, <1>2, <1>3, <1>4, <1>5, <1>6 DEF d

LEMMA CostOfOne ==
  ASSUME matrix \in Matrices, NEW b \in NodeSet(lat)
  PROVE  ChainCost(<<b>>) = 0
  <1>1. <<b>> \in Seq(NodeSet(lat)) /\ <<b>> # <<>> /\ Len(<<b>>) = 1
    OBVIOUS
  <1>2. PICK s : AreCosts(<<b>>, s) /\ ChainCost(<<b>>) = s[Len(<<b>>)]
    BY <1>1, CostsExist
  <1> QED
    BY <1>1, <1>2 DEF AreCosts

(* The segmentations, collected by their number of words.                  *)
Chains(e) == {c \in Seq(NodeSet(lat)) : EndOfChain(c) \in 0 .. e}

More(X, e) == UNION {Longer(c, e) : c \in {d \in X : EndOfChain(d) < e}}

AreChains(ch, e) ==
  /\ ch \in [0 .. e -> SUBSET Chains(e)] /\ ch[0] = {<<>>}
  /\ \A k \in 1 .. e : ch[k] = More(ch[k - 1], e)

LEMMA LongerFacts ==
  ASSUME Lookable(lat), NEW e \in 0 .. Size, NEW c \in Chains(e), EndOfChain(c) < e,
         NEW w \in ToSet(Lookup(lat, EndOfChain(c)).nodes), EndOf(w) <= e
  PROVE  /\ Append(c, w) \in Chains(e) /\ w \in Candidates(lat, EndOfChain(c))
         /\ EndOfChain(Append(c, w)) = EndOf(w) /\ EndOf(w) > EndOfChain(c)
         /\ w \in NodeSet(lat)
  <1> DEFINE p == EndOfChain(c)
  <1>1. p \in Nat /\ p < Len(lat.sentence) /\ e \in Nat
    <2>1. Size \in Nat /\ Size = Len(lat.sentence)
      BY DEF Size
    <2>2. p \in 0 .. e /\ p < e
      BY DEF Chains
    <2> HIDE DEF p
    <2> QED
      BY <2>1, <2>2
  <1> HIDE DEF p
  <1>2. Offers(lat, p, Lookup(lat, p))
    BY <1>1, LookupFacts
  <1>3. w \in Candidates(lat, p)
    BY <1>2 DEF Offers, ToSet, p
  <1>4. EndOf(w) = p + w.rlength /\ w.rlength \in Nat \ {0} /\ w \in Fresh(lat)
    BY <1>1, <1>3, CandidateFacts
  <1>5. w \in NodeSet(lat)
    BY <1>4 DEF Fresh
  <1>6. c \in Seq(NodeSet(lat))
    BY DEF Chains
  <1>7. Append(c, w) \in Seq(NodeSet(lat)) /\ Append(c, w) # <<>> /\ Append(c, w)[Len(Append(c, w))] = w
    BY <1>5, <1>6
  <1>8. EndOfChain(Append(c, w)) = EndOf(w)
    BY <1>7 DEF EndOfChain
  <1>9. EndOf(w) \in 0 .. e /\ EndOf(w) > p
    BY <1>1, <1>4
  <1> QED
    BY <1>3, <1>5, <1>7, <1>8, <1>9 DEF Chains, p

LEMMA MoreStays ==
  ASSUME Lookable(lat), NEW e \in 0 .. Size, NEW X \in SUBSET Chains(e)
  PROVE  More(X, e) \in SUBSET Chains(e)
  <1> SUFFICES ASSUME NEW c \in X, EndOfChain(c) < e, NEW d \in Longer(c, e) PROVE d \in Chains(e)
    BY DEF More
  <1>1. PICK w \in ToSet(Lookup(lat, EndOfChain(c)).nodes) : EndOf(w) <= e /\ d = Append(c, w)
    BY DEF Longer
  <1>2. c \in Chains(e)
    OBVIOUS
  <1> QED
    BY <1>1, <1>2, LongerFacts

LEMMA SegmentationFacts ==
  ASSUME Lookable(lat), NEW e \in 0 .. Size
  PROVE  \E ch : /\ AreChains(ch, e)
                 /\ Segmentations(e) = {c \in UNION {ch[k] : k \in 0 .. e} : EndOfChain(c) = e}
  <1> DEFINE S == SUBSET Chains(e)
             step == [k \in 1 .. e |-> [X \in S |-> More(X, e)]]
             Body(t) == [k \in 0 .. e |->
                           IF k = 0 THEN {<<>>}
                           ELSE UNION {Longer(c, e) : c \in {d \in t[k - 1] : EndOfChain(d) < e}}]
             ch == CHOOSE t : t = Body(t)
  <1>0. Segmentations(e) = {c \in UNION {ch[k] : k \in 0 .. e} : EndOfChain(c) = e}
    BY DEF Segmentations
  <1>1. e \in Nat
    BY DEF Size
  <1>2. {<<>>} \in S
    <2>1. <<>> \in Seq(NodeSet(lat)) /\ EndOfChain(<<>>) = 0
      BY DEF EndOfChain
    <2> QED
      BY <1>1, <2>1 DEF Chains
  <1>3. AreSteps(step, e, S)
    BY MoreStays DEF AreSteps
  <1>4. PICK g : IsIteration(g, step, e, S, {<<>>})
    <2> HIDE DEF step, S
    <2> QED
      BY <1>1, <1>2, <1>3, Iteration
  <1>5. \A k \in 1 .. e : step[k] = [X \in S |-> More(X, e)]
    OBVIOUS
  <1> HIDE DEF S, step, ch
  <1>6. g = Body(g)
    <2>1. g \in [0 .. e -> S] /\ g[0] = {<<>>} /\ \A k \in 1 .. e : g[k] = step[k][g[k - 1]]
      BY <1>4 DEF IsIteration
    <2>2. ASSUME NEW k \in 1 .. e PROVE g[k] = More(g[k - 1], e)
      <3>1. PICK x : x = g[k - 1]
        OBVIOUS
      <3>2. x \in S /\ g[k] = step[k][x]
        BY <1>1, <2>1, <3>1
      <3>3. g[k] = More(x, e)
        BY <1>5, <3>2
      <3> QED
        BY <3>1, <3>3
    <2>3. \A k \in 0 .. e : g[k] = IF k = 0 THEN {<<>>} ELSE More(g[k - 1], e)
      BY <1>1, <2>1, <2>2
    <2>4. g = [k \in 0 .. e |-> g[k]]
      BY <2>1
    <2>5. Body(g) = [k \in 0 .. e |-> IF k = 0 THEN {<<>>} ELSE More(g[k - 1], e)]
      BY DEF More
    <2> HIDE DEF Body
    <2> QED
      BY <2>3, <2>4, <2>5
  <1>7. ch = Body(ch)
    <2>1. \E t : t = Body(t)
      BY <1>6
    <2> HIDE DEF Body
    <2> QED
      BY <2>1, Zenon DEF ch
  <1>8. /\ \A k \in 0 .. e : ch[k] = Body(ch)[k]
        /\ ch = [k \in 0 .. e |-> Body(ch)[k]]
    <2>1. \A t : Body(t) = [k \in 0 .. e |-> Body(t)[k]]
      OBVIOUS
    <2> HIDE DEF Body
    <2> QED
      BY <1>7, <2>1
  <1>9. ch[0] = {<<>>} /\ \A k \in 1 .. e : ch[k] = More(ch[k - 1], e)
    <2>1. 0 \in 0 .. e /\ \A k \in 1 .. e : k \in 0 .. e /\ k # 0
      BY <1>1
    <2>2. Body(ch)[0] = {<<>>}
      BY <2>1
    <2>3. ASSUME NEW k \in 1 .. e PROVE Body(ch)[k] = More(ch[k - 1], e)
      <3>1. k \in 0 .. e /\ k # 0
        BY <2>1
      <3>2. Body(ch)[k] = UNION {Longer(c, e) : c \in {d \in ch[k - 1] : EndOfChain(d) < e}}
        BY <3>1
      <3> QED
        BY <3>2, Zenon DEF More
    <2> HIDE DEF Body
    <2> QED
      BY <1>8, <2>1, <2>2, <2>3
  <1> HIDE DEF Body
  <1>10. \A k \in 0 .. e : ch[k] \in S
    <2>1. \A k \in 1 .. e : ch[k - 1] \in S => ch[k] \in S
      BY <1>9, MoreStays DEF S
    <2>2. ch[0] \in S
      BY <1>2, <1>9
    <2> QED
      BY <1>1, <2>1, <2>2, StaysIn
  <1>11. ch \in [0 .. e -> S]
    <2>1. DOMAIN ch = 0 .. e /\ ch = [k \in 0 .. e |-> ch[k]]
      BY <1>8
    <2> QED
      BY <1>10, <2>1
  <1> QED
    BY <1>0, <1>9, <1>11 DEF AreChains, S

From(c) == <<Sentinel("bos", 0)>> \o c

LastOf(s) == s[Len(s)]

LEMMA ZeroedFacts ==
  ASSUME NEW l, NEW x \in NodeSet(l)
  PROVE  /\ Zeroed(x).rc = x.rc /\ Zeroed(x).lc = x.lc /\ Zeroed(x).wcost = x.wcost
         /\ Zeroed(x).stat = x.stat /\ Zeroed(x) \in NodeSet(l)
         /\ BeginOf(Zeroed(x)) = BeginOf(x) /\ EndOf(Zeroed(x)) = EndOf(x)
         /\ x \in Fresh(l) => Zeroed(x) = x
  <1> DEFINE z == Zeroed(x)
  <1>1. ASSUME NEW p \in Nat, NEW k \in Int, NEW h \in SUBSET Paths(Nat)
        PROVE  LET y == Rewire(x, p, k, h)
               IN  /\ y \in NodeSet(l) /\ y.prev = p /\ y.cost = k /\ y.lpath = h
                   /\ y.surface = x.surface /\ y.length = x.length /\ y.rlength = x.rlength
                   /\ y.stat = x.stat /\ y.lc = x.lc /\ y.rc = x.rc /\ y.wcost = x.wcost
                   /\ y.type = x.type /\ y.feature = x.feature
    BY DEF NodeSet, Rewire
  <1>2. /\ z \in NodeSet(l) /\ z.prev = 0 /\ z.cost = 0 /\ z.lpath = {}
        /\ z.surface = x.surface /\ z.length = x.length /\ z.rlength = x.rlength
        /\ z.stat = x.stat /\ z.lc = x.lc /\ z.rc = x.rc /\ z.wcost = x.wcost
        /\ z.type = x.type /\ z.feature = x.feature
    <2>1. 0 \in Nat /\ 0 \in Int /\ {} \in SUBSET Paths(Nat)
      OBVIOUS
    <2> QED
      BY <1>1, <2>1 DEF Zeroed
  <1> HIDE DEF z
  <1>3. x \in Fresh(l) => z = x
    BY <1>2 DEF NodeSet, Fresh
  <1>4. BeginOf(z) = BeginOf(x) /\ EndOf(z) = EndOf(x)
    BY <1>2 DEF BeginOf, EndOf
  <1> QED
    BY <1>2, <1>3, <1>4 DEF z

LEMMA FromFacts ==
  ASSUME NEW c \in Seq(NodeSet(lat))
  PROVE  /\ From(c) \in Seq(NodeSet(lat)) /\ From(c) # <<>>
         /\ LastOf(From(c)) \in NodeSet(lat)
         /\ c = <<>> => From(c) = <<Sentinel("bos", 0)>>
         /\ c # <<>> => LastOf(From(c)) = c[Len(c)]
         /\ \A w \in NodeSet(lat) : From(Append(c, w)) = Append(From(c), w)
         /\ \A w : From(c) \o <<w>> = Append(From(c), w)
  <1> DEFINE b == Sentinel("bos", 0)
             S == NodeSet(lat)
  <1>1. b \in S
    BY SentinelFacts DEF Fresh
  <1>2. From(c) = <<b>> \o c
    BY DEF From
  <1> HIDE DEF b, S
  <1>3. <<b>> \in Seq(S) /\ c \in Seq(S)
    BY <1>1 DEF S
  <1>4. /\ From(c) \in Seq(S) /\ Len(From(c)) = Len(c) + 1 /\ Len(c) \in Nat
        /\ From(c)[1] = b /\ \A i \in 1 .. Len(c) : From(c)[1 + i] = c[i]
    BY <1>2, <1>3
  <1>5. From(c) # <<>>
    BY <1>4
  <1>6. LastOf(From(c)) \in S
    BY <1>4 DEF LastOf
  <1>7. c = <<>> => From(c) = <<b>>
    BY <1>2, <1>3
  <1>8. c # <<>> => LastOf(From(c)) = c[Len(c)]
    BY <1>4, <1>3 DEF LastOf
  <1>9. ASSUME NEW w \in S PROVE From(Append(c, w)) = Append(From(c), w)
    <2>1. From(Append(c, w)) = <<b>> \o Append(c, w)
      BY DEF From, b
    <2>2. <<b>> \o Append(c, w) = Append(<<b>> \o c, w)
      BY <1>1, <1>3
    <2> QED
      BY <1>2, <2>1, <2>2
  <1>10. ASSUME NEW w PROVE From(c) \o <<w>> = Append(From(c), w)
    <2> HIDE DEF From
    <2> QED
      BY <1>4
  <1> QED
    BY <1>4, <1>5, <1>6, <1>7, <1>8, <1>9, <1>10 DEF b, S

LEMMA EndsAreNodes ==
  ASSUME Shape, NEW q \in 0 .. Size
  PROVE  /\ Ends(q) \subseteq DOMAIN nodes /\ \A n \in Ends(q) : nodes[n] \in NodeSet(lat)
         /\ end_node_list[q] = <<>> => Ends(q) = {}
  <1>1. end_node_list[q] \in Seq(DOMAIN nodes) /\ nodes \in Seq(NodeSet(lat))
    BY ShapeFacts DEF Shape
  <1>2. Ends(q) \subseteq DOMAIN nodes
    BY <1>1 DEF Ends, ToSet
  <1>3. end_node_list[q] = <<>> => Ends(q) = {}
    BY OneOrNone DEF Ends
  <1> QED
    BY <1>1, <1>2, <1>3

(* An offer has a node that costs no more than any way to it.              *)
LEMMA NodeOfOffer ==
  ASSUME Built, matrix \in Matrices, NEW q \in 0 .. pos - 1, NEW n \in Ends(q),
         NEW w \in ToSet(Lookup(lat, q).nodes), w \in Candidates(lat, q), EndOf(w) \in 0 .. Size
  PROVE  \E m \in Ends(EndOf(w)) :
           Zeroed(nodes[m]) = w /\ nodes[m].cost <= nodes[n].cost + LocalCost(nodes[n], w)
  <1>1. Shape /\ BosFirst /\ WordsJoined /\ AllTaken
    BY DEF Built
  <1>2. q \in 0 .. Size /\ q \in Nat /\ Size \in Nat
    BY <1>1, ShapeFacts
  <1>3. end_node_list[q] # <<>>
    BY <1>1, <1>2, EndsAreNodes
  <1>4. Taken(q)
    BY <1>1, <1>3 DEF AllTaken
  <1>5. PICK m \in Ends(EndOf(w)) : Zeroed(nodes[m]) = w
    BY <1>2, <1>4 DEF Taken
  <1>6. m \in DOMAIN nodes /\ nodes[m] \in NodeSet(lat) /\ nodes[n] \in NodeSet(lat)
    BY <1>1, <1>2, EndsAreNodes
  <1>7. w.stat \in {"nor", "unk"} /\ BeginOf(w) = q
    BY <1>2, CandidateFacts
  <1>8. m # 1
    BY <1>1, <1>5, <1>6, <1>7, ZeroedFacts, SentinelFacts DEF BosFirst
  <1>9. nodes[m].stat # "eos" /\ BeginOf(nodes[m]) = q
    BY <1>5, <1>6, <1>7, ZeroedFacts
  <1>10. Joined(m, Ends(q))
    BY <1>1, <1>6, <1>8, <1>9 DEF WordsJoined, WordAt
  <1>11. nodes[m].cost <= CostVia(nodes, n, nodes[m])
    BY <1>10 DEF Joined
  <1>12. CostVia(nodes, n, nodes[m]) = nodes[n].cost + LocalCost(nodes[n], w)
    BY <1>5, <1>6, ZeroedFacts DEF CostVia, LocalCost
  <1> QED
    BY <1>5, <1>11, <1>12

Reached(c) ==
  \E n \in Ends(EndOfChain(c)) :
     Zeroed(nodes[n]) = LastOf(From(c)) /\ nodes[n].cost <= ChainCost(From(c))

(* No segmentation is cheaper than the node its last word has.             *)
LEMMA LowerBound ==
  ASSUME Built, matrix \in Matrices, NEW e \in 0 .. pos, NEW ch, AreChains(ch, e)
  PROVE  \A k \in 0 .. e : \A c \in ch[k] : Reached(c)
  <1>1. Shape /\ BosFirst /\ Lookable(lat)
    BY DEF Built, Shape
  <1>2. Size \in Nat /\ e \in 0 .. Size /\ pos \in Nat /\ e \in Nat /\ pos \in 0 .. Size
    BY <1>1, ShapeFacts
  <1> DEFINE P == {k \in 0 .. e : \A c \in ch[k] : Reached(c)}
  <1>3. Reached(<<>>)
    <2> DEFINE b == Sentinel("bos", 0)
    <2>1. EndOfChain(<<>>) = 0 /\ 1 \in Ends(0) /\ nodes[1] = b
      BY <1>1 DEF EndOfChain, BosFirst
    <2>2. b \in NodeSet(lat) /\ b \in Fresh(lat) /\ b.cost = 0
      BY SentinelFacts DEF Fresh
    <2>3. Zeroed(b) = b
      BY <2>2, ZeroedFacts
    <2>4. From(<<>>) = <<b>>
      <3>1. <<>> \in Seq(NodeSet(lat))
        OBVIOUS
      <3> QED
        BY <3>1, FromFacts
    <2>5. LastOf(<<b>>) = b /\ ChainCost(<<b>>) = 0
      BY <2>2, CostOfOne DEF LastOf
    <2> HIDE DEF b
    <2> QED
      BY <2>1, <2>2, <2>3, <2>4, <2>5 DEF Reached
  <1>4. 0 \in P
    BY <1>2, <1>3 DEF AreChains
  <1>5. ASSUME NEW k \in 1 .. e, k - 1 \in P, NEW d \in ch[k] PROVE Reached(d)
    <2>1. ch[k] = More(ch[k - 1], e) /\ ch[k - 1] \in SUBSET Chains(e)
      BY <1>2 DEF AreChains
    <2>2. PICK c \in ch[k - 1] : EndOfChain(c) < e /\ d \in Longer(c, e)
      BY <1>5, <2>1 DEF More
    <2>3. PICK w \in ToSet(Lookup(lat, EndOfChain(c)).nodes) : EndOf(w) <= e /\ d = Append(c, w)
      BY <2>2 DEF Longer
    <2>4. Reached(c) /\ c \in Chains(e)
      BY <1>5, <2>1, <2>2
    <2> DEFINE q == EndOfChain(c)
    <2>5. /\ d \in Chains(e) /\ w \in Candidates(lat, q) /\ EndOfChain(d) = EndOf(w) /\ w \in NodeSet(lat)
      BY <1>1, <1>2, <2>2, <2>3, <2>4, LongerFacts
    <2>6. q \in 0 .. pos - 1
      BY <1>2, <2>2, <2>4 DEF Chains
    <2>7. EndOf(w) \in 0 .. Size /\ q \in 0 .. Size
      BY <1>2, <2>5, <2>6 DEF Chains
    <2>8. PICK n \in Ends(q) : Zeroed(nodes[n]) = LastOf(From(c)) /\ nodes[n].cost <= ChainCost(From(c))
      BY <2>4 DEF Reached
    <2>9. w \in ToSet(Lookup(lat, q).nodes)
      BY <2>3
    <2> HIDE DEF q
    <2>10. PICK m \in Ends(EndOf(w)) :
             Zeroed(nodes[m]) = w /\ nodes[m].cost <= nodes[n].cost + LocalCost(nodes[n], w)
      BY <2>5, <2>6, <2>7, <2>9, NodeOfOffer
    <2>11. nodes[n] \in NodeSet(lat) /\ nodes[m] \in NodeSet(lat)
      BY <1>1, <2>7, EndsAreNodes
    <2>12. LocalCost(nodes[n], w) = LocalCost(LastOf(From(c)), w)
      BY <2>8, <2>11, ZeroedFacts DEF LocalCost
    <2>13. c \in Seq(NodeSet(lat))
      BY <2>4 DEF Chains
    <2>14. /\ From(d) = Append(From(c), w) /\ From(c) \in Seq(NodeSet(lat)) /\ From(c) # <<>>
           /\ LastOf(From(d)) = w
      <3>1. From(d) = Append(From(c), w) /\ From(c) \in Seq(NodeSet(lat)) /\ From(c) # <<>>
        BY <2>3, <2>5, <2>13, FromFacts
      <3> HIDE DEF From
      <3> QED
        BY <3>1, <2>5 DEF LastOf
    <2>15. /\ ChainCost(From(d)) = ChainCost(From(c)) + LocalCost(LastOf(From(c)), w)
           /\ ChainCost(From(c)) \in Int /\ ChainCost(From(d)) \in Int
      BY <2>5, <2>14, CostOfLonger DEF LastOf
    <2>16. LocalCost(nodes[n], w) \in Int /\ nodes[n].cost \in Int /\ nodes[m].cost \in Int
      <3>1. LocalCost(nodes[n], w) \in Int
        BY <2>5, <2>11, CostFacts
      <3>2. nodes[n].cost \in Int /\ nodes[m].cost \in Int
        BY <2>11 DEF NodeSet
      <3> QED
        BY <3>1, <3>2
    <2>17. nodes[m].cost <= ChainCost(From(d))
      <3>1. nodes[m].cost <= nodes[n].cost + LocalCost(LastOf(From(c)), w)
        BY <2>10, <2>12
      <3>2. LocalCost(LastOf(From(c)), w) \in Int
        BY <2>12, <2>16
      <3>3. nodes[n].cost <= ChainCost(From(c))
        BY <2>8
      <3> HIDE DEF From
      <3> QED
        BY <2>15, <2>16, <3>1, <3>2, <3>3
    <2> QED
      BY <2>5, <2>10, <2>14, <2>17 DEF Reached
  <1>6. ASSUME NEW k \in 1 .. e, k - 1 \in P PROVE k \in P
    <2>1. \A d \in ch[k] : Reached(d)
      BY <1>5, <1>6
    <2>2. k \in 0 .. e
      BY <1>2
    <2> QED
      BY <2>1, <2>2
  <1> HIDE DEF P
  <1>7. 0 .. e \subseteq P
    BY <1>2, <1>4, <1>6, UpTo
  <1> QED
    BY <1>7 DEF P

(* So a word that no node before it reaches below the limit is reached by  *)
(* no segmentation below it, and so are the costs over the best node.      *)
LEMMA SegmentationBound ==
  ASSUME Built, matrix \in Matrices, NEW e \in 0 .. pos, NEW seg \in Segmentations(e),
         NEW w \in NodeSet(lat)
  PROVE  \E l \in Ends(e) : /\ CostVia(nodes, l, w) <= ChainCost(From(seg) \o <<w>>)
                            /\ CostVia(nodes, l, w) \in Int /\ ChainCost(From(seg) \o <<w>>) \in Int
  <1>1. Shape /\ Lookable(lat)
    BY DEF Built, Shape
  <1>2. e \in 0 .. Size
    BY <1>1, ShapeFacts
  <1>3. PICK ch : /\ AreChains(ch, e)
                  /\ Segmentations(e) = {c \in UNION {ch[k] : k \in 0 .. e} : EndOfChain(c) = e}
    BY <1>1, <1>2, SegmentationFacts
  <1>4. PICK k \in 0 .. e : seg \in ch[k]
    BY <1>3
  <1>5. EndOfChain(seg) = e
    BY <1>3
  <1>6. Reached(seg)
    BY <1>3, <1>4, LowerBound
  <1>7. PICK l \in Ends(e) : Zeroed(nodes[l]) = LastOf(From(seg)) /\ nodes[l].cost <= ChainCost(From(seg))
    BY <1>5, <1>6 DEF Reached
  <1>8. seg \in Seq(NodeSet(lat))
    BY <1>3, <1>4 DEF AreChains, Chains
  <1>9. /\ From(seg) \in Seq(NodeSet(lat)) /\ From(seg) # <<>>
        /\ From(seg) \o <<w>> = Append(From(seg), w)
    BY <1>8, FromFacts
  <1>10. /\ ChainCost(Append(From(seg), w)) = ChainCost(From(seg)) + LocalCost(LastOf(From(seg)), w)
         /\ ChainCost(From(seg)) \in Int /\ ChainCost(Append(From(seg), w)) \in Int
    BY <1>9, CostOfLonger DEF LastOf
  <1>11. nodes[l] \in NodeSet(lat)
    BY <1>1, <1>2, EndsAreNodes
  <1>12. LocalCost(nodes[l], w) = LocalCost(LastOf(From(seg)), w)
    BY <1>7, <1>11, ZeroedFacts DEF LocalCost
  <1>13. LocalCost(nodes[l], w) \in Int /\ nodes[l].cost \in Int
    BY <1>11, CostFacts DEF NodeSet
  <1>14. CostVia(nodes, l, w) = nodes[l].cost + LocalCost(nodes[l], w)
    BY DEF CostVia
  <1> DEFINE c == ChainCost(From(seg) \o <<w>>)
  <1>15. /\ c = ChainCost(From(seg)) + LocalCost(nodes[l], w)
         /\ c \in Int /\ ChainCost(From(seg)) \in Int
    BY <1>9, <1>10, <1>12
  <1> HIDE DEF c
  <1>16. CostVia(nodes, l, w) <= c /\ CostVia(nodes, l, w) \in Int
    BY <1>7, <1>13, <1>14, <1>15
  <1> QED
    BY <1>15, <1>16 DEF c

LEMMA OnlyThen == ASSUME IInv PROVE FailureJustified
  <1> SUFFICES ASSUME phase = "failed" PROVE FailureJustified
    BY DEF FailureJustified
  <1>1. Built /\ Shape /\ BosFirst /\ FailedAt /\ matrix \in Matrices /\ Lookable(lat)
    BY DEF IInv, Built, Shape
  <1>2. pos \in Nat /\ Size \in Nat /\ Size = Len(lat.sentence) /\ CostLimit \in Int
    BY <1>1, ShapeFacts, MatrixAssumption DEF Size
  <1>3. ASSUME NEW e \in 0 .. pos, NEW w \in NodeSet(lat), \A l \in Ends(e) : CostVia(nodes, l, w) >= CostLimit
        PROVE  \A seg \in Segmentations(e) :
                 ChainCost(<<Sentinel("bos", 0)>> \o seg \o <<w>>) >= CostLimit
    <2> TAKE seg \in Segmentations(e)
    <2>1. PICK l \in Ends(e) :
            /\ CostVia(nodes, l, w) <= ChainCost(From(seg) \o <<w>>)
            /\ CostVia(nodes, l, w) \in Int /\ ChainCost(From(seg) \o <<w>>) \in Int
      BY <1>1, SegmentationBound
    <2>2. ChainCost(From(seg) \o <<w>>) >= CostLimit
      BY <1>2, <1>3, <2>1
    <2> QED
      BY <2>2 DEF From
  <1>4. CASE pos < Size
    <2>1. PICK w \in ToSet(Lookup(lat, pos).nodes) : \A l \in Ends(pos) : CostVia(nodes, l, w) >= CostLimit
      BY <1>1, <1>2, <1>4 DEF FailedAt
    <2>2. Offers(lat, pos, Lookup(lat, pos))
      BY <1>1, <1>2, <1>4, LookupFacts
    <2>3. w \in Candidates(lat, pos)
      BY <2>2 DEF Offers, ToSet
    <2>4. w \in NodeSet(lat)
      BY <1>2, <2>3, CandidateFacts DEF Fresh
    <2>5. pos \in 0 .. pos /\ pos # Size
      BY <1>2, <1>4
    <2>6. \A seg \in Segmentations(pos) :
            ChainCost(<<Sentinel("bos", 0)>> \o seg \o <<w>>) >= CostLimit
      BY <1>3, <2>1, <2>4, <2>5
    <2> QED
      BY <2>5, <2>6 DEF FailureJustified
  <1>5. CASE pos = Size
    <2> DEFINE r == Sentinel("eos", Size)
    <2>1. \A l \in Ends(LastEnd) : CostVia(nodes, l, r) >= CostLimit
      BY <1>1, <1>2, <1>5 DEF FailedAt
    <2>2. LastEnd \in 0 .. pos
      BY <1>1, <1>2, <1>5, LastEndFacts DEF IsLast
    <2>3. r \in NodeSet(lat)
      BY <1>2, SentinelFacts DEF Fresh
    <2> HIDE DEF r
    <2>4. \A seg \in Segmentations(LastEnd) :
            ChainCost(<<Sentinel("bos", 0)>> \o seg \o <<r>>) >= CostLimit
      BY <1>3, <2>1, <2>2, <2>3
    <2> QED
      BY <1>5, <2>4 DEF FailureJustified, r
  <1>6. pos < Size \/ pos = Size
    BY <1>1, <1>2 DEF FailedAt
  <1> QED
    BY <1>4, <1>5, <1>6

(* "too long sentence." is said only if some word at the position, or EOS, *)
(* is out of reach of every segmentation there is (viterbi.cpp 218-221).   *)
THEOREM FailuresJustified == NulIsNoSpace /\ ShortTexts => (Spec => []FailureJustified)
  BY Invariance, OnlyThen, PTL

(* Back along prev from EOS: after k steps the head is BOS, or k below EOS.*)
LinksGoBack ==
  \A n \in DOMAIN nodes : IF n = 1 THEN nodes[n].prev = 0 ELSE nodes[n].prev \in 1 .. n - 1

IsWayBack(p) ==
  /\ p \in Seq(DOMAIN nodes) /\ p # <<>> /\ p[Len(p)] = EOS
  /\ \A i \in 1 .. Len(p) - 1 : p[i + 1] # 1 /\ p[i] = nodes[p[i + 1]].prev

Extended(p) ==
  IF nodes[Head(p)].prev = 0 THEN p ELSE <<nodes[Head(p)].prev>> \o p

LEMMA BackStep ==
  ASSUME LinksGoBack, Len(nodes) \in Nat, DOMAIN nodes = 1 .. Len(nodes), NEW k \in 1 .. Len(nodes),
         NEW p, IsWayBack(p), p[1] = 1 \/ p[1] <= Len(nodes) - (k - 1)
  PROVE  IsWayBack(Extended(p)) /\ (Extended(p)[1] = 1 \/ Extended(p)[1] <= Len(nodes) - k)
  <1> DEFINE h == p[1]
             q == <<nodes[h].prev>> \o p
  <1>1. h \in DOMAIN nodes /\ Head(p) = h /\ h \in Nat
    BY DEF IsWayBack
  <1>2. CASE nodes[h].prev = 0
    <2>1. h = 1
      BY <1>1, <1>2 DEF LinksGoBack
    <2> QED
      BY <1>1, <1>2, <2>1 DEF Extended
  <1>3. CASE nodes[h].prev # 0
    <2>1. h # 1 /\ nodes[h].prev \in 1 .. h - 1
      BY <1>1, <1>3 DEF LinksGoBack
    <2>2. nodes[h].prev \in DOMAIN nodes /\ nodes[h].prev <= Len(nodes) - k
      BY <1>1, <2>1
    <2>3. Extended(p) = q
      BY <1>1, <1>3 DEF Extended
    <2>4. PICK l : l = nodes[h].prev
      OBVIOUS
    <2>5. p \in Seq(DOMAIN nodes) /\ Len(p) \in Nat \ {0}
      BY DEF IsWayBack
    <2>6. /\ q \in Seq(DOMAIN nodes) /\ Len(q) = Len(p) + 1 /\ q[1] = l
          /\ \A i \in 1 .. Len(p) : q[i + 1] = p[i]
      <3> DEFINE X == DOMAIN nodes
      <3>1. l \in X /\ p \in Seq(X) /\ q = <<l>> \o p
        BY <2>2, <2>4, <2>5
      <3> HIDE DEF q, X
      <3>2. q \in Seq(X) /\ Len(q) = Len(p) + 1 /\ q[1] = l /\ \A i \in 1 .. Len(p) : q[i + 1] = p[i]
        BY <3>1, <2>5
      <3> QED
        BY <3>2 DEF X
    <2> HIDE DEF q
    <2>7. ASSUME NEW i \in 1 .. Len(q) - 1 PROVE q[i + 1] # 1 /\ q[i] = nodes[q[i + 1]].prev
      <3>1. q[i + 1] = p[i] /\ i \in 1 .. Len(p)
        BY <2>5, <2>6
      <3>2. CASE i = 1
        BY <2>1, <2>4, <2>6, <3>1, <3>2
      <3>3. CASE i # 1
        <4>1. i - 1 \in 1 .. Len(p) - 1 /\ (i - 1) + 1 = i /\ i - 1 \in 1 .. Len(p)
          BY <2>5, <3>1, <3>3
        <4>2. p[i] # 1 /\ p[i - 1] = nodes[p[i]].prev
          BY <4>1 DEF IsWayBack
        <4>3. q[(i - 1) + 1] = p[i - 1]
          BY <2>6, <4>1
        <4> QED
          BY <3>1, <4>1, <4>2, <4>3
      <3> QED
        BY <3>2, <3>3
    <2>8. q # <<>> /\ q[Len(q)] = EOS
      <3>1. Len(p) \in 1 .. Len(p) /\ p[Len(p)] = EOS
        BY <2>5 DEF IsWayBack
      <3>2. q[Len(p) + 1] = p[Len(p)]
        BY <2>6, <3>1
      <3>3. Len(q) # 0
        BY <2>5, <2>6
      <3> QED
        BY <2>6, <3>1, <3>2, <3>3
    <2>9. IsWayBack(q)
      BY <2>6, <2>7, <2>8 DEF IsWayBack
    <2> QED
      BY <2>2, <2>3, <2>4, <2>6, <2>9
  <1> QED
    BY <1>2, <1>3

LEMMA BestPathFacts ==
  ASSUME LinksGoBack, Len(nodes) \in Nat \ {0}, DOMAIN nodes = 1 .. Len(nodes)
  PROVE  IsWayBack(BestPath) /\ BestPath[1] = 1
  <1> DEFINE n == Len(nodes)
             first == <<EOS>>
             Body(t) == [k \in 0 .. n |->
                           IF k = 0 THEN <<EOS>>
                           ELSE LET p == t[k - 1]
                                IN  IF nodes[Head(p)].prev = 0 THEN p ELSE <<nodes[Head(p)].prev>> \o p]
             f == CHOOSE t : t = Body(t)
             W == {g \in Seq(DOMAIN nodes) : g # <<>>}
             step == [k \in 1 .. n |-> [p \in W |-> Extended(p)]]
  <1>0. BestPath = f[n]
    BY DEF BestPath
  <1>1. first \in W /\ IsWayBack(first) /\ first[1] = n
    <2>1. EOS \in DOMAIN nodes /\ EOS = n
      BY DEF EOS
    <2> QED
      BY <2>1 DEF IsWayBack
  <1>2. ASSUME NEW p \in W PROVE Extended(p) \in W
    <2>1. Head(p) \in DOMAIN nodes
      OBVIOUS
    <2>2. CASE nodes[Head(p)].prev = 0
      BY <2>2 DEF Extended
    <2>3. CASE nodes[Head(p)].prev # 0
      <3>1. nodes[Head(p)].prev \in DOMAIN nodes
        BY <2>1, <2>3 DEF LinksGoBack
      <3> DEFINE X == DOMAIN nodes
      <3>2. PICK l : l = nodes[Head(p)].prev
        OBVIOUS
      <3>3. l \in X /\ p \in Seq(X) /\ Extended(p) = <<l>> \o p
        BY <2>3, <3>1, <3>2 DEF Extended
      <3> HIDE DEF X
      <3>4. <<l>> \o p \in Seq(X) /\ <<l>> \o p # <<>>
        BY <3>3
      <3> QED
        BY <3>3, <3>4 DEF X
    <2> QED
      BY <2>2, <2>3
  <1>3. AreSteps(step, n, W)
    BY <1>2 DEF AreSteps
  <1>4. PICK g : IsIteration(g, step, n, W, first)
    <2> HIDE DEF step, W, first
    <2> QED
      BY <1>1, <1>3, Iteration
  <1>5. \A k \in 1 .. n : step[k] = [p \in W |-> Extended(p)]
    OBVIOUS
  <1> HIDE DEF W, first, step, f
  <1>6. g = Body(g)
    <2>1. g \in [0 .. n -> W] /\ g[0] = first /\ \A k \in 1 .. n : g[k] = step[k][g[k - 1]]
      BY <1>4 DEF IsIteration
    <2>2. ASSUME NEW k \in 1 .. n PROVE g[k] = Extended(g[k - 1])
      <3>1. g[k - 1] \in W
        BY <2>1
      <3> QED
        BY <1>5, <2>1, <3>1
    <2>3. ASSUME NEW k \in 0 .. n PROVE g[k] = IF k = 0 THEN <<EOS>> ELSE Extended(g[k - 1])
      <3>1. k = 0 \/ k \in 1 .. n
        OBVIOUS
      <3>2. CASE k = 0
        BY <2>1, <3>2 DEF first
      <3>3. CASE k \in 1 .. n
        <4>1. g[k] = Extended(g[k - 1]) /\ k # 0
          BY <2>2, <3>3
        <4> QED
          BY <4>1
      <3> QED
        BY <3>1, <3>2, <3>3
    <2>4. g = [k \in 0 .. n |-> g[k]]
      BY <2>1
    <2>5. Body(g) = [k \in 0 .. n |-> IF k = 0 THEN <<EOS>> ELSE Extended(g[k - 1])]
      BY DEF Extended
    <2> HIDE DEF Body
    <2> QED
      BY <2>3, <2>4, <2>5
  <1>7. f = Body(f)
    <2>1. \E t : t = Body(t)
      BY <1>6
    <2> HIDE DEF Body
    <2> QED
      BY <2>1, Zenon DEF f
  <1>8. \A k \in 0 .. n : f[k] = Body(f)[k]
    BY <1>7, Zenon
  <1>9. f[0] = first /\ \A k \in 1 .. n : f[k] = Extended(f[k - 1])
    <2>1. Body(f)[0] = first
      BY DEF first
    <2>2. ASSUME NEW k \in 1 .. n PROVE Body(f)[k] = Extended(f[k - 1])
      <3>1. k \in 0 .. n /\ k # 0
        OBVIOUS
      <3> QED
        BY <3>1, Zenon DEF Extended
    <2>3. 0 \in 0 .. n /\ \A k \in 1 .. n : k \in 0 .. n
      OBVIOUS
    <2> HIDE DEF Body
    <2> QED
      BY <1>8, <2>1, <2>2, <2>3
  <1> HIDE DEF Body
  <1> DEFINE P == {k \in 0 .. n : IsWayBack(f[k]) /\ (f[k][1] = 1 \/ f[k][1] <= n - k)}
  <1>10. 0 \in P
    BY <1>1, <1>9
  <1>11. ASSUME NEW k \in 1 .. n, k - 1 \in P PROVE k \in P
    <2>1. IsWayBack(f[k - 1]) /\ (f[k - 1][1] = 1 \/ f[k - 1][1] <= n - (k - 1))
      BY <1>11
    <2>2. f[k] = Extended(f[k - 1]) /\ k \in 0 .. n
      BY <1>9
    <2> QED
      BY <2>1, <2>2, BackStep
  <1> HIDE DEF P
  <1>12. 0 .. n \subseteq P
    BY <1>10, <1>11, UpTo
  <1>13. IsWayBack(f[n]) /\ (f[n][1] = 1 \/ f[n][1] <= n - n)
    BY <1>12 DEF P
  <1>14. f[n][1] \in DOMAIN nodes
    BY <1>13 DEF IsWayBack
  <1> QED
    BY <1>0, <1>13, <1>14

LEMMA FinalFacts ==
  ASSUME IInv, Finished
  PROVE  /\ Built /\ Shape /\ BosFirst /\ EosLast /\ Filed /\ WordsJoined /\ EosJoined
         /\ matrix \in Matrices /\ Lookable(lat) /\ pos = Size /\ Size \in Nat
         /\ Len(nodes) \in Nat \ {0} /\ DOMAIN nodes = 1 .. Len(nodes)
         /\ \A n \in DOMAIN nodes : nodes[n] \in NodeSet(lat)
         /\ EOS = Len(nodes) /\ EOS # 1 /\ nodes[EOS].stat = "eos"
         /\ LastEnd \in 0 .. Size /\ IsLast(end_node_list, Size, LastEnd)
  <1>1. /\ Built /\ Shape /\ BosFirst /\ EosLast /\ Filed /\ WordsJoined /\ EosJoined
        /\ matrix \in Matrices /\ Lookable(lat)
    BY DEF IInv, Built, Finished, Shape
  <1>2. /\ Len(nodes) \in Nat \ {0} /\ DOMAIN nodes = 1 .. Len(nodes) /\ Size \in Nat
    BY <1>1, ShapeFacts
  <1>3. \A n \in DOMAIN nodes : nodes[n] \in NodeSet(lat)
    BY <1>1 DEF Shape
  <1>4. EOS = Len(nodes) /\ nodes[EOS].stat = "eos" /\ pos = Size
    BY <1>1 DEF EOS, EosJoined
  <1>5. nodes[1].stat = "bos"
    BY <1>1, SentinelFacts DEF BosFirst
  <1>6. IsLast(end_node_list, Size, LastEnd)
    BY <1>1, LastEndFacts
  <1> QED
    BY <1>1, <1>2, <1>3, <1>4, <1>5, <1>6 DEF IsLast

(* Every node but BOS is joined to all nodes that end where it begins; EOS *)
(* begins at the last position a word ends at.                             *)
LEMMA NodeJoined ==
  ASSUME IInv, Finished, NEW n \in DOMAIN nodes, n # 1
  PROVE  \E q \in 0 .. LastEnd :
           /\ Joined(n, Ends(q))
           /\ n = EOS => q = LastEnd
           /\ n # EOS => Zeroed(nodes[n]) \in ToSet(Lookup(lat, q).nodes) /\ q < Size
  <1>1. /\ Shape /\ EosLast /\ WordsJoined /\ EosJoined /\ Size \in Nat /\ EOS = Len(nodes)
        /\ LastEnd \in 0 .. Size /\ IsLast(end_node_list, Size, LastEnd) /\ pos = Size
    BY FinalFacts
  <1>2. CASE n = EOS
    <2>1. LastEnd \in 0 .. LastEnd /\ Joined(n, Ends(LastEnd))
      BY <1>1, <1>2 DEF EosJoined
    <2> QED
      BY <1>2, <2>1
  <1>3. CASE n # EOS
    <2>1. WordAt(n, BeginOf(nodes[n]))
      BY <1>1, <1>3 DEF EosLast, WordsJoined
    <2>2. PICK q : q = BeginOf(nodes[n])
      OBVIOUS
    <2>3. q \in 0 .. Size - 1 /\ Joined(n, Ends(q)) /\ Zeroed(nodes[n]) \in ToSet(Lookup(lat, q).nodes)
      BY <1>1, <2>1, <2>2 DEF WordAt
    <2>4. q \in 0 .. Size /\ q < Size
      BY <1>1, <2>3
    <2>5. Ends(q) # {}
      BY <2>3 DEF Joined
    <2>6. end_node_list[q] # <<>>
      BY <1>1, <2>4, <2>5, EndsAreNodes
    <2>7. q \notin LastEnd + 1 .. Size
      BY <1>1, <2>6 DEF IsLast
    <2>8. q \in 0 .. LastEnd
      BY <1>1, <2>4, <2>7
    <2> QED
      BY <1>3, <2>3, <2>4, <2>8
  <1> QED
    BY <1>2, <1>3

LEMMA LinksDescend == ASSUME IInv, Finished PROVE LinksGoBack
  <1>1. BosFirst
    BY FinalFacts
  <1>2. nodes[1].prev = 0
    BY <1>1, SentinelFacts DEF BosFirst, Fresh
  <1>3. ASSUME NEW n \in DOMAIN nodes, n # 1 PROVE nodes[n].prev \in 1 .. n - 1
    BY <1>3, NodeJoined DEF Joined
  <1> QED
    BY <1>2, <1>3 DEF LinksGoBack

(* One link of the best path: the left node ends where the right one       *)
(* begins, and the costs add up.                                           *)
LEMMA LinkFacts ==
  ASSUME IInv, Finished, NEW p, IsWayBack(p), NEW i \in 1 .. Len(p) - 1,
         NEW l, l = p[i], NEW n, n = p[i + 1]
  PROVE  /\ l \in DOMAIN nodes /\ n \in DOMAIN nodes /\ l # EOS
         /\ EndOf(nodes[l]) \in 0 .. LastEnd
         /\ nodes[n].cost = nodes[l].cost + LocalCost(nodes[l], nodes[n])
         /\ n = EOS => EndOf(nodes[l]) = LastEnd
         /\ n # EOS => /\ Zeroed(nodes[n]) \in ToSet(Lookup(lat, EndOf(nodes[l])).nodes)
                       /\ EndOf(nodes[l]) < Size
  <1>1. /\ Shape /\ Filed /\ EosLast /\ Size \in Nat /\ LastEnd \in 0 .. Size /\ EOS = Len(nodes)
        /\ nodes[EOS].stat = "eos"
    BY FinalFacts
  <1>2. p \in Seq(DOMAIN nodes) /\ i \in 1 .. Len(p) /\ i + 1 \in 1 .. Len(p)
    BY DEF IsWayBack
  <1>3. l \in DOMAIN nodes /\ n \in DOMAIN nodes
    BY <1>2
  <1>4. n # 1 /\ l = nodes[n].prev
    BY DEF IsWayBack
  <1>5. PICK q \in 0 .. LastEnd :
           /\ Joined(n, Ends(q))
           /\ n = EOS => q = LastEnd
           /\ n # EOS => Zeroed(nodes[n]) \in ToSet(Lookup(lat, q).nodes) /\ q < Size
    BY <1>3, <1>4, NodeJoined
  <1>6. l \in Ends(q) /\ nodes[n].cost = CostVia(nodes, l, nodes[n])
    BY <1>4, <1>5 DEF Joined
  <1>7. q \in 0 .. Size
    BY <1>1, <1>5
  <1>8. EndOf(nodes[l]) = q
    BY <1>1, <1>6, <1>7 DEF Filed
  <1>9. l # EOS
    BY <1>1, <1>6 DEF Ends
  <1>10. nodes[n].cost = nodes[l].cost + LocalCost(nodes[l], nodes[n])
    BY <1>6 DEF CostVia
  <1> QED
    BY <1>3, <1>5, <1>8, <1>9, <1>10

(* The words of a path, up to its k-th.                                    *)
Spelled(p, k) == [j \in 1 .. k |-> Zeroed(nodes[p[j + 1]])]

LEMMA SpelledFacts ==
  ASSUME NEW l, \A n \in DOMAIN nodes : nodes[n] \in NodeSet(l),
         NEW p \in Seq(DOMAIN nodes), NEW k \in 0 .. Len(p) - 1
  PROVE  /\ Spelled(p, k) \in Seq(NodeSet(l)) /\ Len(Spelled(p, k)) = k
         /\ \A j \in 1 .. k : Spelled(p, k)[j] = Zeroed(nodes[p[j + 1]])
         /\ k = 0 => Spelled(p, k) = <<>>
         /\ k # 0 => Spelled(p, k) = Append(Spelled(p, k - 1), Zeroed(nodes[p[k + 1]]))
  <1> DEFINE S == NodeSet(l)
             z == [j \in 1 .. Len(p) - 1 |-> Zeroed(nodes[p[j + 1]])]
  <1>1. Len(p) \in Nat /\ k \in Nat /\ \A j \in 1 .. k : j \in 1 .. Len(p) - 1
    OBVIOUS
  <1>2. ASSUME NEW j \in 1 .. Len(p) - 1 PROVE z[j] \in S
    <2>1. p[j + 1] \in DOMAIN nodes
      OBVIOUS
    <2> QED
      BY <2>1, ZeroedFacts
  <1>3. Spelled(p, k) = [j \in 1 .. k |-> z[j]] /\ Spelled(p, k - 1) = [j \in 1 .. k - 1 |-> z[j]]
    BY <1>1 DEF Spelled
  <1>4. \A j \in 1 .. k : z[j] = Zeroed(nodes[p[j + 1]])
    BY <1>1
  <1> HIDE DEF z, S
  <1>5. [j \in 1 .. k |-> z[j]] \in Seq(S) /\ Len([j \in 1 .. k |-> z[j]]) = k
    BY <1>1, <1>2
  <1>6. k = 0 => [j \in 1 .. k |-> z[j]] = <<>>
    BY <1>1
  <1>7. k # 0 => [j \in 1 .. k |-> z[j]] = Append([j \in 1 .. k - 1 |-> z[j]], z[k])
    <2>1. CASE k # 0
      <3> DEFINE x == [j \in 1 .. k |-> z[j]]
                 y == [j \in 1 .. k - 1 |-> z[j]]
                 a == Append(y, z[k])
      <3>1. k \in 1 .. k /\ k - 1 \in Nat /\ \A j \in 1 .. k - 1 : j \in 1 .. k
        BY <1>1, <2>1
      <3>2. y \in Seq(S) /\ Len(y) = k - 1 /\ z[k] \in S /\ x \in Seq(S) /\ Len(x) = k
        BY <1>1, <1>2, <1>5, <3>1
      <3>3. \A j \in 1 .. k - 1 : y[j] = z[j]
        OBVIOUS
      <3>4. \A i \in 1 .. k : x[i] = z[i]
        OBVIOUS
      <3> HIDE DEF x, y
      <3>5. a \in Seq(S) /\ Len(a) = k /\ a[k] = z[k] /\ \A j \in 1 .. k - 1 : a[j] = y[j]
        BY <1>1, <3>1, <3>2
      <3>6. \A j \in 1 .. k : a[j] = x[j]
        BY <1>1, <3>1, <3>3, <3>4, <3>5
      <3> HIDE DEF a
      <3>7. x = a
        BY <3>2, <3>5, <3>6
      <3> QED
        BY <3>7 DEF x, y, a
    <2> QED
      BY <2>1
  <1> QED
    BY <1>1, <1>3, <1>4, <1>5, <1>6, <1>7 DEF S

(* The words of the best path up to the k-th are a chain the lookup offers,*)
(* and the cost on the k-th node is that of the chain.                     *)
IsSpelled(p, k, ch) ==
  LET c == Spelled(p, k)
      n == p[k + 1]
  IN  /\ k \in 0 .. LastEnd /\ c \in ch[k]
      /\ EndOfChain(c) = EndOf(nodes[n]) /\ EndOfChain(c) \in k .. LastEnd
      /\ ChainCost(From(c)) = nodes[n].cost /\ LastOf(From(c)) = Zeroed(nodes[n])

LEMMA SpelledBefore ==
  ASSUME IInv, Finished, NEW p, IsWayBack(p), p[1] = 1, Len(p) >= 2,
         NEW ch, AreChains(ch, LastEnd)
  PROVE  IsSpelled(p, 0, ch)
  <1>1. BosFirst /\ Filed /\ Size \in Nat /\ LastEnd \in 0 .. Size /\ matrix \in Matrices
        /\ \A n \in DOMAIN nodes : nodes[n] \in NodeSet(lat)
    BY FinalFacts
  <1>2. p \in Seq(DOMAIN nodes) /\ 0 \in 0 .. Len(p) - 1
    BY DEF IsWayBack
  <1>3. Spelled(p, 0) = <<>>
    BY <1>1, <1>2, SpelledFacts
  <1> DEFINE b == Sentinel("bos", 0)
  <1>4. nodes[1] = b /\ b \in Fresh(lat) /\ b \in NodeSet(lat) /\ b.cost = 0 /\ EndOf(b) = 0
    BY <1>1, SentinelFacts DEF BosFirst, Fresh
  <1>5. Zeroed(b) = b /\ ChainCost(<<b>>) = 0
    BY <1>1, <1>4, ZeroedFacts, CostOfOne
  <1>6. From(<<>>) = <<b>>
    <2>1. <<>> \in Seq(NodeSet(lat))
      OBVIOUS
    <2> QED
      BY <2>1, FromFacts
  <1> HIDE DEF b
  <1>7. LastOf(<<b>>) = b
    BY DEF LastOf
  <1>8. EndOfChain(<<>>) = 0 /\ 0 \in 0 .. LastEnd /\ <<>> \in ch[0]
    BY <1>1 DEF EndOfChain, AreChains
  <1> QED
    BY <1>3, <1>4, <1>5, <1>6, <1>7, <1>8 DEF IsSpelled

LEMMA SpelledOn ==
  ASSUME IInv, Finished, NEW p, IsWayBack(p), NEW ch, AreChains(ch, LastEnd),
         NEW k \in 1 .. Len(p) - 2, IsSpelled(p, k - 1, ch)
  PROVE  IsSpelled(p, k, ch)
  <1>1. /\ Built /\ Shape /\ Lookable(lat) /\ matrix \in Matrices
        /\ Size \in Nat /\ LastEnd \in 0 .. Size /\ EOS = Len(nodes) /\ DOMAIN nodes = 1 .. Len(nodes)
        /\ \A n \in DOMAIN nodes : nodes[n] \in NodeSet(lat)
    BY FinalFacts
  <1>2. /\ p \in Seq(DOMAIN nodes) /\ Len(p) \in Nat /\ k \in Nat /\ (k - 1) + 1 = k
        /\ k \in 1 .. Len(p) - 1 /\ k + 1 \in 1 .. Len(p) - 1 /\ k \in 0 .. Len(p) - 1
        /\ k - 1 \in 0 .. Len(p) - 1 /\ k + 2 \in 1 .. Len(p) /\ (k + 1) + 1 = k + 2
    BY DEF IsWayBack
  <1>3. PICK l : l = p[k]
    OBVIOUS
  <1>4. PICK n : n = p[k + 1]
    OBVIOUS
  <1>5. PICK m : m = p[k + 2]
    OBVIOUS
  <1>6. PICK e : e = LastEnd
    OBVIOUS
  <1>7. n # EOS /\ n \in DOMAIN nodes /\ EndOf(nodes[n]) \in 0 .. e
    BY <1>2, <1>4, <1>5, <1>6, LinkFacts
  <1>8. /\ l \in DOMAIN nodes /\ EndOf(nodes[l]) \in 0 .. e
        /\ nodes[n].cost = nodes[l].cost + LocalCost(nodes[l], nodes[n])
        /\ Zeroed(nodes[n]) \in ToSet(Lookup(lat, EndOf(nodes[l])).nodes)
        /\ EndOf(nodes[l]) < Size
    BY <1>2, <1>3, <1>4, <1>6, <1>7, LinkFacts
  <1> DEFINE c == Spelled(p, k - 1)
             d == Spelled(p, k)
             w == Zeroed(nodes[n])
             q == EndOf(nodes[l])
  <1>9. /\ k - 1 \in 0 .. e /\ c \in ch[k - 1]
        /\ EndOfChain(c) = q /\ EndOfChain(c) \in k - 1 .. e
        /\ ChainCost(From(c)) = nodes[l].cost /\ LastOf(From(c)) = Zeroed(nodes[l])
    BY <1>2, <1>3, <1>6 DEF IsSpelled
  <1>10. d = Append(c, w) /\ c \in Seq(NodeSet(lat)) /\ d \in Seq(NodeSet(lat))
    <2>1. c \in Seq(NodeSet(lat))
      BY <1>1, <1>2, SpelledFacts
    <2>2. k \in 0 .. Len(p) - 1 /\ k # 0
      BY <1>2
    <2>3. d \in Seq(NodeSet(lat)) /\ d = Append(c, w)
      BY <1>1, <1>2, <1>4, <2>2, SpelledFacts
    <2> QED
      BY <2>1, <2>3
  <1>11. nodes[n] \in NodeSet(lat) /\ nodes[l] \in NodeSet(lat)
    BY <1>1, <1>7, <1>8
  <1>12. w \in NodeSet(lat) /\ EndOf(w) = EndOf(nodes[n]) /\ BeginOf(w) = BeginOf(nodes[n])
    BY <1>11, ZeroedFacts
  <1> HIDE DEF c, d, w, q
  <1>13. w \in Candidates(lat, q) /\ EndOf(w) > q
    <2>1. q \in Nat /\ q < Len(lat.sentence)
      BY <1>1, <1>6, <1>8 DEF Size, q
    <2>2. Offers(lat, q, Lookup(lat, q))
      BY <1>1, <2>1, LookupFacts
    <2>3. w \in Candidates(lat, q)
      BY <1>8, <2>2 DEF Offers, ToSet, w, q
    <2> QED
      BY <2>1, <2>3, CandidateFacts
  <1>14. EndOf(w) \in k .. e /\ k \in 0 .. e /\ q < e /\ EndOf(w) <= e /\ e \in Nat /\ k \in 1 .. e
    <2>1. e \in Nat /\ k \in 1 .. e /\ k \in 0 .. e /\ k - 1 \in Nat
      <3>1. e \in Nat /\ k - 1 \in 0 .. e
        BY <1>1, <1>6, <1>9
      <3>2. q \in k - 1 .. e /\ EndOf(w) > q /\ EndOf(w) \in 0 .. e
        BY <1>7, <1>9, <1>12, <1>13
      <3> QED
        BY <1>2, <3>1, <3>2
    <2>2. q \in k - 1 .. e /\ EndOf(w) > q /\ EndOf(w) \in 0 .. e
      BY <1>7, <1>9, <1>12, <1>13
    <2> QED
      BY <2>1, <2>2
  <1>15. d \in ch[k]
    <2>1. w \in ToSet(Lookup(lat, EndOfChain(c)).nodes)
      BY <1>8, <1>9 DEF w, q
    <2>2. d \in Longer(c, e)
      BY <1>10, <1>14, <2>1 DEF Longer
    <2>3. c \in {x \in ch[k - 1] : EndOfChain(x) < e}
      BY <1>9, <1>14
    <2>4. ch[k] = More(ch[k - 1], e)
      BY <1>6, <1>14 DEF AreChains
    <2>5. d \in More(ch[k - 1], e)
      BY <2>2, <2>3 DEF More
    <2> QED
      BY <2>4, <2>5
  <1>16. EndOfChain(d) = EndOf(w)
    <2>1. d # <<>> /\ d[Len(d)] = w
      BY <1>10, <1>12
    <2> QED
      BY <2>1 DEF EndOfChain
  <1>17. From(c) \in Seq(NodeSet(lat)) /\ From(c) # <<>> /\ From(d) = Append(From(c), w)
    BY <1>10, <1>12, FromFacts
  <1>18. LastOf(From(d)) = w
    <2> DEFINE x == From(c)
    <2>1. x \in Seq(NodeSet(lat)) /\ From(d) = Append(x, w)
      BY <1>17
    <2> HIDE DEF x
    <2> QED
      BY <2>1, <1>12 DEF LastOf
  <1>19. ChainCost(From(d)) = ChainCost(From(c)) + LocalCost(LastOf(From(c)), w)
    BY <1>1, <1>12, <1>17, CostOfLonger DEF LastOf
  <1>20. LocalCost(LastOf(From(c)), w) = LocalCost(nodes[l], nodes[n])
    BY <1>9, <1>11, ZeroedFacts DEF LocalCost, w
  <1>21. ChainCost(From(d)) = nodes[n].cost
    BY <1>8, <1>9, <1>19, <1>20
  <1>22. EndOfChain(d) = EndOf(nodes[n]) /\ EndOfChain(d) \in k .. LastEnd /\ k \in 0 .. LastEnd
    BY <1>6, <1>12, <1>14, <1>16
  <1> QED
    BY <1>4, <1>15, <1>18, <1>21, <1>22 DEF IsSpelled, d, w

LEMMA AllSpelled ==
  ASSUME IInv, Finished, NEW p, IsWayBack(p), p[1] = 1, Len(p) >= 2,
         NEW ch, AreChains(ch, LastEnd)
  PROVE  IsSpelled(p, Len(p) - 2, ch)
  <1> DEFINE K == Len(p) - 2
             P == {k \in 0 .. K : IsSpelled(p, k, ch)}
  <1>1. K \in Nat
    BY DEF IsWayBack
  <1>2. 0 \in P
    BY <1>1, SpelledBefore
  <1>3. ASSUME NEW k \in 1 .. K, k - 1 \in P PROVE k \in P
    BY <1>1, <1>3, SpelledOn
  <1> HIDE DEF K, P
  <1>4. 0 .. K \subseteq P
    BY <1>1, <1>2, <1>3, UpTo
  <1>5. K \in P
    BY <1>1, <1>4
  <1> QED
    BY <1>5 DEF P, K

LEMMA Optimal == ASSUME IInv PROVE BestIsOptimal
  <1> SUFFICES ASSUME Finished PROVE BestIsOptimal
    BY DEF BestIsOptimal
  <1>1. /\ Built /\ Lookable(lat) /\ matrix \in Matrices /\ EosJoined
        /\ Size \in Nat /\ LastEnd \in 0 .. Size /\ pos = Size
        /\ Len(nodes) \in Nat \ {0} /\ DOMAIN nodes = 1 .. Len(nodes) /\ EOS = Len(nodes) /\ EOS # 1
        /\ \A n \in DOMAIN nodes : nodes[n] \in NodeSet(lat)
    BY FinalFacts
  <1> DEFINE r == Sentinel("eos", Size)
             cost == nodes[EOS].cost
  <1>2. r \in NodeSet(lat) /\ Zeroed(nodes[EOS]) = r /\ EOS \in DOMAIN nodes /\ Joined(EOS, Ends(LastEnd))
    BY <1>1, SentinelFacts DEF Fresh, EosJoined
  <1>3. /\ nodes[EOS] \in NodeSet(lat) /\ r.lc = nodes[EOS].lc /\ r.wcost = nodes[EOS].wcost
        /\ cost \in Int
    <2>1. nodes[EOS] \in NodeSet(lat)
      BY <1>1, <1>2
    <2> QED
      BY <1>2, <2>1, ZeroedFacts DEF NodeSet
  <1>4. \A l : CostVia(nodes, l, nodes[EOS]) = CostVia(nodes, l, r)
    <2> HIDE DEF r
    <2> QED
      BY <1>3 DEF CostVia, LocalCost
  <1>5. \A seg : SegmentationCost(seg) = ChainCost(From(seg) \o <<r>>)
    BY DEF SegmentationCost, From
  <1> HIDE DEF r, cost
  <1>6. ASSUME NEW seg \in Segmentations(LastEnd) PROVE cost <= SegmentationCost(seg)
    <2>1. PICK e : e = LastEnd
      OBVIOUS
    <2>2. e \in 0 .. pos /\ seg \in Segmentations(e)
      BY <1>1, <2>1
    <2>3. PICK l \in Ends(e) : /\ CostVia(nodes, l, r) <= ChainCost(From(seg) \o <<r>>)
                               /\ CostVia(nodes, l, r) \in Int /\ ChainCost(From(seg) \o <<r>>) \in Int
      BY <1>1, <1>2, <2>2, SegmentationBound
    <2>4. cost <= CostVia(nodes, l, r)
      BY <1>2, <1>4, <2>1 DEF Joined, cost
    <2>5. cost <= ChainCost(From(seg) \o <<r>>)
      BY <1>3, <2>3, <2>4
    <2> QED
      BY <1>5, <2>5
  <1>7. PICK p : p = BestPath
    OBVIOUS
  <1>8. IsWayBack(p) /\ p[1] = 1
    BY <1>1, <1>7, LinksDescend, BestPathFacts
  <1>9. /\ p \in Seq(DOMAIN nodes) /\ Len(p) >= 2 /\ Len(p) \in Nat /\ p[Len(p)] = EOS
    <2>1. p \in Seq(DOMAIN nodes) /\ p # <<>> /\ p[Len(p)] = EOS
      BY <1>8 DEF IsWayBack
    <2>2. Len(p) # 1
      BY <1>1, <1>8, <2>1
    <2>3. Len(p) \in Nat /\ Len(p) # 0
      BY <2>1
    <2>4. \A x \in Nat : x # 0 /\ x # 1 => x >= 2
      OBVIOUS
    <2>5. Len(p) >= 2
      BY <2>2, <2>3, <2>4
    <2> QED
      BY <2>1, <2>3, <2>5
  <1> DEFINE K == Len(p) - 2
             seg == Spelled(p, K)
             l == p[K + 1]
  <1>10. /\ K \in Nat /\ K + 1 \in 1 .. Len(p) - 1 /\ (K + 1) + 1 = Len(p) /\ K \in 0 .. Len(p) - 1
    BY <1>9
  <1> HIDE DEF K
  <1>11. PICK ch : /\ AreChains(ch, LastEnd)
                   /\ Segmentations(LastEnd) = {c \in UNION {ch[k] : k \in 0 .. LastEnd} : EndOfChain(c) = LastEnd}
    BY <1>1, SegmentationFacts
  <1>12. IsSpelled(p, K, ch)
    BY <1>8, <1>9, <1>11, AllSpelled DEF K
  <1>13. /\ K \in 0 .. LastEnd /\ seg \in ch[K] /\ EndOfChain(seg) = EndOf(nodes[l])
         /\ ChainCost(From(seg)) = nodes[l].cost /\ LastOf(From(seg)) = Zeroed(nodes[l])
    BY <1>12 DEF IsSpelled
  <1>14. l \in DOMAIN nodes /\ EndOf(nodes[l]) = LastEnd /\ cost = nodes[l].cost + LocalCost(nodes[l], nodes[EOS])
    <2>1. EOS = p[(K + 1) + 1]
      BY <1>9, <1>10
    <2>2. PICK i : i = K + 1
      OBVIOUS
    <2>3. i \in 1 .. Len(p) - 1 /\ l = p[i] /\ EOS = p[i + 1]
      BY <1>10, <2>1, <2>2
    <2> HIDE DEF l
    <2> QED
      BY <1>8, <2>3, LinkFacts DEF cost
  <1>15. seg \in Segmentations(LastEnd)
    BY <1>11, <1>13, <1>14
  <1>16. /\ seg \in Seq(NodeSet(lat)) /\ Len(seg) = K
         /\ \A j \in 1 .. K : seg[j] = Zeroed(nodes[p[j + 1]])
    BY <1>1, <1>9, <1>10, SpelledFacts
  <1>17. nodes[l] \in NodeSet(lat)
    BY <1>1, <1>14
  <1> HIDE DEF seg, l
  <1>18. From(seg) \in Seq(NodeSet(lat)) /\ From(seg) # <<>> /\ From(seg) \o <<r>> = Append(From(seg), r)
    BY <1>16, FromFacts
  <1>19. ChainCost(Append(From(seg), r)) = ChainCost(From(seg)) + LocalCost(LastOf(From(seg)), r)
    BY <1>1, <1>2, <1>18, CostOfLonger DEF LastOf
  <1>20. LocalCost(LastOf(From(seg)), r) = LocalCost(nodes[l], nodes[EOS])
    BY <1>3, <1>13, <1>17, ZeroedFacts DEF LocalCost
  <1>21. SegmentationCost(seg) = cost
    BY <1>5, <1>13, <1>14, <1>18, <1>19, <1>20
  <1>22. SegmentationCost(Tokens) = SegmentationCost(seg)
    <2> DEFINE ts == [i \in 1 .. K |-> nodes[p[i + 1]]]
               S == NodeSet(lat)
    <2>1. Tokens = ts
      BY <1>7 DEF Tokens, K
    <2>2. ASSUME NEW i \in 1 .. K
          PROVE  p[i + 1] \in DOMAIN nodes /\ ts[i] \in S /\ CostsLike(ts[i], seg[i])
      <3>1. i + 1 \in 1 .. Len(p)
        BY <1>10
      <3>2. p[i + 1] \in DOMAIN nodes
        BY <1>9, <3>1
      <3>3. nodes[p[i + 1]] \in NodeSet(lat) /\ ts[i] = nodes[p[i + 1]] /\ seg[i] = Zeroed(nodes[p[i + 1]])
        BY <1>1, <1>16, <3>2
      <3> HIDE DEF ts
      <3> QED
        BY <3>2, <3>3, ZeroedFacts DEF CostsLike
    <2>3. ts \in Seq(S) /\ Len(ts) = K
      <3>1. ts \in [1 .. K -> S]
        BY <2>2
      <3> HIDE DEF ts, S
      <3> QED
        BY <1>10, <3>1
    <2> HIDE DEF ts
    <2> DEFINE x == From(ts) \o <<r>>
               y == From(seg) \o <<r>>
    <2>4. Len(x) = K + 2 /\ Len(y) = K + 2 /\ x \in Seq(S) /\ y \in Seq(S)
          /\ x[1] = Sentinel("bos", 0) /\ y[1] = Sentinel("bos", 0)
          /\ x[K + 2] = r /\ y[K + 2] = r
          /\ \A i \in 1 .. K : x[i + 1] = ts[i] /\ y[i + 1] = seg[i]
      <3> DEFINE b == Sentinel("bos", 0)
      <3>1. b \in S
        BY SentinelFacts DEF Fresh
      <3>2. x = (<<b>> \o ts) \o <<r>> /\ y = (<<b>> \o seg) \o <<r>>
        BY DEF From
      <3> HIDE DEF b, x, y, S
      <3>3. r \in S /\ ts \in Seq(S) /\ seg \in Seq(S)
        BY <1>2, <1>16, <2>3 DEF S
      <3>4. ASSUME NEW z \in Seq(S), Len(z) = K, NEW u, u = (<<b>> \o z) \o <<r>>
            PROVE  /\ u \in Seq(S) /\ Len(u) = K + 2 /\ u[1] = b /\ u[K + 2] = r
                   /\ \A i \in 1 .. K : u[i + 1] = z[i]
        <4>1. PICK v : v = <<b>> \o z
          OBVIOUS
        <4>2. v \in Seq(S) /\ Len(v) = K + 1 /\ v[1] = b /\ \A i \in 1 .. K : v[i + 1] = z[i]
          BY <1>10, <3>1, <3>4, <4>1
        <4>3. u = v \o <<r>>
          BY <3>4, <4>1
        <4>4. /\ u \in Seq(S) /\ Len(u) = K + 2 /\ u[K + 2] = r
              /\ \A i \in 1 .. K + 1 : u[i] = v[i]
          BY <1>10, <3>3, <4>2, <4>3
        <4> QED
          BY <1>10, <4>2, <4>4
      <3> QED
        BY <1>16, <2>3, <3>2, <3>3, <3>4 DEF b
    <2> HIDE DEF x, y
    <2>5. ASSUME NEW i \in 1 .. K + 2 PROVE CostsLike(x[i], y[i])
      <3>1. CASE i = 1
        BY <2>4, <3>1 DEF CostsLike
      <3>2. CASE i = K + 2
        BY <2>4, <3>2 DEF CostsLike
      <3>3. CASE i # 1 /\ i # K + 2
        <4>1. i - 1 \in 1 .. K /\ (i - 1) + 1 = i
          BY <1>10, <3>3
        <4> QED
          BY <2>2, <2>4, <4>1
      <3> QED
        BY <3>1, <3>2, <3>3
    <2>6. x # <<>> /\ Len(x) = Len(y)
      BY <1>10, <2>4
    <2>7. ChainCost(x) = ChainCost(y)
      BY <1>1, <2>4, <2>5, <2>6, SameChainCost DEF S
    <2> QED
      BY <1>5, <2>1, <2>7 DEF x, y
  <1>23. cost \in {SegmentationCost(s) : s \in Segmentations(LastEnd)}
    BY <1>15, <1>21
  <1>24. \A c \in {SegmentationCost(s) : s \in Segmentations(LastEnd)} : cost <= c
    BY <1>6
  <1> QED
    BY <1>21, <1>22, <1>23, <1>24 DEF BestIsOptimal, cost

(* The best path is a cheapest of all segmentations of the text into words *)
(* the lookup offers, whatever the dictionaries, the matrix, the short text*)
(* and its constraints: what the scan of viterbi() finds position by position  *)
(* is the global optimum, and the cost on EOS is its cost (viterbi.cpp).   *)
THEOREM BestPathsOptimal == NulIsNoSpace /\ ShortTexts => (Spec => []BestIsOptimal)
  BY Invariance, Optimal, PTL

(* No node twice, and nodes in the order of a key.                         *)
InOrder(s, key) ==
  \A i, j \in DOMAIN s : i < j => s[i] # s[j] /\ key[s[i]] <= key[s[j]]

LEMMA ConcatOrder ==
  ASSUME NEW X, NEW key \in [X -> Int], NEW s \in Seq(X), NEW t \in Seq(X),
         InOrder(s, key), InOrder(t, key),
         \A x \in ToSet(s), y \in ToSet(t) : x # y /\ key[x] <= key[y]
  PROVE  InOrder(s \o t, key)
  <1> DEFINE m == Len(s)
             u == s \o t
  <1>1. /\ m \in Nat /\ Len(t) \in Nat /\ DOMAIN u = 1 .. m + Len(t)
        /\ DOMAIN s = 1 .. m /\ DOMAIN t = 1 .. Len(t)
        /\ \A i \in 1 .. m : u[i] = s[i]
        /\ \A i \in 1 .. Len(t) : u[m + i] = t[i]
    OBVIOUS
  <1>2. \A i \in 1 .. m + Len(t) : i \notin 1 .. m => i - m \in 1 .. Len(t) /\ u[i] = t[i - m]
    <2> SUFFICES ASSUME NEW i \in 1 .. m + Len(t), i \notin 1 .. m
                 PROVE  i - m \in 1 .. Len(t) /\ u[i] = t[i - m]
      OBVIOUS
    <2>1. i - m \in 1 .. Len(t) /\ m + (i - m) = i
      BY <1>1
    <2> HIDE DEF u
    <2> QED
      BY <1>1, <2>1
  <1> HIDE DEF u, m
  <1>3. SUFFICES ASSUME NEW i \in 1 .. m + Len(t), NEW j \in 1 .. m + Len(t), i < j
                 PROVE  u[i] # u[j] /\ key[u[i]] <= key[u[j]]
    BY <1>1 DEF InOrder, u
  <1>4. CASE i \in 1 .. m /\ j \in 1 .. m
    BY <1>1, <1>3, <1>4 DEF InOrder
  <1>5. CASE i \in 1 .. m /\ j \notin 1 .. m
    <2>1. u[i] \in ToSet(s) /\ u[j] \in ToSet(t)
      BY <1>1, <1>2, <1>5 DEF ToSet
    <2> QED
      BY <2>1
  <1>6. CASE i \notin 1 .. m
    <2>1. j \notin 1 .. m /\ i - m < j - m
      BY <1>1, <1>3, <1>6
    <2>2. PICK a, b : a = i - m /\ b = j - m
      OBVIOUS
    <2>3. a \in 1 .. Len(t) /\ b \in 1 .. Len(t) /\ u[i] = t[a] /\ u[j] = t[b] /\ a < b
      BY <1>2, <1>6, <2>1, <2>2
    <2>4. t[a] # t[b] /\ key[t[a]] <= key[t[b]]
      BY <1>1, <2>3 DEF InOrder
    <2> QED
      BY <2>3, <2>4
  <1> QED
    BY <1>4, <1>5, <1>6

Distinct(s) == \A i, j \in DOMAIN s : s[i] = s[j] => i = j

(* A sequence of lists, each with the nodes of one key, in the order of    *)
(* the keys.                                                               *)
AreByKey(ss, key, X) ==
  /\ key \in [X -> Int] /\ ss \in Seq(Seq(X))
  /\ \A p \in DOMAIN ss : Distinct(ss[p]) /\ \A x \in ToSet(ss[p]) : key[x] = p

LEMMA FlattenOrder ==
  ASSUME NEW X, NEW key, NEW ss, AreByKey(ss, key, X)
  PROVE  InOrder(FlattenSeq(ss), key)
  <1>0. /\ key \in [X -> Int] /\ ss \in Seq(Seq(X))
        /\ \A p \in DOMAIN ss : Distinct(ss[p]) /\ \A x \in ToSet(ss[p]) : key[x] = p
    BY DEF AreByKey
  <1>1. CASE Len(ss) = 0
    <2>1. ss = <<>>
      BY <1>0, <1>1
    <2>2. FlattenSeq(ss) = <<>>
      BY <1>1, <2>1 DEF FlattenSeq
    <2> QED
      BY <2>2 DEF InOrder
  <1>2. CASE Len(ss) # 0
    <2> DEFINE n == Len(ss) - 1
    <2>1. n \in Nat /\ Len(ss) = n + 1 /\ DOMAIN ss = 1 .. n + 1 /\ \A i \in 1 .. n + 1 : ss[i] \in Seq(X)
      BY <1>0, <1>2
    <2>2. PICK f : AreHeads(ss, f)
      BY <1>0, <1>2, FlattenedHeads
    <2>3. FlattenSeq(ss) = f[Len(ss)] /\ f[1] = ss[1]
      BY <2>2 DEF AreHeads
    <2>4. \A k \in 1 .. n : f[k + 1] = f[k] \o ss[k + 1]
      BY <2>2 DEF AreHeads
    <2> HIDE DEF n
    <2>5. ASSUME NEW p \in 1 .. n + 1 PROVE InOrder(ss[p], key) /\ \A x \in ToSet(ss[p]) : key[x] = p
      <3>1. Distinct(ss[p]) /\ \A x \in ToSet(ss[p]) : key[x] = p
        BY <1>0, <2>1
      <3>2. ASSUME NEW i \in DOMAIN ss[p], NEW j \in DOMAIN ss[p], i < j
            PROVE  ss[p][i] # ss[p][j] /\ key[ss[p][i]] <= key[ss[p][j]]
        <4>1. i # j
          <5>1. i \in Nat /\ j \in Nat
            BY <2>1
          <5> QED
            BY <3>2, <5>1
        <4>2. ss[p][i] \in ToSet(ss[p]) /\ ss[p][j] \in ToSet(ss[p])
          BY DEF ToSet
        <4>3. key[ss[p][i]] = p /\ key[ss[p][j]] = p
          BY <3>1, <4>2
        <4> QED
          BY <3>1, <4>1, <4>3 DEF Distinct
      <3> QED
        BY <3>1, <3>2 DEF InOrder
    <2> DEFINE Holds(k) == /\ f[k + 1] \in Seq(X) /\ InOrder(f[k + 1], key)
                           /\ \A x \in ToSet(f[k + 1]) : key[x] <= k + 1
               P == {k \in 0 .. n : Holds(k)}
    <2>6. Holds(0)
      <3>1. 1 \in 1 .. n + 1
        BY <2>1
      <3> QED
        BY <2>1, <2>3, <2>5, <3>1
    <2>7. ASSUME NEW k \in 1 .. n, Holds(k - 1) PROVE Holds(k)
      <3>1. (k - 1) + 1 = k /\ k + 1 \in 1 .. n + 1 /\ k \in Nat
        BY <2>1
      <3>2. PICK s : s = f[k]
        OBVIOUS
      <3>3. PICK t : t = ss[k + 1]
        OBVIOUS
      <3>4. s \in Seq(X) /\ InOrder(s, key) /\ \A x \in ToSet(s) : key[x] <= k
        BY <2>7, <3>1, <3>2
      <3>5. t \in Seq(X) /\ InOrder(t, key) /\ \A x \in ToSet(t) : key[x] = k + 1
        BY <2>1, <2>5, <3>1, <3>3
      <3>6. f[k + 1] = s \o t
        BY <2>4, <3>2, <3>3
      <3>7. s \o t \in Seq(X) /\ ToSet(s \o t) = ToSet(s) \cup ToSet(t)
        BY <3>4, <3>5, ConcatSet
      <3>8. \A x \in ToSet(s) : key[x] \in Int
        BY <1>0, <3>4 DEF ToSet
      <3>9. \A x \in ToSet(s), y \in ToSet(t) : x # y /\ key[x] <= key[y]
        BY <3>1, <3>4, <3>5, <3>8
      <3>10. InOrder(s \o t, key)
        BY <1>0, <3>4, <3>5, <3>9, ConcatOrder
      <3>11. \A x \in ToSet(s \o t) : key[x] <= k + 1
        BY <3>1, <3>4, <3>5, <3>7, <3>8
      <3> QED
        BY <3>6, <3>7, <3>10, <3>11
    <2> HIDE DEF Holds
    <2>8. 0 \in P
      BY <2>1, <2>6
    <2>9. \A k \in 1 .. n : k - 1 \in P => k \in P
      BY <2>7
    <2>10. 0 .. n \subseteq P
      <3> HIDE DEF P
      <3> QED
        BY <2>1, <2>8, <2>9, UpTo
    <2>11. Holds(n)
      BY <2>1, <2>10
    <2> QED
      BY <2>1, <2>3, <2>11 DEF Holds
  <1> QED
    BY <1>1, <1>2

(* A sequence without repetition is as long as its set is large.           *)
LEMMA CountDistinct ==
  ASSUME NEW X, NEW s \in Seq(X), NEW key \in [X -> Int], InOrder(s, key)
  PROVE  Cardinality(ToSet(s)) = Len(s)
  <1>1. Len(s) \in Nat /\ DOMAIN s = 1 .. Len(s)
    OBVIOUS
  <1>2. \A i, j \in 1 .. Len(s) : i # j => s[i] # s[j]
    BY <1>1 DEF InOrder
  <1>3. ToSet(s) = {s[i] : i \in 1 .. Len(s)}
    BY <1>1 DEF ToSet
  <1>4. s = [i \in 1 .. Len(s) |-> s[i]]
    OBVIOUS
  <1>5. s \in [1 .. Len(s) -> ToSet(s)]
    <2>1. \A i \in 1 .. Len(s) : s[i] \in ToSet(s)
      BY <1>3
    <2> QED
      BY <1>4, <2>1
  <1>6. s \in Bijection(1 .. Len(s), ToSet(s))
    BY <1>2, <1>3, <1>5 DEF Bijection, Injection, Surjection, IsInjective
  <1>7. ExistsBijection(1 .. Len(s), ToSet(s))
    BY <1>6 DEF ExistsBijection
  <1>8. IsFiniteSet(1 .. Len(s)) /\ Cardinality(1 .. Len(s)) = Len(s)
    <2>1. PICK n \in Nat : n = Len(s)
      BY <1>1
    <2>2. IsFiniteSet(1 .. n) /\ Cardinality(1 .. n) = IF 1 > n THEN 0 ELSE n - 1 + 1
      BY FS_Interval
    <2>3. (IF 1 > n THEN 0 ELSE n - 1 + 1) = n
      OBVIOUS
    <2> QED
      BY <2>1, <2>2, <2>3
  <1> QED
    BY <1>7, <1>8, FS_Bijection

(* Every node but BOS stands once in the list of the position it begins at.*)
ListedAt(q) ==
  /\ Distinct(begin_node_list[q])
  /\ \A n \in ToSet(begin_node_list[q]) : n # 1 /\ BeginOf(nodes[n]) = q

HasPlace(n) ==
  BeginOf(nodes[n]) \in 0 .. Size /\ n \in ToSet(begin_node_list[BeginOf(nodes[n])])

Listed ==
  /\ \A q \in 0 .. Size : ListedAt(q)
  /\ \A n \in DOMAIN nodes : n # 1 => HasPlace(n)

ResultRead == phase = "done" => result = IF input.all_morphs THEN AllMorphs ELSE BestPath

LInv == (phase # "start" => Listed) /\ ResultRead

(* New nodes N + 1 .. N + m go to the list of one position, where none of  *)
(* the old ones begins.                                                    *)
ListsNew(N, m, q, new) ==
  /\ DOMAIN nodes = 1 .. N /\ DOMAIN nodes' = 1 .. N + m
  /\ \A n \in 1 .. N : nodes'[n] = nodes[n]
  /\ \A i \in 1 .. m : BeginOf(nodes'[N + i]) = q
  /\ \A n \in DOMAIN nodes : n # 1 => BeginOf(nodes[n]) # q
  /\ DOMAIN new = 1 .. m /\ \A i \in 1 .. m : new[i] = N + i
  /\ begin_node_list' = [begin_node_list EXCEPT ![q] = new]

LEMMA ListKept ==
  ASSUME Listed, Shape, Size' = Size, NEW N \in Nat \ {0}, NEW m \in Nat, NEW q \in 0 .. Size,
         NEW new, ListsNew(N, m, q, new)
  PROVE  Listed'
  <1>0. /\ DOMAIN nodes = 1 .. N /\ DOMAIN nodes' = 1 .. N + m
        /\ \A n \in 1 .. N : nodes'[n] = nodes[n]
        /\ \A i \in 1 .. m : BeginOf(nodes'[N + i]) = q
        /\ \A n \in DOMAIN nodes : n # 1 => BeginOf(nodes[n]) # q
        /\ DOMAIN new = 1 .. m /\ \A i \in 1 .. m : new[i] = N + i
        /\ begin_node_list' = [begin_node_list EXCEPT ![q] = new]
    BY DEF ListsNew
  <1>1. /\ Size \in Nat /\ \A p \in 0 .. Size : p \in Offsets(lat.sentence)
        /\ begin_node_list \in [Offsets(lat.sentence) -> Seq(DOMAIN nodes)]
    BY ShapeFacts DEF Shape
  <1>2. \A p \in 0 .. Size : begin_node_list[p] \in Seq(1 .. N)
    BY <1>0, <1>1
  <1>3. \A p \in 0 .. Size : \A n \in ToSet(begin_node_list[p]) : n \in 1 .. N
    BY <1>2 DEF ToSet
  <1>4. /\ begin_node_list'[q] = new
        /\ \A p \in 0 .. Size : p # q => begin_node_list'[p] = begin_node_list[p]
    BY <1>0, <1>1
  <1>5. \A n \in ToSet(new) : \E i \in 1 .. m : n = N + i
    BY <1>0 DEF ToSet
  <1>6. \A n \in 1 .. N : BeginOf(nodes'[n]) = BeginOf(nodes[n])
    BY <1>0
  <1>7. ASSUME NEW p \in 0 .. Size PROVE ListedAt(p)
    BY DEF Listed
  <1>8. ASSUME NEW p \in 0 .. Size PROVE ListedAt(p)'
    <2>1. CASE p = q
      <3>1. Distinct(new)
        BY <1>0 DEF Distinct
      <3>2. ASSUME NEW n \in ToSet(new) PROVE n # 1 /\ BeginOf(nodes'[n]) = q
        <4>1. PICK i \in 1 .. m : n = N + i
          BY <1>5
        <4>2. n # 1
          BY <4>1
        <4> QED
          BY <1>0, <4>1, <4>2
      <3> QED
        BY <1>4, <2>1, <3>1, <3>2 DEF ListedAt
    <2>2. CASE p # q
      <3>1. PICK s : s = begin_node_list[p]
        OBVIOUS
      <3>2. Distinct(s) /\ \A n \in ToSet(s) : n # 1 /\ BeginOf(nodes[n]) = p /\ n \in 1 .. N
        BY <1>3, <1>7, <3>1 DEF ListedAt
      <3>3. \A n \in ToSet(s) : n # 1 /\ BeginOf(nodes'[n]) = p
        BY <1>6, <3>2
      <3>4. begin_node_list'[p] = s
        BY <1>4, <2>2, <3>1
      <3> QED
        BY <3>2, <3>3, <3>4 DEF ListedAt
    <2> QED
      BY <2>1, <2>2
  <1>9. ASSUME NEW n \in 1 .. N + m, n # 1 PROVE HasPlace(n)'
    <2>1. CASE n \in 1 .. N
      <3>1. PICK p : p = BeginOf(nodes[n])
        OBVIOUS
      <3>2. p \in 0 .. Size /\ n \in ToSet(begin_node_list[p]) /\ p # q
        BY <1>0, <1>9, <2>1, <3>1 DEF Listed, HasPlace
      <3>3. BeginOf(nodes'[n]) = p /\ begin_node_list'[p] = begin_node_list[p]
        BY <1>4, <1>6, <2>1, <3>1, <3>2
      <3>4. BeginOf(nodes'[n]) \in 0 .. Size' /\ n \in ToSet(begin_node_list'[BeginOf(nodes'[n])])
        BY <3>2, <3>3
      <3> QED
        BY <3>4 DEF HasPlace
    <2>2. CASE n \notin 1 .. N
      <3>1. n - N \in 1 .. m /\ n = N + (n - N)
        BY <2>2
      <3>2. PICK i \in 1 .. m : n = N + i
        BY <3>1
      <3>3. BeginOf(nodes'[n]) = q
        BY <1>0, <3>2
      <3>4. n \in ToSet(begin_node_list'[q])
        <4>1. i \in DOMAIN new /\ new[i] = n
          BY <1>0, <3>2
        <4>2. n \in ToSet(new)
          BY <4>1 DEF ToSet
        <4> QED
          BY <1>4, <4>2
      <3>5. BeginOf(nodes'[n]) \in 0 .. Size' /\ n \in ToSet(begin_node_list'[BeginOf(nodes'[n])])
        BY <3>3, <3>4
      <3> QED
        BY <3>5 DEF HasPlace
    <2> QED
      BY <2>1, <2>2
  <1>10. \A p \in 0 .. Size' : ListedAt(p)'
    BY <1>8
  <1> QED
    BY <1>0, <1>9, <1>10 DEF Listed

(* No node in the lattice begins at or behind the position of the scan.    *)
LEMMA BehindTheScan ==
  ASSUME IInv, phase = "scan", NEW n \in DOMAIN nodes, n # 1
  PROVE  BeginOf(nodes[n]) # pos
  <1>1. Built /\ Shape /\ ~Finished
    BY ScanFacts
  <1>2. nodes[n].stat # "eos"
    BY <1>1 DEF Built, EosLast
  <1>3. WordAt(n, BeginOf(nodes[n]))
    BY <1>1, <1>2 DEF Built, WordsJoined
  <1>4. PICK q : q = BeginOf(nodes[n])
    OBVIOUS
  <1>5. q \in 0 .. pos - 1
    BY <1>3, <1>4 DEF WordAt
  <1>6. pos \in Nat
    BY <1>1, ShapeFacts
  <1> QED
    BY <1>4, <1>5, <1>6

LEMMA ListConnected ==
  ASSUME IInv, Listed, phase = "scan", pos < Size, end_node_list[pos] # <<>>,
         Connect(pos, Linked(Lookup(lat, pos).nodes, end_node_list[pos])), UNCHANGED lat
  PROVE  Listed'
  <1> DEFINE found == Lookup(lat, pos)
             linked == Linked(found.nodes, end_node_list[pos])
             N == Len(nodes)
             m == Len(found.nodes)
  <1>1. Built /\ Shape /\ nodes \in Seq(NodeSet(lat)) /\ Size' = Size
    BY ScanFacts DEF Size
  <1>2. /\ pos \in Nat /\ Size \in Nat /\ pos \in 0 .. Size
        /\ N \in Nat \ {0} /\ DOMAIN nodes = 1 .. N
    BY <1>1, ShapeFacts
  <1>3. /\ m \in Nat /\ DOMAIN found.nodes = 1 .. m /\ DOMAIN linked = 1 .. m
        /\ \A i \in 1 .. m :
             LET r == found.nodes[i]
             IN  r \in Candidates(lat, pos) /\ linked[i] \in NodeSet(lat) /\ Same(linked[i], r)
    BY LinkedFacts
  <1>4. linked \in Seq(NodeSet(lat)) /\ Len(linked) = m
    <2>1. linked = [i \in 1 .. m |-> linked[i]]
      BY LinkedFacts
    <2> HIDE DEF linked, found, m
    <2>2. linked \in [1 .. m -> NodeSet(lat)]
      BY <1>3, <2>1
    <2> QED
      BY <1>3, <2>2
  <1>5. /\ nodes' = nodes \o linked
        /\ begin_node_list' = [begin_node_list EXCEPT ![pos] = [i \in DOMAIN linked |-> N + i]]
    BY DEF Connect
  <1>6. ASSUME NEW i \in 1 .. m PROVE BeginOf(linked[i]) = pos
    <2>1. found.nodes[i] \in Candidates(lat, pos) /\ Same(linked[i], found.nodes[i])
      BY <1>3
    <2> HIDE DEF linked, found, m
    <2>2. BeginOf(found.nodes[i]) = pos
      BY <1>2, <2>1, CandidateFacts
    <2> QED
      BY <2>1, <2>2 DEF Same, BeginOf
  <1> HIDE DEF linked, found, m, N
  <1>7. /\ DOMAIN nodes' = 1 .. N + m
        /\ \A n \in 1 .. N : nodes'[n] = nodes[n]
        /\ \A i \in 1 .. m : nodes'[N + i] = linked[i]
    BY <1>1, <1>4, <1>5, Concatenated DEF N
  <1>8. \A i \in 1 .. m : BeginOf(nodes'[N + i]) = pos
    BY <1>6, <1>7
  <1>9. \A n \in DOMAIN nodes : n # 1 => BeginOf(nodes[n]) # pos
    BY BehindTheScan
  <1>10. PICK new : new = [i \in DOMAIN linked |-> N + i]
    OBVIOUS
  <1>11. DOMAIN new = 1 .. m /\ \A i \in 1 .. m : new[i] = N + i
    BY <1>3, <1>10
  <1>12. begin_node_list' = [begin_node_list EXCEPT ![pos] = new]
    BY <1>5, <1>10
  <1>13. ListsNew(N, m, pos, new)
    BY <1>2, <1>7, <1>8, <1>9, <1>11, <1>12 DEF ListsNew
  <1> QED
    BY <1>1, <1>2, <1>3, <1>13, ListKept

EosFiled(eos) ==
  /\ nodes' = Append(nodes, eos)
  /\ begin_node_list' = [begin_node_list EXCEPT ![Size] = <<Len(nodes) + 1>>]

LEMMA ListWithEos ==
  ASSUME IInv, Listed, phase = "scan", pos = Size, UNCHANGED lat,
         NEW eos, eos \in NodeSet(lat), BeginOf(eos) = Size, EosFiled(eos)
  PROVE  Listed'
  <1> DEFINE N == Len(nodes)
  <1>1. Built /\ Shape /\ nodes \in Seq(NodeSet(lat)) /\ Size' = Size
    BY ScanFacts DEF Size
  <1>2. /\ Size \in Nat /\ Size \in 0 .. Size /\ N \in Nat \ {0} /\ DOMAIN nodes = 1 .. N
    BY <1>1, ShapeFacts
  <1>3. /\ DOMAIN nodes' = 1 .. N + 1 /\ \A n \in 1 .. N : nodes'[n] = nodes[n]
        /\ nodes'[N + 1] = eos
    BY <1>1 DEF EosFiled
  <1>4. \A n \in DOMAIN nodes : n # 1 => BeginOf(nodes[n]) # Size
    BY BehindTheScan
  <1>5. PICK new : new = <<Len(nodes) + 1>>
    OBVIOUS
  <1>6. begin_node_list' = [begin_node_list EXCEPT ![Size] = new]
    BY <1>5 DEF EosFiled
  <1> HIDE DEF N
  <1>7. PICK m \in Nat : m = 1
    OBVIOUS
  <1>8. \A i \in 1 .. m : i = 1
    BY <1>7
  <1>9. DOMAIN new = 1 .. m /\ \A i \in 1 .. m : new[i] = N + i
    <2>1. DOMAIN new = 1 .. 1 /\ new[1] = N + 1
      BY <1>5 DEF N
    <2> QED
      BY <1>7, <1>8, <2>1
  <1>10. DOMAIN nodes' = 1 .. N + m /\ \A n \in 1 .. N : nodes'[n] = nodes[n]
    BY <1>3, <1>7
  <1>11. \A i \in 1 .. m : BeginOf(nodes'[N + i]) = Size
    BY <1>3, <1>8
  <1>12. ListsNew(N, m, Size, new)
    BY <1>2, <1>4, <1>6, <1>9, <1>10, <1>11 DEF ListsNew
  <1> QED
    BY <1>1, <1>2, <1>7, <1>12, ListKept

LEMMA ListStart == ASSUME IInv, Start PROVE Listed'
  <1>1. /\ lat' = InitPartial(input) /\ nodes' = <<Sentinel("bos", 0)>>
        /\ begin_node_list' = [p \in Offsets(lat'.sentence) |-> <<>>]
    BY DEF Start
  <1>2. lat'.sentence \in Seq(Bytes) /\ Size' = Len(lat'.sentence)
    BY <1>1, SentenceOfBytes DEF IInv, Size
  <1>3. \A p \in 0 .. Size' : p \in Offsets(lat'.sentence)
    BY <1>2 DEF Offsets
  <1>4. \A p \in 0 .. Size' : begin_node_list'[p] = <<>>
    BY <1>1, <1>3
  <1>5. \A p \in 0 .. Size' : ListedAt(p)'
    BY <1>4, OneOrNone DEF ListedAt, Distinct
  <1>6. \A n \in DOMAIN nodes' : n = 1
    BY <1>1
  <1> QED
    BY <1>5, <1>6 DEF Listed

LEMMA ListScan == ASSUME IInv, Listed, Scan PROVE Listed'
  <1>1. /\ phase = "scan" /\ pos < Size /\ end_node_list[pos] # <<>> /\ lat' = lat
        /\ ScanFound(Lookup(lat, pos))
    BY DEF Scan
  <1>2. \/ UNCHANGED <<nodes, begin_node_list>>
        \/ Connect(pos, Linked(Lookup(lat, pos).nodes, end_node_list[pos]))
    BY <1>1 DEF ScanFound, ScanOutcome
  <1>3. CASE UNCHANGED <<nodes, begin_node_list>>
    BY <1>1, <1>3 DEF Listed, ListedAt, HasPlace, Size
  <1>4. CASE Connect(pos, Linked(Lookup(lat, pos).nodes, end_node_list[pos]))
    BY <1>1, <1>4, ListConnected
  <1> QED
    BY <1>2, <1>3, <1>4

LEMMA ListEos == ASSUME IInv, Listed, ConnectEOS PROVE Listed'
  <1>1. /\ phase = "scan" /\ pos = Size /\ lat' = lat
        /\ FileEOS(Connected(nodes, Sentinel("eos", Size), end_node_list[LastEnd]))
    BY DEF ConnectEOS
  <1>2. PICK eos : eos = Connected(nodes, Sentinel("eos", Size), end_node_list[LastEnd])
    OBVIOUS
  <1>3. FileEOS(eos)
    BY <1>1, <1>2
  <1>4. CASE UNCHANGED <<nodes, begin_node_list>>
    BY <1>1, <1>4 DEF Listed, ListedAt, HasPlace, Size
  <1>5. CASE EosFiled(eos)
    <2>1. /\ Built /\ Shape /\ matrix \in Matrices /\ nodes \in Seq(NodeSet(lat))
          /\ \A q \in 0 .. Size : Ends(q) = ToSet(end_node_list[q])
      BY <1>1, ScanFacts
    <2>2. IsLast(end_node_list, Size, LastEnd)
      BY <2>1, LastEndFacts DEF Built
    <2>3. PICK E : E = LastEnd
      OBVIOUS
    <2>4. /\ E \in 0 .. Size /\ Size \in Nat
          /\ end_node_list[E] \in Seq(DOMAIN nodes) /\ end_node_list[E] # <<>>
      BY <2>1, <2>2, <2>3, ShapeFacts DEF IsLast
    <2>5. PICK r : r = Sentinel("eos", Size)
      OBVIOUS
    <2>6. PICK lefts : lefts = end_node_list[E]
      OBVIOUS
    <2>7. r \in Fresh(lat) /\ BeginOf(r) = Size
      BY <2>4, <2>5, SentinelFacts
    <2>8. eos = Connected(nodes, r, lefts)
      BY <1>2, <2>3, <2>5, <2>6
    <2>9. eos \in NodeSet(lat) /\ Same(eos, r)
      BY <2>1, <2>4, <2>6, <2>7, <2>8, ConnectedFacts
    <2>10. BeginOf(eos) = Size
      BY <2>7, <2>9 DEF Same, BeginOf
    <2> QED
      BY <1>1, <1>5, <2>9, <2>10, ListWithEos
  <1> QED
    BY <1>3, <1>4, <1>5 DEF FileEOS, EosFiled

LEMMA ResultKept ==
  ASSUME UNCHANGED <<input, phase, nodes, begin_node_list, lat, result>>, ResultRead
  PROVE  ResultRead'
  <1>1. AllMorphs' = AllMorphs
    BY DEF AllMorphs, Size, BOS
  <1>2. BestPath' = BestPath
    BY DEF BestPath, EOS
  <1> QED
    BY <1>1, <1>2 DEF ResultRead

LEMMA ListStep == ASSUME IInv, LInv, [Next]_vars PROVE LInv'
  <1>1. CASE Start
    <2>1. Listed' /\ phase' = "scan"
      BY <1>1, ListStart DEF Start
    <2> QED
      BY <2>1 DEF LInv, ResultRead
  <1>2. CASE Scan
    <2>1. Listed
      BY <1>2 DEF Scan, LInv
    <2>2. Listed' /\ phase' # "done"
      BY <1>2, <2>1, ListScan DEF Scan, ScanFound, ScanOutcome
    <2> QED
      BY <2>2 DEF LInv, ResultRead
  <1>3. CASE SkipPosition
    <2>1. Listed /\ phase' # "done" /\ UNCHANGED <<nodes, begin_node_list, lat>>
      BY <1>3 DEF SkipPosition, LInv
    <2>2. Listed'
      BY <2>1 DEF Listed, ListedAt, HasPlace, Size
    <2> QED
      BY <2>1, <2>2 DEF LInv, ResultRead
  <1>4. CASE ConnectEOS
    <2>1. Listed
      BY <1>4 DEF ConnectEOS, LInv
    <2>2. Listed' /\ phase' # "done"
      BY <1>4, <2>1, ListEos DEF ConnectEOS, FileEOS
    <2> QED
      BY <2>2 DEF LInv, ResultRead
  <1>5. CASE BuildResult
    <2>1. /\ Listed /\ UNCHANGED <<input, nodes, begin_node_list, lat>>
          /\ result' = IF input.all_morphs THEN AllMorphs ELSE BestPath
      BY <1>5 DEF BuildResult, LInv
    <2>2. Listed'
      BY <2>1 DEF Listed, ListedAt, HasPlace, Size
    <2>3. AllMorphs' = AllMorphs
      BY <2>1 DEF AllMorphs, Size, BOS
    <2>4. BestPath' = BestPath
      BY <2>1 DEF BestPath, EOS
    <2> QED
      BY <2>1, <2>2, <2>3, <2>4 DEF LInv, ResultRead
  <1>6. CASE UNCHANGED vars
    <2>1. UNCHANGED <<input, phase, nodes, begin_node_list, lat, result>>
      BY <1>6 DEF vars
    <2>2. ResultRead'
      BY <2>1, ResultKept DEF LInv
    <2>3. Listed => Listed'
      BY <2>1 DEF Listed, ListedAt, HasPlace, Size
    <2> QED
      BY <2>1, <2>2, <2>3 DEF LInv
  <1> QED
    BY <1>1, <1>2, <1>3, <1>4, <1>5, <1>6 DEF Next

LEMMA ListInv == NulIsNoSpace /\ ShortTexts => (Spec => []LInv)
  <1>1. Init => LInv
    BY DEF Init, LInv, ResultRead
  <1>2. IInv /\ LInv /\ [Next]_vars => LInv'
    BY ListStep
  <1> QED
    BY <1>1, <1>2, Invariance, PTL DEF Spec

(* All morphs hold every node, each once, in the order of the text.        *)
LEMMA AllMorphsFacts ==
  ASSUME IInv, Listed, Finished
  PROVE  /\ DOMAIN nodes \subseteq ToSet(AllMorphs)
         /\ Cardinality(ToSet(AllMorphs)) = Len(AllMorphs)
         /\ \A i, j \in DOMAIN AllMorphs :
              i < j => BeginOf(nodes[AllMorphs[i]]) <= BeginOf(nodes[AllMorphs[j]])
  <1> DEFINE X == DOMAIN nodes
             key == [n \in X |-> IF n = 1 THEN 0 ELSE BeginOf(nodes[n]) + 1]
             ss == [p \in 1 .. Size + 1 |-> begin_node_list[p - 1]]
             flat == FlattenSeq(ss)
  <1>1. /\ Shape /\ BosFirst /\ Size \in Nat /\ Len(nodes) \in Nat \ {0} /\ DOMAIN nodes = 1 .. Len(nodes)
    BY FinalFacts
  <1>2. begin_node_list \in [Offsets(lat.sentence) -> Seq(X)] /\ 0 .. Size \subseteq Offsets(lat.sentence)
    BY <1>1, ShapeFacts DEF Shape
  <1>3. ASSUME NEW p \in 1 .. Size + 1
        PROVE  p - 1 \in 0 .. Size /\ ss[p] = begin_node_list[p - 1] /\ ss[p] \in Seq(X)
    <2>1. p - 1 \in 0 .. Size
      BY <1>1
    <2> HIDE DEF X
    <2> QED
      BY <1>2, <2>1
  <1>4. ss \in Seq(Seq(X)) /\ DOMAIN ss = 1 .. Size + 1
    <2>1. ss = [p \in 1 .. Size + 1 |-> ss[p]] /\ DOMAIN ss = 1 .. Size + 1
      OBVIOUS
    <2> HIDE DEF ss, X
    <2>2. ss \in [1 .. Size + 1 -> Seq(X)]
      BY <1>3, <2>1
    <2>3. Size + 1 \in Nat
      BY <1>1
    <2> QED
      BY <2>1, <2>2, <2>3
  <1>5. 1 \in X /\ BeginOf(nodes[1]) = 0
    <2>1. nodes[1] = Sentinel("bos", 0)
      BY <1>1 DEF BosFirst
    <2> QED
      BY <1>1, <2>1 DEF Sentinel, BeginOf
  <1>6. ASSUME NEW n \in X, n # 1
        PROVE  BeginOf(nodes[n]) \in 0 .. Size /\ key[n] = BeginOf(nodes[n]) + 1
    BY <1>6 DEF Listed, HasPlace
  <1>7. key \in [X -> Int] /\ key[1] = 0
    <2>1. \A n \in X : key[n] \in Int
      BY <1>1, <1>6
    <2>2. key = [n \in X |-> key[n]] /\ key[1] = 0
      BY <1>5
    <2> HIDE DEF key, X
    <2> QED
      BY <2>1, <2>2
  <1> HIDE DEF key, ss
  <1>8. ASSUME NEW p \in DOMAIN ss
        PROVE  Distinct(ss[p]) /\ \A x \in ToSet(ss[p]) : x \in X /\ x # 1 /\ key[x] = p
    <2>1. PICK q : q = p - 1
      OBVIOUS
    <2>2. q \in 0 .. Size /\ ss[p] = begin_node_list[q] /\ ss[p] \in Seq(X) /\ q + 1 = p
      BY <1>1, <1>3, <1>4, <2>1
    <2>3. ListedAt(q)
      BY <2>2 DEF Listed
    <2>4. \A x \in ToSet(ss[p]) : x \in X
      <3> HIDE DEF X
      <3> QED
        BY <2>2 DEF ToSet
    <2> QED
      BY <1>6, <2>2, <2>3, <2>4 DEF ListedAt
  <1>9. flat \in Seq(X) /\ ToSet(flat) = UNION {ToSet(ss[p]) : p \in DOMAIN ss}
    <2> HIDE DEF X
    <2> QED
      BY <1>4, Flattened
  <1>10. InOrder(flat, key)
    <2>1. AreByKey(ss, key, X)
      BY <1>4, <1>7, <1>8 DEF AreByKey
    <2> HIDE DEF X
    <2> QED
      BY <2>1, FlattenOrder
  <1> DEFINE one == <<BOS>>
  <1>11. /\ one \in Seq(X) /\ InOrder(one, key) /\ ToSet(one) = {1}
    <2>1. one = <<1>> /\ DOMAIN one = 1 .. 1
      BY DEF BOS
    <2>2. \A i, j \in DOMAIN one : ~(i < j)
      BY <2>1
    <2>3. InOrder(one, key)
      BY <2>2 DEF InOrder
    <2>4. ToSet(one) = {1}
      BY <2>1, OneOrNone
    <2> QED
      BY <1>5, <2>1, <2>3, <2>4
  <1>12. AllMorphs = one \o flat
    BY DEF AllMorphs, ss
  <1> HIDE DEF one, flat
  <1>13. \A y \in ToSet(flat) : y # 1 /\ y \in X /\ 0 <= key[y]
    <2> SUFFICES ASSUME NEW y \in ToSet(flat) PROVE y # 1 /\ y \in X /\ 0 <= key[y]
      OBVIOUS
    <2>1. PICK p \in DOMAIN ss : y \in ToSet(ss[p])
      BY <1>9
    <2> QED
      BY <1>1, <1>4, <1>8, <2>1
  <1>14. \A x \in ToSet(one), y \in ToSet(flat) : x # y /\ key[x] <= key[y]
    BY <1>7, <1>11, <1>13
  <1>15. InOrder(AllMorphs, key)
    <2> HIDE DEF X
    <2> QED
      BY <1>7, <1>9, <1>10, <1>11, <1>12, <1>14, ConcatOrder
  <1>16. AllMorphs \in Seq(X) /\ ToSet(AllMorphs) = ToSet(one) \cup ToSet(flat)
    <2> HIDE DEF X
    <2>1. one \o flat \in Seq(X) /\ ToSet(one \o flat) = ToSet(one) \cup ToSet(flat)
      BY <1>9, <1>11, ConcatSet
    <2> QED
      BY <1>12, <2>1
  <1>17. Cardinality(ToSet(AllMorphs)) = Len(AllMorphs)
    <2> HIDE DEF X
    <2> QED
      BY <1>7, <1>15, <1>16, CountDistinct
  <1>18. ASSUME NEW n \in X PROVE n \in ToSet(AllMorphs)
    <2>1. CASE n = 1
      BY <1>11, <1>16, <2>1
    <2>2. CASE n # 1
      <3>1. PICK q : q = BeginOf(nodes[n])
        OBVIOUS
      <3>2. q \in 0 .. Size /\ n \in ToSet(begin_node_list[q])
        BY <2>2, <3>1 DEF Listed, HasPlace
      <3>3. PICK p : p = q + 1
        OBVIOUS
      <3>4. p \in 1 .. Size + 1 /\ p - 1 = q
        BY <1>1, <3>2, <3>3
      <3>5. n \in ToSet(ss[p]) /\ p \in DOMAIN ss
        BY <1>3, <1>4, <3>2, <3>4 DEF ss
      <3> QED
        BY <1>9, <1>16, <3>5
    <2> QED
      BY <2>1, <2>2
  <1>19. ASSUME NEW i \in DOMAIN AllMorphs, NEW j \in DOMAIN AllMorphs, i < j
         PROVE  BeginOf(nodes[AllMorphs[i]]) <= BeginOf(nodes[AllMorphs[j]])
    <2>1. PICK a, b : a = AllMorphs[i] /\ b = AllMorphs[j]
      OBVIOUS
    <2>2. a \in X /\ b \in X
      <3> HIDE DEF X
      <3> QED
        BY <1>16, <2>1
    <2>3. a # b /\ key[a] <= key[b]
      BY <1>15, <1>19, <2>1 DEF InOrder
    <2>4. BeginOf(nodes[a]) <= BeginOf(nodes[b])
      <3>1. CASE a = 1
        <4>1. b # 1
          BY <2>3, <3>1
        <4> QED
          BY <1>1, <1>5, <1>6, <2>2, <3>1, <4>1
      <3>2. CASE a # 1
        <4>1. BeginOf(nodes[a]) \in 0 .. Size /\ key[a] = BeginOf(nodes[a]) + 1
          BY <1>6, <2>2, <3>2
        <4>2. b # 1
          BY <1>1, <1>7, <2>3, <4>1
        <4>3. BeginOf(nodes[b]) \in 0 .. Size /\ key[b] = BeginOf(nodes[b]) + 1
          BY <1>6, <2>2, <4>2
        <4> QED
          BY <1>1, <2>3, <4>1, <4>3
      <3> QED
        BY <3>1, <3>2
    <2> QED
      BY <2>1, <2>4
  <1> QED
    BY <1>17, <1>18, <1>19

LEMMA MorphsInOrder == ASSUME IInv, LInv PROVE AllMorphsOrdered
  <1> SUFFICES ASSUME phase = "done", input.all_morphs
               PROVE  /\ ToSet(BestPath) \subseteq ToSet(result)
                      /\ Cardinality(ToSet(result)) = Len(result)
                      /\ \A i, j \in DOMAIN result :
                           i < j => BeginOf(nodes[result[i]]) <= BeginOf(nodes[result[j]])
    BY DEF AllMorphsOrdered
  <1>1. Finished /\ Listed /\ result = AllMorphs
    BY DEF Finished, LInv, ResultRead
  <1>2. LinksGoBack /\ Len(nodes) \in Nat \ {0} /\ DOMAIN nodes = 1 .. Len(nodes)
    BY <1>1, LinksDescend, FinalFacts
  <1>3. BestPath \in Seq(DOMAIN nodes)
    BY <1>2, BestPathFacts DEF IsWayBack
  <1>4. ToSet(BestPath) \subseteq DOMAIN nodes
    BY <1>3 DEF ToSet
  <1> QED
    BY <1>1, <1>4, AllMorphsFacts

(* The list of all morphs holds every node of the lattice once, those of   *)
(* the best path among them, in the order of the text: buildAllLattice     *)
(* neither loses nor repeats a node, whatever the scan has filed.          *)
THEOREM MorphsListed == NulIsNoSpace /\ ShortTexts => (Spec => []AllMorphsOrdered)
  <1>1. IInv /\ LInv => AllMorphsOrdered
    BY MorphsInOrder
  <1> QED
    BY <1>1, Invariance, ListInv, PTL

-----------------------------------------------------------------------------
(* Constraints: what they leave of the lookup, and of the tokens.          *)

(* A lattice whose constraints are those of a text: its end is a strong    *)
(* boundary, and nothing is said of the spare entries behind.              *)
Bounded(l) ==
  /\ l.sentence \in Seq(Bytes)
  /\ l.constrained =>
       /\ l.boundary[Len(l.sentence)] = TokenBoundary
       /\ \A q \in Len(l.sentence) + 1 .. Len(l.sentence) + 3 : l.boundary[q] = AnyBoundary

(* The place lookup works at in such a lattice.                            *)
IsFragment(l, at, p) ==
  /\ IsPlace(l, at, p)
  /\ at.end <= Len(l.sentence) /\ at.begin2 <= at.end
  /\ at.begin2 < at.end <=> at.begin3 <= at.end
  /\ l.constrained => l.boundary[at.end] = TokenBoundary

(* The fragment behind p: it ends at a strong boundary or with the text,   *)
(* and holds no strong boundary.                                           *)
LEMMA FragmentFacts ==
  ASSUME NEW l, Lookable(l), Bounded(l), NEW p \in Nat, p < Len(l.sentence)
  PROVE  /\ FragmentEnd(l, p) \in Nat /\ p < FragmentEnd(l, p) /\ FragmentEnd(l, p) <= Len(l.sentence)
         /\ l.constrained => l.boundary[FragmentEnd(l, p)] = TokenBoundary
         /\ l.constrained => \A q \in p + 1 .. FragmentEnd(l, p) - 1 : l.boundary[q] # TokenBoundary
  <1> DEFINE end == FragmentEnd(l, p)
             strong == {n \in p + 1 .. Len(l.sentence) - 1 : l.boundary[n] = TokenBoundary}
  <1>1. Len(l.sentence) \in Nat
    BY DEF Bounded
  <1>2. strong \subseteq Nat /\ \A n \in strong : n > p /\ n <= Len(l.sentence) /\ l.boundary[n] = TokenBoundary
    BY <1>1
  <1>3. \A n \in p + 1 .. Len(l.sentence) - 1 : l.boundary[n] = TokenBoundary => n \in strong
    OBVIOUS
  <1>4. end = IF l.constrained /\ strong # {} THEN CHOOSE n \in strong : \A m \in strong : n <= m
              ELSE Len(l.sentence)
    BY WholeWindow DEF NextBoundary
  <1> HIDE DEF strong, end
  <1>5. CASE l.constrained /\ strong # {}
    <2>1. \E n \in strong : \A m \in strong : n <= m
      BY <1>2, <1>5, Smallest
    <2>2. end \in strong /\ \A m \in strong : end <= m
      BY <1>4, <1>5, <2>1
    <2>3. end \in Nat /\ end <= Len(l.sentence)
      BY <1>2, <2>2
    <2>4. ASSUME NEW q \in p + 1 .. end - 1 PROVE l.boundary[q] # TokenBoundary
      <3>1. q \in p + 1 .. Len(l.sentence) - 1 /\ ~(end <= q)
        BY <1>1, <2>3
      <3> QED
        BY <1>3, <2>2, <3>1
    <2> QED
      BY <1>2, <2>2, <2>4 DEF end
  <1>6. CASE ~(l.constrained /\ strong # {})
    <2>1. end = Len(l.sentence)
      BY <1>4, <1>6
    <2>2. l.constrained => \A q \in p + 1 .. end - 1 : l.boundary[q] # TokenBoundary
      BY <1>3, <1>6, <2>1
    <2> QED
      BY <1>1, <2>1, <2>2 DEF Bounded, end
  <1> QED
    BY <1>5, <1>6

LEMMA PlaceFacts ==
  ASSUME NEW l, Lookable(l), Bounded(l), NEW p \in Nat, p < Len(l.sentence)
  PROVE  \E at : /\ IsFragment(l, at, p) /\ Lookup(l, p) = LookupAt(l, at)
                 /\ at.end = FragmentEnd(l, p)
                 /\ at.begin2 = SeekToOtherType(l.sentence, p, FragmentEnd(l, p), CharMap[Space]).p
                 /\ at = Place(p, FragmentEnd(l, p),
                               SeekToOtherType(l.sentence, p, FragmentEnd(l, p), CharMap[Space]))
  <1> DEFINE end == FragmentEnd(l, p)
             seek == SeekToOtherType(l.sentence, p, end, CharMap[Space])
             at == Place(p, end, seek)
  <1>1. IsPlace(l, at, p) /\ (at.begin2 < at.end <=> at.begin3 <= at.end)
    BY PlaceIs
  <1>2. Lookup(l, p) = LookupAt(l, at)
    BY DEF Lookup, LookupUpTo
  <1>3. l.constrained => l.boundary[end] = TokenBoundary
    BY FragmentFacts
  <1>4. at.end = end /\ at.begin2 = seek.p
    BY DEF Place
  <1>5. at.end <= Len(l.sentence) /\ at.begin2 <= at.end
    <2> HIDE DEF at
    <2> QED
      BY <1>1 DEF IsPlace
  <1>6. IsFragment(l, at, p)
    <2> HIDE DEF at, end
    <2> QED
      BY <1>1, <1>3, <1>4, <1>5 DEF IsFragment
  <1> QED
    BY <1>2, <1>4, <1>6

(* The walk to the next position a token may end at stays in the fragment; *)
(* behind spaces that fill the fragment it goes one byte too far.          *)
LEMMA BoundaryWithin ==
  ASSUME NEW l, NEW at, NEW p, IsFragment(l, at, p), l.constrained
  PROVE  LET r == UpToBoundary(l, at)
         IN  IF at.begin2 < at.end THEN r.begin3 <= at.end /\ l.boundary[r.begin3] # InsideToken
             ELSE r.begin3 = at.end + 1
  <1> DEFINE n == Len(l.sentence) + 1
             Stopped(w) == IF at.begin2 < at.end
                           THEN w.begin3 <= at.end /\ l.boundary[w.begin3] # InsideToken
                           ELSE w.begin3 = at.end + 1
             Bound(w, k) == /\ ~w.more => Stopped(w)
                            /\ w.more => /\ k <= w.begin3
                                         /\ IF at.begin2 < at.end THEN w.begin3 < at.end
                                            ELSE k = 0 /\ w.begin3 = at.end
             P(f) == {k \in 0 .. n : Bound(f[k], k)}
  <1>1. /\ IsPlace(l, at, p) /\ l.sentence \in Seq(Bytes) /\ at.end \in Nat /\ at.begin2 \in Nat
        /\ at.end <= Len(l.sentence) /\ at.begin2 <= at.end /\ l.boundary[at.end] # InsideToken
    BY DEF IsFragment, IsPlace, TokenBoundary, InsideToken
  <1>a. \A w \in Walkers(l, at) : w.begin3 \in Nat /\ w.more \in BOOLEAN
    <2>1. \A b \in Reach(l, at) : b \in Nat
      BY <1>1, ReachFacts
    <2> QED
      BY <1>1, <2>1 DEF Walkers
  <1>0. PICK f : IsBoundaryWalk(f, l, at, p)
    BY <1>1, BoundaryWalk
  <1>2. n \in Nat /\ at.end < n /\ n \in 0 .. n /\ 0 \in 0 .. n /\ n # 0
    BY <1>1
  <1>3. /\ f[0] = [begin3 |-> at.begin2, c |-> CharMap[Nul], more |-> TRUE]
        /\ \A k \in 1 .. n : f[k] = BoundaryStep(l, at, f[k - 1], CharAt(l.sentence, f[k - 1].begin3, at.end))
        /\ \A k \in 0 .. n : f[k] \in Walkers(l, at)
        /\ UpToBoundary(l, at) = f[n]
    BY <1>0 DEF IsBoundaryWalk
  <1> HIDE DEF n
  <1>4. Bound(f[0], 0)
    BY <1>1, <1>3
  <1>5. ASSUME NEW k \in 1 .. n, Bound(f[k - 1], k - 1) PROVE Bound(f[k], k)
    <2> DEFINE x == CharAt(l.sentence, f[k - 1].begin3, at.end)
               next == f[k - 1].begin3 + x.mblen
    <2>1. k - 1 \in 0 .. n /\ k \in Nat
      BY <1>2
    <2>2. /\ f[k - 1] \in Walkers(l, at) /\ f[k] = BoundaryStep(l, at, f[k - 1], x)
      BY <1>3, <2>1
    <2>3. f[k - 1].begin3 \in Nat /\ f[k - 1].more \in BOOLEAN
      BY <2>2, <1>a
    <2>4. CASE ~f[k - 1].more
      <3>1. f[k] = f[k - 1]
        BY <2>2, <2>4 DEF BoundaryStep
      <3> QED
        BY <1>5, <2>4, <3>1
    <2>5. CASE f[k - 1].more
      <3>1. f[k] = [begin3 |-> next, c |-> x.info,
                    more |-> ~(next > at.end \/ l.boundary[next] # InsideToken)]
        BY <2>2, <2>5 DEF BoundaryStep
      <3>2. f[k - 1].begin3 <= at.end /\ k - 1 <= f[k - 1].begin3
        BY <1>1, <1>5, <2>3, <2>5
      <3>3. /\ x.mblen \in Nat \ {0}
            /\ f[k - 1].begin3 < at.end => next <= at.end
            /\ f[k - 1].begin3 = at.end => next = at.end + 1
        BY <1>1, <2>3, <3>2, CharFacts, CharWithin
      <3>4. next \in Nat /\ k <= next
        BY <2>1, <2>3, <3>2, <3>3
      <3> HIDE DEF next, x
      <3>5. f[k].begin3 = next /\ f[k].more = ~(next > at.end \/ l.boundary[next] # InsideToken)
        BY <3>1
      <3>6. CASE at.begin2 < at.end
        <4>1. f[k - 1].begin3 < at.end
          BY <1>5, <2>5, <3>6
        <4>2. next <= at.end /\ ~(next > at.end)
          BY <1>1, <3>3, <3>4, <4>1
        <4>3. l.boundary[next] = InsideToken => next < at.end
          BY <1>1, <3>4, <4>2
        <4> QED
          BY <3>4, <3>5, <3>6, <4>2, <4>3
      <3>7. CASE ~(at.begin2 < at.end)
        <4>1. next = at.end + 1 /\ next > at.end
          BY <1>1, <1>5, <2>5, <3>3, <3>7
        <4> QED
          BY <3>5, <3>7, <4>1
      <3> QED
        BY <3>6, <3>7
    <2> QED
      BY <2>3, <2>4, <2>5
  <1> HIDE DEF Bound
  <1>6. 0 \in P(f) /\ \A k \in 1 .. n : k - 1 \in P(f) => k \in P(f)
    BY <1>2, <1>4, <1>5
  <1>7. 0 .. n \subseteq P(f)
    <2> HIDE DEF P
    <2> QED
      BY <1>2, <1>6, UpTo
  <1>8. Bound(f[n], n) /\ f[n].begin3 \in Nat /\ f[n].more \in BOOLEAN
    <2>1. n \in P(f) /\ f[n] \in Walkers(l, at)
      BY <1>2, <1>3, <1>7
    <2>2. f[n].begin3 \in Nat /\ f[n].more \in BOOLEAN
      BY <1>a, <2>1
    <2> QED
      BY <2>1, <2>2
  <1>9. ~f[n].more
    BY <1>1, <1>2, <1>8 DEF Bound
  <1>10. Stopped(f[n])
    BY <1>8, <1>9 DEF Bound
  <1> QED
    BY <1>3, <1>10

(* The words lookup may offer from p under constraints: none ends inside a *)
(* token or misses the feature demanded at p, and none runs over the end   *)
(* of the fragment, unless spaces fill it.                                 *)
Suits(l, at, p) ==
  {w \in Candidates(l, p) :
     /\ w.surface = at.begin2
     /\ at.begin2 < at.end => EndOf(w) <= at.end
     /\ l.constrained =>
          /\ at.begin2 < at.end \/ l.feature[p] = NoFeature => l.boundary[EndOf(w)] # InsideToken
          /\ l.feature[p] # NoFeature => PartialMatch(l.feature[p], w.feature)}

(* Such words are what IsValidNode leaves.                                 *)
LEMMA ValidSuits ==
  ASSUME NEW l, NEW at, NEW p \in Nat, NEW w \in Candidates(l, p), w.surface = at.begin2,
         at.begin2 < at.end => EndOf(w) <= at.end, l.constrained => IsValidNode(l, w)
  PROVE  w \in Suits(l, at, p)
  <1>1. EndOf(w) = p + w.rlength /\ w.rlength \in Nat /\ EndOf(w) = w.surface + w.length
    BY DEF Candidates, EndOf
  <1>2. EndOf(w) - w.rlength = p
    BY <1>1
  <1>3. ASSUME l.constrained
        PROVE  /\ l.boundary[EndOf(w)] # InsideToken
               /\ l.feature[p] # NoFeature => PartialMatch(l.feature[p], w.feature)
    BY <1>1, <1>2, <1>3 DEF IsValidNode
  <1> QED
    BY <1>3 DEF Suits

LEMMA EmptyWhenNone == ASSUME NEW X, NEW s \in Seq(X), ToSet(s) = {} PROVE s = <<>>
  <1>1. Len(s) \in Nat /\ DOMAIN s = 1 .. Len(s)
    OBVIOUS
  <1>2. ASSUME Len(s) # 0 PROVE FALSE
    <2>1. s[1] \in ToSet(s)
      BY <1>1, <1>2 DEF ToSet
    <2> QED
      BY <2>1
  <1> QED
    BY <1>2

(* What is pushed under constraints is valid; nothing is only if nothing   *)
(* new is valid.                                                           *)
LEMMA PushKeeps ==
  ASSUME NEW l, NEW Y, NEW X, NEW new \in Seq(Y), NEW found \in Seq(X),
         \A i \in DOMAIN new : (l.constrained => IsValidNode(l, new[i])) => new[i] \in X
  PROVE  /\ Push(l, new, found) \in Seq(X)
         /\ Push(l, new, found) = <<>> <=>
              /\ found = <<>>
              /\ \A i \in DOMAIN new : l.constrained /\ ~IsValidNode(l, new[i])
  <1> DEFINE n == Len(new)
             Drop(i) == l.constrained /\ ~IsValidNode(l, new[i])
             ss == [i \in DOMAIN new |-> IF Drop(i) THEN <<>> ELSE <<new[i]>>]
             kept == FlattenSeq(ss)
  <1>1. n \in Nat /\ DOMAIN new = 1 .. n
    OBVIOUS
  <1>2. \A i \in 1 .. n : ~Drop(i) => new[i] \in X
    BY <1>1
  <1>3. Push(l, new, found) = Reverse(kept) \o found
    BY DEF Push
  <1> HIDE DEF Drop, n
  <1>4. ss \in [1 .. n -> Seq(X)]
    BY <1>1, <1>2
  <1>5. \A i \in 1 .. n : ToSet(ss[i]) = IF Drop(i) THEN {} ELSE {new[i]}
    BY <1>1, OneOrNone
  <1> HIDE DEF ss
  <1>6. kept \in Seq(X) /\ ToSet(kept) = UNION {ToSet(ss[i]) : i \in 1 .. n}
    BY <1>1, <1>4, Picked
  <1> HIDE DEF kept
  <1>7. Reverse(kept) \in Seq(X) /\ ToSet(Reverse(kept)) = ToSet(kept)
    BY <1>6, ReverseFacts
  <1>8. Reverse(kept) = <<>> <=> \A i \in 1 .. n : Drop(i)
    <2>1. ASSUME Reverse(kept) = <<>>, NEW i \in 1 .. n PROVE Drop(i)
      <3>1. ToSet(kept) = {}
        BY <1>7, <2>1, OneOrNone
      <3>2. ToSet(ss[i]) = {}
        BY <1>6, <3>1
      <3> QED
        BY <1>5, <3>2
    <2>2. ASSUME \A i \in 1 .. n : Drop(i) PROVE Reverse(kept) = <<>>
      <3>0. \A i \in 1 .. n : ToSet(ss[i]) = {}
        BY <1>5, <2>2
      <3>a. ToSet(kept) = {}
        BY <1>6, <3>0
      <3>1. ToSet(Reverse(kept)) = {}
        BY <1>7, <3>a
      <3>2. PICK r \in Seq(X) : r = Reverse(kept)
        BY <1>7
      <3> QED
        BY <3>1, <3>2, EmptyWhenNone
    <2> QED
      BY <2>1, <2>2
  <1>9. \A u, v \in Seq(X) : u \o v \in Seq(X) /\ (u \o v = <<>> <=> u = <<>> /\ v = <<>>)
    OBVIOUS
  <1> QED
    BY <1>1, <1>3, <1>7, <1>8, <1>9 DEF Drop

UnknownNode(at, e, c, k) ==
  NodeOf(UnkTokens[c.default][k], at.begin2, e - at.begin2, e - at.begin, "unk", c.default)

LEMMA UnknownNodeFacts ==
  ASSUME NEW l, NEW at, NEW p, IsPlace(l, at, p), NEW e \in Reach(l, at), NEW c \in Classes
  PROVE  /\ UnkTokens[c.default] \in Seq(DicTokens) /\ UnkTokens[c.default] # <<>>
         /\ \A k \in DOMAIN UnkTokens[c.default] :
              /\ UnknownNode(at, e, c, k) \in Candidates(l, p)
              /\ UnknownNode(at, e, c, k).surface = at.begin2
              /\ EndOf(UnknownNode(at, e, c, k)) = e
              /\ UnknownNode(at, e, c, k).feature = UnkTokens[c.default][k].feature
              /\ IsValidNode(l, UnknownNode(at, e, c, k)) <=>
                   /\ l.boundary[e] # InsideToken
                   /\ \/ l.feature[p] = NoFeature
                      \/ /\ l.boundary[p] = TokenBoundary /\ l.boundary[e] = TokenBoundary
                         /\ PartialMatch(l.feature[p], UnkTokens[c.default][k].feature)
  <1> DEFINE tokens == UnkTokens[c.default]
  <1>1. tokens \in Seq(DicTokens) /\ tokens # <<>>
    BY ClassFacts, DictionaryAssumption
  <1>3. c.default \in {d.default : d \in Classes}
    BY ClassFacts
  <1> HIDE DEF tokens
  <1>4. ASSUME NEW k \in DOMAIN tokens
        PROVE  /\ UnknownNode(at, e, c, k) \in Candidates(l, p)
               /\ UnknownNode(at, e, c, k).surface = at.begin2
               /\ EndOf(UnknownNode(at, e, c, k)) = e
               /\ e - UnknownNode(at, e, c, k).rlength = p
               /\ UnknownNode(at, e, c, k).surface + UnknownNode(at, e, c, k).length = e
               /\ UnknownNode(at, e, c, k).feature = tokens[k].feature
    <2>1. tokens[k] \in DicTokens
      BY <1>1
    <2>2. /\ tokens[k].lc \in LeftIds /\ tokens[k].rc \in RightIds /\ tokens[k].wcost \in Int
          /\ tokens[k].feature \in {u.feature : u \in DicTokens} \cup {l.feature[p]}
      BY <2>1, TokenFacts
    <2>3. LET w == NodeOf(tokens[k], at.begin2, e - at.begin2, e - at.begin, "unk", c.default)
          IN  /\ w \in Candidates(l, p) /\ w.surface = at.begin2 /\ EndOf(w) = e
              /\ EndOf(w) - w.rlength = p /\ w.surface + w.length = EndOf(w)
              /\ w.feature = tokens[k].feature
      BY <1>3, <2>2, NodeFacts
    <2>4. UnknownNode(at, e, c, k) =
            NodeOf(tokens[k], at.begin2, e - at.begin2, e - at.begin, "unk", c.default)
      BY DEF UnknownNode, tokens
    <2> QED
      BY <2>3, <2>4
  <1>5. ASSUME NEW k \in DOMAIN tokens, NEW w, w = UnknownNode(at, e, c, k)
        PROVE  /\ EndOf(w) = e
               /\ IsValidNode(l, w) <=>
                    /\ l.boundary[e] # InsideToken
                    /\ \/ l.feature[p] = NoFeature
                       \/ /\ l.boundary[p] = TokenBoundary /\ l.boundary[e] = TokenBoundary
                          /\ PartialMatch(l.feature[p], tokens[k].feature)
    <2>1. w.surface + w.length = e /\ e - w.rlength = p /\ w.feature = tokens[k].feature
      BY <1>4, <1>5
    <2>2. EndOf(w) = e
      BY <1>4, <1>5
    <2> QED
      BY <2>1, <2>2 DEF IsValidNode
  <1> QED
    BY <1>1, <1>4, <1>5 DEF tokens

LEMMA UnknownSuits ==
  ASSUME NEW l, NEW at, NEW p, IsPlace(l, at, p), NEW e \in Reach(l, at), NEW c \in Classes,
         NEW found \in Seq(Suits(l, at, p))
  PROVE  /\ (at.begin2 < at.end => e <= at.end) =>
              AddUnknown(l, at, e, c, found) \in Seq(Suits(l, at, p))
         /\ AddUnknown(l, at, e, c, found) = <<>> <=>
              /\ found = <<>>
              /\ \A k \in DOMAIN UnkTokens[c.default] :
                   l.constrained /\ ~IsValidNode(l, UnknownNode(at, e, c, k))
  <1> DEFINE tokens == UnkTokens[c.default]
             new == [k \in DOMAIN tokens |->
                       NodeOf(tokens[k], at.begin2, e - at.begin2, e - at.begin, "unk", c.default)]
             X == Suits(l, at, p)
             C == Candidates(l, p)
  <1>1. AddUnknown(l, at, e, c, found) = Push(l, new, found)
    BY DEF AddUnknown
  <1>2. tokens \in Seq(DicTokens) /\ p \in Nat
    BY UnknownNodeFacts DEF IsPlace
  <1>3. DOMAIN new = DOMAIN tokens /\ \A k \in DOMAIN tokens : new[k] = UnknownNode(at, e, c, k)
    BY DEF UnknownNode
  <1> HIDE DEF new
  <1>4. \A k \in DOMAIN new : new[k] \in C /\ new[k].surface = at.begin2 /\ EndOf(new[k]) = e
    BY <1>3, UnknownNodeFacts
  <1>5. new \in Seq(C)
    <2>1. DOMAIN tokens = 1 .. Len(tokens) /\ Len(tokens) \in Nat
      BY <1>2
    <2>2. new = [k \in 1 .. Len(tokens) |-> new[k]]
      BY <2>1 DEF new
    <2>3. new \in [1 .. Len(tokens) -> C]
      <3> HIDE DEF C
      <3> QED
        BY <1>3, <1>4, <2>1, <2>2
    <2> HIDE DEF C, tokens
    <2> QED
      BY <2>1, <2>3
  <1>6. ASSUME at.begin2 < at.end => e <= at.end
        PROVE  AddUnknown(l, at, e, c, found) \in Seq(X)
    <2>1. \A k \in DOMAIN new : (l.constrained => IsValidNode(l, new[k])) => new[k] \in X
      BY <1>2, <1>4, <1>6, ValidSuits
    <2>2. found \in Seq(X)
      OBVIOUS
    <2> HIDE DEF X, C
    <2>3. Push(l, new, found) \in Seq(X)
      BY <1>5, <2>1, <2>2, PushKeeps
    <2> QED
      BY <1>1, <2>3
  <1>7. AddUnknown(l, at, e, c, found) = <<>> <=>
          found = <<>> /\ \A i \in DOMAIN new : l.constrained /\ ~IsValidNode(l, new[i])
    <2> DEFINE Z == C \cup Suits(l, at, p)
    <2>1. found \in Seq(Z)
      <3>1. Suits(l, at, p) \subseteq Z
        OBVIOUS
      <3> HIDE DEF Z
      <3> QED
        BY <3>1
    <2>2. \A i \in DOMAIN new : (l.constrained => IsValidNode(l, new[i])) => new[i] \in Z
      BY <1>4
    <2> HIDE DEF Z, C
    <2> QED
      BY <1>1, <1>5, <2>1, <2>2, PushKeeps
  <1> QED
    BY <1>3, <1>6, <1>7

(* At the end of the fragment, where a token may end, an unknown word is   *)
(* kept unless it misses the feature demanded at p; then so does one that  *)
(* ends anywhere else.                                                     *)
LEMMA UnknownNone ==
  ASSUME NEW l, NEW at, NEW p, IsPlace(l, at, p), NEW e \in Reach(l, at), NEW d \in Reach(l, at),
         NEW c \in Classes, l.constrained => l.boundary[e] = TokenBoundary,
         AddUnknown(l, at, e, c, <<>>) = <<>>
  PROVE  AddUnknown(l, at, d, c, <<>>) = <<>>
  <1>0. <<>> \in Seq(Suits(l, at, p))
    OBVIOUS
  <1>1. ASSUME NEW k \in DOMAIN UnkTokens[c.default]
        PROVE  l.constrained /\ ~IsValidNode(l, UnknownNode(at, d, c, k))
    <2>1. l.constrained /\ ~IsValidNode(l, UnknownNode(at, e, c, k))
      BY <1>0, UnknownSuits
    <2>2. l.boundary[e] = TokenBoundary /\ l.boundary[e] # InsideToken
      BY <2>1 DEF TokenBoundary, InsideToken
    <2> QED
      BY <2>1, <2>2, UnknownNodeFacts
  <1> QED
    BY <1>0, <1>1, UnknownSuits

(* Under constraints nothing is left at a place only if a token cannot end *)
(* there or a feature is demanded.                                         *)
LEMMA UnknownLost ==
  ASSUME NEW l, NEW at, NEW p, IsPlace(l, at, p), NEW e \in Reach(l, at), NEW c \in Classes,
         AddUnknown(l, at, e, c, <<>>) = <<>>, l.feature[p] = NoFeature
  PROVE  l.constrained /\ l.boundary[e] = InsideToken
  <1>0. <<>> \in Seq(Suits(l, at, p))
    OBVIOUS
  <1>1. UnkTokens[c.default] \in Seq(DicTokens) /\ UnkTokens[c.default] # <<>>
    BY UnknownNodeFacts
  <1>2. 1 \in DOMAIN UnkTokens[c.default]
    BY <1>1
  <1>3. l.constrained /\ ~IsValidNode(l, UnknownNode(at, e, c, 1))
    BY <1>0, <1>2, UnknownSuits
  <1> QED
    BY <1>2, <1>3, UnknownNodeFacts

(* The words of the dictionaries suit, and end by the end of the text.     *)
LEMMA DictionaryWithin ==
  ASSUME NEW l, NEW at, NEW p, IsFragment(l, at, p)
  PROVE  DictionaryNodes(l, at) \in Seq({w \in Suits(l, at, p) : EndOf(w) <= Len(l.sentence)})
  <1> DEFINE C == {w \in Candidates(l, p) :
                     /\ w.surface = at.begin2 /\ EndOf(w) <= Len(l.sentence)
                     /\ at.begin2 < at.end => EndOf(w) <= at.end}
             room == at.end - at.begin2
             rest == Len(l.sentence) - at.begin2
             nodesOf(tokens, len) ==
               [j \in DOMAIN tokens |->
                  NodeOf(tokens[j], at.begin2, len, at.begin2 - at.begin + len, "nor", at.cinfo.default)]
             ofDic(dic, found) ==
               FlattenSeq([i \in DOMAIN found |-> nodesOf(dic[found[i]], Len(found[i]))])
             ss == [d \in DOMAIN Dics |-> ofDic(Dics[d], Hits(l, at, Dics[d]))]
  <1>1. DictionaryNodes(l, at) = Push(l, FlattenSeq(ss), <<>>)
    BY DEF DictionaryNodes
  <1>a. IsPlace(l, at, p)
    BY DEF IsFragment
  <1>2. /\ p \in Nat /\ at.begin = p /\ at.begin2 \in Nat /\ at.begin2 >= p /\ at.end \in Nat
        /\ room \in Nat /\ (room = 0 <=> ~(at.begin2 < at.end)) /\ l.sentence \in Seq(Bytes)
        /\ rest \in Nat /\ Len(l.sentence) \in Nat
        /\ at.cinfo.default \in {c.default : c \in Classes}
    BY ClassFacts DEF IsPlace, IsFragment
  <1>3. ASSUME NEW tokens \in Seq(DicTokens), NEW len \in 1 .. rest, room # 0 => len <= room
        PROVE  nodesOf(tokens, len) \in Seq(C)
    <2> DEFINE new == nodesOf(tokens, len)
               e == at.begin2 + len
    <2>1. /\ e \in Reach(l, at) /\ e - at.begin2 = len
          /\ e - at.begin = at.begin2 - at.begin + len
      <3> DEFINE n == Len(l.sentence)
      <3>1. n \in Nat /\ at.begin2 + rest = n
        BY <1>2
      <3> HIDE DEF n, rest
      <3>2. e \in at.begin2 + 1 .. n + 3 /\ e - at.begin2 = len /\ e - at.begin = at.begin2 - at.begin + len
        BY <1>2, <3>1
      <3> QED
        BY <3>2 DEF Reach, n
    <2>a. at.begin2 + len <= Len(l.sentence)
      BY <1>2, <1>3
    <2>b. at.begin2 < at.end => at.begin2 + len <= at.end
      <3>1. at.begin2 < at.end => len <= at.end - at.begin2
        BY <1>2, <1>3
      <3> HIDE DEF room, rest
      <3> QED
        BY <1>2, <1>3, <3>1
    <2>2. ASSUME NEW k \in DOMAIN tokens PROVE new[k] \in C
      <3> DEFINE w == NodeOf(tokens[k], at.begin2, len, at.begin2 - at.begin + len, "nor", at.cinfo.default)
      <3>1. tokens[k] \in DicTokens
        OBVIOUS
      <3>2. /\ tokens[k].lc \in LeftIds /\ tokens[k].rc \in RightIds /\ tokens[k].wcost \in Int
            /\ tokens[k].feature \in {u.feature : u \in DicTokens} \cup {l.feature[p]}
        BY <3>1, TokenFacts
      <3>3. NodeOf(tokens[k], at.begin2, e - at.begin2, e - at.begin, "nor", at.cinfo.default)
              \in Candidates(l, p)
        <4> HIDE DEF e
        <4> QED
          BY <1>2, <1>a, <2>1, <3>2, NodeFacts
      <3>4. w \in Candidates(l, p)
        BY <2>1, <3>3
      <3>5. Cut(len) = len
        <4>1. len \in 0 .. LengthMax
          <5> HIDE DEF e, rest
          <5> QED
            BY <1>a, <2>1, ReachFacts
        <4> QED
          BY <4>1, CutSame
      <3>6. w.surface = at.begin2 /\ w.length = len
        BY <3>5 DEF NodeOf
      <3> HIDE DEF w
      <3>7. EndOf(w) = at.begin2 + len
        BY <3>6 DEF EndOf
      <3>8. w \in C
        BY <2>a, <2>b, <3>4, <3>6, <3>7
      <3> QED
        BY <3>8 DEF w
    <2>3. DOMAIN tokens = 1 .. Len(tokens) /\ Len(tokens) \in Nat
      OBVIOUS
    <2> HIDE DEF C
    <2>4. new \in [1 .. Len(tokens) -> C]
      BY <2>2, <2>3
    <2> HIDE DEF new
    <2> QED
      BY <2>3, <2>4 DEF new
  <1> HIDE DEF nodesOf, C
  <1>4. ASSUME NEW d \in DOMAIN Dics PROVE ofDic(Dics[d], Hits(l, at, Dics[d])) \in Seq(C)
    <2> DEFINE found == Hits(l, at, Dics[d])
               W == Entries(Dics[d], rest, room)
               lists == [i \in DOMAIN found |-> nodesOf(Dics[d][found[i]], Len(found[i]))]
    <2>1. found \in Seq(W)
      <3>1. found = CommonPrefixSearch(Dics[d], l.sentence, at.begin2, room)
        BY DEF Hits
      <3> HIDE DEF room, found
      <3> QED
        BY <1>2, <3>1, SearchWithin
    <2>2. \A w \in W : /\ Dics[d][w] \in Seq(DicTokens) /\ Len(w) \in 1 .. rest
                       /\ room # 0 => Len(w) <= room
      BY DictionaryAssumption DEF Entries
    <2> HIDE DEF found, W
    <2>3. DOMAIN found = 1 .. Len(found) /\ Len(found) \in Nat /\ \A i \in 1 .. Len(found) : found[i] \in W
      BY <2>1
    <2>4. lists \in [1 .. Len(found) -> Seq(C)]
      <3> HIDE DEF room, rest
      <3> QED
        BY <1>3, <2>2, <2>3
    <2>5. FlattenSeq(lists) \in Seq(C)
      <3> HIDE DEF lists
      <3> QED
        BY <2>3, <2>4, Picked
    <2> QED
      BY <2>5 DEF found
  <1> HIDE DEF ofDic
  <1>5. DOMAIN Dics = 1 .. Len(Dics) /\ Len(Dics) \in Nat
    BY DictionaryAssumption
  <1>6. ss \in [1 .. Len(Dics) -> Seq(C)]
    BY <1>4, <1>5
  <1> HIDE DEF ss
  <1> DEFINE new == FlattenSeq(ss)
             X == {w \in Suits(l, at, p) : EndOf(w) <= Len(l.sentence)}
  <1>7. new \in Seq(C)
    BY <1>5, <1>6, Picked
  <1> HIDE DEF new
  <1>8. ASSUME NEW i \in DOMAIN new, l.constrained => IsValidNode(l, new[i]) PROVE new[i] \in X
    <2>1. new[i] \in C
      BY <1>7
    <2> QED
      BY <1>2, <1>8, <2>1, ValidSuits DEF C
  <1>9. <<>> \in Seq(X)
    OBVIOUS
  <1> HIDE DEF X
  <1>10. Push(l, new, <<>>) \in Seq(X)
    BY <1>7, <1>8, <1>9, PushKeeps
  <1> QED
    BY <1>1, <1>10 DEF new, X

(* The words by length suit, too; and where the last of them went behind   *)
(* the end of the fragment, nothing is lost that ends there.               *)
Suiting(l, at, p, w) ==
  /\ w.result \in Seq(Suits(l, at, p))
  /\ at.begin2 < at.end =>
       \/ w.begin3 <= at.end
       \/ w.begin3 = at.end + 1 /\ (w.result # <<>> \/ AddUnknown(l, at, at.end, at.cinfo, <<>>) = <<>>)
  /\ ~(at.begin2 < at.end) => w.begin3 > at.end

LEMMA EndInReach ==
  ASSUME NEW l, NEW at, NEW p, IsPlace(l, at, p), at.begin2 < at.end
  PROVE  at.end \in Reach(l, at)
  <1> DEFINE n == Len(l.sentence)
  <1>1. n \in Nat /\ at.end \in Nat /\ at.end <= n /\ at.begin2 \in Nat
    BY DEF IsPlace
  <1> HIDE DEF n
  <1>2. at.end \in at.begin2 + 1 .. n + 3
    BY <1>1
  <1> QED
    BY <1>2 DEF Reach, n

LEMMA LengthStepSuits ==
  ASSUME NEW l, NEW at, NEW p, IsFragment(l, at, p), NEW group \in Int, NEW w \in Growing(l, at, p),
         Suiting(l, at, p, w)
  PROVE  Suiting(l, at, p, LengthStep(l, at, group, w, CharAt(l.sentence, w.begin3, at.end)))
  <1> DEFINE x == CharAt(l.sentence, w.begin3, at.end)
  <1>a. IsPlace(l, at, p) /\ w.begin3 \in Reach(l, at)
    BY DEF IsFragment, Growing
  <1>b. w.begin3 \in Nat /\ w.begin3 > p
    BY <1>a, ReachFacts
  <1>0. /\ w.begin3 \in Nat /\ w.begin3 > p /\ w.result \in Seq(Suits(l, at, p))
        /\ w.more \in BOOLEAN
        /\ w = [begin3 |-> w.begin3, result |-> w.result, more |-> w.more]
        /\ l.sentence \in Seq(Bytes) /\ at.end \in Nat /\ p \in Nat /\ at.cinfo \in Classes
        /\ IsPlace(l, at, p)
    BY <1>a, <1>b DEF Growing, IsPlace, Suiting
  <1>1. /\ x.mblen \in Nat \ {0}
        /\ w.begin3 < at.end => w.begin3 + x.mblen <= at.end
        /\ w.begin3 = at.end => x.mblen = 1
    BY <1>0, CharFacts, CharWithin
  <1> HIDE DEF x
  <1>2. CASE ~w.more \/ w.begin3 > at.end
    <2>1. LengthStep(l, at, group, w, x) = [begin3 |-> w.begin3, result |-> w.result, more |-> FALSE]
      BY <1>0, <1>2 DEF LengthStep
    <2> QED
      BY <1>0, <2>1 DEF Suiting, x
  <1>3. CASE ~(~w.more \/ w.begin3 > at.end) /\ w.begin3 = group
    <2>1. LengthStep(l, at, group, w, x) = w
      BY <1>3 DEF LengthStep
    <2> QED
      BY <2>1 DEF x
  <1>4. CASE ~(~w.more \/ w.begin3 > at.end) /\ w.begin3 # group
    <2> DEFINE more == IsKindOf(at.cinfo, x.info)
               next == w.begin3 + IF more THEN x.mblen ELSE 0
               new == AddUnknown(l, at, w.begin3, at.cinfo, w.result)
    <2>1. LengthStep(l, at, group, w, x) = [begin3 |-> next, result |-> new, more |-> more]
      BY <1>4 DEF LengthStep
    <2>2. w.begin3 <= at.end /\ at.begin2 < at.end
      BY <1>0, <1>4 DEF Suiting
    <2>3. new \in Seq(Suits(l, at, p))
      BY <1>0, <1>a, <2>2, UnknownSuits
    <2>4. \/ next <= at.end
          \/ next = at.end + 1 /\ w.begin3 = at.end
      BY <1>0, <1>1, <2>2
    <2>5. w.begin3 = at.end => new # <<>> \/ AddUnknown(l, at, at.end, at.cinfo, <<>>) = <<>>
      <3>1. CASE w.result = <<>>
        BY <3>1
      <3>2. CASE w.result # <<>>
        BY <1>0, <1>a, <3>2, UnknownSuits
      <3> QED
        BY <3>1, <3>2
    <2> HIDE DEF next, new, more
    <2> QED
      BY <2>1, <2>2, <2>3, <2>4, <2>5 DEF Suiting, x
  <1> QED
    BY <1>2, <1>3, <1>4

LEMMA LengthSuits ==
  ASSUME NEW l, NEW at, NEW p, IsFragment(l, at, p), NEW group \in Int,
         NEW found \in Seq(Suits(l, at, p))
  PROVE  Suiting(l, at, p, UnknownByLength(l, at, group, found))
  <1> DEFINE n == at.cinfo.length
             S == {w \in Growing(l, at, p) : Suiting(l, at, p, w)}
  <1>0. IsPlace(l, at, p) /\ found \in Seq(Candidates(l, p))
    <2>1. Suits(l, at, p) \subseteq Candidates(l, p)
      BY DEF Suits
    <2> QED
      BY <2>1 DEF IsFragment
  <1>1. PICK f : IsLengths(f, l, at, p, group, found)
    BY <1>0, LengthWalk
  <1>2. n \in Nat /\ n \in 0 .. n /\ 0 \in 0 .. n
    BY <1>0, ClassFacts DEF IsPlace
  <1>3. /\ f[0] = [begin3 |-> at.begin3, result |-> found, more |-> TRUE]
        /\ \A k \in 1 .. n :
             f[k] = LengthStep(l, at, group, f[k - 1], CharAt(l.sentence, f[k - 1].begin3, at.end))
        /\ \A k \in 0 .. n : f[k] \in Growing(l, at, p)
        /\ UnknownByLength(l, at, group, found) = f[n]
    BY <1>1 DEF IsLengths
  <1> HIDE DEF n
  <1>4. f[0] \in S
    <2>1. at.begin3 \in Nat /\ at.end \in Nat
      BY <1>0, ReachFacts DEF IsPlace
    <2> QED
      BY <1>2, <1>3, <2>1 DEF Suiting, IsFragment
  <1>5. ASSUME NEW k \in 1 .. n, f[k - 1] \in S PROVE f[k] \in S
    <2>1. k \in 0 .. n
      BY <1>2
    <2>2. f[k] \in Growing(l, at, p)
      BY <1>3, <2>1
    <2>3. Suiting(l, at, p, f[k])
      BY <1>3, <1>5, LengthStepSuits
    <2> QED
      BY <2>2, <2>3
  <1>6. \A k \in 0 .. n : f[k] \in S
    <2> HIDE DEF S
    <2> QED
      BY <1>2, <1>4, <1>5, StaysIn
  <1> QED
    BY <1>2, <1>3, <1>6

(* What lookup may return under constraints.                               *)
Fits(l, at, p, found) ==
  /\ found.nodes \in Seq(Suits(l, at, p))
  /\ found.died =>
       /\ l.constrained /\ l.feature[p] = NoFeature
       /\ at.begin2 = at.end /\ l.boundary[at.end + 1] = InsideToken

LEMMA ForcedSuits ==
  ASSUME NEW l, NEW at, NEW p, IsFragment(l, at, p), l.constrained
  PROVE  Fits(l, at, p, Forced(l, at, UpToBoundary(l, at)))
  <1> DEFINE last == UpToBoundary(l, at)
             unknown == AddUnknown(l, at, last.begin3, last.c, <<>>)
             token == [lc |-> 0, rc |-> 0, wcost |-> 0, feature |-> l.feature[at.begin]]
             node == NodeOf(token, at.begin2, last.begin3 - at.begin2, last.begin3 - at.begin,
                            "unk", last.c.default)
             X == Suits(l, at, p)
  <1>0. IsPlace(l, at, p) /\ at.end \in Nat /\ at.begin2 <= at.end
    BY DEF IsFragment, IsPlace
  <1>1. last.begin3 \in Reach(l, at) /\ last.c \in Classes
    BY <1>0, BoundaryFacts
  <1>2. /\ p \in Nat /\ at.begin = p /\ at.begin2 \in Nat
    BY <1>0 DEF IsPlace
  <1>3. IF at.begin2 < at.end THEN last.begin3 <= at.end /\ l.boundary[last.begin3] # InsideToken
        ELSE last.begin3 = at.end + 1
    BY BoundaryWithin
  <1> HIDE DEF last
  <1>a. <<>> \in Seq(X)
    OBVIOUS
  <1>4. unknown \in Seq(X)
    BY <1>0, <1>1, <1>3, <1>a, UnknownSuits
  <1>5. unknown = <<>> /\ l.feature[p] = NoFeature =>
          at.begin2 = at.end /\ l.boundary[at.end + 1] = InsideToken
    <2>1. unknown = <<>> /\ l.feature[p] = NoFeature => l.boundary[last.begin3] = InsideToken
      BY <1>0, <1>1, UnknownLost
    <2> QED
      BY <1>0, <1>2, <1>3, <2>1
  <1>6. l.feature[p] # NoFeature => node \in X
    <2>1. /\ token.lc \in LeftIds /\ token.rc \in RightIds /\ token.wcost \in Int
          /\ token.feature \in {t.feature : t \in DicTokens} \cup {l.feature[p]}
      BY <1>2 DEF LeftIds, RightIds
    <2>3. last.c.default \in {c.default : c \in Classes}
      BY <1>1
    <2>5. node \in Candidates(l, p)
      <3> HIDE DEF token
      <3> QED
        BY <1>0, <1>1, <2>1, <2>3, NodeFacts
    <2>6. node.surface = at.begin2 /\ EndOf(node) = last.begin3 /\ node.feature = l.feature[p]
      <3>1. Cut(last.begin3 - at.begin2) = last.begin3 - at.begin2
        BY <1>0, <1>1, ReachFacts, CutSame
      <3>2. /\ node.surface = at.begin2 /\ node.length = last.begin3 - at.begin2
            /\ node.feature = l.feature[p]
        BY <1>2, <3>1 DEF NodeOf
      <3>3. at.begin2 + (last.begin3 - at.begin2) = last.begin3
        BY <1>0, <1>1, ReachFacts
      <3> QED
        BY <3>2, <3>3 DEF EndOf
    <2> HIDE DEF node
    <2>7. PartialMatch(l.feature[p], node.feature)
      BY <2>6 DEF PartialMatch
    <2> QED
      BY <1>3, <2>5, <2>6, <2>7 DEF Suits
  <1>7. Forced(l, at, last) =
          IF unknown # <<>> THEN Found(unknown)
          ELSE IF l.feature[at.begin] # NoFeature THEN Found(<<node>>) ELSE Died
    BY DEF Forced, ForcedNode
  <1> HIDE DEF unknown, node, X
  <1>8. CASE unknown # <<>>
    BY <1>4, <1>7, <1>8 DEF Fits, Found, last, X
  <1>9. CASE unknown = <<>> /\ l.feature[p] # NoFeature
    <2>1. <<node>> \in Seq(X)
      BY <1>6, <1>9
    <2> QED
      BY <1>2, <1>7, <1>9, <2>1 DEF Fits, Found, last, X
  <1>10. CASE unknown = <<>> /\ l.feature[p] = NoFeature
    <2>1. Forced(l, at, last) = [nodes |-> <<>>, died |-> TRUE]
      BY <1>2, <1>7, <1>10 DEF Died
    <2> QED
      BY <1>5, <1>10, <1>a, <2>1 DEF Fits, last, X
  <1> QED
    BY <1>8, <1>9, <1>10

(* What lookup offers under constraints suits them; where it throws, only  *)
(* spaces are left of the fragment.                                        *)
LEMMA LookupSuits ==
  ASSUME NEW l, NEW at, NEW p, IsFragment(l, at, p)
  PROVE  Fits(l, at, p, LookupAt(l, at))
  <1> DEFINE X == Suits(l, at, p)
             words == DictionaryNodes(l, at)
             beyond == IF at.begin3 > at.end
                       THEN AddUnknown(l, at, at.begin3, at.cinfo, words) ELSE words
             run == SeekToOtherType(l.sentence, at.begin3, at.end, at.cinfo)
             group == IF at.cinfo.group THEN run.p ELSE -1
             grouped == IF at.cinfo.group /\ run.clen <= MaxGroupingSize
                        THEN AddUnknown(l, at, run.p, at.cinfo, beyond) ELSE beyond
             w == UnknownByLength(l, at, group, grouped)
             last == Fallback(l, at, w.begin3, w.result)
  <1>0. /\ IsPlace(l, at, p)
        /\ at.begin2 < at.end => at.begin3 <= at.end
        /\ l.constrained => l.boundary[at.end] = TokenBoundary
        /\ at.end <= Len(l.sentence)
    BY DEF IsFragment
  <1>1. /\ p \in Nat /\ at.begin3 \in Reach(l, at) /\ at.cinfo \in Classes
        /\ l.sentence \in Seq(Bytes) /\ at.end \in Nat /\ at.end > p /\ at.begin2 \in Nat
    BY <1>0 DEF IsPlace
  <1>2. words \in Seq(X)
    <2> DEFINE Y == {v \in Suits(l, at, p) : EndOf(v) <= Len(l.sentence)}
    <2>1. words \in Seq(Y) /\ Y \subseteq X
      BY DictionaryWithin
    <2> HIDE DEF words, X, Y
    <2> QED
      BY <2>1
  <1> HIDE DEF words
  <1>3. beyond \in Seq(X)
    BY <1>0, <1>1, <1>2, UnknownSuits
  <1> HIDE DEF beyond
  <1>4. run.p \in Reach(l, at) /\ run.p \in Nat /\ (at.begin2 < at.end => run.p <= at.end)
    <2>1. run.p \in Reach(l, at) /\ (at.begin3 <= at.end => run.p <= at.end)
      BY <1>0, RunFacts
    <2>2. run.p \in Nat
      BY <1>0, <2>1, ReachFacts
    <2> HIDE DEF run
    <2> QED
      BY <1>0, <2>1, <2>2
  <1> HIDE DEF run
  <1>5. group \in Int
    BY <1>4
  <1>6. grouped \in Seq(X)
    BY <1>0, <1>1, <1>3, <1>4, UnknownSuits
  <1> HIDE DEF group, grouped
  <1>7. Suiting(l, at, p, w) /\ w \in Growing(l, at, p)
    <2>1. X \subseteq Candidates(l, p)
      BY DEF Suits
    <2>2. grouped \in Seq(Candidates(l, p))
      <3> HIDE DEF X
      <3> QED
        BY <1>6, <2>1
    <2> QED
      BY <1>0, <1>5, <1>6, <2>2, LengthSuits, ByLengthFacts
  <1>a. <<>> \in Seq(X)
    OBVIOUS
  <1> HIDE DEF w
  <1>8. last \in Seq(X)
    <2>1. w.begin3 \in Reach(l, at) /\ w.result \in Seq(X)
      BY <1>7 DEF Growing, Suiting
    <2>2. CASE w.result # <<>>
      BY <2>1, <2>2 DEF Fallback
    <2>3. CASE w.result = <<>>
      <3>1. last = AddUnknown(l, at, w.begin3, at.cinfo, <<>>)
        BY <2>3 DEF Fallback
      <3>2. CASE at.begin2 < at.end => w.begin3 <= at.end
        <4>1. <<>> \in Seq(Suits(l, at, p))
          BY <1>a
        <4>2. AddUnknown(l, at, w.begin3, at.cinfo, <<>>) \in Seq(Suits(l, at, p))
          BY <1>0, <1>1, <2>1, <3>2, <4>1, UnknownSuits
        <4> QED
          BY <3>1, <4>2
      <3>3. CASE ~(at.begin2 < at.end => w.begin3 <= at.end)
        <4>1. AddUnknown(l, at, at.end, at.cinfo, <<>>) = <<>>
          BY <1>7, <2>3, <3>3 DEF Suiting
        <4>2. at.end \in Reach(l, at)
          BY <1>0, <3>3, EndInReach
        <4>3. last = <<>>
          BY <1>0, <1>1, <2>1, <3>1, <4>1, <4>2, UnknownNone
        <4> QED
          BY <1>a, <4>3
      <3> QED
        BY <3>2, <3>3
    <2> QED
      BY <2>2, <2>3
  <1> HIDE DEF last
  <1>9. \A found \in Seq(X) : Fits(l, at, p, Found(found))
    BY DEF Found, Fits
  <1>10. Fits(l, at, p, LastResort(l, at, last))
    <2>1. CASE last # <<>> \/ ~l.constrained
      BY <1>8, <1>9, <2>1 DEF LastResort
    <2>2. CASE ~(last # <<>> \/ ~l.constrained)
      BY <2>2, ForcedSuits DEF LastResort
    <2> QED
      BY <2>1, <2>2
  <1>11. Fits(l, at, p, Beyond(l, at, beyond))
    <2>1. Grouped(l, at, beyond, run) = LastResort(l, at, last)
      BY DEF Grouped, ByLength, last, w, grouped, group
    <2>2. \/ Beyond(l, at, beyond) = Found(beyond)
          \/ Beyond(l, at, beyond) = LastResort(l, at, last)
      BY <2>1 DEF Beyond, run
    <2> QED
      BY <1>3, <1>9, <1>10, <2>2
  <1>12. \/ LookupAt(l, at) = Found(words)
         \/ LookupAt(l, at) = Beyond(l, at, beyond)
    <2>1. ~WordTooLong(l, at)
      BY <1>0, DictionaryFacts
    <2> QED
      BY <2>1 DEF LookupAt, Words, words, beyond
  <1> QED
    BY <1>2, <1>9, <1>11, <1>12

(* Calls about positions of the text leave the spare entries alone.        *)
LEMMA CallWithin ==
  ASSUME NEW s \in Seq(Bytes), NEW B, NEW F, NEW l \in Over(s, B, F), NEW c,
         c.at \in 0 .. Len(s), c.op # "boundary" => c.to \in Nat,
         NEW q \in Len(s) + 1 .. Len(s) + 3
  PROVE  ApplyCall(l, c).boundary[q] = l.boundary[q]
  <1>1. /\ l.sentence = s /\ DOMAIN l.boundary = Offsets(s) /\ Len(s) \in Nat
        /\ q # c.at /\ q > Len(s) /\ q \in Offsets(s)
    BY DEF Over, Offsets
  <1>2. CASE c.op = "boundary"
    <2>1. ApplyCall(l, c) = [l EXCEPT !.constrained = TRUE, !.boundary[c.at] = c.type]
      BY <1>2 DEF ApplyCall, SetBoundaryConstraint
    <2> QED
      BY <1>1, <2>1 DEF Over
  <1>3. CASE c.op # "boundary"
    <2> DEFINE b == c.at
               e == c.to
               f == c.feature
               last == IF e < Len(l.sentence) THEN e ELSE Len(l.sentence)
               new == [p \in DOMAIN l.boundary |-> IF p \in {b, last} THEN TokenBoundary
                                                   ELSE IF b < p /\ p < last THEN InsideToken
                                                   ELSE l.boundary[p]]
    <2>1. ApplyCall(l, c) = SetFeatureConstraint(l, b, e, f)
      BY <1>3 DEF ApplyCall
    <2>2. CASE b >= e \/ f = NoFeature
      BY <2>1, <2>2 DEF SetFeatureConstraint
    <2>3. CASE ~(b >= e \/ f = NoFeature)
      <3>1. SetFeatureConstraint(l, b, e, f) =
              [l EXCEPT !.constrained = TRUE, !.boundary = new, !.feature[b] = f]
        BY <2>3, Zenon DEF SetFeatureConstraint
      <3>2. last \in 0 .. Len(s)
        BY <1>1, <1>3
      <3> HIDE DEF last
      <3>3. new[q] = l.boundary[q]
        BY <1>1, <3>2
      <3> HIDE DEF new
      <3> QED
        BY <2>1, <3>1, <3>3 DEF Over
    <2> QED
      BY <2>2, <2>3
  <1> QED
    BY <1>2, <1>3

LEMMA UserBounded ==
  ASSUME NEW s \in Seq(Bytes), NEW calls, calls \in Seq(ToSet(calls)),
         \A c \in ToSet(calls) : c.at \in 0 .. Len(s) /\ (c.op # "boundary" => c.to \in Nat)
  PROVE  Bounded(UserLattice(s, calls)) /\ UserLattice(s, calls).sentence = s
  <1> DEFINE n == Len(calls)
             spare == Len(s) + 1 .. Len(s) + 3
             S == {l \in UserOver(s, calls) : \A q \in spare : l.boundary[q] = AnyBoundary}
  <1>1. PICK f : IsCalled(f, s, calls)
    BY CallWalk
  <1>2. /\ n \in Nat /\ n \in 0 .. n /\ 0 \in 0 .. n /\ Len(s) \in Nat
        /\ \A k \in 1 .. n : calls[k] \in ToSet(calls)
        /\ 0 \notin spare /\ Len(s) \notin spare /\ Len(s) \in Offsets(s) /\ spare \subseteq Offsets(s)
    BY DEF ToSet, Offsets
  <1>3. /\ f[0] = BareLattice(s)
        /\ \A k \in 1 .. n : f[k] = ApplyCall(f[k - 1], calls[k])
        /\ \A k \in 0 .. n : f[k] \in UserOver(s, calls)
        /\ UserLattice(s, calls) = IF f[n].constrained THEN EndsBound(f[n], s) ELSE f[n]
    BY <1>1 DEF IsCalled
  <1> HIDE DEF n, spare
  <1>4. f[0] \in S
    <2>1. \A q \in spare : f[0].boundary[q] = AnyBoundary
      BY <1>2, <1>3 DEF BareLattice
    <2> QED
      BY <1>2, <1>3, <2>1
  <1>5. ASSUME NEW k \in 1 .. n, f[k - 1] \in S PROVE f[k] \in S
    <2>1. k \in 0 .. n
      BY <1>2
    <2>2. /\ calls[k].at \in 0 .. Len(s)
          /\ calls[k].op # "boundary" => calls[k].to \in Nat
      BY <1>2
    <2>3. ASSUME NEW q \in spare PROVE f[k].boundary[q] = AnyBoundary
      <3>1. f[k].boundary[q] = f[k - 1].boundary[q]
        BY <1>3, <1>5, <2>2, CallWithin DEF UserOver, spare
      <3> QED
        BY <1>5, <3>1
    <2> QED
      BY <1>3, <2>1, <2>3
  <1>6. \A k \in 0 .. n : f[k] \in S
    <2> HIDE DEF S
    <2> QED
      BY <1>2, <1>4, <1>5, StaysIn
  <1>7. f[n] \in S
    BY <1>2, <1>6
  <1>8. f[n].sentence = s /\ DOMAIN f[n].boundary = Offsets(s)
    BY <1>7 DEF UserOver, Over
  <1>9. CASE f[n].constrained
    <2> DEFINE l == EndsBound(f[n], s)
    <2>1. l.sentence = s
      BY <1>7, <1>8 DEF EndsBound, SetBoundaryConstraint, UserOver, Over
    <2>2. l.boundary = [[f[n].boundary EXCEPT ![0] = TokenBoundary] EXCEPT ![Len(s)] = TokenBoundary]
      BY <1>7 DEF EndsBound, SetBoundaryConstraint, UserOver, Over
    <2>3. l.boundary[Len(s)] = TokenBoundary
      BY <1>2, <1>8, <2>2
    <2>4. ASSUME NEW q \in spare PROVE l.boundary[q] = AnyBoundary
      BY <1>2, <1>7, <1>8, <2>2, <2>4
    <2> QED
      BY <1>3, <1>9, <2>1, <2>3, <2>4 DEF Bounded, spare
  <1>10. CASE ~f[n].constrained
    BY <1>3, <1>8, <1>10 DEF Bounded
  <1> QED
    BY <1>9, <1>10

LEMMA BoundarySet ==
  ASSUME NEW s, NEW B, NEW F, NEW l \in Over(s, B, F), NEW p, NEW t \in B
  PROVE  LET m == SetBoundaryConstraint(l, p, t)
         IN  /\ m \in Over(s, B, F) /\ m.constrained /\ m.feature = l.feature
             /\ \A q \in Offsets(s) : m.boundary[q] = IF q = p THEN t ELSE l.boundary[q]
  BY BoundaryKeeps DEF Over, SetBoundaryConstraint

LEMMA FeatureSet ==
  ASSUME NEW s, NEW B, NEW F, NEW l \in Over(s, B, F), NEW b, NEW e, NEW f,
         ~(b >= e \/ f = NoFeature), (IF e < Len(s) THEN e ELSE Len(s)) = e
  PROVE  LET m == SetFeatureConstraint(l, b, e, f)
         IN  /\ m.constrained
             /\ \A q \in Offsets(s) :
                  /\ m.boundary[q] = IF q \in {b, e} THEN TokenBoundary
                                     ELSE IF b < q /\ q < e THEN InsideToken
                                     ELSE l.boundary[q]
                  /\ m.feature[q] = IF q = b THEN f ELSE l.feature[q]
  <1> DEFINE last == IF e < Len(l.sentence) THEN e ELSE Len(l.sentence)
             new == [p \in DOMAIN l.boundary |-> IF p \in {b, last} THEN TokenBoundary
                                                 ELSE IF b < p /\ p < last THEN InsideToken
                                                 ELSE l.boundary[p]]
  <1>1. SetFeatureConstraint(l, b, e, f) =
          [l EXCEPT !.constrained = TRUE, !.boundary = new, !.feature[b] = f]
    BY Zenon DEF SetFeatureConstraint
  <1>2. l.sentence = s /\ DOMAIN l.boundary = Offsets(s) /\ DOMAIN l.feature = Offsets(s)
    BY DEF Over
  <1>3. last = e
    BY <1>2
  <1> HIDE DEF last
  <1>4. \A q \in Offsets(s) : new[q] = IF q \in {b, e} THEN TokenBoundary
                                       ELSE IF b < q /\ q < e THEN InsideToken
                                       ELSE l.boundary[q]
    BY <1>2, <1>3
  <1> HIDE DEF new
  <1>5. SetFeatureConstraint(l, b, e, f) =
          [sentence |-> s, constrained |-> TRUE, boundary |-> new,
           feature |-> [l.feature EXCEPT ![b] = f]]
    BY <1>1, <1>2 DEF Over
  <1> QED
    BY <1>2, <1>4, <1>5

(* What a fragment adds: strong boundaries at both ends, and if it demands *)
(* a feature, the feature and the positions inside.                        *)
Adds(s, x, fr, r) ==
  /\ r.at = x.at + Len(fr.surface) /\ r.l.constrained
  /\ \A q \in Offsets(s) :
       /\ r.l.boundary[q] =
            IF q \in {x.at, r.at} THEN TokenBoundary
            ELSE IF fr.feature # NoFeature /\ x.at < q /\ q < r.at THEN InsideToken
            ELSE x.l.boundary[q]
       /\ r.l.feature[q] =
            IF q = x.at /\ x.at < r.at /\ fr.feature # NoFeature THEN fr.feature
            ELSE x.l.feature[q]

(* AddFragment does no more than that.                                     *)
LEMMA FragmentAdds ==
  ASSUME NEW s \in Seq(Bytes), NEW B, NEW F, NEW x, x.l \in Over(s, B, F), x.at \in Nat,
         TokenBoundary \in B, NEW fr, fr.surface \in Seq(Bytes), x.at + Len(fr.surface) <= Len(s)
  PROVE  Adds(s, x, fr, AddFragment(x, fr))
  <1> DEFINE r == AddFragment(x, fr)
             e == x.at + Len(fr.surface)
             b == x.at
             f == fr.feature
             once == SetBoundaryConstraint(x.l, b, TokenBoundary)
             twice == SetBoundaryConstraint(once, e, TokenBoundary)
  <1>1. Len(s) \in Nat /\ e \in Nat /\ e <= Len(s) /\ b \in Nat /\ b <= e /\ b \in Offsets(s) /\ e \in Offsets(s)
    BY DEF Offsets
  <1>a. e = x.at + Len(fr.surface)
    OBVIOUS
  <1>2. r = [at |-> e, l |-> SetFeatureConstraint(twice, b, e, f)]
    BY DEF AddFragment
  <1> HIDE DEF r, e
  <1>3. x.l.boundary \in [Offsets(s) -> B] /\ x.l.feature \in [Offsets(s) -> F]
    BY DEF Over
  <1>4. /\ once \in Over(s, B, F) /\ once.feature = x.l.feature
        /\ \A q \in Offsets(s) : once.boundary[q] = IF q = b THEN TokenBoundary ELSE x.l.boundary[q]
    BY BoundarySet
  <1> HIDE DEF once
  <1>5. /\ twice \in Over(s, B, F) /\ twice.constrained /\ twice.feature = x.l.feature
        /\ \A q \in Offsets(s) : twice.boundary[q] = IF q = e THEN TokenBoundary ELSE once.boundary[q]
    BY <1>4, BoundarySet
  <1> HIDE DEF twice
  <1>6. DOMAIN twice.boundary = Offsets(s) /\ DOMAIN x.l.feature = Offsets(s) /\ twice.sentence = s
    BY <1>3, <1>5 DEF Over
  <1>7. \A q \in Offsets(s) : twice.boundary[q] = IF q \in {b, e} THEN TokenBoundary ELSE x.l.boundary[q]
    BY <1>4, <1>5
  <1>8. CASE b >= e \/ f = NoFeature
    <2>1. r.at = e /\ r.l = twice
      BY <1>2, <1>8 DEF SetFeatureConstraint
    <2>2. \A q \in Offsets(s) : f # NoFeature => ~(b < q /\ q < e)
      BY <1>1, <1>8 DEF Offsets
    <2>3. ~(b < e /\ f # NoFeature)
      BY <1>1, <1>8
    <2> QED
      BY <1>a, <1>5, <1>7, <2>1, <2>2, <2>3 DEF Adds, r
  <1>9. CASE ~(b >= e \/ f = NoFeature)
    <2>1. (IF e < Len(s) THEN e ELSE Len(s)) = e
      BY <1>1
    <2>2. /\ r.at = e /\ r.l.constrained
          /\ \A q \in Offsets(s) :
               /\ r.l.boundary[q] = IF q \in {b, e} THEN TokenBoundary
                                    ELSE IF b < q /\ q < e THEN InsideToken
                                    ELSE twice.boundary[q]
               /\ r.l.feature[q] = IF q = b THEN f ELSE twice.feature[q]
      BY <1>2, <1>5, <1>9, <2>1, FeatureSet
    <2>3. b < e /\ f # NoFeature
      BY <1>1, <1>9
    <2>4. \A q \in Offsets(s) :
            /\ r.l.boundary[q] = IF q \in {b, r.at} THEN TokenBoundary
                                 ELSE IF b < q /\ q < r.at THEN InsideToken
                                 ELSE x.l.boundary[q]
            /\ r.l.feature[q] = IF q = b THEN f ELSE x.l.feature[q]
      BY <1>5, <1>7, <2>2
    <2>5. r.at = x.at + Len(fr.surface) /\ r.l.constrained /\ x.at < r.at
      BY <1>a, <2>2, <2>3
    <2> QED
      BY <2>3, <2>4, <2>5 DEF Adds, r
  <1> QED
    BY <1>8, <1>9

(* The lattice after the fragments up to the position at: the features     *)
(* stand before fragments of their own, and only there is a position       *)
(* behind a strong boundary inside a token.                                *)
Fragmented(l, at) ==
  /\ \A q \in at + 1 .. Len(l.sentence) + 3 : l.boundary[q] = AnyBoundary
  /\ l.constrained => l.boundary[at] = TokenBoundary
  /\ \A q \in 0 .. Len(l.sentence) :
       l.feature[q] # NoFeature =>
         /\ l.boundary[q] = TokenBoundary
         /\ \E e \in q + 1 .. at : /\ l.boundary[e] = TokenBoundary
                                   /\ \A r \in q + 1 .. e - 1 : l.boundary[r] = InsideToken
  /\ \A q \in 0 .. at - 1 :
       l.boundary[q] = TokenBoundary /\ l.boundary[q + 1] = InsideToken => l.feature[q] # NoFeature

(* So the constraints of the fragments before stay as they were.           *)
LEMMA FragmentStays ==
  ASSUME NEW s \in Seq(Bytes), NEW B, NEW F, NEW x, x.l \in Over(s, B, F), x.at \in Nat,
         TokenBoundary \in B, NEW fr, fr.surface \in Seq(Bytes), x.at + Len(fr.surface) <= Len(s),
         Fragmented(x.l, x.at), NEW r, r = AddFragment(x, fr), r.l.sentence = s
  PROVE  Fragmented(r.l, r.at)
  <1> DEFINE b == x.at
             e == x.at + Len(fr.surface)
             N == Len(s)
  <1>0. x.l.sentence = s
    BY DEF Over
  <1>1. b \in Nat /\ e \in Nat /\ b <= e /\ e <= N /\ N \in Nat
    OBVIOUS
  <1>2. /\ r.at = e /\ r.l.constrained
        /\ \A q \in Offsets(s) :
              /\ r.l.boundary[q] = IF q \in {b, e} THEN TokenBoundary
                                   ELSE IF fr.feature # NoFeature /\ b < q /\ q < e THEN InsideToken
                                   ELSE x.l.boundary[q]
              /\ r.l.feature[q] = IF q = b /\ b < e /\ fr.feature # NoFeature THEN fr.feature
                                  ELSE x.l.feature[q]
    <2>1. Adds(s, x, fr, AddFragment(x, fr))
      BY FragmentAdds
    <2> QED
      BY <2>1 DEF Adds
  <1>3. /\ \A q \in b + 1 .. N + 3 : x.l.boundary[q] = AnyBoundary
        /\ \A q \in 0 .. N :
             x.l.feature[q] # NoFeature =>
               /\ x.l.boundary[q] = TokenBoundary
               /\ \E d \in q + 1 .. b : /\ x.l.boundary[d] = TokenBoundary
                                        /\ \A i \in q + 1 .. d - 1 : x.l.boundary[i] = InsideToken
        /\ \A q \in 0 .. b - 1 :
             x.l.boundary[q] = TokenBoundary /\ x.l.boundary[q + 1] = InsideToken => x.l.feature[q] # NoFeature
    BY <1>0 DEF Fragmented
  <1> HIDE DEF b, e, N
  <1>4. ASSUME NEW q \in e + 1 .. N + 3 PROVE r.l.boundary[q] = AnyBoundary
    <2>1. q \in Offsets(s) /\ q \in b + 1 .. N + 3 /\ q \notin {b, e} /\ ~(q < e)
      BY <1>1 DEF Offsets, N
    <2> QED
      BY <1>2, <1>3, <2>1
  <1>5. r.l.boundary[e] = TokenBoundary /\ r.l.boundary[b] = TokenBoundary
    <2>1. e \in Offsets(s) /\ b \in Offsets(s)
      BY <1>1 DEF Offsets, N
    <2> QED
      BY <1>2, <2>1
  <1>6. ASSUME NEW q \in 0 .. N, r.l.feature[q] # NoFeature
        PROVE  /\ r.l.boundary[q] = TokenBoundary
               /\ \E d \in q + 1 .. e : /\ r.l.boundary[d] = TokenBoundary
                                        /\ \A i \in q + 1 .. d - 1 : r.l.boundary[i] = InsideToken
    <2>0. q \in Offsets(s) /\ \A i \in 0 .. N : i \in Offsets(s)
      BY <1>1 DEF Offsets, N
    <2>1. CASE q = b /\ b < e /\ fr.feature # NoFeature
      <3>1. \A i \in q + 1 .. e - 1 : i \in 0 .. N /\ i \notin {b, e} /\ b < i /\ i < e
        BY <1>1, <2>1
      <3>2. \A i \in q + 1 .. e - 1 : r.l.boundary[i] = InsideToken
        BY <1>2, <2>0, <2>1, <3>1
      <3>3. e \in q + 1 .. e
        BY <1>1, <2>1
      <3> QED
        BY <1>5, <2>1, <3>2, <3>3
    <2>2. CASE ~(q = b /\ b < e /\ fr.feature # NoFeature)
      <3>1. x.l.feature[q] # NoFeature
        BY <1>2, <1>6, <2>0, <2>2
      <3>2. x.l.boundary[q] = TokenBoundary
        BY <1>3, <3>1
      <3>3. PICK d \in q + 1 .. b : /\ x.l.boundary[d] = TokenBoundary
                                    /\ \A i \in q + 1 .. d - 1 : x.l.boundary[i] = InsideToken
        BY <1>3, <3>1
      <3>4. q < b /\ q < e /\ d \in q + 1 .. e /\ d \in 0 .. N /\ d <= b
        BY <1>1, <3>3
      <3>5. r.l.boundary[q] = TokenBoundary
        BY <1>1, <1>2, <2>0, <3>2, <3>4
      <3>6. r.l.boundary[d] = TokenBoundary
        BY <1>1, <1>2, <2>0, <3>3, <3>4
      <3>7. ASSUME NEW i \in q + 1 .. d - 1 PROVE r.l.boundary[i] = InsideToken
        <4>1. i \in 0 .. N /\ i < b /\ i < e
          BY <1>1, <3>4
        <4>2. x.l.boundary[i] = InsideToken
          BY <3>3
        <4>3. i \notin {b, e} /\ ~(b < i)
          BY <1>1, <4>1
        <4> QED
          BY <1>2, <2>0, <4>1, <4>2, <4>3
      <3> QED
        BY <3>4, <3>5, <3>6, <3>7
    <2> QED
      BY <2>1, <2>2
  <1>7. ASSUME NEW q \in 0 .. e - 1, r.l.boundary[q] = TokenBoundary, r.l.boundary[q + 1] = InsideToken
        PROVE  r.l.feature[q] # NoFeature
    <2>0. /\ q \in Offsets(s) /\ q + 1 \in Offsets(s) /\ q < e /\ q \in Nat /\ q + 1 <= e
          /\ TokenBoundary # InsideToken /\ AnyBoundary # InsideToken
          /\ TokenBoundary # AnyBoundary
      BY <1>1 DEF Offsets, N, TokenBoundary, InsideToken, AnyBoundary
    <2>1. CASE q < b
      <3>1. q + 1 # b /\ q + 1 # e /\ q + 1 < b
        BY <1>1, <1>5, <1>7, <2>0, <2>1
      <3>2. x.l.boundary[q + 1] = InsideToken /\ x.l.boundary[q] = TokenBoundary
        BY <1>1, <1>2, <1>7, <2>0, <2>1, <3>1
      <3>3. q \in 0 .. b - 1 /\ q # b
        BY <1>1, <2>1
      <3> QED
        BY <1>2, <1>3, <2>0, <3>2, <3>3
    <2>2. CASE q = b
      <3>1. b < e /\ b + 1 \in b + 1 .. N + 3 /\ b + 1 # b
        BY <1>1, <2>0, <2>2
      <3>2. x.l.boundary[b + 1] = AnyBoundary
        BY <1>3, <3>1
      <3>3. fr.feature # NoFeature
        BY <1>2, <1>7, <2>0, <2>2, <3>1, <3>2
      <3> QED
        BY <1>2, <2>0, <2>2, <3>1, <3>3
    <2>3. CASE q > b
      <3>1. q \in b + 1 .. N + 3 /\ q \notin {b, e}
        BY <1>1, <2>0, <2>3
      <3>2. x.l.boundary[q] = AnyBoundary
        BY <1>3, <3>1
      <3> QED
        BY <1>2, <1>7, <2>0, <3>1, <3>2
    <2> QED
      BY <1>1, <2>0, <2>1, <2>2, <2>3
  <1>8. r.l.sentence = s /\ N = Len(s)
    BY DEF N
  <1> QED
    BY <1>2, <1>4, <1>5, <1>6, <1>7, <1>8 DEF Fragmented

(* Where the parts end in what is put together.                            *)
LEMMA PartEnds ==
  ASSUME NEW X, NEW ss, ss \in Seq(Seq(X))
  PROVE  \E len \in [0 .. Len(ss) -> Nat] :
           /\ len[0] = 0 /\ len[Len(ss)] = Len(FlattenSeq(ss))
           /\ \A k \in 1 .. Len(ss) : len[k] = len[k - 1] + Len(ss[k])
           /\ \A k \in 0 .. Len(ss) : len[k] <= Len(FlattenSeq(ss))
  <1>0. Len(ss) \in Nat /\ \A k \in 1 .. Len(ss) : ss[k] \in Seq(X)
    OBVIOUS
  <1>1. CASE Len(ss) = 0
    <2>1. ss = <<>>
      BY <1>1
    <2>2. Len(FlattenSeq(ss)) = 0
      BY <1>1, <2>1 DEF FlattenSeq
    <2> DEFINE len == [k \in 0 .. Len(ss) |-> 0]
    <2>3. len \in [0 .. Len(ss) -> Nat] /\ \A k \in 0 .. Len(ss) : len[k] = 0
      OBVIOUS
    <2> HIDE DEF len
    <2>4. 1 .. Len(ss) = {} /\ 0 \in 0 .. Len(ss) /\ Len(ss) \in 0 .. Len(ss)
      BY <1>1
    <2> QED
      BY <2>2, <2>3, <2>4
  <1>2. CASE Len(ss) # 0
    <2> DEFINE n == Len(ss)
    <2>1. PICK h : AreHeads(ss, h)
      BY <1>2, FlattenedHeads
    <2>2. FlattenSeq(ss) = h[n] /\ h[1] = ss[1] /\ \A k \in 1 .. n - 1 : h[k + 1] = h[k] \o ss[k + 1]
      BY <2>1 DEF AreHeads
    <2>3. n \in Nat \ {0} /\ \A k \in 1 .. n : ss[k] \in Seq(X)
      BY <1>0, <1>2
    <2> HIDE DEF n
    <2> DEFINE m == n - 1
               len == [k \in 0 .. n |-> IF k = 0 THEN 0 ELSE Len(h[k])]
               P == {j \in 0 .. m : h[j + 1] \in Seq(X)}
               Q == {k \in 0 .. n : len[k] \in Nat /\ \A j \in 0 .. k : len[j] <= len[k]}
    <2>4. 0 \in P /\ \A j \in 1 .. m : j - 1 \in P => j \in P
      <3>1. 0 \in P
        BY <2>2, <2>3
      <3>2. ASSUME NEW j \in 1 .. m, j - 1 \in P PROVE j \in P
        <4>1. j \in 1 .. n - 1 /\ j + 1 \in 1 .. n /\ (j - 1) + 1 = j /\ j \in 0 .. m
          BY <2>3
        <4>2. h[j] \in Seq(X) /\ ss[j + 1] \in Seq(X)
          BY <2>3, <3>2, <4>1
        <4>3. h[j] \o ss[j + 1] \in Seq(X)
          BY <4>2
        <4> QED
          BY <2>2, <4>1, <4>3
      <3> QED
        BY <3>1, <3>2
    <2>5. 0 .. m \subseteq P
      <3>1. m \in Nat
        BY <2>3
      <3> HIDE DEF P, m
      <3> QED
        BY <2>4, <3>1, UpTo
    <2>6. \A k \in 1 .. n : h[k] \in Seq(X)
      <3>1. ASSUME NEW k \in 1 .. n PROVE h[k] \in Seq(X)
        <4>1. k - 1 \in 0 .. m /\ (k - 1) + 1 = k
          BY <2>3
        <4> QED
          BY <2>5, <4>1
      <3> QED
        BY <3>1
    <2>7. len[0] = 0 /\ \A k \in 1 .. n : len[k] = Len(h[k])
      BY <2>3
    <2>8. len \in [0 .. n -> Nat]
      BY <2>6
    <2> HIDE DEF len
    <2>9. ASSUME NEW k \in 1 .. n PROVE len[k] = len[k - 1] + Len(ss[k])
      <3>1. CASE k = 1
        <4>1. 1 \in 1 .. n /\ Len(ss[1]) \in Nat
          BY <2>3
        <4> QED
          BY <2>2, <2>7, <3>1, <4>1
      <3>2. CASE k # 1
        <4>1. k - 1 \in 1 .. n - 1 /\ k - 1 \in 1 .. n /\ (k - 1) + 1 = k
          BY <2>3, <3>2
        <4>2. h[k] = h[k - 1] \o ss[k]
          BY <2>2, <4>1
        <4>3. h[k - 1] \in Seq(X) /\ ss[k] \in Seq(X)
          BY <2>3, <2>6, <4>1
        <4>4. Len(h[k]) = Len(h[k - 1]) + Len(ss[k])
          BY <4>2, <4>3
        <4> QED
          BY <2>7, <4>1, <4>4
      <3> QED
        BY <3>1, <3>2
    <2>10. 0 \in Q
      BY <2>3, <2>7
    <2>11. ASSUME NEW k \in 1 .. n, k - 1 \in Q PROVE k \in Q
      <3>1. k \in 0 .. n /\ len[k] \in Nat /\ len[k - 1] \in Nat /\ Len(ss[k]) \in Nat
        BY <2>3, <2>8
      <3>2. \A j \in 0 .. k : j \in 0 .. k - 1 \/ j = k
        BY <3>1
      <3>3. \A j \in 0 .. k - 1 : len[j] <= len[k - 1] /\ j \in 0 .. n
        <4>1. \A j \in 0 .. k - 1 : len[j] <= len[k - 1]
          BY <2>11
        <4>2. \A j \in 0 .. k - 1 : j \in 0 .. n
          BY <2>3, <3>1
        <4> QED
          BY <4>1, <4>2
      <3>4. \A j \in 0 .. n : len[j] \in Nat
        BY <2>8
      <3>5. len[k] >= len[k - 1]
        BY <2>9, <3>1
      <3> QED
        BY <3>1, <3>2, <3>3, <3>4, <3>5
    <2>12. 0 .. n \subseteq Q
      <3> HIDE DEF Q
      <3> QED
        BY <2>3, <2>10, <2>11, UpTo
    <2>13. n \in Q /\ n \in 1 .. n
      BY <2>3, <2>12
    <2>14. len[n] = Len(FlattenSeq(ss)) /\ \A k \in 0 .. n : len[k] <= len[n]
      BY <2>2, <2>7, <2>13
    <2> QED
      BY <2>7, <2>8, <2>9, <2>14 DEF n
  <1> QED
    BY <1>1, <1>2

LEMMA PartialFragmented ==
  ASSUME NEW fragments, fragments \in Seq(ToSet(fragments)),
         \A f \in ToSet(fragments) : f.surface \in Seq(Bytes)
  PROVE  LET l == PartialLattice(fragments)
         IN  Bounded(l) /\ Fragmented(l, Len(l.sentence))
  <1> DEFINE n == Len(fragments)
             s == TextOf(fragments)
             ss == [i \in DOMAIN fragments |-> fragments[i].surface]
             B == {AnyBoundary, TokenBoundary, InsideToken}
             F == {NoFeature} \cup {fragments[i].feature : i \in DOMAIN fragments}
  <1>1. s \in Seq(Bytes)
    BY FragmentWalk
  <1>2. PICK f : IsLaidOut(f, fragments)
    BY FragmentWalk
  <1>3. /\ n \in Nat /\ n \in 0 .. n /\ 0 \in 0 .. n /\ DOMAIN fragments = 1 .. n
        /\ \A k \in 1 .. n : fragments[k].surface \in Seq(Bytes)
    BY DEF ToSet
  <1>4. /\ f[0] = [at |-> 0, l |-> BareLattice(s)]
        /\ \A k \in 1 .. n : f[k] = AddFragment(f[k - 1], fragments[k])
        /\ \A k \in 0 .. n : f[k].at \in Nat /\ f[k].l \in Over(s, B, F)
        /\ PartialLattice(fragments) = f[n].l
    BY <1>2 DEF IsLaidOut, PartialOver
  <1>5. /\ ss \in Seq(Seq(Bytes)) /\ Len(ss) = n /\ s = FlattenSeq(ss)
        /\ \A k \in 1 .. n : ss[k] = fragments[k].surface
    <2>1. ss \in [1 .. n -> Seq(Bytes)]
      BY <1>3
    <2>2. \A k \in 1 .. n : ss[k] = fragments[k].surface
      BY <1>3
    <2>3. s = FlattenSeq(ss)
      BY DEF TextOf
    <2> HIDE DEF ss, n, s
    <2> QED
      BY <1>3, <2>1, <2>2, <2>3
  <1> HIDE DEF ss, n, s, B
  <1>6. PICK len \in [0 .. n -> Nat] :
           /\ len[0] = 0 /\ len[n] = Len(s)
           /\ \A k \in 1 .. n : len[k] = len[k - 1] + Len(ss[k])
           /\ \A k \in 0 .. n : len[k] <= Len(s)
    BY <1>5, PartEnds
  <1> DEFINE P == {k \in 0 .. n : f[k].at = len[k] /\ Fragmented(f[k].l, f[k].at)}
  <1>7. 0 \in P
    <2>1. Fragmented(BareLattice(s), 0)
      <3>1. \A q \in 0 + 1 .. Len(s) + 3 : q \in Offsets(s)
        BY <1>1 DEF Offsets
      <3>2. \A q \in 0 .. Len(s) : q \in Offsets(s)
        BY <1>1 DEF Offsets
      <3>3. 0 .. 0 - 1 = {}
        OBVIOUS
      <3>4. /\ BareLattice(s).sentence = s /\ ~BareLattice(s).constrained
            /\ \A q \in Offsets(s) : BareLattice(s).boundary[q] = AnyBoundary /\ BareLattice(s).feature[q] = NoFeature
        BY DEF BareLattice
      <3> QED
        BY <3>1, <3>2, <3>3, <3>4 DEF Fragmented
    <2> QED
      BY <1>3, <1>4, <1>6, <2>1
  <1>8. ASSUME NEW k \in 1 .. n, k - 1 \in P PROVE k \in P
    <2> DEFINE x == f[k - 1]
    <2>1. k \in 0 .. n /\ k - 1 \in 0 .. n
      BY <1>3
    <2>2. /\ x.at \in Nat /\ x.l \in Over(s, B, F) /\ f[k] = AddFragment(x, fragments[k])
          /\ f[k].l.sentence = s
      BY <1>4, <2>1 DEF Over
    <2>3. x.at = len[k - 1] /\ Fragmented(x.l, x.at)
      BY <1>8
    <2>4. x.at + Len(fragments[k].surface) = len[k] /\ len[k] <= Len(s)
      BY <1>5, <1>6, <2>1, <2>3
    <2>5. fragments[k].surface \in Seq(Bytes) /\ TokenBoundary \in B
      BY <1>3 DEF B
    <2> HIDE DEF x, F
    <2>6. Adds(s, x, fragments[k], AddFragment(x, fragments[k]))
      BY <1>1, <2>2, <2>4, <2>5, FragmentAdds
    <2>7. f[k].at = len[k]
      BY <2>2, <2>4, <2>6 DEF Adds
    <2>8. Fragmented(f[k].l, f[k].at)
      BY <1>1, <2>2, <2>3, <2>4, <2>5, FragmentStays
    <2> QED
      BY <2>1, <2>7, <2>8
  <1>9. 0 .. n \subseteq P
    <2> HIDE DEF P
    <2> QED
      BY <1>3, <1>7, <1>8, UpTo
  <1>10. f[n].at = Len(s) /\ Fragmented(f[n].l, Len(s)) /\ f[n].l.sentence = s
    BY <1>3, <1>4, <1>6, <1>9 DEF Over
  <1>11. Bounded(f[n].l)
    BY <1>1, <1>10 DEF Fragmented, Bounded
  <1> QED
    BY <1>4, <1>10, <1>11

(* The lattice of every call is as lookup expects it.                      *)
LEMMA LatticeFacts ==
  ASSUME NEW in \in Inputs
  PROVE  LET l == InitPartial(in)
         IN  Bounded(l) /\ (in.partial => Fragmented(l, Len(l.sentence)))
  <1>1. CASE in.partial
    <2>1. in.fragments \in Seq(ToSet(in.fragments)) /\ \A f \in ToSet(in.fragments) : f.surface \in Seq(Bytes)
      BY <1>1, InputsAssumption
    <2> QED
      BY <1>1, <2>1, PartialFragmented DEF InitPartial
  <1>2. CASE ~in.partial
    <2>1. /\ in.sentence \in Seq(Bytes) /\ in.calls \in Seq(ToSet(in.calls))
          /\ \A c \in ToSet(in.calls) :
               c.at \in 0 .. Len(in.sentence) /\ (c.op # "boundary" => c.to \in Nat)
      BY <1>2, InputsAssumption
    <2> QED
      BY <1>2, <2>1, UserBounded DEF InitPartial
  <1> QED
    BY <1>1, <1>2

(* The scan never touches the constraints.                                 *)
Prepared == phase # "start" => lat = InitPartial(input)

(* The scan analyses the lattice the call prepared.                        *)
LEMMA PreparedInv == Spec => []Prepared
  <1>1. Init => Prepared
    BY DEF Init, Prepared
  <1>2. Prepared /\ [Next]_vars => Prepared'
    BY DEF Prepared, Next, vars, Start, Scan, SkipPosition, ConnectEOS, BuildResult, 
           ScanFound, ScanOutcome, FileEOS
  <1> QED
    BY <1>1, <1>2, PTL DEF Spec

(* What the invariant says of the texts, and what of the spaces.           *)
LEMMA TextFits == ASSUME IInv, phase # "start" PROVE Lookable(lat)
  BY DEF IInv, Built, Shape

LEMMA SpacesFacts ==
  ASSUME Lookable(lat), NEW q \in Nat
  PROVE  SpacesToEnd(q) <=> SeekToOtherType(lat.sentence, q, FragmentEnd(lat, q), CharMap[Space]).p
                              = FragmentEnd(lat, q)
  <1>1. FragmentEnd(lat, q) = NextBoundary(lat, q, Size)
    BY WholeWindow DEF Size
  <1> QED
    BY <1>1 DEF SpacesToEnd

(* An exception is raised where its property says.                         *)
LEMMA OnlyBefore == ASSUME IInv, Prepared PROVE ThrowsOnlyBeforeMorpheme
  <1> SUFFICES ASSUME phase = "died" PROVE ThrowsOnlyBeforeMorpheme
    BY DEF ThrowsOnlyBeforeMorpheme
  <1>1. pos < Size /\ Lookup(lat, pos).died /\ pos \in Nat /\ Size = Len(lat.sentence)
    BY DEF IInv, Built, Shape, DiedAt, Size
  <1>0. Lookable(lat) /\ phase # "start"
    BY TextFits
  <1>2. Bounded(lat) /\ (input.partial => Fragmented(lat, Len(lat.sentence)))
    BY <1>0, LatticeFacts DEF Prepared, IInv
  <1> DEFINE end == FragmentEnd(lat, pos)
  <1>3. /\ end \in Nat /\ end <= Size
        /\ lat.constrained => lat.boundary[end] = TokenBoundary
    BY <1>0, <1>1, <1>2, FragmentFacts
  <1>4. PICK at : /\ IsFragment(lat, at, pos) /\ Lookup(lat, pos) = LookupAt(lat, at)
                  /\ at.end = end
                  /\ at.begin2 = SeekToOtherType(lat.sentence, pos, end, CharMap[Space]).p
    BY <1>0, <1>1, <1>2, PlaceFacts
  <1>5. Fits(lat, at, pos, Lookup(lat, pos))
    BY <1>4, LookupSuits
  <1>6. lat.constrained /\ at.begin2 = end /\ lat.boundary[end + 1] = InsideToken
    BY <1>1, <1>4, <1>5 DEF Fits
  <1>7. SpacesToEnd(pos)
    BY <1>0, <1>1, <1>4, <1>6, SpacesFacts
  <1>8. lat.boundary[end] = TokenBoundary
    BY <1>3, <1>6
  <1> HIDE DEF end
  <1>9. end + 1 < Size
    <2>0. Size \in Nat
      BY <1>1, <1>2 DEF Bounded
    <2>1. CASE end = Size
      <3>1. end + 1 \in Len(lat.sentence) + 1 .. Len(lat.sentence) + 3
        BY <1>1, <2>0, <2>1
      <3>2. lat.boundary[end + 1] = AnyBoundary
        BY <1>2, <1>6, <3>1 DEF Bounded
      <3> QED
        BY <1>6, <3>2 DEF AnyBoundary, InsideToken
    <2>2. CASE end + 1 = Size
      BY <1>1, <1>2, <1>6, <2>2 DEF Bounded, TokenBoundary, InsideToken
    <2> QED
      BY <1>3, <2>0, <2>1, <2>2
  <1>10. input.partial => lat.feature[end] # NoFeature
    <2>1. end \in 0 .. Len(lat.sentence) - 1
      BY <1>1, <1>3, <1>9
    <2> QED
      BY <1>2, <1>6, <1>8, <2>1 DEF Fragmented
  <1>11. NextBoundary(lat, pos, Size) = end
    BY <1>0, <1>1, WholeWindow DEF end
  <1> QED
    BY <1>6, <1>7, <1>8, <1>9, <1>10, <1>11 DEF ThrowsOnlyBeforeMorpheme

(* Constraints alone never make the analysis fail: an exception leaves     *)
(* lookup only where nothing but spaces is left of a fragment and the      *)
(* position behind the next byte is inside a token (tokenizer.cpp:376).    *)
THEOREM ThrowsJustified == NulIsNoSpace /\ ShortTexts => (Spec => []ThrowsOnlyBeforeMorpheme)
  BY Invariance, PreparedInv, OnlyBefore, PTL

(* One step with an end further on, and the same step with the end that    *)
(* the walk stops at.                                                      *)
LEMMA SeekStepAgain ==
  ASSUME NEW s \in Seq(Bytes), NEW begin \in Nat, NEW end \in Nat, NEW r \in Nat, r <= end,
         NEW w \in Seekers(begin, end), w.p <= r,
         NEW v, v = SeekStep(w, CharAt(s, w.p, end), end),
         v.p <= r, ~v.more => v.p = r
  PROVE  LET u == SeekStep(w, CharAt(s, w.p, r), r)
         IN  u = v \/ (u.p = r /\ ~u.more)
  <1> DEFINE x == CharAt(s, w.p, end)
             y == CharAt(s, w.p, r)
             u == SeekStep(w, y, r)
  <1>1. /\ w.p \in Nat /\ w.mblen \in Nat /\ w.more \in BOOLEAN
        /\ w = [p |-> w.p, c |-> w.c, mblen |-> w.mblen, clen |-> w.clen, more |-> w.more]
    BY DEF Seekers
  <1>2. CASE ~w.more \/ w.p = r
    <2>1. u = [p |-> w.p, c |-> w.c, mblen |-> w.mblen, clen |-> w.clen, more |-> FALSE]
      BY <1>1, <1>2 DEF SeekStep
    <2>2. CASE ~w.more
      <3>1. v = [p |-> w.p, c |-> w.c, mblen |-> w.mblen, clen |-> w.clen, more |-> FALSE]
        BY <1>1, <2>2 DEF SeekStep
      <3> QED
        BY <2>1, <3>1
    <2>3. CASE w.p = r
      BY <2>1, <2>3
    <2> QED
      BY <1>2, <2>2, <2>3
  <1>3. CASE w.more /\ w.p # r
    <2>1. w.p < r /\ w.p < end
      BY <1>1, <1>3
    <2>2. IsKindOf(w.c, x.info)
      <3>1. CASE ~IsKindOf(w.c, x.info)
        <4>1. v = [p |-> w.p, c |-> x.info, mblen |-> x.mblen, clen |-> w.clen, more |-> FALSE]
          BY <1>1, <1>3, <2>1, <3>1 DEF SeekStep
        <4> QED
          BY <2>1, <4>1
      <3> QED
        BY <3>1
    <2>3. v = [p |-> w.p + x.mblen, c |-> x.info, mblen |-> x.mblen, clen |-> w.clen + 1, more |-> TRUE]
      BY <1>1, <1>3, <2>1, <2>2 DEF SeekStep
    <2>4. w.p + x.mblen <= r
      BY <2>3
    <2>5. y = x
      <3> DEFINE b == ByteAt(s, w.p)
      <3>1. b \in Bytes
        BY <1>1, TablesAssumption DEF ByteAt
      <3>2. Width[b] \in Nat
        BY <3>1, TablesAssumption
      <3>3. CASE Width[b] = 1 \/ (Width[b] > 1 /\ (w.p > end \/ end - w.p >= Width[b]))
        <4>1. x = [info |-> CharMap[b], mblen |-> Width[b]]
          BY <3>3 DEF CharAt
        <4>2. w.p + Width[b] <= r
          BY <2>4, <4>1
        <4>3. Width[b] = 1 \/ (Width[b] > 1 /\ (w.p > r \/ r - w.p >= Width[b]))
          <5> HIDE DEF b
          <5> QED
            BY <1>1, <3>2, <3>3, <4>2
        <4>4. y = [info |-> CharMap[b], mblen |-> Width[b]]
          BY <4>3 DEF CharAt
        <4> QED
          BY <4>1, <4>4
      <3>4. CASE ~(Width[b] = 1 \/ (Width[b] > 1 /\ (w.p > end \/ end - w.p >= Width[b])))
        <4>1. x = [info |-> CharMap[Nul], mblen |-> 1]
          BY <3>4 DEF CharAt
        <4>2. ~(Width[b] = 1 \/ (Width[b] > 1 /\ (w.p > r \/ r - w.p >= Width[b])))
          <5> HIDE DEF b
          <5> QED
            BY <1>1, <2>1, <3>2, <3>4
        <4>3. y = [info |-> CharMap[Nul], mblen |-> 1]
          BY <4>2 DEF CharAt
        <4> QED
          BY <4>1, <4>3
      <3> QED
        BY <3>3, <3>4
    <2> HIDE DEF x, y
    <2>6. u = [p |-> w.p + x.mblen, c |-> x.info, mblen |-> x.mblen, clen |-> w.clen + 1, more |-> TRUE]
      BY <1>1, <1>3, <2>1, <2>2, <2>5 DEF SeekStep
    <2> QED
      BY <2>3, <2>6 DEF y
  <1> QED
    BY <1>1, <1>2, <1>3

(* A walk only goes on, and not at all once it has stopped.                *)
LEMMA SeekGoesOn ==
  ASSUME NEW s \in Seq(Bytes), NEW begin \in Nat, NEW end \in Nat, NEW c \in Classes,
         NEW f, IsSeek(f, s, begin, end, c), NEW k \in 0 .. Len(s) + 1
  PROVE  /\ f[k].p <= f[Len(s) + 1].p
         /\ ~f[k].more => f[k].p = f[Len(s) + 1].p
  <1> DEFINE n == Len(s) + 1
             m == n - k
             P == {j \in 0 .. m : /\ f[k].p <= f[k + j].p
                                  /\ ~f[k].more => f[k].p = f[k + j].p /\ ~f[k + j].more}
  <1>1. /\ n \in Nat /\ m \in Nat /\ k \in Nat /\ k \in 0 .. n /\ k + m = n
        /\ \A j \in 0 .. m : k + j \in 0 .. n
        /\ \A j \in 1 .. m : k + j \in 1 .. n /\ k + (j - 1) \in 0 .. n /\ k + (j - 1) = (k + j) - 1
    OBVIOUS
  <1>2. /\ \A i \in 1 .. n : f[i] = SeekStep(f[i - 1], CharAt(s, f[i - 1].p, end), end)
        /\ \A i \in 0 .. n : f[i] \in Seekers(begin, end)
    BY DEF IsSeek
  <1> HIDE DEF n, m
  <1>3. \A i \in 0 .. n : f[i].p \in Nat /\ f[i].more \in BOOLEAN
    BY <1>2 DEF Seekers
  <1>4. ASSUME NEW i \in 1 .. n
        PROVE  f[i - 1].p <= f[i].p /\ (~f[i - 1].more => f[i - 1].p = f[i].p /\ ~f[i].more)
    <2> DEFINE w == f[i - 1]
               x == CharAt(s, w.p, end)
    <2>1. i - 1 \in 0 .. n /\ f[i] = SeekStep(w, x, end) /\ w \in Seekers(begin, end)
      BY <1>1, <1>2
    <2>2. /\ w.p \in Nat /\ w.more \in BOOLEAN
          /\ w = [p |-> w.p, c |-> w.c, mblen |-> w.mblen, clen |-> w.clen, more |-> w.more]
      BY <2>1 DEF Seekers
    <2>3. x.mblen \in Nat
      BY <2>2, CharFacts
    <2> HIDE DEF w, x
    <2>4. CASE ~w.more \/ w.p = end
      <3>1. f[i] = [p |-> w.p, c |-> w.c, mblen |-> w.mblen, clen |-> w.clen, more |-> FALSE]
        BY <2>1, <2>2, <2>4 DEF SeekStep
      <3> QED
        BY <2>2, <3>1 DEF w
    <2>5. CASE ~(~w.more \/ w.p = end) /\ ~IsKindOf(w.c, x.info)
      <3>1. f[i] = [p |-> w.p, c |-> x.info, mblen |-> x.mblen, clen |-> w.clen, more |-> FALSE]
        BY <2>1, <2>2, <2>5 DEF SeekStep
      <3> QED
        BY <2>2, <2>5, <3>1 DEF w
    <2>6. CASE ~(~w.more \/ w.p = end) /\ IsKindOf(w.c, x.info)
      <3>1. f[i] = [p |-> w.p + x.mblen, c |-> x.info, mblen |-> x.mblen, clen |-> w.clen + 1, more |-> TRUE]
        BY <2>1, <2>2, <2>6 DEF SeekStep
      <3> QED
        BY <2>2, <2>3, <2>6, <3>1 DEF w
    <2> QED
      BY <2>4, <2>5, <2>6
  <1>5. 0 \in P
    <2>1. 0 \in 0 .. m /\ k + 0 = k /\ f[k].p \in Nat
      BY <1>1, <1>3
    <2> QED
      BY <2>1
  <1>6. ASSUME NEW j \in 1 .. m, j - 1 \in P PROVE j \in P
    <2>1. j \in 0 .. m /\ k + j \in 1 .. n /\ k + j \in 0 .. n /\ k + (j - 1) \in 0 .. n /\ k + (j - 1) = (k + j) - 1
      BY <1>1
    <2>2. /\ f[k].p <= f[k + (j - 1)].p
          /\ ~f[k].more => f[k].p = f[k + (j - 1)].p /\ ~f[k + (j - 1)].more
      BY <1>6
    <2>3. /\ f[k + (j - 1)].p <= f[k + j].p
          /\ ~f[k + (j - 1)].more => f[k + (j - 1)].p = f[k + j].p /\ ~f[k + j].more
      BY <1>4, <2>1
    <2>4. f[k].p \in Nat /\ f[k + (j - 1)].p \in Nat /\ f[k + j].p \in Nat
      BY <1>1, <1>3, <2>1
    <2>5. f[k].p <= f[k + j].p
      BY <2>2, <2>3, <2>4
    <2>6. ~f[k].more => f[k].p = f[k + j].p /\ ~f[k + j].more
      BY <2>2, <2>3
    <2> QED
      BY <2>1, <2>5, <2>6
  <1>7. 0 .. m \subseteq P
    <2> HIDE DEF P
    <2> QED
      BY <1>1, <1>5, <1>6, UpTo
  <1>8. m \in P /\ k + m = n
    BY <1>1, <1>7
  <1> QED
    BY <1>8 DEF n

(* Told to end where it would stop anyway, the walk stops there again.     *)
LEMMA SeekAgain ==
  ASSUME NEW s \in Seq(Bytes), NEW begin \in Nat, NEW end \in Nat, NEW c \in Classes,
         begin <= end, end <= Len(s),
         NEW r, r = SeekToOtherType(s, begin, end, c).p
  PROVE  SeekToOtherType(s, begin, r, c).p = r
  <1> DEFINE n == Len(s) + 1
             Alike(f, g, k) == g[k] = f[k] \/ (g[k].p = r /\ ~g[k].more)
             P(f, g) == {k \in 0 .. n : Alike(f, g, k)}
  <1>1. r \in Nat /\ r <= end
    <2>1. r \in Nat
      BY SeekFacts DEF Seekers
    <2> QED
      BY <2>1, SeekWithin
  <1>2. PICK f : IsSeek(f, s, begin, end, c)
    BY SeekWalk
  <1>3. PICK g : IsSeek(g, s, begin, r, c)
    BY <1>1, SeekWalk
  <1>4. n \in Nat /\ n \in 0 .. n /\ 0 \in 0 .. n
    OBVIOUS
  <1>5. /\ f[0] = [p |-> begin, c |-> c, mblen |-> 0, clen |-> 0, more |-> TRUE]
        /\ \A k \in 1 .. n : f[k] = SeekStep(f[k - 1], CharAt(s, f[k - 1].p, end), end)
        /\ \A k \in 0 .. n : f[k] \in Seekers(begin, end)
        /\ f[n].p = r
    BY <1>2 DEF IsSeek
  <1>6. /\ g[0] = [p |-> begin, c |-> c, mblen |-> 0, clen |-> 0, more |-> TRUE]
        /\ \A k \in 1 .. n : g[k] = SeekStep(g[k - 1], CharAt(s, g[k - 1].p, r), r)
        /\ \A k \in 0 .. n : g[k] \in Seekers(begin, r)
        /\ SeekToOtherType(s, begin, r, c) = g[n]
    BY <1>3 DEF IsSeek
  <1>7. \A k \in 0 .. n : f[k].p <= r /\ (~f[k].more => f[k].p = r)
    BY <1>2, <1>5, SeekGoesOn
  <1> HIDE DEF n
  <1>8. 0 \in P(f, g)
    BY <1>4, <1>5, <1>6
  <1>9. ASSUME NEW k \in 1 .. n, k - 1 \in P(f, g) PROVE k \in P(f, g)
    <2>1. k \in 0 .. n /\ k - 1 \in 0 .. n
      BY <1>4
    <2>2. CASE g[k - 1] = f[k - 1]
      <3> DEFINE w == f[k - 1]
      <3>1. /\ w \in Seekers(begin, end) /\ w.p <= r
            /\ f[k] = SeekStep(w, CharAt(s, w.p, end), end)
            /\ g[k] = SeekStep(w, CharAt(s, w.p, r), r)
            /\ f[k].p <= r /\ (~f[k].more => f[k].p = r)
        BY <1>5, <1>6, <1>7, <2>1, <2>2
      <3> HIDE DEF w
      <3>2. g[k] = f[k] \/ (g[k].p = r /\ ~g[k].more)
        BY <1>1, <3>1, SeekStepAgain
      <3> QED
        BY <2>1, <3>2
    <2>3. CASE g[k - 1].p = r /\ ~g[k - 1].more
      <3> DEFINE w == g[k - 1]
      <3>1. /\ w = [p |-> w.p, c |-> w.c, mblen |-> w.mblen, clen |-> w.clen, more |-> w.more]
            /\ g[k] = SeekStep(w, CharAt(s, w.p, r), r)
        BY <1>6, <2>1 DEF Seekers
      <3>2. g[k] = [p |-> w.p, c |-> w.c, mblen |-> w.mblen, clen |-> w.clen, more |-> FALSE]
        BY <2>3, <3>1 DEF SeekStep
      <3> QED
        BY <2>1, <2>3, <3>2
    <2> QED
      BY <1>9, <2>2, <2>3
  <1>10. 0 .. n \subseteq P(f, g)
    <2> HIDE DEF P
    <2> QED
      BY <1>4, <1>8, <1>9, UpTo
  <1>11. g[n].p = r
    <2>1. n \in P(f, g)
      BY <1>4, <1>10
    <2> QED
      BY <1>5, <2>1
  <1> QED
    BY <1>6, <1>11

(* A node that lookup offers at q, in the lattice of a call.               *)
IsTokenAt(t, q) ==
  /\ BeginOf(t) = q /\ EndOf(t) \in Nat /\ EndOf(t) > q
  /\ t.surface \in Nat /\ t.surface >= q
  /\ SeekToOtherType(lat.sentence, q, t.surface, CharMap[Space]).p = t.surface
  /\ ~SpacesToEnd(q) => EndOf(t) <= FragmentEnd(lat, q)
  /\ lat.constrained =>
       /\ ~SpacesToEnd(q) \/ lat.feature[q] = NoFeature => lat.boundary[EndOf(t)] # InsideToken
       /\ lat.feature[q] # NoFeature => PartialMatch(lat.feature[q], t.feature)

(* Every node made of a word that lookup offers is such a token.           *)
LEMMA OfferIsToken ==
  ASSUME Lookable(lat), Bounded(lat), NEW q \in Nat, q < Size, NEW t \in NodeSet(lat),
         Zeroed(t) \in ToSet(Lookup(lat, q).nodes)
  PROVE  IsTokenAt(t, q)
  <1> DEFINE end == FragmentEnd(lat, q)
             w == Zeroed(t)
  <1>1. Size = Len(lat.sentence) /\ Lookable(lat) /\ CharMap[Space] \in Classes
    BY TablesAssumption DEF Size, Classes
  <1>2. end \in Nat /\ q < end /\ end <= Len(lat.sentence)
    BY <1>1, FragmentFacts
  <1>3. PICK at : /\ IsFragment(lat, at, q) /\ Lookup(lat, q) = LookupAt(lat, at)
                  /\ at.end = end
                  /\ at.begin2 = SeekToOtherType(lat.sentence, q, end, CharMap[Space]).p
    BY <1>1, PlaceFacts
  <1>4. Fits(lat, at, q, Lookup(lat, q))
    BY <1>3, LookupSuits
  <1>5. w \in Suits(lat, at, q)
    <2> DEFINE X == Suits(lat, at, q)
               found == Lookup(lat, q).nodes
    <2>1. found \in Seq(X)
      BY <1>4 DEF Fits
    <2> HIDE DEF X, found
    <2>2. \A v \in ToSet(found) : v \in X
      BY <2>1 DEF ToSet
    <2> QED
      BY <2>2 DEF X, found
  <1>6. /\ w.surface = t.surface /\ w.feature = t.feature
        /\ BeginOf(w) = BeginOf(t) /\ EndOf(w) = EndOf(t)
    <2>1. w.surface = t.surface /\ w.feature = t.feature
      BY DEF NodeSet, Zeroed, Rewire
    <2> QED
      BY <2>1, ZeroedFacts
  <1> HIDE DEF w
  <1>7. /\ w \in Candidates(lat, q) /\ w.surface = at.begin2
        /\ at.begin2 < at.end => EndOf(w) <= at.end
        /\ lat.constrained =>
             /\ at.begin2 < at.end \/ lat.feature[q] = NoFeature => lat.boundary[EndOf(w)] # InsideToken
             /\ lat.feature[q] # NoFeature => PartialMatch(lat.feature[q], w.feature)
    BY <1>5 DEF Suits
  <1>8. BeginOf(w) = q /\ EndOf(w) = q + w.rlength /\ w.rlength \in Nat \ {0}
    BY <1>7, CandidateFacts
  <1>9. at.begin2 \in Nat /\ at.begin2 >= q /\ at.begin2 <= at.end
    BY <1>3 DEF IsFragment, IsPlace
  <1>10. SpacesToEnd(q) <=> at.begin2 = at.end
    <2>1. SpacesToEnd(q) <=> SeekToOtherType(lat.sentence, q, FragmentEnd(lat, q), CharMap[Space]).p
                               = FragmentEnd(lat, q)
      BY SpacesFacts
    <2>2. /\ at.end = FragmentEnd(lat, q)
          /\ at.begin2 = SeekToOtherType(lat.sentence, q, FragmentEnd(lat, q), CharMap[Space]).p
      BY <1>3
    <2> QED
      BY <2>1, <2>2
  <1>11. ~SpacesToEnd(q) => at.begin2 < at.end
    BY <1>2, <1>3, <1>9, <1>10
  <1>12. SeekToOtherType(lat.sentence, q, at.begin2, CharMap[Space]).p = at.begin2
    <2>1. lat.sentence \in Seq(Bytes) /\ q <= FragmentEnd(lat, q)
      BY <1>2 DEF Lookable
    <2> QED
      BY <1>1, <1>2, <1>3, <2>1, SeekAgain
  <1> QED
    BY <1>3, <1>6, <1>7, <1>8, <1>9, <1>11, <1>12 DEF IsTokenAt

(* The tokens of the best path: each is offered where the last one ended,  *)
(* and the last ends where EOS begins.                                     *)
TokenStart(i) == EndOf(nodes[BestPath[i]])

LEMMA TokensOffered ==
  ASSUME IInv, Finished, Lookable(lat), Bounded(lat)
  PROVE  \E m \in Nat :
           /\ Len(Tokens) = m /\ DOMAIN Tokens = 1 .. m
           /\ TokenStart(1) = 0 /\ TokenStart(m + 1) = LastEnd
           /\ \A i \in 1 .. m + 1 : TokenStart(i) \in 0 .. LastEnd
           /\ \A i \in 1 .. m : /\ TokenStart(i) < Size /\ IsTokenAt(Tokens[i], TokenStart(i))
                                /\ EndOf(Tokens[i]) = TokenStart(i + 1)
  <1> DEFINE p == BestPath
             m == Len(p) - 2
  <1>1. /\ BosFirst /\ Size \in Nat /\ LastEnd \in 0 .. Size /\ EOS = Len(nodes) /\ EOS # 1
        /\ Len(nodes) \in Nat \ {0} /\ DOMAIN nodes = 1 .. Len(nodes)
        /\ \A n \in DOMAIN nodes : nodes[n] \in NodeSet(lat)
    BY FinalFacts
  <1>2. IsWayBack(p) /\ p[1] = 1
    BY <1>1, LinksDescend, BestPathFacts
  <1> HIDE DEF p
  <1>3. Len(p) \in Nat /\ Len(p) >= 2 /\ p[Len(p)] = EOS
    BY <1>1, <1>2 DEF IsWayBack
  <1>4. /\ m \in Nat /\ \A i \in 1 .. m : i \in 1 .. Len(p) - 1 /\ i + 1 \in 1 .. Len(p) - 1
        /\ m + 1 \in 1 .. Len(p) - 1 /\ (m + 1) + 1 = Len(p)
        /\ \A i \in 1 .. m + 1 : i \in 1 .. Len(p) - 1
    BY <1>3
  <1>5. Tokens = [i \in 1 .. m |-> nodes[p[i + 1]]]
    BY DEF Tokens, p
  <1> HIDE DEF m
  <1>6. \A i \in 1 .. m : Tokens[i] = nodes[p[i + 1]]
    BY <1>5
  <1>7. Len(Tokens) = m /\ DOMAIN Tokens = 1 .. m
    BY <1>4, <1>5
  <1>8. EndOf(nodes[p[1]]) = 0
    BY <1>1, <1>2, SentinelFacts DEF BosFirst
  <1>9. \A i \in 1 .. Len(p) - 1 : EndOf(nodes[p[i]]) \in 0 .. LastEnd /\ p[i] # EOS
    BY <1>2, LinkFacts
  <1>10. EndOf(nodes[p[m + 1]]) = LastEnd
    BY <1>2, <1>3, <1>4, LinkFacts
  <1>11. ASSUME NEW i \in 1 .. m
         PROVE  EndOf(nodes[p[i]]) < Size /\ IsTokenAt(Tokens[i], EndOf(nodes[p[i]]))
    <2> DEFINE q == EndOf(nodes[p[i]])
               t == nodes[p[i + 1]]
    <2>1. p[i + 1] # EOS
      BY <1>4, <1>9
    <2>2. /\ p[i + 1] \in DOMAIN nodes /\ q \in 0 .. LastEnd
          /\ Zeroed(t) \in ToSet(Lookup(lat, q).nodes) /\ q < Size
      BY <1>2, <1>4, <2>1, LinkFacts
    <2>3. t \in NodeSet(lat) /\ q \in Nat
      BY <1>1, <2>2
    <2>4. Tokens[i] = t
      BY <1>6
    <2> HIDE DEF q, t
    <2>5. IsTokenAt(t, q)
      BY <2>2, <2>3, OfferIsToken
    <2> QED
      BY <2>2, <2>4, <2>5 DEF q
  <1> QED
    BY <1>4, <1>6, <1>7, <1>8, <1>9, <1>10, <1>11 DEF TokenStart, p

(* EOS begins at the end of the text, or with nothing but spaces before    *)
(* the end: else a word would have been filed behind.                      *)
LEMMA LastReached ==
  ASSUME IInv, Finished, Lookable(lat), Bounded(lat)
  PROVE  SpacesToEnd(LastEnd) /\ (LastEnd # Size => LastEnd \in 0 .. Size - 1)
  <1>1. /\ Built /\ Shape /\ Size \in Nat /\ LastEnd \in 0 .. Size /\ pos = Size
        /\ IsLast(end_node_list, Size, LastEnd) /\ Lookable(lat)
        /\ Size = Len(lat.sentence) /\ CharMap[Space] \in Classes
    BY FinalFacts, TablesAssumption DEF Size, Classes
  <1>2. CASE LastEnd = Size
    <2>1. FragmentEnd(lat, Size) = Size
      <3>1. Size + 1 .. Len(lat.sentence) - 1 = {}
        BY <1>1
      <3>2. {n \in Size + 1 .. Len(lat.sentence) - 1 : lat.boundary[n] = TokenBoundary} = {}
        BY <3>1
      <3> QED
        BY <1>1, <3>2, WholeWindow DEF NextBoundary
    <2> DEFINE r == SeekToOtherType(lat.sentence, Size, Size, CharMap[Space])
    <2>5. lat.sentence \in Seq(Bytes) /\ Size <= Len(lat.sentence)
      BY <1>1 DEF Lookable
    <2>2. r.p \in Nat /\ r.p >= Size
      BY <1>1, <2>5, SeekFacts DEF Seekers
    <2>3. r.p <= Size
      BY <1>1, <2>5, SeekWithin
    <2>4. r.p = Size
      BY <1>1, <2>2, <2>3
    <2> QED
      BY <1>1, <1>2, <2>1, <2>4, SpacesFacts
  <1>3. CASE LastEnd # Size
    <2> DEFINE q == LastEnd
    <2>1. q \in Nat /\ q < Size /\ q \in 0 .. pos - 1 /\ end_node_list[q] # <<>>
      BY <1>1, <1>3 DEF IsLast
    <2>2. Taken(q)
      BY <1>1, <2>1 DEF Built, AllTaken
    <2>3. Offers(lat, q, Lookup(lat, q))
      BY <1>1, <2>1, LookupFacts
    <2> HIDE DEF q
    <2> DEFINE found == Lookup(lat, q).nodes
    <2>4. found \in Seq(Candidates(lat, q)) /\ found # <<>>
      BY <2>2, <2>3 DEF Offers, Taken
    <2> HIDE DEF found
    <2>5. PICK w : w \in ToSet(found) /\ w \in Candidates(lat, q)
      <3>1. found[1] \in ToSet(found) /\ found[1] \in Candidates(lat, q)
        BY <2>4 DEF ToSet
      <3> QED
        BY <3>1
    <2>6. w \in Fresh(lat) /\ EndOf(w) = q + w.rlength /\ w.rlength \in Nat \ {0}
      BY <2>1, <2>5, CandidateFacts
    <2>7. Zeroed(w) = w /\ w \in NodeSet(lat)
      BY <2>6, ZeroedFacts DEF Fresh
    <2>8. IsTokenAt(w, q)
      BY <2>1, <2>5, <2>7, OfferIsToken DEF found
    <2>9. ASSUME ~SpacesToEnd(q) PROVE FALSE
      <3>1. EndOf(w) <= FragmentEnd(lat, q) /\ FragmentEnd(lat, q) <= Len(lat.sentence)
            /\ FragmentEnd(lat, q) \in Nat
        BY <1>1, <2>1, <2>8, <2>9, FragmentFacts DEF IsTokenAt
      <3>2. EndOf(w) <= Size /\ EndOf(w) \in q + 1 .. Size
        BY <1>1, <2>1, <2>6, <3>1
      <3>3. \E n \in Ends(EndOf(w)) : Zeroed(nodes[n]) = w
        BY <2>2, <2>5, <3>2 DEF Taken, found
      <3>4. end_node_list[EndOf(w)] = <<>>
        BY <1>1, <3>2 DEF IsLast, q
      <3> QED
        BY <3>3, <3>4, OneOrNone DEF Ends
    <2> QED
      BY <1>1, <2>1, <2>9 DEF q
  <1> QED
    BY <1>1, <1>2, <1>3

LEMMA Tiled == ASSUME IInv, Prepared PROVE TokensTile
  <1> SUFFICES ASSUME Finished PROVE TokensTile
    BY DEF TokensTile
  <1> DEFINE ts == Tokens
             start(i) == IF i = 1 THEN 0 ELSE EndOf(ts[i - 1])
  <1>0. Lookable(lat)
    BY TextFits DEF Finished
  <1>1. Bounded(lat)
    BY LatticeFacts DEF Prepared, IInv, Finished
  <1>2. PICK m \in Nat :
           /\ Len(Tokens) = m /\ DOMAIN Tokens = 1 .. m
           /\ TokenStart(1) = 0 /\ TokenStart(m + 1) = LastEnd
           /\ \A i \in 1 .. m + 1 : TokenStart(i) \in 0 .. LastEnd
           /\ \A i \in 1 .. m : /\ TokenStart(i) < Size /\ IsTokenAt(Tokens[i], TokenStart(i))
                                /\ EndOf(Tokens[i]) = TokenStart(i + 1)
    BY <1>0, <1>1, TokensOffered
  <1> HIDE DEF ts
  <1>3. ASSUME NEW i \in 1 .. m + 1 PROVE start(i) = TokenStart(i)
    <2>1. CASE i = 1
      BY <1>2, <2>1
    <2>2. CASE i # 1
      <3>1. i - 1 \in 1 .. m /\ (i - 1) + 1 = i
        BY <2>2
      <3> QED
        BY <1>2, <2>2, <3>1 DEF ts
    <2> QED
      BY <2>1, <2>2
  <1>4. ASSUME NEW i \in DOMAIN ts
        PROVE  /\ BeginOf(ts[i]) = start(i)
               /\ SeekToOtherType(lat.sentence, start(i), ts[i].surface, CharMap[Space]).p = ts[i].surface
    <2>1. i \in 1 .. m /\ i \in 1 .. m + 1
      BY <1>2 DEF ts
    <2>2. start(i) = TokenStart(i) /\ IsTokenAt(ts[i], TokenStart(i))
      BY <1>2, <1>3, <2>1 DEF ts
    <2> HIDE DEF start
    <2> QED
      BY <2>2 DEF IsTokenAt
  <1>5. start(Len(ts) + 1) = LastEnd
    <2>1. Len(ts) + 1 = m + 1 /\ m + 1 \in 1 .. m + 1
      BY <1>2 DEF ts
    <2> HIDE DEF start
    <2> QED
      BY <1>2, <1>3, <2>1
  <1>6. LastEnd \in 0 .. Size /\ Size \in Nat
    BY FinalFacts
  <1>7. SpacesToEnd(LastEnd)
    BY <1>0, <1>1, LastReached
  <1>8. start(Len(ts) + 1) <= Size /\ SpacesToEnd(start(Len(ts) + 1))
    <2> HIDE DEF start
    <2> QED
      BY <1>5, <1>6, <1>7
  <1> QED
    BY <1>4, <1>8 DEF TokensTile, ts

(* Nothing but spaces is left out of the text, neither between the tokens  *)
(* of the best path nor after the last one: each begins where the last one *)
(* ended (viterbi.cpp:280-299, tokenizer.cpp:291-306).  Only in texts short*)
(* enough for 16-bit lengths: of a longer one the words behind 65535 spaces*)
(* on end are lost.                                                        *)
THEOREM SentenceTiled == NulIsNoSpace /\ ShortTexts => (Spec => []TokensTile)
  BY Invariance, PreparedInv, Tiled, PTL

(* No token reaches over the start of a fragment, so one begins there; it  *)
(* does not end inside the fragment, so it ends with it.                   *)
LEMMA FeatureReached ==
  ASSUME IInv, Prepared, Finished, lat.constrained, input.partial,
         \A p \in 0 .. Size - 1 : ~SpacesToEnd(p)
  PROVE  FeaturesKept
  <1>0. Lookable(lat)
    BY TextFits DEF Finished
  <1>1. Bounded(lat) /\ Fragmented(lat, Len(lat.sentence))
    BY LatticeFacts DEF Prepared, IInv, Finished
  <1>2. PICK m \in Nat :
           /\ Len(Tokens) = m /\ DOMAIN Tokens = 1 .. m
           /\ TokenStart(1) = 0 /\ TokenStart(m + 1) = LastEnd
           /\ \A i \in 1 .. m + 1 : TokenStart(i) \in 0 .. LastEnd
           /\ \A i \in 1 .. m : /\ TokenStart(i) < Size /\ IsTokenAt(Tokens[i], TokenStart(i))
                                /\ EndOf(Tokens[i]) = TokenStart(i + 1)
    BY <1>0, <1>1, TokensOffered
  <1>3. Size \in Nat /\ LastEnd \in 0 .. Size /\ Size = Len(lat.sentence)
    BY FinalFacts DEF Size
  <1>4. LastEnd = Size
    BY <1>0, <1>1, LastReached
  <1> SUFFICES ASSUME NEW b \in 0 .. Size - 1, lat.feature[b] # NoFeature
               PROVE  \E t \in ToSet(Tokens) :
                         /\ BeginOf(t) = b /\ EndOf(t) = FragmentEnd(lat, b)
                         /\ PartialMatch(lat.feature[b], t.feature)
    <2>1. \A b \in 0 .. Size - 1 : FragmentEnd(lat, b) = NextBoundary(lat, b, Size)
      BY <1>0, <1>3, WholeWindow
    <2> QED
      BY <2>1 DEF FeaturesKept
  <1>5. PICK e \in b + 1 .. Size :
           /\ lat.boundary[b] = TokenBoundary /\ lat.boundary[e] = TokenBoundary
           /\ \A r \in b + 1 .. e - 1 : lat.boundary[r] = InsideToken
    BY <1>1, <1>3 DEF Fragmented
  <1>6. FragmentEnd(lat, b) = e
    <2>1. /\ FragmentEnd(lat, b) \in Nat /\ b < FragmentEnd(lat, b) /\ FragmentEnd(lat, b) <= Size
          /\ lat.boundary[FragmentEnd(lat, b)] = TokenBoundary
          /\ \A q \in b + 1 .. FragmentEnd(lat, b) - 1 : lat.boundary[q] # TokenBoundary
      BY <1>0, <1>1, <1>3, FragmentFacts
    <2> DEFINE d == FragmentEnd(lat, b)
    <2> HIDE DEF d
    <2>2. ~(d < e)
      <3>1. d < e => d \in b + 1 .. e - 1
        BY <1>3, <1>5, <2>1 DEF d
      <3> QED
        BY <1>5, <2>1, <3>1 DEF d, TokenBoundary, InsideToken
    <2>3. ~(e < d)
      <3>1. e < d => e \in b + 1 .. d - 1
        BY <1>3, <1>5, <2>1 DEF d
      <3> QED
        BY <1>5, <2>1, <3>1 DEF d
    <2> QED
      BY <1>3, <1>5, <2>1, <2>2, <2>3 DEF d
  <1>7. PICK i \in 1 .. m : TokenStart(i) <= b /\ b < TokenStart(i + 1)
    <2> DEFINE Behind == {j \in 1 .. m + 1 : TokenStart(j) > b}
    <2>1. m + 1 \in Behind
      BY <1>2, <1>3, <1>4
    <2>2. PICK j \in Behind : \A k \in Behind : j <= k
      <3>1. Behind \subseteq Nat /\ Behind # {}
        BY <2>1
      <3> HIDE DEF Behind
      <3> QED
        BY <3>1, Smallest
    <2>3. j # 1
      BY <1>2, <2>2
    <2>4. j - 1 \in 1 .. m /\ j - 1 \in 1 .. m + 1 /\ (j - 1) + 1 = j
      BY <1>2, <2>2, <2>3
    <2>5. j - 1 \notin Behind
      BY <2>2, <2>4
    <2>6. TokenStart(j - 1) <= b
      BY <1>2, <1>3, <2>4, <2>5
    <2> QED
      BY <2>2, <2>4, <2>6
  <1>8. /\ i \in 1 .. m + 1 /\ i + 1 \in 1 .. m + 1
        /\ TokenStart(i) \in 0 .. Size - 1 /\ TokenStart(i + 1) \in 0 .. Size
        /\ IsTokenAt(Tokens[i], TokenStart(i)) /\ EndOf(Tokens[i]) = TokenStart(i + 1)
    <2>1. i \in 1 .. m + 1 /\ i + 1 \in 1 .. m + 1
      BY <1>2
    <2>2. TokenStart(i) \in 0 .. LastEnd /\ TokenStart(i + 1) \in 0 .. LastEnd /\ TokenStart(i) < Size
      BY <1>2, <2>1
    <2> QED
      BY <1>2, <1>3, <2>1, <2>2
  <1> DEFINE q == TokenStart(i)
             t == Tokens[i]
  <1>9. /\ q \in Nat /\ q < Size /\ q <= b /\ BeginOf(t) = q /\ EndOf(t) \in Nat /\ EndOf(t) > b
        /\ EndOf(t) <= FragmentEnd(lat, q)
        /\ lat.boundary[EndOf(t)] # InsideToken
        /\ lat.feature[q] # NoFeature => PartialMatch(lat.feature[q], t.feature)
    <2>1. ~SpacesToEnd(q)
      BY <1>8
    <2>2. /\ q \in Nat /\ q < Size /\ q <= b /\ EndOf(t) > b
      BY <1>3, <1>7, <1>8
    <2>3. IsTokenAt(t, q)
      BY <1>8
    <2> HIDE DEF q, t
    <2> QED
      BY <2>1, <2>2, <2>3 DEF IsTokenAt
  <1>10. t \in ToSet(Tokens)
    BY <1>2 DEF ToSet
  <1> HIDE DEF q, t
  <1>11. q = b
    <2>1. /\ FragmentEnd(lat, q) \in Nat
          /\ \A r \in q + 1 .. FragmentEnd(lat, q) - 1 : lat.boundary[r] # TokenBoundary
      BY <1>0, <1>1, <1>3, <1>9, FragmentFacts
    <2>2. q < b => b \in q + 1 .. FragmentEnd(lat, q) - 1
      BY <1>3, <1>9, <2>1
    <2> QED
      BY <1>5, <1>9, <2>1, <2>2
  <1>12. EndOf(t) = e
    <2>1. EndOf(t) < e => EndOf(t) \in b + 1 .. e - 1
      BY <1>3, <1>5, <1>9
    <2> QED
      BY <1>3, <1>5, <1>6, <1>9, <1>11, <2>1
  <1> QED
    BY <1>6, <1>9, <1>10, <1>11, <1>12

LEMMA Kept == ASSUME IInv, Prepared PROVE ConstraintsKept
  <1> SUFFICES ASSUME Finished, lat.constrained
               PROVE  /\ StrongBoundariesKept /\ InsidePositionsKept
                      /\ input.partial /\ (\A p \in 0 .. Size - 1 : ~SpacesToEnd(p)) => FeaturesKept
    BY DEF ConstraintsKept
  <1>0. Lookable(lat)
    BY TextFits DEF Finished
  <1>1. Bounded(lat)
    BY LatticeFacts DEF Prepared, IInv, Finished
  <1>2. PICK m \in Nat :
           /\ Len(Tokens) = m /\ DOMAIN Tokens = 1 .. m
           /\ TokenStart(1) = 0 /\ TokenStart(m + 1) = LastEnd
           /\ \A i \in 1 .. m + 1 : TokenStart(i) \in 0 .. LastEnd
           /\ \A i \in 1 .. m : /\ TokenStart(i) < Size /\ IsTokenAt(Tokens[i], TokenStart(i))
                                /\ EndOf(Tokens[i]) = TokenStart(i + 1)
    BY <1>0, <1>1, TokensOffered
  <1>3. Size \in Nat /\ LastEnd \in 0 .. Size /\ Size = Len(lat.sentence)
    BY FinalFacts DEF Size
  <1>4. ASSUME NEW t \in ToSet(Tokens)
        PROVE  \E q \in Nat : q < Size /\ IsTokenAt(t, q)
    <2>1. PICK i \in 1 .. m : t = Tokens[i]
      BY <1>2 DEF ToSet
    <2>2. i \in 1 .. m + 1
      BY <2>1
    <2>3. TokenStart(i) \in Nat /\ TokenStart(i) < Size /\ IsTokenAt(t, TokenStart(i))
      BY <1>2, <1>3, <2>1, <2>2
    <2> QED
      BY <2>3
  <1>5. StrongBoundariesKept
    <2> SUFFICES ASSUME NEW t \in ToSet(Tokens), NEW b \in 1 .. Size - 1,
                        lat.boundary[b] = TokenBoundary, t.surface < b, b < EndOf(t),
                        ~SpacesToEnd(BeginOf(t))
                 PROVE  FALSE
      BY DEF StrongBoundariesKept
    <2>1. PICK q \in Nat : q < Size /\ IsTokenAt(t, q)
      BY <1>4
    <2>2. /\ t.surface \in Nat /\ t.surface >= q /\ EndOf(t) \in Nat
          /\ EndOf(t) <= FragmentEnd(lat, q)
      BY <2>1 DEF IsTokenAt
    <2>3. /\ FragmentEnd(lat, q) \in Nat
          /\ \A r \in q + 1 .. FragmentEnd(lat, q) - 1 : lat.boundary[r] # TokenBoundary
      BY <1>0, <1>1, <1>3, <2>1, FragmentFacts
    <2>4. b \in q + 1 .. FragmentEnd(lat, q) - 1
      BY <1>3, <2>1, <2>2, <2>3
    <2> QED
      BY <2>3, <2>4
  <1>6. InsidePositionsKept
    <2> SUFFICES ASSUME NEW t \in ToSet(Tokens), lat.boundary[EndOf(t)] = InsideToken
                 PROVE  SpacesToEnd(BeginOf(t)) /\ lat.feature[BeginOf(t)] # NoFeature
      BY DEF InsidePositionsKept
    <2>1. PICK q \in Nat : q < Size /\ IsTokenAt(t, q)
      BY <1>4
    <2> QED
      BY <2>1 DEF IsTokenAt
  <1> QED
    BY <1>5, <1>6, FeatureReached

(* The constraints hold in the result: no token reaches over a strong      *)
(* boundary, none ends inside a token, and a fragment given with a feature *)
(* is one token with that feature (tokenizer.cpp:200-218, 308-316, 405).   *)
THEOREM ConstraintsHeld == NulIsNoSpace /\ ShortTexts => (Spec => []ConstraintsKept)
  BY Invariance, PreparedInv, Kept, PTL

(* Whatever lookup offers in the lattice of a call has its entry in the    *)
(* node lists.                                                             *)
LEMMA LookupInLists ==
  ASSUME NEW l, Lookable(l), Bounded(l), NEW p \in Nat, p < Len(l.sentence),
         NEW w \in ToSet(Lookup(l, p).nodes)
  PROVE  EndOf(w) \in Offsets(l.sentence) /\ w.surface >= p
  <1>1. PICK at : IsFragment(l, at, p) /\ Lookup(l, p) = LookupAt(l, at)
    BY PlaceFacts
  <1>2. Fits(l, at, p, LookupAt(l, at))
    BY <1>1, LookupSuits
  <1>3. w \in Suits(l, at, p)
    <2> DEFINE X == Suits(l, at, p)
               found == Lookup(l, p).nodes
    <2>1. found \in Seq(X)
      BY <1>1, <1>2 DEF Fits
    <2> HIDE DEF X, found
    <2>2. \A v \in ToSet(found) : v \in X
      BY <2>1 DEF ToSet
    <2> QED
      BY <2>2 DEF X, found
  <1>4. w \in Candidates(l, p) /\ w.surface = at.begin2
    BY <1>3 DEF Suits
  <1>5. EndOf(w) \in Nat /\ EndOf(w) <= Len(l.sentence) + 3
    BY <1>4, CandidateFacts DEF Candidates
  <1>6. at.begin2 \in Nat /\ at.begin2 >= p /\ Len(l.sentence) \in Nat
    BY <1>1 DEF IsFragment, IsPlace
  <1> QED
    BY <1>4, <1>5, <1>6 DEF Offsets

(* Behind the text no node begins, and the nodes filed there end there.    *)
BehindEnd ==
  IF phase = "start" THEN nodes = <<>> /\ lat.sentence = <<>>
  ELSE \A q \in Size + 1 .. Size + 3 :
         /\ begin_node_list[q] = <<>>
         /\ \A n \in ToSet(end_node_list[q]) : EndOf(nodes[n]) = q

LEMMA BehindStart == ASSUME IInv, Start PROVE BehindEnd'
  <1>1. /\ lat' = InitPartial(input) /\ phase' = "scan"
        /\ begin_node_list' = [p \in Offsets(lat'.sentence) |-> <<>>]
        /\ end_node_list' = [p \in Offsets(lat'.sentence) |-> IF p = 0 THEN <<BOS>> ELSE <<>>]
    BY DEF Start
  <1>2. Size' \in Nat /\ Size' = Len(lat'.sentence)
    BY <1>1, SentenceOfBytes DEF IInv, Size
  <1>3. \A q \in Size' + 1 .. Size' + 3 : q \in Offsets(lat'.sentence) /\ q # 0
    BY <1>2 DEF Offsets
  <1>4. \A q \in Size' + 1 .. Size' + 3 : begin_node_list'[q] = <<>> /\ end_node_list'[q] = <<>>
    BY <1>1, <1>3
  <1>5. \A q \in Size' + 1 .. Size' + 3 : ToSet(end_node_list'[q]) = {}
    BY <1>4, OneOrNone
  <1> QED
    BY <1>1, <1>4, <1>5 DEF BehindEnd

(* A word that reaches over the end is filed where it ends.                *)
LEMMA BehindConnected ==
  ASSUME IInv, BehindEnd, phase = "scan", pos < Size, end_node_list[pos] # <<>>,
         Connect(pos, Linked(Lookup(lat, pos).nodes, end_node_list[pos])), UNCHANGED <<lat, phase>>
  PROVE  BehindEnd'
  <1> DEFINE found == Lookup(lat, pos)
             linked == Linked(found.nodes, end_node_list[pos])
             N == Len(nodes)
             m == Len(found.nodes)
  <1>1. Built /\ Shape /\ nodes \in Seq(NodeSet(lat)) /\ Size' = Size
    BY ScanFacts DEF Size
  <1>2. /\ pos \in Nat /\ Size \in Nat /\ Size = Len(lat.sentence)
        /\ N \in Nat \ {0} /\ DOMAIN nodes = 1 .. N
    BY <1>1, ShapeFacts DEF Size
  <1>3. /\ m \in Nat /\ DOMAIN found.nodes = 1 .. m /\ DOMAIN linked = 1 .. m
        /\ \A i \in 1 .. m :
             LET r == found.nodes[i]
             IN  r \in Candidates(lat, pos) /\ linked[i] \in NodeSet(lat) /\ Same(linked[i], r)
    BY LinkedFacts
  <1>4. linked \in Seq(NodeSet(lat)) /\ Len(linked) = m
    <2>1. linked = [i \in 1 .. m |-> linked[i]]
      BY LinkedFacts
    <2> HIDE DEF linked, found, m
    <2>2. linked \in [1 .. m -> NodeSet(lat)]
      BY <1>3, <2>1
    <2> QED
      BY <1>3, <2>2
  <1>5. /\ nodes' = nodes \o linked
        /\ begin_node_list' = [begin_node_list EXCEPT ![pos] = [i \in DOMAIN linked |-> N + i]]
    BY DEF Connect
  <1>6. Connect(pos, linked)
    OBVIOUS
  <1> HIDE DEF linked, found, m, N
  <1>7. /\ \A n \in 1 .. N : nodes'[n] = nodes[n]
        /\ \A i \in 1 .. m : nodes'[N + i] = linked[i]
    BY <1>1, <1>4, <1>5, Concatenated DEF N
  <1>8. ASSUME NEW i \in 1 .. m PROVE EndOf(linked[i]) = linked[i].rlength + pos
    <2>1. found.nodes[i] \in Candidates(lat, pos) /\ Same(linked[i], found.nodes[i])
      BY <1>3
    <2>2. EndOf(found.nodes[i]) = pos + found.nodes[i].rlength /\ found.nodes[i].rlength \in Nat
      BY <1>2, <2>1, CandidateFacts
    <2> QED
      BY <1>2, <2>1, <2>2 DEF Same, EndOf
  <1>9. ASSUME NEW q \in Size + 1 .. Size + 3
        PROVE  /\ begin_node_list'[q] = <<>>
               /\ \A n \in ToSet(end_node_list'[q]) : EndOf(nodes'[n]) = q
    <2>1. q \in Offsets(lat.sentence) /\ q # pos
      BY <1>2 DEF Offsets
    <2>2. begin_node_list[q] = <<>> /\ \A n \in ToSet(end_node_list[q]) : EndOf(nodes[n]) = q
      BY DEF BehindEnd
    <2>3. q \in DOMAIN begin_node_list /\ end_node_list[q] \in Seq(1 .. N)
      BY <1>1, <1>2, <2>1 DEF Shape
    <2>4. begin_node_list'[q] = <<>>
      BY <1>5, <2>1, <2>2, <2>3
    <2>5. PICK P : P = EndingAt(linked, m, q)
      OBVIOUS
    <2>6. ToSet(end_node_list'[q]) = ToSet(end_node_list[q]) \cup Shifted(N, P)
      BY <1>1, <1>3, <1>6, <2>1, <2>5, EndsGrow DEF N
    <2>7. ASSUME NEW n \in ToSet(end_node_list[q]) PROVE EndOf(nodes'[n]) = q
      <3>1. PICK s : s = end_node_list[q]
        OBVIOUS
      <3>2. s \in Seq(1 .. N) /\ n \in ToSet(s)
        BY <2>3, <2>7, <3>1
      <3>3. n \in 1 .. N
        BY <1>2, <3>2 DEF ToSet
      <3> QED
        BY <1>7, <2>2, <3>3
    <2>8. ASSUME NEW n \in Shifted(N, P) PROVE EndOf(nodes'[n]) = q
      <3>1. PICK i \in P : n = N + i
        BY DEF Shifted
      <3>2. i \in 1 .. m /\ linked[i].rlength + pos = q
        BY <2>5 DEF EndingAt
      <3> QED
        BY <1>7, <1>8, <3>1, <3>2
    <2> QED
      BY <2>4, <2>6, <2>7, <2>8
  <1> QED
    BY <1>1, <1>9 DEF BehindEnd

(* EOS is filed in the text.                                               *)
LEMMA BehindEos == ASSUME IInv, BehindEnd, ConnectEOS PROVE BehindEnd'
  <1>1. /\ phase = "scan" /\ pos = Size /\ lat' = lat
        /\ FileEOS(Connected(nodes, Sentinel("eos", Size), end_node_list[LastEnd]))
    BY DEF ConnectEOS
  <1>2. PICK eos : eos = Connected(nodes, Sentinel("eos", Size), end_node_list[LastEnd])
    OBVIOUS
  <1>3. FileEOS(eos) /\ phase' # "start" /\ Size' = Size
    BY <1>1, <1>2 DEF FileEOS, Size
  <1>4. CASE UNCHANGED <<nodes, begin_node_list, end_node_list>>
    BY <1>1, <1>3, <1>4 DEF BehindEnd
  <1>5. CASE /\ nodes' = Append(nodes, eos)
             /\ begin_node_list' = [begin_node_list EXCEPT ![Size] = <<Len(nodes) + 1>>]
             /\ end_node_list' =
                  [[end_node_list EXCEPT ![LastEnd] = <<Len(nodes) + 1>> \o @] EXCEPT ![0] = <<BOS>>]
    <2>1. Built /\ Shape
      BY <1>1, ScanFacts
    <2>2. PICK E : E = LastEnd
      OBVIOUS
    <2>3. E \in 0 .. Size /\ Size \in Nat /\ Size = Len(lat.sentence)
      BY <2>1, <2>2, LastEndFacts, ShapeFacts DEF IsLast, Built, Size
    <2>4. ASSUME NEW q \in Size + 1 .. Size + 3
          PROVE  /\ begin_node_list'[q] = <<>>
                 /\ \A n \in ToSet(end_node_list'[q]) : EndOf(nodes'[n]) = q
      <3>1. q \in Offsets(lat.sentence) /\ q # Size /\ q # 0 /\ q # E
        BY <2>3 DEF Offsets
      <3>2. q \in DOMAIN begin_node_list /\ q \in DOMAIN end_node_list /\ end_node_list[q] \in Seq(DOMAIN nodes)
        BY <2>1, <3>1 DEF Shape
      <3>3. begin_node_list'[q] = begin_node_list[q] /\ end_node_list'[q] = end_node_list[q]
        BY <1>5, <2>2, <3>1, <3>2
      <3>4. begin_node_list[q] = <<>> /\ \A n \in ToSet(end_node_list[q]) : EndOf(nodes[n]) = q
        BY <1>1 DEF BehindEnd
      <3>5. ASSUME NEW n \in ToSet(end_node_list[q]) PROVE nodes'[n] = nodes[n]
        <4>1. n \in DOMAIN nodes
          BY <3>2 DEF ToSet
        <4>2. nodes \in Seq(NodeSet(lat))
          BY <2>1 DEF Shape
        <4> QED
          BY <1>5, <4>1, <4>2
      <3> QED
        BY <3>3, <3>4, <3>5
    <2> QED
      BY <1>3, <2>4 DEF BehindEnd
  <1> QED
    BY <1>3, <1>4, <1>5 DEF FileEOS

LEMMA BehindStep == ASSUME IInv, BehindEnd, [Next]_vars PROVE BehindEnd'
  <1>1. CASE Start
    BY <1>1, BehindStart
  <1>2. CASE Scan
    <2>1. /\ phase = "scan" /\ pos < Size /\ end_node_list[pos] # <<>> /\ lat' = lat
          /\ ScanFound(Lookup(lat, pos))
      BY <1>2 DEF Scan
    <2>2. \/ UNCHANGED <<nodes, begin_node_list, end_node_list>> /\ phase' # "start"
          \/ /\ Connect(pos, Linked(Lookup(lat, pos).nodes, end_node_list[pos]))
             /\ UNCHANGED <<lat, phase>>
      BY <2>1 DEF ScanFound, ScanOutcome
    <2>3. CASE UNCHANGED <<nodes, begin_node_list, end_node_list>> /\ phase' # "start"
      BY <2>1, <2>3 DEF BehindEnd, Size
    <2> QED
      BY <2>1, <2>2, <2>3, BehindConnected
  <1>3. CASE SkipPosition
    BY <1>3 DEF SkipPosition, BehindEnd, Size
  <1>4. CASE ConnectEOS
    BY <1>4, BehindEos
  <1>5. CASE BuildResult
    BY <1>5 DEF BuildResult, BehindEnd, Size
  <1>6. CASE UNCHANGED vars
    BY <1>6 DEF vars, BehindEnd, Size
  <1> QED
    BY <1>1, <1>2, <1>3, <1>4, <1>5, <1>6 DEF Next

LEMMA BehindInv == NulIsNoSpace /\ ShortTexts => (Spec => []BehindEnd)
  <1>1. Init => BehindEnd
    BY DEF Init, BehindEnd, BareLattice
  <1> QED
    BY <1>1, BehindStep, Invariance, PTL DEF Spec

(* The begin and the end of a node of the lattice.                         *)
LEMMA NodeWithin ==
  ASSUME IInv, Prepared, phase # "start", NEW n \in DOMAIN nodes
  PROVE  /\ EndOf(nodes[n]) \in Offsets(lat.sentence)
         /\ n # 1 => nodes[n].surface >= BeginOf(nodes[n])
  <1>0. Lookable(lat)
    BY TextFits
  <1>1. /\ Built /\ Shape /\ BosFirst /\ EosLast /\ WordsJoined /\ EosJoined
        /\ nodes[n] \in NodeSet(lat)
    BY DEF IInv, Built, Shape
  <1>2. Size \in Nat /\ pos \in Nat /\ pos <= Size /\ Size = Len(lat.sentence) /\ DOMAIN nodes = 1 .. Len(nodes)
    BY <1>1, ShapeFacts DEF Size
  <1>3. CASE n = 1
    <2>1. EndOf(nodes[n]) = 0
      BY <1>1, <1>3 DEF BosFirst, Sentinel, EndOf
    <2> QED
      BY <1>2, <1>3, <2>1 DEF Offsets
  <1>4. CASE nodes[n].stat = "eos"
    <2>1. Finished /\ n = EOS
      BY <1>1, <1>2, <1>4 DEF EosLast, EOS
    <2>2. Zeroed(nodes[n]) = Sentinel("eos", Size)
      BY <1>1, <2>1 DEF EosJoined
    <2>3. EndOf(nodes[n]) = EndOf(Sentinel("eos", Size)) /\ BeginOf(nodes[n]) = BeginOf(Sentinel("eos", Size))
      BY <1>1, <2>2, ZeroedFacts
    <2>4. /\ Zeroed(nodes[n]).surface = nodes[n].surface
          /\ Sentinel("eos", Size).surface = Size
      BY <1>1 DEF Zeroed, Rewire, Sentinel, NodeSet
    <2>5. EndOf(Sentinel("eos", Size)) = Size /\ BeginOf(Sentinel("eos", Size)) = Size
      BY <1>2 DEF Sentinel, EndOf, BeginOf
    <2> QED
      BY <1>2, <2>2, <2>3, <2>4, <2>5 DEF Offsets
  <1>5. CASE n # 1 /\ nodes[n].stat # "eos"
    <2>1. PICK q : q = BeginOf(nodes[n])
      OBVIOUS
    <2>2. WordAt(n, q)
      BY <1>1, <1>5, <2>1 DEF WordsJoined
    <2>3. q \in Nat /\ q < Len(lat.sentence) /\ Zeroed(nodes[n]) \in ToSet(Lookup(lat, q).nodes)
      BY <1>2, <2>2 DEF WordAt
    <2>4. Bounded(lat)
      BY LatticeFacts DEF Prepared, IInv
    <2>5. PICK w : w = Zeroed(nodes[n])
      OBVIOUS
    <2>6. EndOf(w) \in Offsets(lat.sentence) /\ w.surface >= q
      BY <1>0, <2>3, <2>4, <2>5, LookupInLists
    <2>7. EndOf(w) = EndOf(nodes[n]) /\ w.surface = nodes[n].surface
      <3>1. EndOf(w) = EndOf(nodes[n])
        BY <1>1, <2>5, ZeroedFacts
      <3>2. w.surface = nodes[n].surface
        BY <1>1, <2>5 DEF Zeroed, Rewire, NodeSet
      <3> QED
        BY <3>1, <3>2
    <2> QED
      BY <2>1, <2>6, <2>7
  <1> QED
    BY <1>3, <1>4, <1>5

(* So the node lists are never indexed outside.                            *)
LEMMA InsideLists == ASSUME IInv, Prepared, LInv, BehindEnd PROVE TypeOK
  <1>1. /\ input \in Inputs /\ matrix \in Matrices
        /\ phase \in {"start", "scan", "built", "done", "failed", "died"}
    BY DEF IInv, Phases
  <1>2. CASE phase = "start"
    <2>1. pos = 0 /\ nodes = <<>> /\ lat.sentence = <<>>
      BY <1>2 DEF IInv, BehindEnd
    <2>2. pos \in 0 .. Size /\ DOMAIN nodes = {}
      BY <2>1 DEF Size
    <2> QED
      BY <1>1, <1>2, <2>2 DEF TypeOK
  <1>3. CASE phase # "start"
    <2>1. /\ Shape /\ BosFirst /\ Filed /\ Listed /\ pos \in 0 .. Size
      BY <1>3 DEF IInv, Built, LInv, Shape
    <2>2. /\ Size \in Nat /\ Size = Len(lat.sentence) /\ DOMAIN nodes = 1 .. Len(nodes)
          /\ DOMAIN begin_node_list = Offsets(lat.sentence)
          /\ DOMAIN end_node_list = Offsets(lat.sentence)
      BY <2>1, ShapeFacts DEF Size, Shape
    <2>3. \A p \in Offsets(lat.sentence) : p \in 0 .. Size \/ p \in Size + 1 .. Size + 3
      BY <2>2 DEF Offsets
    <2>4. ASSUME NEW p \in Offsets(lat.sentence), NEW n \in ToSet(begin_node_list[p])
          PROVE  nodes[n].surface >= p
      <3>1. p \in 0 .. Size
        BY <1>3, <2>3, <2>4, OneOrNone DEF BehindEnd
      <3>2. n # 1 /\ BeginOf(nodes[n]) = p
        BY <2>1, <2>4, <3>1 DEF Listed, ListedAt
      <3>3. n \in DOMAIN nodes
        BY <2>1, <2>4 DEF Shape, ToSet
      <3> QED
        BY <1>3, <3>2, <3>3, NodeWithin
    <2>5. ASSUME NEW p \in Offsets(lat.sentence), NEW n \in ToSet(end_node_list[p]), nodes[n].stat # "eos"
          PROVE  EndOf(nodes[n]) = p
      <3>1. CASE p \in 0 .. Size
        BY <2>1, <2>5, <3>1 DEF Filed, Ends
      <3>2. CASE p \in Size + 1 .. Size + 3
        BY <1>3, <2>5, <3>2 DEF BehindEnd
      <3> QED
        BY <2>3, <3>1, <3>2
    <2>6. \A n \in DOMAIN nodes : EndOf(nodes[n]) \in Offsets(lat.sentence)
      BY <1>3, NodeWithin
    <2> QED
      BY <1>1, <2>1, <2>2, <2>4, <2>5, <2>6 DEF TypeOK
  <1> QED
    BY <1>2, <1>3

(* Whatever the dictionaries and the character classes, as long as a space *)
(* never runs into the end of a text that is short enough: what begins or ends at a position  *)
(* is filed there, and no word, not even one behind trailing spaces, needs *)
(* an entry behind the four spare ones of begin_nodes_ and end_nodes_.     *)
THEOREM TypeCorrect == NulIsNoSpace /\ ShortTexts => (Spec => []TypeOK)
  BY Invariance, PreparedInv, ListInv, BehindInv, InsideLists, PTL
=============================================================================

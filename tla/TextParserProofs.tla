--------------------------- MODULE TextParserProofs ---------------------------
(***************************************************************************)
(* For any workers, texts, grain size and division of the work: the        *)
(* workers keep to places of their own, do what a loop over the texts does,*)
(* and warn of each text that throws once.                                 *)
(***************************************************************************)
EXTENDS TextParser, TLAPS

(* Places of a range, and places a worker has left to do. *)
In(k, r) == r[1] <= k /\ k < r[2]
Has(w, k) == pc[w] # "free" /\ i[w] <= k /\ k < end[w]
Left(k) == (\E r \in ranges : In(k, r)) \/ (\E w \in Workers : Has(w, k))

(* The parts of the inductive invariant. *)
Apart ==
  \A k \in Places :
    /\ \A r, q \in ranges : In(k, r) /\ In(k, q) => r = q
    /\ \A r \in ranges, w \in Workers : ~(In(k, r) /\ Has(w, k))
    /\ \A v, w \in Workers : Has(v, k) /\ Has(w, k) => v = w

Outcomes == {"true", "false", "throws"}

Held ==
  \A w \in Workers :
    /\ pc[w] \in Outcomes \cup {"parse"} => i[w] < end[w] /\ lattice[w] = i[w]
    /\ pc[w] \in Outcomes => Kind[text[i[w]]] = pc[w]

Due(t) == IF Kind[t] = "throws" THEN 1 ELSE 0

Slots ==
  \A k \in Places :
    /\ Left(k) => results[k] = <<>> /\ warned[k] = 0
    /\ ~Left(k) => results[k] = Map!Alone(text[k]) /\ warned[k] = Due(text[k])

IInv == TypeOK /\ Apart /\ Held /\ Slots

(* What is pending is what is left. *)
LEMMA PendingIsLeft ==
  ASSUME TypeOK, NEW k \in Places PROVE k \in Pending <=> Left(k)
  <1>1. \A r \in ranges : k \in r[1] .. r[2] - 1 <=> In(k, r)
    BY DEF TypeOK, In, Places
  <1>2. \A w \in Workers : k \in Owned(w) <=> Has(w, k)
    BY DEF TypeOK, Has, Owned, Places
  <1> QED
    BY <1>1, <1>2 DEF Pending, Left

(* The steps of a worker that leave its loop where it is. *)
Still(w) == SetSentence(w) \/ Parse(w) \/ Finish(w)

LEMMA StillLeaves ==
  ASSUME TypeOK, Held, NEW u \in Workers, Still(u)
  PROVE  /\ \A w \in Workers, k \in Places : Has(w, k)' <=> Has(w, k)
         /\ UNCHANGED <<text, ranges, results, warned>>
  <1>1. CASE SetSentence(u)
    BY <1>1 DEF SetSentence, TypeOK, Has, Places
  <1>2. CASE Parse(u)
    <2>1. lattice[u] = i[u] /\ i[u] \in Places
      BY <1>2 DEF Parse, Held, TypeOK, Places
    <2>2. text[lattice[u]] \in Texts
      BY <2>1 DEF TypeOK, Places
    <2>3. Kind[text[lattice[u]]] \in Outcomes
      BY <2>2, KindAssumption DEF Outcomes
    <2> QED
      BY <1>2, <2>3 DEF Parse, TypeOK, Has, Places, Outcomes
  <1>3. CASE Finish(u)
    <2>1. \A k \in Places : ~Has(u, k)
      BY <1>3 DEF Finish, LoopsOn, TypeOK, Has, Places
    <2> QED
      BY <1>3, <2>1 DEF Finish, TypeOK, Has, Places
  <1> QED
    BY <1>1, <1>2, <1>3 DEF Still

(* A step that goes on takes exactly the worker's place off what is left. *)
LEMMA GoOnTakesOne ==
  ASSUME TypeOK, Apart, Held, NEW u \in Workers, NEW from \in Outcomes, GoOn(u, from)
  PROVE  /\ i[u] \in Places /\ Left(i[u]) /\ lattice[u] = i[u] /\ Kind[text[i[u]]] = from
         /\ \A w \in Workers, k \in Places : Has(w, k)' <=> Has(w, k) /\ ~(w = u /\ k = i[u])
         /\ \A k \in Places : Left(k)' <=> Left(k) /\ k # i[u]
  <1>1. i[u] \in Places /\ Has(u, i[u]) /\ lattice[u] = i[u] /\ Kind[text[i[u]]] = from
    BY DEF GoOn, Held, Has, TypeOK, Places, Outcomes
  <1>2. \A w \in Workers, k \in Places : Has(w, k)' <=> Has(w, k) /\ ~(w = u /\ k = i[u])
    BY <1>1 DEF GoOn, Has, TypeOK, Places, Outcomes
  <1>3. ranges' = ranges
    BY DEF GoOn
  <1>4. ASSUME NEW k \in Places PROVE Left(k)' <=> Left(k) /\ k # i[u]
    <2>1. CASE k = i[u]
      BY <2>1, <1>1, <1>2, <1>3 DEF Apart, Left, In
    <2>2. CASE k # i[u]
      BY <2>2, <1>2, <1>3 DEF Left, In
    <2> QED
      BY <2>1, <2>2
  <1> QED
    BY <1>1, <1>2, <1>4 DEF Left

(* Dividing a range leaves the same, still apart. *)
LEMMA SplitLeaves ==
  ASSUME TypeOK, Apart, Split
  PROVE  Apart' /\ \A k \in Places : Left(k)' <=> Left(k)
  <1>1. PICK r \in ranges, m \in Int :
          /\ r[1] < m /\ m < r[2]
          /\ ranges' = (ranges \ {r}) \cup {<<r[1], m>>, <<m, r[2]>>}
    <2>1. PICK r \in ranges : \E m \in r[1] + 1 .. r[2] - 1 :
            ranges' = (ranges \ {r}) \cup {<<r[1], m>>, <<m, r[2]>>}
      BY DEF Split
    <2>2. PICK m \in r[1] + 1 .. r[2] - 1 :
            ranges' = (ranges \ {r}) \cup {<<r[1], m>>, <<m, r[2]>>}
      BY <2>1
    <2>3. r[1] \in Int /\ r[2] \in Int
      BY DEF TypeOK
    <2>4. m \in Int /\ r[1] < m /\ m < r[2]
      BY <2>2, <2>3
    <2> QED
      BY <2>2, <2>4
  <1> DEFINE a == <<r[1], m>>
             b == <<m, r[2]>>
  <1>2. r[1] \in Int /\ r[2] \in Int
    BY DEF TypeOK
  <1>3. \A k \in Places : In(k, r) <=> In(k, a) \/ In(k, b)
    BY <1>1, <1>2 DEF In, Places
  <1>4. \A k \in Places : ~(In(k, a) /\ In(k, b))
    BY <1>1, <1>2 DEF In, Places
  <1>5. UNCHANGED <<text, i, end, pc>>
    BY DEF Split
  <1>6. \A w \in Workers, k \in Places : Has(w, k)' <=> Has(w, k)
    BY <1>5 DEF Has
  <1>7. \A q \in ranges' : (q \in ranges /\ q # r) \/ q = a \/ q = b
    BY <1>1
  <1>8. \A q \in ranges : q # r => q \in ranges'
    BY <1>1
  <1>9. a \in ranges' /\ b \in ranges'
    BY <1>1
  <1> HIDE DEF a, b
  <1>10. Places' = Places
    BY <1>5 DEF Places
  <1>11. ASSUME NEW k \in Places
         PROVE  /\ \A p, q \in ranges' : In(k, p) /\ In(k, q) => p = q
                /\ \A q \in ranges', w \in Workers : ~(In(k, q) /\ Has(w, k)')
                /\ \A v, w \in Workers : Has(v, k)' /\ Has(w, k)' => v = w
    <2>1. \A q \in ranges' : In(k, q) => (q \in ranges /\ q # r /\ ~In(k, r)) \/ (In(k, r) /\ (q = a \/ q = b))
      BY <1>3, <1>7 DEF Apart
    <2>2. \A p, q \in ranges' : In(k, p) /\ In(k, q) => p = q
      BY <2>1, <1>4 DEF Apart
    <2>3. \A q \in ranges', w \in Workers : ~(In(k, q) /\ Has(w, k)')
      BY <2>1, <1>6 DEF Apart
    <2>4. \A v, w \in Workers : Has(v, k)' /\ Has(w, k)' => v = w
      BY <1>6 DEF Apart
    <2> QED
      BY <2>2, <2>3, <2>4
  <1>12. Apart'
    BY <1>10, <1>11 DEF Apart, In
  <1>13. ASSUME NEW k \in Places PROVE Left(k)' <=> Left(k)
    <2>1. (\E q \in ranges' : In(k, q)) <=> (\E q \in ranges : In(k, q))
      BY <1>3, <1>7, <1>8, <1>9
    <2> QED
      BY <2>1, <1>6 DEF Left, In
  <1> QED
    BY <1>12, <1>13

(* Handing a range to a worker leaves the same, still apart. *)
LEMMA TakeLeaves ==
  ASSUME TypeOK, Apart, NEW u \in Workers, Take(u)
  PROVE  Apart' /\ \A k \in Places : Left(k)' <=> Left(k)
  <1>1. PICK r \in ranges :
          /\ ranges' = ranges \ {r}
          /\ i' = [i EXCEPT ![u] = r[1]]
          /\ end' = [end EXCEPT ![u] = r[2]]
    BY DEF Take
  <1>2. pc[u] = "free" /\ pc' = [pc EXCEPT ![u] = "loop"] /\ text' = text
    BY DEF Take
  <1>3. \A w \in Workers, k \in Places : Has(w, k)' <=> IF w = u THEN In(k, r) ELSE Has(w, k)
    BY <1>1, <1>2 DEF Has, In, TypeOK
  <1>4. \A k \in Places : ~Has(u, k)
    BY <1>2 DEF Has
  <1>5. Places' = Places
    BY <1>2 DEF Places
  <1>6. ASSUME NEW k \in Places
        PROVE  /\ \A p, q \in ranges' : In(k, p) /\ In(k, q) => p = q
               /\ \A q \in ranges', w \in Workers : ~(In(k, q) /\ Has(w, k)')
               /\ \A v, w \in Workers : Has(v, k)' /\ Has(w, k)' => v = w
    BY <1>1, <1>3 DEF Apart
  <1>7. Apart'
    BY <1>5, <1>6 DEF Apart, In
  <1>8. ASSUME NEW k \in Places PROVE Left(k)' <=> Left(k)
    BY <1>1, <1>3, <1>4 DEF Left, In
  <1> QED
    BY <1>7, <1>8

(* Types are kept. *)
LEMMA TypeStep ==
  ASSUME TypeOK, Held, [Next]_vars PROVE TypeOK'
  <1>1. CASE Split
    <2>1. PICK r \in ranges : \E m \in r[1] + 1 .. r[2] - 1 :
            ranges' = (ranges \ {r}) \cup {<<r[1], m>>, <<m, r[2]>>}
      BY <1>1 DEF Split
    <2>2. PICK m \in r[1] + 1 .. r[2] - 1 :
            ranges' = (ranges \ {r}) \cup {<<r[1], m>>, <<m, r[2]>>}
      BY <2>1
    <2>3. r[1] \in 1 .. Len(text) + 1 /\ r[2] \in 1 .. Len(text) + 1
      BY DEF TypeOK
    <2>4. Len(text) \in Nat
      BY DEF TypeOK
    <2>5. m \in 1 .. Len(text) + 1
      BY <2>2, <2>3, <2>4
    <2>6. ranges' \subseteq (1 .. Len(text) + 1) \X (1 .. Len(text) + 1)
      BY <2>2, <2>3, <2>5 DEF TypeOK
    <2> QED
      BY <1>1, <2>6 DEF Split, TypeOK, Places
  <1>2. ASSUME NEW w \in Workers, Take(w) PROVE TypeOK'
    <2>1. PICK r \in ranges :
            /\ ranges' = ranges \ {r}
            /\ i' = [i EXCEPT ![w] = r[1]]
            /\ end' = [end EXCEPT ![w] = r[2]]
      BY <1>2 DEF Take
    <2>2. r[1] \in 1 .. Len(text) + 1 /\ r[2] \in 1 .. Len(text) + 1
      BY DEF TypeOK
    <2> QED
      BY <1>2, <2>1, <2>2 DEF Take, TypeOK, Places
  <1>3. ASSUME NEW w \in Workers, SetSentence(w) PROVE TypeOK'
    BY <1>3 DEF SetSentence, LoopsOn, TypeOK, Places
  <1>4. ASSUME NEW w \in Workers, Finish(w) PROVE TypeOK'
    BY <1>4 DEF Finish, TypeOK, Places
  <1>5. ASSUME NEW w \in Workers, Parse(w) PROVE TypeOK'
    <2>1. lattice[w] \in Places
      BY <1>5 DEF Parse, Held, TypeOK, Places
    <2>2. Kind[text[lattice[w]]] \in {"true", "false", "throws"}
      BY <2>1, KindAssumption DEF TypeOK, Places
    <2> QED
      BY <1>5, <2>2 DEF Parse, TypeOK, Places
  <1>6. ASSUME NEW w \in Workers, NEW from \in Outcomes, GoOn(w, from)
        PROVE  /\ i[w] \in Places /\ lattice[w] \in Places
               /\ i' \in [Workers -> 1 .. Len(text) + 1]
               /\ pc' \in [Workers -> {"free", "loop", "parse", "true", "false", "throws"}]
               /\ UNCHANGED <<text, ranges, end, lattice>>
    BY <1>6 DEF GoOn, Held, TypeOK, Places, Outcomes
  <1>7. ASSUME NEW w \in Workers, Store(w) PROVE TypeOK'
    <2>1. GoOn(w, "true") /\ results' = [results EXCEPT ![i[w]] = Tokens[text[lattice[w]]]] /\ warned' = warned
      BY <1>7 DEF Store
    <2>2. Tokens[text[lattice[w]]] \in Seq(Token)
      BY <2>1, <1>6, TokensAssumption DEF TypeOK, Places, Outcomes
    <2>3. results' \in [Places -> Seq(Token)]
      BY <2>1, <2>2 DEF TypeOK
    <2> QED
      BY <2>1, <2>3, <1>6 DEF TypeOK, Places, Outcomes
  <1>8. ASSUME NEW w \in Workers, NoResult(w) PROVE TypeOK'
    BY <1>8, <1>6 DEF NoResult, TypeOK, Places, Outcomes
  <1>9. ASSUME NEW w \in Workers, Warn(w) PROVE TypeOK'
    <2>1. i[w] \in Places
      BY <1>9, <1>6 DEF Warn, Outcomes
    <2>2. warned[i[w]] + 1 \in Nat
      BY <2>1 DEF TypeOK
    <2>3. warned' \in [Places -> Nat]
      BY <1>9, <2>2 DEF Warn, TypeOK
    <2> QED
      BY <1>9, <1>6, <2>3 DEF Warn, TypeOK, Places, Outcomes
  <1>10. CASE UNCHANGED vars
    BY <1>10 DEF vars, TypeOK, Places
  <1> QED
    BY <1>1, <1>2, <1>3, <1>4, <1>5, <1>7, <1>8, <1>9, <1>10 DEF Next, Work

(* A worker past set_sentence holds its own text, and knows its outcome. *)
LEMMA HeldStep ==
  ASSUME TypeOK, Held, [Next]_vars PROVE Held'
  <1>1. ASSUME NEW w \in Workers, Take(w) PROVE Held'
    BY <1>1 DEF Take, Held, TypeOK, Outcomes
  <1>2. ASSUME NEW w \in Workers, SetSentence(w) PROVE Held'
    BY <1>2 DEF SetSentence, LoopsOn, Held, TypeOK, Outcomes
  <1>3. ASSUME NEW w \in Workers, Parse(w) PROVE Held'
    <2>1. lattice[w] = i[w] /\ i[w] < end[w]
      BY <1>3 DEF Parse, Held
    <2> QED
      BY <1>3, <2>1 DEF Parse, Held, TypeOK, Outcomes
  <1>4. ASSUME NEW w \in Workers, NEW from \in Outcomes, GoOn(w, from) PROVE Held'
    BY <1>4 DEF GoOn, Held, TypeOK, Outcomes
  <1>5. ASSUME NEW w \in Workers, Finish(w) PROVE Held'
    BY <1>5 DEF Finish, Held, TypeOK, Outcomes
  <1>6. CASE UNCHANGED <<text, i, end, lattice, pc>>
    BY <1>6 DEF Held
  <1> QED
    BY <1>1, <1>2, <1>3, <1>4, <1>5, <1>6 DEF Next, Work, Split, Store, NoResult, Warn, Outcomes, vars

(* What a step does to the results and the warnings, by what is left. *)
Stays == /\ UNCHANGED <<text, results, warned>>
         /\ \A k \in Places : Left(k)' <=> Left(k)

DealsWith(k) ==
  /\ k \in Places /\ Left(k)
  /\ \A j \in Places : Left(j)' <=> Left(j) /\ j # k
  /\ results' = [results EXCEPT ![k] = Map!Alone(text[k])]
  /\ warned' = [warned EXCEPT ![k] = Due(text[k])]
  /\ text' = text

LEMMA StepsDealWithOne ==
  ASSUME IInv, [Next]_vars
  PROVE  Apart' /\ (Stays \/ \E k \in Places : DealsWith(k))
  <1> USE DEF IInv
  <1>1. CASE Split
    BY <1>1, SplitLeaves DEF Split, Stays
  <1>2. ASSUME NEW u \in Workers, Take(u) PROVE Apart' /\ Stays
    BY <1>2, TakeLeaves DEF Take, Stays
  <1>3. ASSUME NEW u \in Workers, Still(u) PROVE Apart' /\ Stays
    <2>1. \A w \in Workers, k \in Places : Has(w, k)' <=> Has(w, k)
      BY <1>3, StillLeaves
    <2>2. UNCHANGED <<text, ranges, results, warned>>
      BY <1>3, StillLeaves
    <2>3. Apart'
      BY <2>1, <2>2 DEF Apart, In, Places
    <2> QED
      BY <2>1, <2>2, <2>3 DEF Stays, Left, In
  <1>4. ASSUME NEW u \in Workers, NEW from \in Outcomes, GoOn(u, from) PROVE Apart'
    <2>1. \A w \in Workers, k \in Places : Has(w, k)' => Has(w, k)
      BY <1>4, GoOnTakesOne
    <2>2. UNCHANGED <<text, ranges>>
      BY <1>4 DEF GoOn
    <2> QED
      BY <2>1, <2>2 DEF Apart, In, Places
  <1>5. ASSUME NEW u \in Workers, Store(u) PROVE DealsWith(i[u])
    <2>1. GoOn(u, "true") /\ results' = [results EXCEPT ![i[u]] = Tokens[text[lattice[u]]]] /\ warned' = warned
      BY <1>5 DEF Store
    <2>2. /\ i[u] \in Places /\ Left(i[u]) /\ lattice[u] = i[u] /\ Kind[text[i[u]]] = "true"
          /\ \A k \in Places : Left(k)' <=> Left(k) /\ k # i[u]
      BY <2>1, GoOnTakesOne DEF Outcomes
    <2>3. warned' = [warned EXCEPT ![i[u]] = 0]
      BY <2>1, <2>2 DEF Slots, TypeOK
    <2> QED
      BY <2>1, <2>2, <2>3 DEF DealsWith, Due, Map!Alone, GoOn
  <1>6. ASSUME NEW u \in Workers, NoResult(u) PROVE DealsWith(i[u])
    <2>1. GoOn(u, "false") /\ results' = results /\ warned' = warned
      BY <1>6 DEF NoResult
    <2>2. /\ i[u] \in Places /\ Left(i[u]) /\ Kind[text[i[u]]] = "false"
          /\ \A k \in Places : Left(k)' <=> Left(k) /\ k # i[u]
      BY <2>1, GoOnTakesOne DEF Outcomes
    <2>3. /\ warned' = [warned EXCEPT ![i[u]] = 0]
          /\ results' = [results EXCEPT ![i[u]] = <<>>]
      BY <2>1, <2>2 DEF Slots, TypeOK
    <2> QED
      BY <2>1, <2>2, <2>3 DEF DealsWith, Due, Map!Alone, GoOn
  <1>7. ASSUME NEW u \in Workers, Warn(u) PROVE DealsWith(i[u])
    <2>1. GoOn(u, "throws") /\ results' = results /\ warned' = [warned EXCEPT ![i[u]] = @ + 1]
      BY <1>7 DEF Warn
    <2>2. /\ i[u] \in Places /\ Left(i[u]) /\ Kind[text[i[u]]] = "throws"
          /\ \A k \in Places : Left(k)' <=> Left(k) /\ k # i[u]
      BY <2>1, GoOnTakesOne DEF Outcomes
    <2>3. warned[i[u]] = 0 /\ results[i[u]] = <<>>
      BY <2>2 DEF Slots
    <2>4. warned[i[u]] + 1 = 1
      BY <2>3
    <2>5. warned' = [warned EXCEPT ![i[u]] = 1]
      BY <2>1, <2>4
    <2>6. results' = [results EXCEPT ![i[u]] = <<>>]
      BY <2>1, <2>3 DEF TypeOK
    <2> QED
      BY <2>1, <2>2, <2>5, <2>6 DEF DealsWith, Due, Map!Alone, GoOn
  <1>8. CASE UNCHANGED vars
    BY <1>8 DEF vars, Apart, Stays, Left, Has, In, Places
  <1>9. ASSUME NEW u \in Workers, Work(u)
        PROVE  Apart' /\ (Stays \/ \E k \in Places : DealsWith(k))
    <2>1. CASE Still(u)
      BY <2>1, <1>3
    <2>2. CASE Store(u)
      BY <2>2, <1>4, <1>5 DEF Store, DealsWith, Outcomes
    <2>3. CASE NoResult(u)
      BY <2>3, <1>4, <1>6 DEF NoResult, DealsWith, Outcomes
    <2>4. CASE Warn(u)
      BY <2>4, <1>4, <1>7 DEF Warn, DealsWith, Outcomes
    <2> QED
      BY <1>9, <2>1, <2>2, <2>3, <2>4 DEF Work, Still
  <1> QED
    BY <1>1, <1>2, <1>8, <1>9 DEF Next

(* The inductive invariant. *)
LEMMA Invariance == Spec => []IInv
  <1>1. Init => IInv
    <2> SUFFICES ASSUME Init PROVE IInv
      OBVIOUS
    <2>1. TypeOK /\ Held
      BY DEF Init, Start, TypeOK, Held, Places, Outcomes
    <2>2. Apart
      BY DEF Init, Start, Apart, In, Has
    <2>3. \A k \in Places : Left(k)
      BY DEF Init, Start, Left, In, Places
    <2>4. Slots
      BY <2>3 DEF Init, Start, Slots
    <2> QED
      BY <2>1, <2>2, <2>4 DEF IInv
  <1>2. IInv /\ [Next]_vars => IInv'
    <2> SUFFICES ASSUME IInv, [Next]_vars PROVE IInv'
      OBVIOUS
    <2>1. TypeOK' /\ Held'
      BY TypeStep, HeldStep DEF IInv
    <2>2. Apart' /\ (Stays \/ \E k \in Places : DealsWith(k))
      BY StepsDealWithOne
    <2>3. CASE Stays
      <3>1. Places' = Places
        BY <2>3 DEF Stays, Places
      <3>2. Slots'
        BY <2>3, <3>1 DEF IInv, Stays, Slots, Map!Alone, Due
      <3> QED
        BY <2>1, <2>2, <3>2 DEF IInv
    <2>4. ASSUME NEW k \in Places, DealsWith(k) PROVE Slots'
      <3>1. Places' = Places
        BY <2>4 DEF DealsWith, Places
      <3>2. ASSUME NEW j \in Places
            PROVE  /\ Left(j)' => results'[j] = <<>> /\ warned'[j] = 0
                   /\ ~Left(j)' => results'[j] = Map!Alone(text[j]) /\ warned'[j] = Due(text[j])
        <4>1. CASE j = k
          BY <2>4, <4>1 DEF DealsWith, IInv, TypeOK
        <4>2. CASE j # k
          BY <2>4, <4>2 DEF DealsWith, IInv, TypeOK, Slots
        <4> QED
          BY <4>1, <4>2
      <3> QED
        BY <2>4, <3>1, <3>2 DEF Slots, DealsWith
    <2> QED
      BY <2>1, <2>2, <2>3, <2>4 DEF IInv
  <1> QED
    BY <1>1, <1>2, PTL DEF Spec

(* Types: every place any worker or range names is one of the vector. *)
THEOREM TypeCorrect == Spec => []TypeOK
  <1>1. IInv => TypeOK
    BY DEF IInv
  <1> QED
    BY <1>1, Invariance, PTL

(* The workers write results_ without a lock, never two the same place. *)
THEOREM WorkersApart == Spec => []PlacesApart
  <1>1. IInv => PlacesApart
    <2> SUFFICES ASSUME IInv, NEW w \in Workers, NEW k \in Working(w)
                 PROVE  /\ \A v \in Workers \ {w} : k \notin Working(v)
                        /\ \A r \in ranges : k \notin r[1] .. r[2] - 1
      BY DEF PlacesApart
    <2>1. \A v \in Workers : \A j \in Working(v) : j \in Places /\ Has(v, j)
      BY DEF IInv, Working, Held, Has, TypeOK, Places, Outcomes
    <2>2. \A r \in ranges : k \in r[1] .. r[2] - 1 => In(k, r)
      BY <2>1 DEF IInv, TypeOK, In, Places
    <2> QED
      BY <2>1, <2>2 DEF IInv, Apart
  <1> QED
    BY <1>1, Invariance, PTL

(* When parallelFor has returned, exactly the texts that throw have been   *)
(* warned of, each once.                                                   *)
THEOREM WarningsRight == Spec => []EachWarnedOnce
  <1>1. IInv => EachWarnedOnce
    <2> SUFFICES ASSUME IInv, AllDone, NEW k \in Places
                 PROVE  warned[k] = IF Kind[text[k]] = "throws" THEN 1 ELSE 0
      BY DEF EachWarnedOnce
    <2>1. ~Left(k)
      BY DEF AllDone, Left, Has
    <2> QED
      BY <2>1 DEF IInv, Slots, Due
  <1> QED
    BY <1>1, Invariance, PTL

(* The parallel parse implements the loop over the texts. *)
THEOREM ParserImplementsTextMap == Spec => ImplementsTextMap
  <1>1. Init => Map!Init
    <2> SUFFICES ASSUME Init PROVE Map!Init
      OBVIOUS
    <2>1. TypeOK
      BY DEF Init, Start, TypeOK, Places
    <2>2. \A k \in Places : Left(k)
      BY DEF Init, Start, Left, In, Places
    <2>3. Places \ Pending = {}
      BY <2>1, <2>2, PendingIsLeft
    <2> QED
      BY <2>3 DEF Init, Start, Map!Init, Places
  <1>2. TypeOK => \A k \in Places : k \in Pending <=> Left(k)
    BY PendingIsLeft
  <1>3. (TypeOK => \A k \in Places : k \in Pending <=> Left(k))'
    BY <1>2, PTL
  <1>4. IInv /\ IInv' /\ [Next]_vars => [Map!Next]_<<text, Places \ Pending, results>>
    <2> SUFFICES ASSUME IInv, IInv', [Next]_vars
                 PROVE  [Map!Next]_<<text, Places \ Pending, results>>
      OBVIOUS
    <2>1. \A k \in Places : k \in Pending <=> Left(k)
      BY PendingIsLeft DEF IInv
    <2>2. \A k \in Places' : k \in Pending' <=> Left(k)'
      BY <1>3 DEF IInv
    <2>3. CASE Stays
      <3>1. Places' = Places
        BY <2>3 DEF Stays, Places
      <3>2. (Places \ Pending)' = Places \ Pending
        BY <2>1, <2>2, <2>3, <3>1 DEF Stays, IInv
      <3> QED
        BY <2>3, <3>2 DEF Stays
    <2>4. ASSUME NEW k \in Places, DealsWith(k) PROVE Map!Process(k)
      <3>1. Places' = Places
        BY <2>4 DEF DealsWith, Places
      <3>2. k \notin Places \ Pending
        BY <2>1, <2>4 DEF DealsWith
      <3>3. (Places \ Pending)' = (Places \ Pending) \cup {k}
        BY <2>1, <2>2, <2>4, <3>1 DEF DealsWith, IInv
      <3> QED
        BY <2>4, <3>2, <3>3 DEF DealsWith, Map!Process
    <2> QED
      BY <2>3, <2>4, StepsDealWithOne DEF Map!Next, Places
  <1> QED
    BY <1>1, <1>4, Invariance, PTL DEF Spec, ImplementsTextMap, Map!Spec
=============================================================================

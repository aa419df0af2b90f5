--------------------------- MODULE ModelSwapProofs ---------------------------
(***************************************************************************)
(* ModelImpl::swap against parsing, for any number of threads and objects: *)
(* a parse never analyses with a deleted object, however many swaps run;   *)
(* and with one swapping thread every object is deleted exactly once.      *)
(*                                                                         *)
(* AnalysesLive is not inductive.  What carries it: while a parse holds    *)
(* the lock the object it took is still viterbi_, and what a swap deletes  *)
(* is never viterbi_, because it was replaced first and no object comes    *)
(* back.                                                                   *)
(***************************************************************************)
EXTENDS ModelSwap, TLAPS

Pending(w)  == pc[w] \in {"lock", "replace"}
Replaced(w) == pc[w] \in {"type", "theta", "unlock", "delete"}

(* A writer holds the lock alone. *)
Exclusive == \A w \in writing : writing = {w} /\ reading = {}

UsesCurrent == \A p \in Parsers : pc[p] = "analyze" => using[p] = viterbi

(* Objects not yet swapped in are untouched and known to one call only.    *)
FreshIsNew ==
  /\ viterbi \notin fresh
  /\ \A o \in fresh : deleted[o] = 0
  /\ \A w \in Swappers : current_viterbi[w] \notin fresh

NewIsNew ==
  \A w \in Swappers : Pending(w) =>
    /\ new[w] \notin fresh /\ new[w] # viterbi /\ deleted[new[w]] = 0
    /\ \A u \in Swappers : current_viterbi[u] # new[w]
    /\ \A u \in Swappers : u # w /\ Pending(u) => new[u] # new[w]

ReplacedIsGone ==
  /\ deleted[viterbi] = 0
  /\ \A w \in Swappers : Replaced(w) => current_viterbi[w] # viterbi

IInv == Exclusive /\ UsesCurrent /\ FreshIsNew /\ NewIsNew /\ ReplacedIsGone

(* Type correctness; reading and writing are who is between lock and       *)
(* unlock.                                                                 *)
THEOREM TypeCorrect == Spec => []TypeOK
  <1>1. Init => TypeOK
    <2> SUFFICES ASSUME Init PROVE TypeOK
      OBVIOUS
    <2>1. settings \in Settings
      BY ObjectsAssumption DEF Init, Settings
    <2>2. tagger \in [Parsers -> Settings]
      BY <2>1 DEF Init
    <2>3. /\ pc \in [Parsers \cup Swappers -> {"idle", "none"}]
          /\ reading = {} /\ writing = {}
      BY DEF Init, Lock!Init
    <2>4. /\ viterbi \in Objects /\ fresh \subseteq Objects
          /\ deleted \in [Objects -> Nat]
          /\ current_viterbi \in [Swappers -> Objects]
          /\ new \in [Swappers -> Objects]
          /\ using \in [Parsers -> Objects]
      BY ObjectsAssumption DEF Init
    <2> QED
      BY <2>1, <2>2, <2>3, <2>4 DEF TypeOK
  <1>2. TypeOK /\ [Next]_vars => TypeOK'
    <2> SUFFICES ASSUME TypeOK, [Next]_vars PROVE TypeOK'
      OBVIOUS
    <2> USE ActorsAssumption
    <2>1. ASSUME NEW w \in Swappers, SwapRead(w) PROVE TypeOK'
      BY <2>1 DEF SwapRead, Step, TypeOK, lockVars
    <2>2. ASSUME NEW w \in Swappers, SwapLock(w) PROVE TypeOK'
      BY <2>2 DEF SwapLock, Step, TypeOK, Lock!AcquireWrite
    <2>3. ASSUME NEW w \in Swappers, SwapViterbi(w) PROVE TypeOK'
      BY <2>3 DEF SwapViterbi, Step, TypeOK, lockVars
    <2>4. ASSUME NEW w \in Swappers, SwapRequestType(w) PROVE TypeOK'
      BY <2>4 DEF SwapRequestType, Step, TypeOK, Settings, lockVars
    <2>5. ASSUME NEW w \in Swappers, SwapTheta(w) PROVE TypeOK'
      BY <2>5 DEF SwapTheta, Step, TypeOK, Settings, lockVars
    <2>6. ASSUME NEW w \in Swappers, SwapUnlock(w) PROVE TypeOK'
      BY <2>6 DEF SwapUnlock, Step, TypeOK, Lock!ReleaseWrite
    <2>7. ASSUME NEW w \in Swappers, SwapDelete(w) PROVE TypeOK'
      BY <2>7 DEF SwapDelete, Step, TypeOK, lockVars
    <2>8. ASSUME NEW p \in Parsers, CreateTaggerTheta(p) PROVE TypeOK'
      BY <2>8 DEF CreateTaggerTheta, Step, TypeOK, Settings, lockVars
    <2>9. ASSUME NEW p \in Parsers, CreateTaggerRequestType(p) PROVE TypeOK'
      BY <2>9 DEF CreateTaggerRequestType, Step, TypeOK, Settings, lockVars
    <2>10. ASSUME NEW p \in Parsers, ParseLock(p) PROVE TypeOK'
      BY <2>10 DEF ParseLock, TypeOK, Lock!AcquireRead
    <2>11. ASSUME NEW p \in Parsers, ParseAnalyze(p) PROVE TypeOK'
      BY <2>11 DEF ParseAnalyze, Step, TypeOK, lockVars
    <2>12. ASSUME NEW p \in Parsers, ParseUnlock(p) PROVE TypeOK'
      BY <2>12 DEF ParseUnlock, Step, TypeOK, Lock!ReleaseRead
    <2>13. CASE UNCHANGED vars
      BY <2>13 DEF vars, TypeOK
    <2> QED
      BY <2>1, <2>2, <2>3, <2>4, <2>5, <2>6, <2>7, <2>8, <2>9, <2>10, <2>11, <2>12, <2>13
         DEF Next, Swap, Parse
  <1> QED
    BY <1>1, <1>2, PTL DEF Spec

(* Steps that touch neither the objects nor the swaps keep the invariant.  *)
LEMMA ParserSteps ==
  ASSUME TypeOK, TypeOK', IInv, NEW p \in Parsers, Parse(p)
  PROVE  IInv'
  <1> USE ActorsAssumption DEF TypeOK
  <1>1. /\ viterbi' = viterbi /\ fresh' = fresh /\ deleted' = deleted
        /\ current_viterbi' = current_viterbi /\ new' = new /\ writing' = writing
        /\ \A w \in Swappers : pc'[w] = pc[w]
    BY DEF Parse, CreateTaggerTheta, CreateTaggerRequestType, ParseLock, ParseAnalyze,
           ParseUnlock, Step, lockVars, Lock!AcquireRead, Lock!ReleaseRead
  <1>2. Exclusive'
    <2>1. CASE ParseLock(p)
      BY <2>1 DEF ParseLock, Lock!AcquireRead, IInv, Exclusive
    <2>2. CASE ~ParseLock(p)
      <3>1. reading' \subseteq reading
        BY <2>2 DEF Parse, CreateTaggerTheta, CreateTaggerRequestType, ParseAnalyze,
                    ParseUnlock, lockVars, Lock!ReleaseRead
      <3> QED
        BY <1>1, <3>1 DEF IInv, Exclusive
    <2> QED
      BY <2>1, <2>2
  <1>3. UsesCurrent'
    <2>1. CASE ParseAnalyze(p)
      BY <1>1, <2>1 DEF ParseAnalyze, Step, IInv, UsesCurrent
    <2>2. CASE ~ParseAnalyze(p)
      <3>1. using' = using /\ \A q \in Parsers : pc'[q] = "analyze" => pc[q] = "analyze"
        BY <2>2 DEF Parse, CreateTaggerTheta, CreateTaggerRequestType, ParseLock,
                    ParseUnlock, Step
      <3> QED
        BY <1>1, <3>1 DEF IInv, UsesCurrent
    <2> QED
      BY <2>1, <2>2
  <1>4. FreshIsNew' /\ NewIsNew' /\ ReplacedIsGone'
    BY <1>1 DEF IInv, FreshIsNew, NewIsNew, ReplacedIsGone, Pending, Replaced
  <1> QED
    BY <1>2, <1>3, <1>4 DEF IInv

LEMMA SwapperSteps ==
  ASSUME TypeOK, TypeOK', IInv, NEW w \in Swappers, Swap(w)
  PROVE  IInv'
  <1> USE ActorsAssumption DEF TypeOK
  <1>0. /\ using' = using /\ reading' = reading
        /\ \A p \in Parsers : pc'[p] = pc[p]
        /\ \A u \in Swappers : u # w => pc'[u] = pc[u]
    BY DEF Swap, SwapRead, SwapLock, SwapViterbi, SwapRequestType, SwapTheta,
           SwapUnlock, SwapDelete, Step, lockVars, Lock!AcquireWrite, Lock!ReleaseWrite
  <1>1. CASE SwapRead(w)
    <2>1. PICK o \in fresh : new' = [new EXCEPT ![w] = o] /\ fresh' = fresh \ {o}
      BY <1>1 DEF SwapRead
    <2>2. /\ current_viterbi' = [current_viterbi EXCEPT ![w] = viterbi]
          /\ viterbi' = viterbi /\ deleted' = deleted /\ writing' = writing
          /\ pc[w] = "idle" /\ pc'[w] = "lock"
      BY <1>1 DEF SwapRead, Step, lockVars
    <2>3. Exclusive' /\ UsesCurrent'
      BY <1>0, <2>2 DEF IInv, Exclusive, UsesCurrent
    <2>4. FreshIsNew'
      BY <2>1, <2>2 DEF IInv, FreshIsNew
    <2>5. \A u \in Swappers : Pending(u)' => u = w \/ Pending(u)
      BY <1>0 DEF Pending
    <2>6. \A u \in Swappers : current_viterbi'[u] # o /\ (Pending(u) => new[u] # o)
      BY <2>1, <2>2 DEF IInv, FreshIsNew, NewIsNew
    <2>7. NewIsNew'
      <3> SUFFICES ASSUME NEW u \in Swappers, Pending(u)'
                   PROVE  /\ new'[u] \notin fresh' /\ new'[u] # viterbi' /\ deleted'[new'[u]] = 0
                          /\ \A v \in Swappers : current_viterbi'[v] # new'[u]
                          /\ \A v \in Swappers : v # u /\ Pending(v)' => new'[v] # new'[u]
        BY DEF NewIsNew, Pending
      <3>1. CASE u = w
        BY <2>1, <2>2, <2>5, <2>6, <3>1 DEF IInv, FreshIsNew
      <3>2. CASE u # w
        <4>1. Pending(u) /\ new'[u] = new[u] /\ new[u] # o /\ new'[w] = o
          BY <2>1, <2>5, <2>6, <3>2
        <4>2. \A v \in Swappers : current_viterbi'[v] # new'[u]
          BY <2>2, <4>1 DEF IInv, NewIsNew
        <4>3. \A v \in Swappers : v # u /\ Pending(v)' => new'[v] # new'[u]
          BY <2>1, <2>5, <4>1 DEF IInv, NewIsNew
        <4> QED
          BY <2>1, <2>2, <4>1, <4>2, <4>3 DEF IInv, NewIsNew
      <3> QED
        BY <3>1, <3>2
    <2>8. ReplacedIsGone'
      BY <1>0, <2>2 DEF IInv, ReplacedIsGone, Replaced
    <2> QED
      BY <2>3, <2>4, <2>7, <2>8 DEF IInv
  <1>2. CASE SwapLock(w)
    <2>1. /\ viterbi' = viterbi /\ fresh' = fresh /\ deleted' = deleted
          /\ current_viterbi' = current_viterbi /\ new' = new
          /\ pc[w] = "lock" /\ pc'[w] = "replace"
          /\ writing' = {w} /\ reading' = {}
      BY <1>2 DEF SwapLock, Step, Lock!AcquireWrite
    <2> QED
      BY <1>0, <2>1 DEF IInv, Exclusive, UsesCurrent, FreshIsNew, NewIsNew, ReplacedIsGone,
                        Pending, Replaced
  <1>3. CASE SwapViterbi(w)
    <2>1. /\ viterbi' = new[w] /\ fresh' = fresh /\ deleted' = deleted
          /\ current_viterbi' = current_viterbi /\ new' = new /\ writing' = writing
          /\ pc[w] = "replace" /\ pc'[w] = "type" /\ Pending(w)
      BY <1>3 DEF SwapViterbi, Step, lockVars, Pending
    <2>2. w \in writing
      BY <2>1
    <2>3. reading = {}
      BY <2>2 DEF IInv, Exclusive
    <2>4. Exclusive' /\ UsesCurrent'
      BY <1>0, <2>1, <2>3 DEF IInv, Exclusive, UsesCurrent
    <2>5. FreshIsNew' /\ ReplacedIsGone'
      BY <1>0, <2>1 DEF IInv, FreshIsNew, NewIsNew, ReplacedIsGone, Replaced
    <2>6. \A u \in Swappers : Pending(u)' => Pending(u) /\ u # w
      BY <1>0, <2>1 DEF Pending
    <2>7. NewIsNew'
      BY <2>1, <2>6 DEF IInv, NewIsNew
    <2> QED
      BY <2>4, <2>5, <2>7 DEF IInv
  <1>4. CASE SwapRequestType(w) \/ SwapTheta(w) \/ SwapUnlock(w)
    <2>1. /\ viterbi' = viterbi /\ fresh' = fresh /\ deleted' = deleted
          /\ current_viterbi' = current_viterbi /\ new' = new
          /\ writing' \subseteq writing
          /\ Replaced(w) /\ ~Pending(w)'
      BY <1>4 DEF SwapRequestType, SwapTheta, SwapUnlock, Step, lockVars, Lock!ReleaseWrite,
                  Pending, Replaced
    <2>2. \A u \in Swappers : /\ Pending(u)' => Pending(u)
                              /\ Replaced(u)' => Replaced(u)
      BY <1>0, <2>1 DEF Pending, Replaced
    <2> QED
      BY <1>0, <2>1, <2>2 DEF IInv, Exclusive, UsesCurrent, FreshIsNew, NewIsNew, ReplacedIsGone
  <1>5. CASE SwapDelete(w)
    <2> DEFINE o == current_viterbi[w]
    <2>1. /\ viterbi' = viterbi /\ fresh' = fresh
          /\ deleted' = [deleted EXCEPT ![o] = @ + 1]
          /\ current_viterbi' = current_viterbi /\ new' = new /\ writing' = writing
          /\ Replaced(w) /\ pc'[w] = "idle"
      BY <1>5 DEF SwapDelete, Step, lockVars, Replaced
    <2>2. o # viterbi /\ o \notin fresh
      BY <2>1 DEF IInv, ReplacedIsGone, FreshIsNew
    <2>3. \A u \in Swappers : /\ Pending(u)' => Pending(u)
                              /\ Replaced(u)' => Replaced(u)
      BY <1>0, <2>1 DEF Pending, Replaced
    <2>4. \A x \in Objects : x # o => deleted'[x] = deleted[x]
      BY <2>1
    <2>5. FreshIsNew' /\ ReplacedIsGone'
      BY <2>1, <2>2, <2>3, <2>4 DEF IInv, FreshIsNew, ReplacedIsGone
    <2>6. NewIsNew'
      BY <2>1, <2>3, <2>4 DEF IInv, NewIsNew
    <2>7. Exclusive' /\ UsesCurrent'
      BY <1>0, <2>1 DEF IInv, Exclusive, UsesCurrent
    <2> QED
      BY <2>5, <2>6, <2>7 DEF IInv
  <1> QED
    BY <1>1, <1>2, <1>3, <1>4, <1>5 DEF Swap

LEMMA InvariantHolds == Spec => []IInv
  <1>1. Init => IInv
    BY ObjectsAssumption, ActorsAssumption
       DEF Init, Lock!Init, IInv, Exclusive, UsesCurrent, FreshIsNew, NewIsNew,
           ReplacedIsGone, Pending, Replaced
  <1>2. TypeOK /\ TypeOK' /\ IInv /\ [Next]_vars => IInv'
    <2> SUFFICES ASSUME TypeOK, TypeOK', IInv, [Next]_vars PROVE IInv'
      OBVIOUS
    <2>1. CASE UNCHANGED vars
      BY <2>1 DEF vars, IInv, Exclusive, UsesCurrent, FreshIsNew, NewIsNew, ReplacedIsGone,
                  Pending, Replaced
    <2> QED
      BY <2>1, ParserSteps, SwapperSteps DEF Next
  <1> QED
    BY <1>1, <1>2, TypeCorrect, PTL DEF Spec

(* No parse analyses with a deleted object, whatever swaps go on.          *)
THEOREM ParsesLive == Spec => []AnalysesLive
  <1>1. TypeOK /\ IInv => AnalysesLive
    BY DEF IInv, UsesCurrent, ReplacedIsGone, AnalysesLive
  <1> QED
    BY <1>1, TypeCorrect, InvariantHolds, PTL
-----------------------------------------------------------------------------
(* With a sole swapping thread w: who is still to be deleted.              *)
Alive(w) ==
  fresh \cup {viterbi} \cup (IF Pending(w) THEN {new[w]} ELSE {})
        \cup (IF Replaced(w) THEN {current_viterbi[w]} ELSE {})

Accounted(w) ==
  /\ Pending(w) => current_viterbi[w] = viterbi
  /\ \A o \in Objects : deleted[o] = IF o \in Alive(w) THEN 0 ELSE 1

(* One thread that swaps deletes every replaced object exactly once.       *)
THEOREM SoleSwapperDeletesOnce ==
  ASSUME NEW w, Swappers = {w}
  PROVE  Spec => []DeletedOnce
  <1> USE ActorsAssumption
  <1>1. Init => Accounted(w)
    BY ObjectsAssumption DEF Init, Accounted, Alive, Pending, Replaced
  <1>2. TypeOK /\ IInv /\ Accounted(w) /\ [Next]_vars => Accounted(w)'
    <2> SUFFICES ASSUME TypeOK, IInv, Accounted(w), [Next]_vars PROVE Accounted(w)'
      OBVIOUS
    <2> USE DEF TypeOK
    <2>1. CASE SwapRead(w)
      <3>1. PICK o \in fresh : new' = [new EXCEPT ![w] = o] /\ fresh' = fresh \ {o}
        BY <2>1 DEF SwapRead
      <3>2. /\ current_viterbi' = [current_viterbi EXCEPT ![w] = viterbi]
            /\ viterbi' = viterbi /\ deleted' = deleted
            /\ ~Pending(w) /\ ~Replaced(w) /\ Pending(w)' /\ ~Replaced(w)'
        BY <2>1 DEF SwapRead, Step, Pending, Replaced
      <3>3. Alive(w)' = Alive(w)
        BY <3>1, <3>2 DEF Alive
      <3> QED
        BY <3>2, <3>3 DEF Accounted
    <2>2. CASE SwapLock(w)
      <3>1. /\ Pending(w) /\ Pending(w)' /\ ~Replaced(w) /\ ~Replaced(w)'
            /\ UNCHANGED <<viterbi, fresh, deleted, current_viterbi, new>>
        BY <2>2 DEF SwapLock, Step, Pending, Replaced
      <3> QED
        BY <3>1 DEF Accounted, Alive
    <2>3. CASE SwapViterbi(w)
      <3>1. /\ Pending(w) /\ ~Pending(w)' /\ ~Replaced(w) /\ Replaced(w)'
            /\ viterbi' = new[w]
            /\ UNCHANGED <<fresh, deleted, current_viterbi, new>>
        BY <2>3 DEF SwapViterbi, Step, Pending, Replaced
      <3>2. Alive(w)' = Alive(w)
        BY <3>1 DEF Alive, Accounted
      <3> QED
        BY <3>1, <3>2 DEF Accounted
    <2>4. CASE SwapRequestType(w) \/ SwapTheta(w) \/ SwapUnlock(w)
      <3>1. /\ ~Pending(w) /\ ~Pending(w)' /\ Replaced(w) /\ Replaced(w)'
            /\ UNCHANGED <<viterbi, fresh, deleted, current_viterbi, new>>
        BY <2>4 DEF SwapRequestType, SwapTheta, SwapUnlock, Step, Pending, Replaced
      <3> QED
        BY <3>1 DEF Accounted, Alive
    <2>5. CASE SwapDelete(w)
      <3> DEFINE c == current_viterbi[w]
      <3>1. /\ ~Pending(w) /\ ~Pending(w)' /\ Replaced(w) /\ ~Replaced(w)'
            /\ deleted' = [deleted EXCEPT ![c] = @ + 1]
            /\ UNCHANGED <<viterbi, fresh, current_viterbi, new>>
        BY <2>5 DEF SwapDelete, Step, Pending, Replaced
      <3>2. c # viterbi /\ c \notin fresh /\ c \in Objects
        BY <3>1 DEF IInv, ReplacedIsGone, FreshIsNew
      <3>3. c \in Alive(w) /\ Alive(w)' = Alive(w) \ {c}
        BY <3>1, <3>2 DEF Alive
      <3> QED
        BY <3>1, <3>2, <3>3 DEF Accounted
    <2>6. CASE UNCHANGED vars
      BY <2>6 DEF vars, Accounted, Alive, Pending, Replaced
    <2>7. ASSUME NEW p \in Parsers, Parse(p) PROVE Accounted(w)'
      <3>1. /\ UNCHANGED <<viterbi, fresh, deleted, current_viterbi, new>>
            /\ pc'[w] = pc[w]
        BY <2>7 DEF Parse, CreateTaggerTheta, CreateTaggerRequestType, ParseLock,
                    ParseAnalyze, ParseUnlock, Step
      <3> QED
        BY <3>1 DEF Accounted, Alive, Pending, Replaced
    <2> QED
      BY <2>1, <2>2, <2>3, <2>4, <2>5, <2>6, <2>7 DEF Next, Swap
  <1>3. TypeOK /\ Accounted(w) => DeletedOnce
    <2> SUFFICES ASSUME TypeOK, Accounted(w) PROVE DeletedOnce
      OBVIOUS
    <2>1. viterbi \in Alive(w) /\ viterbi \in Objects
      BY DEF Alive, TypeOK
    <2>2. pc[w] = "idle" => Alive(w) = fresh \cup {viterbi}
      BY DEF Alive, Pending, Replaced
    <2> QED
      BY <2>1, <2>2 DEF Accounted, DeletedOnce
  <1> QED
    BY <1>1, <1>2, <1>3, TypeCorrect, InvariantHolds, PTL DEF Spec
=============================================================================

------------------------------ MODULE TextParser ------------------------------
(***************************************************************************)
(* TextParser of src/src/posParallel.cpp: the worker threads that parse    *)
(* the texts of one call of posParallelRcpp, each with a tagger and a      *)
(* lattice of its own, all into one vector of results.                     *)
(* Places in vectors count from 1.  The analysis of a text is what parse   *)
(* makes of the sentence the lattice holds (see ViterbiLattice).           *)
(***************************************************************************)
EXTENDS Integers, Sequences

CONSTANTS Workers, Texts, Token, Kind, Tokens, grain_size

ASSUME KindAssumption == Kind \in [Texts -> {"true", "false", "throws"}]
ASSUME TokensAssumption == Tokens \in [Texts -> Seq(Token)]
ASSUME GrainAssumption == grain_size \in Nat \ {0}

VARIABLES
  text,     \* sentences_
  ranges,   \* what parallelFor has not handed to a worker yet
  i, end,   \* the loop of each worker
  lattice,  \* the place of the text each worker's lattice holds, 0 if none
  results,  \* results_
  warned,   \* how often each place has been warned of
  pc

vars == <<text, ranges, i, end, lattice, results, warned, pc>>

Places == 1 .. Len(text)

Start ==
  /\ ranges = {<<1, Len(text) + 1>>}
  /\ i = [w \in Workers |-> 1]
  /\ end = [w \in Workers |-> 1]
  /\ lattice = [w \in Workers |-> 0]
  /\ results = [k \in Places |-> <<>>]
  /\ warned = [k \in Places |-> 0]
  /\ pc = [w \in Workers |-> "free"]

Init == text \in Seq(Texts) /\ Start

(* parallelFor: divides ranges above the grain size anywhere, or not, and  *)
(* calls the workers with them in any order.                               *)
Split ==
  \E r \in ranges :
     /\ r[2] - r[1] > grain_size
     /\ \E m \in r[1] + 1 .. r[2] - 1 :
          ranges' = (ranges \ {r}) \cup {<<r[1], m>>, <<m, r[2]>>}
     /\ UNCHANGED <<text, i, end, lattice, results, warned, pc>>

Take(w) ==
  /\ pc[w] = "free"
  /\ \E r \in ranges :
       /\ ranges' = ranges \ {r}
       /\ i' = [i EXCEPT ![w] = r[1]]
       /\ end' = [end EXCEPT ![w] = r[2]]
  /\ lattice' = [lattice EXCEPT ![w] = 0]
  /\ pc' = [pc EXCEPT ![w] = "loop"]
  /\ UNCHANGED <<text, results, warned>>

LoopsOn(w) == i[w] < end[w]

SetSentenceShared(w) ==  \* a fault: one lattice for all workers
  /\ pc[w] = "loop" /\ LoopsOn(w)
  /\ lattice' = [v \in Workers |-> i[w]]
  /\ pc' = [pc EXCEPT ![w] = "parse"]
  /\ UNCHANGED <<text, ranges, i, end, results, warned>>

SetSentence(w) ==
  /\ pc[w] = "loop" /\ LoopsOn(w)
  /\ lattice' = [lattice EXCEPT ![w] = i[w]]
  /\ pc' = [pc EXCEPT ![w] = "parse"]
  /\ UNCHANGED <<text, ranges, i, end, results, warned>>

Parse(w) ==
  /\ pc[w] = "parse"
  /\ pc' = [pc EXCEPT ![w] = Kind[text[lattice[w]]]]
  /\ UNCHANGED <<text, ranges, i, end, lattice, results, warned>>

GoOn(w, from) ==
  /\ pc[w] = from
  /\ i' = [i EXCEPT ![w] = @ + 1]
  /\ pc' = [pc EXCEPT ![w] = "loop"]
  /\ UNCHANGED <<text, ranges, end, lattice>>

(* results_[i] = parsed, the tokens read from the lattice. *)
Store(w) ==
  /\ GoOn(w, "true")
  /\ results' = [results EXCEPT ![i[w]] = Tokens[text[lattice[w]]]]
  /\ UNCHANGED warned

NoResultWarning(w) ==  \* a fault
  GoOn(w, "false") /\ warned' = [warned EXCEPT ![i[w]] = @ + 1] /\ UNCHANGED results

NoResult(w) == GoOn(w, "false") /\ UNCHANGED <<results, warned>>

WarnAndRetry(w) ==  \* a fault: the same text again
  /\ pc[w] = "throws"
  /\ warned' = [warned EXCEPT ![i[w]] = 1]
  /\ pc' = [pc EXCEPT ![w] = "loop"]
  /\ UNCHANGED <<text, ranges, i, end, lattice, results>>

Warn(w) ==
  /\ GoOn(w, "throws")
  /\ warned' = [warned EXCEPT ![i[w]] = @ + 1]
  /\ UNCHANGED results

Finish(w) ==
  /\ pc[w] = "loop" /\ ~LoopsOn(w)
  /\ pc' = [pc EXCEPT ![w] = "free"]
  /\ UNCHANGED <<text, ranges, i, end, lattice, results, warned>>

Work(w) == SetSentence(w) \/ Parse(w) \/ Store(w) \/ NoResult(w) \/ Warn(w) \/ Finish(w)

Next == Split \/ \E w \in Workers : Take(w) \/ Work(w)

(* parallelFor returns when all ranges have been worked through: its       *)
(* threads run on and take what is left.                                   *)
Fairness == /\ \A w \in Workers : WF_vars(Work(w))
            /\ WF_vars(\E w \in Workers : Take(w))

Spec == Init /\ [][Next]_vars
-----------------------------------------------------------------------------
AllDone == ranges = {} /\ \A w \in Workers : pc[w] = "free"

(* Type invariant. *)
TypeOK ==
  /\ text \in Seq(Texts)
  /\ ranges \subseteq (1 .. Len(text) + 1) \X (1 .. Len(text) + 1)
  /\ i \in [Workers -> 1 .. Len(text) + 1]
  /\ end \in [Workers -> 1 .. Len(text) + 1]
  /\ lattice \in [Workers -> 0 .. Len(text)]
  /\ results \in [Places -> Seq(Token)]
  /\ warned \in [Places -> Nat]
  /\ pc \in [Workers -> {"free", "loop", "parse", "true", "false", "throws"}]

(* The place a worker is dealing with. *)
Working(w) == {k \in {i[w]} : pc[w] \in {"parse", "true", "false", "throws"}}

(* No two workers ever work on the same place of results_, which they      *)
(* write without a lock, and none on a place not handed out yet.           *)
PlacesApart ==
  \A w \in Workers : \A k \in Working(w) :
    /\ \A v \in Workers \ {w} : k \notin Working(v)
    /\ \A r \in ranges : k \notin r[1] .. r[2] - 1

(* Every text whose analysis throws is warned of once, by its own number,  *)
(* and no other; the ones behind it are parsed all the same.               *)
EachWarnedOnce ==
  AllDone => \A k \in Places : warned[k] = IF Kind[text[k]] = "throws" THEN 1 ELSE 0

(* The places that are dealt with, for the map. *)
Owned(w) == IF pc[w] = "free" THEN {} ELSE i[w] .. end[w] - 1
Pending == (UNION {r[1] .. r[2] - 1 : r \in ranges}) \cup (UNION {Owned(w) : w \in Workers})

Map == INSTANCE TextMap WITH done <- Places \ Pending

(* The workers do what a loop over the texts does, however parallelFor     *)
(* divides the work and in whatever order they run.                        *)
ImplementsTextMap == Map!Spec

(* parallelFor returns. *)
Returns == <>AllDone
=============================================================================

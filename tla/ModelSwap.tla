------------------------------ MODULE ModelSwap ------------------------------
(***************************************************************************)
(* ModelImpl::swap of src/src/tagger.cpp against the taggers that parse    *)
(* with the model meanwhile.  The lock is what RWLock promises; its calls  *)
(* in swap are the ones of scoped_writer_lock, in parse(Lattice* ) of      *)
(* scoped_reader_lock.  Reads and writes outside the lock are actions of   *)
(* their own.                                                              *)
(***************************************************************************)
EXTENDS Naturals

CONSTANTS Parsers,   \* threads that create a tagger and parse with it
          Swappers,  \* threads that call swap on the model
          Objects,   \* Viterbi objects, each with the settings of its model
          First      \* the one the model was opened with

ASSUME ObjectsAssumption == First \in Objects
ASSUME ActorsAssumption == Parsers \cap Swappers = {}

VARIABLES
  viterbi,          \* ModelImpl::viterbi_
  settings,         \* request_type_ and theta_, by the object they came with
  fresh,            \* objects of models no swap has been called with
  deleted,          \* how often each object has been deleted
  current_viterbi,  \* the local of swap
  new,              \* the viterbi_ of the model passed to swap
  using,            \* the object a parse analyses with, or has analysed with
  tagger,           \* the settings of each thread's TaggerImpl
  reading, writing, \* the lock
  pc

lockVars == <<reading, writing>>
vars == <<viterbi, settings, fresh, deleted, current_viterbi, new, using, tagger,
          reading, writing, pc>>

Lock == INSTANCE RWLock WITH Readers <- Parsers, Writers <- Swappers

Init ==
  /\ viterbi = First
  /\ settings = [request_type |-> First, theta |-> First]
  /\ fresh = Objects \ {First}
  /\ deleted = [o \in Objects |-> 0]
  /\ current_viterbi = [w \in Swappers |-> First]
  /\ new = [w \in Swappers |-> First]
  /\ using = [p \in Parsers |-> First]
  /\ tagger = [p \in Parsers |-> settings]
  /\ Lock!Init
  /\ pc = [t \in Parsers \cup Swappers |-> IF t \in Swappers THEN "idle" ELSE "none"]

Step(t, from, to) == pc[t] = from /\ pc' = [pc EXCEPT ![t] = to]

(* swap(m): the tests pass, m being a model that was opened and not        *)
(* swapped before; the old object is read before the lock is taken.        *)
SwapRead(w) ==
  /\ Step(w, "idle", "lock")
  /\ \E o \in fresh : new' = [new EXCEPT ![w] = o] /\ fresh' = fresh \ {o}
  /\ current_viterbi' = [current_viterbi EXCEPT ![w] = viterbi]
  /\ UNCHANGED <<viterbi, settings, deleted, using, tagger, lockVars>>

SwapLock(w) ==
  /\ Step(w, "lock", "replace")
  /\ Lock!AcquireWrite(w)
  /\ UNCHANGED <<viterbi, settings, fresh, deleted, current_viterbi, new, using, tagger>>

SwapViterbi(w) ==
  /\ Step(w, "replace", "type")
  /\ viterbi' = new[w]
  /\ UNCHANGED <<settings, fresh, deleted, current_viterbi, new, using, tagger, lockVars>>

SwapRequestType(w) ==
  /\ Step(w, "type", "theta")
  /\ settings' = [settings EXCEPT !.request_type = new[w]]
  /\ UNCHANGED <<viterbi, fresh, deleted, current_viterbi, new, using, tagger, lockVars>>

SwapTheta(w) ==
  /\ Step(w, "theta", "unlock")
  /\ settings' = [settings EXCEPT !.theta = new[w]]
  /\ UNCHANGED <<viterbi, fresh, deleted, current_viterbi, new, using, tagger, lockVars>>

(* Faults: deleting the current object before unlocking; deleting the one  *)
(* given away too.                                                         *)
SwapUnlockDeleting(w) ==
  /\ Step(w, "unlock", "delete")
  /\ Lock!ReleaseWrite(w)
  /\ deleted' = [deleted EXCEPT ![viterbi] = @ + 1]
  /\ UNCHANGED <<viterbi, settings, fresh, current_viterbi, new, using, tagger>>

SwapDeleteBoth(w) ==
  /\ Step(w, "delete", "idle")
  /\ deleted' = [o \in Objects |-> IF o \in {current_viterbi[w], new[w]} THEN deleted[o] + 1
                                                                         ELSE deleted[o]]
  /\ UNCHANGED <<viterbi, settings, fresh, current_viterbi, new, using, tagger, lockVars>>

SwapUnlock(w) ==
  /\ Step(w, "unlock", "delete")
  /\ Lock!ReleaseWrite(w)
  /\ UNCHANGED <<viterbi, settings, fresh, deleted, current_viterbi, new, using, tagger>>

(* delete current_viterbi; deleting m deletes no object, it gave its own   *)
(* away in take_viterbi.                                                   *)
SwapDelete(w) ==
  /\ Step(w, "delete", "idle")
  /\ deleted' = [deleted EXCEPT ![current_viterbi[w]] = @ + 1]
  /\ UNCHANGED <<viterbi, settings, fresh, current_viterbi, new, using, tagger, lockVars>>

(* createTagger: copies theta and then the request type, without the lock. *)
CreateTaggerTheta(p) ==
  /\ Step(p, "none", "creating")
  /\ tagger' = [tagger EXCEPT ![p].theta = settings.theta]
  /\ UNCHANGED <<viterbi, settings, fresh, deleted, current_viterbi, new, using, lockVars>>

CreateTaggerRequestType(p) ==
  /\ Step(p, "creating", "created")
  /\ tagger' = [tagger EXCEPT ![p].request_type = settings.request_type]
  /\ UNCHANGED <<viterbi, settings, fresh, deleted, current_viterbi, new, using, lockVars>>

(* TaggerImpl::parse(Lattice* ); the nodes of an earlier result are given  *)
(* up by set_sentence before.                                              *)
ParseLock(p) ==
  /\ pc[p] \in {"created", "parsed"} /\ pc' = [pc EXCEPT ![p] = "locked"]
  /\ Lock!AcquireRead(p)
  /\ UNCHANGED <<viterbi, settings, fresh, deleted, current_viterbi, new, using, tagger>>

ParseAnalyze(p) ==
  /\ Step(p, "locked", "analyze")
  /\ using' = [using EXCEPT ![p] = viterbi]
  /\ UNCHANGED <<viterbi, settings, fresh, deleted, current_viterbi, new, tagger, lockVars>>

ParseUnlock(p) ==
  /\ Step(p, "analyze", "parsed")
  /\ Lock!ReleaseRead(p)
  /\ UNCHANGED <<viterbi, settings, fresh, deleted, current_viterbi, new, using, tagger>>

Swap(w) == \/ SwapRead(w) \/ SwapLock(w) \/ SwapViterbi(w) \/ SwapRequestType(w)
           \/ SwapTheta(w) \/ SwapUnlock(w) \/ SwapDelete(w)
Parse(p) == \/ CreateTaggerTheta(p) \/ CreateTaggerRequestType(p)
            \/ ParseLock(p) \/ ParseAnalyze(p) \/ ParseUnlock(p)

Next == (\E w \in Swappers : Swap(w)) \/ (\E p \in Parsers : Parse(p))

Spec == Init /\ [][Next]_vars

-----------------------------------------------------------------------------
Settings == [request_type : Objects, theta : Objects]

(* Type invariant. *)
TypeOK ==
  /\ viterbi \in Objects /\ settings \in Settings /\ fresh \subseteq Objects
  /\ deleted \in [Objects -> Nat]
  /\ current_viterbi \in [Swappers -> Objects]
  /\ new \in [Swappers -> Objects]
  /\ using \in [Parsers -> Objects]
  /\ tagger \in [Parsers -> Settings]
  /\ pc \in [Parsers \cup Swappers ->
               {"idle", "lock", "replace", "type", "theta", "unlock", "delete",
                "none", "creating", "created", "locked", "analyze", "parsed"}]
  /\ reading = {p \in Parsers : pc[p] \in {"locked", "analyze"}}
  /\ writing = {w \in Swappers : pc[w] \in {"replace", "type", "theta", "unlock"}}

(* No parse ever analyses with an object that has been deleted, whatever   *)
(* swaps go on at the same time.                                           *)
AnalysesLive ==
  \A p \in Parsers : pc[p] = "analyze" => deleted[using[p]] = 0

(* Every object a swap has replaced is deleted exactly once, the one in    *)
(* use not at all; none is forgotten when all swaps have returned.         *)
DeletedOnce ==
  /\ \A o \in Objects : deleted[o] <= 1
  /\ deleted[viterbi] = 0
  /\ (\A w \in Swappers : pc[w] = "idle") =>
        \A o \in Objects \ (fresh \cup {viterbi}) : deleted[o] = 1
=============================================================================

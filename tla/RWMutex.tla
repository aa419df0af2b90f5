------------------------------- MODULE RWMutex -------------------------------
(***************************************************************************)
(* The spin lock read_write_mutex of src/src/thread.h, which               *)
(* ModelImpl::swap takes as a writer and TaggerImpl::parse(Lattice* ) as a *)
(* reader.  Every atomic operation of the code is one action; a spin loop  *)
(* is the guard of the operation that ends it.                             *)
(***************************************************************************)
EXTENDS Integers, FiniteSets

CONSTANTS Readers,  \* threads that call read_lock / read_unlock
          Writers,  \* threads that call write_lock / write_unlock
          Backend   \* the atomic_int the build selects (thread.h #if chain)

ASSUME ThreadsAssumption ==
  /\ IsFiniteSet(Readers)
  /\ IsFiniteSet(Writers)
  /\ Readers \cap Writers = {}

ASSUME BackendAssumption == Backend \in {"cxx11", "osx", "gcc", "win"}

kWaFlag == 1
kRcIncr == 2

(* A fault: an exchange that looks at the flag only.                       *)
RetriesOnFlagOnly(v) == v % 2 # 0

(* The value atomic_int::compare_and_swap(0, kWaFlag) leaves behind.  The  *)
(* Windows class passes its arguments to InterlockedCompareExchange in the *)
(* order (exchange, comparand), so there 0 is stored over kWaFlag.         *)
Stored(v) ==
  IF Backend = "win" THEN (IF v = kWaFlag THEN 0 ELSE v)
                     ELSE (IF v = 0 THEN kWaFlag ELSE v)

(* The condition of the while loop of write_lock.  The C++11 and OSX       *)
(* classes return whether the exchange was made, the other two return the  *)
(* value that was read.                                                    *)
Retries(v) == IF Backend \in {"cxx11", "osx"} THEN v = 0 ELSE v # 0

(* atomic_int::load(), an exchange of 0 for 0 in the classes made of        *)
(* exchanges: OSX returns whether it was made, the others what was read.    *)
Loaded(v) == IF Backend = "osx" THEN (IF v = 0 THEN 1 ELSE 0) ELSE v

VARIABLES l,              \* read_write_mutex::l_
          write_pending,  \* read_write_mutex::write_pending_
          pc              \* where each thread is in the lock's functions

vars == <<l, write_pending, pc>>

Threads == Readers \cup Writers

Init ==
  /\ l = 0
  /\ write_pending = 0
  /\ pc = [t \in Threads |-> "out"]

Goto(t, label) == pc' = [pc EXCEPT ![t] = label]

(* Faults of the kind the actions below could have: setting the flag over  *)
(* the count of readers, clearing the word on unlock, a reader that does   *)
(* not look at the announced writers, or at the flag, and a release that   *)
(* goes on as the other kind of thread would.                              *)
WriteCasOverReaders(w) ==
  /\ pc[w] = "cas"
  /\ l' = IF l % 2 = 0 THEN l + kWaFlag ELSE l
  /\ Goto(w, IF l % 2 = 0 THEN "write" ELSE "cas")
  /\ UNCHANGED write_pending

ReadPendingUnchecked(r) ==
  /\ pc[r] = "out"
  /\ Goto(r, "count")
  /\ UNCHANGED <<l, write_pending>>

ReadFlagUnchecked(r) ==
  /\ pc[r] = "flag"
  /\ Goto(r, "read")
  /\ UNCHANGED <<l, write_pending>>

(* write_lock: announce, then spin on the exchange. *)
WriteLock(w) ==
  /\ pc[w] = "out"
  /\ write_pending' = write_pending + 1
  /\ Goto(w, "cas")
  /\ UNCHANGED l

WriteCas(w) ==
  /\ pc[w] = "cas"
  /\ l' = Stored(l)
  /\ Goto(w, IF Retries(l) THEN "cas" ELSE "write")
  /\ UNCHANGED write_pending

(* write_unlock: two separate atomic subtractions. *)
WriteUnlock(w) ==
  /\ pc[w] = "write"
  /\ l' = l - kWaFlag
  /\ Goto(w, "retract")
  /\ UNCHANGED write_pending

WriteRetract(w) ==
  /\ pc[w] = "retract"
  /\ write_pending' = write_pending - 1
  /\ Goto(w, "out")
  /\ UNCHANGED l

(* read_lock: wait for no announced writer, count in, wait for the flag. *)
ReadPending(r) ==
  /\ pc[r] = "out"
  /\ ~(Loaded(write_pending) > 0)
  /\ Goto(r, "count")
  /\ UNCHANGED <<l, write_pending>>

ReadCount(r) ==
  /\ pc[r] = "count"
  /\ l' = l + kRcIncr
  /\ Goto(r, "flag")
  /\ UNCHANGED write_pending

ReadFlag(r) ==
  /\ pc[r] = "flag"
  /\ Loaded(l) % 2 = 0    \* (l_ & kWaFlag) == 0, for a negative l_ too
  /\ Goto(r, "read")
  /\ UNCHANGED <<l, write_pending>>

ReadUnlock(r) ==
  /\ pc[r] = "read"
  /\ l' = l - kRcIncr
  /\ Goto(r, "out")
  /\ UNCHANGED write_pending

Writer(w) == WriteLock(w) \/ WriteCas(w) \/ WriteUnlock(w) \/ WriteRetract(w)
Reader(r) == ReadPending(r) \/ ReadCount(r) \/ ReadFlag(r) \/ ReadUnlock(r)

Next == (\E w \in Writers : Writer(w)) \/ (\E r \in Readers : Reader(r))

Spec == Init /\ [][Next]_vars

(* A thread inside the lock's functions keeps being scheduled (its spin    *)
(* loops yield); nothing obliges it to call write_lock or read_lock again. *)
Fairness ==
  /\ \A w \in Writers : WF_vars(WriteCas(w) \/ WriteUnlock(w) \/ WriteRetract(w))
  /\ \A r \in Readers : WF_vars(ReadCount(r) \/ ReadFlag(r) \/ ReadUnlock(r))

FairSpec == Spec /\ Fairness
-----------------------------------------------------------------------------
In(label) == {t \in Threads : pc[t] = label}

CountedIn == {r \in Readers : pc[r] \in {"flag", "read"}}
Holding   == {w \in Writers : pc[w] = "write"}
Announced == {w \in Writers : pc[w] \in {"cas", "write", "retract"}}

(* Type invariant. *)
TypeOK ==
  /\ l \in Int
  /\ write_pending \in Int
  /\ pc \in [Threads -> {"out", "cas", "write", "retract", "count", "flag", "read"}]
  /\ \A w \in Writers : pc[w] \in {"out", "cas", "write", "retract"}
  /\ \A r \in Readers : pc[r] \in {"out", "count", "flag", "read"}

(* The lock implements the atomic readers-writer lock of RWLock: every     *)
(* operation of thread.h is one acquisition, one release or invisible.     *)
Reading == {r \in Readers : pc[r] = "read"}

Lock == INSTANCE RWLock WITH reading <- Reading, writing <- Holding

ImplementsRWLock == Lock!Spec

(* A writer inside the section (ModelImpl::swap replacing viterbi_) is     *)
(* alone: no other writer and no reader (TaggerImpl::parse) is inside.     *)
MutualExclusion ==
  \A w \in Holding :
     /\ Holding = {w}
     /\ \A r \in Readers : pc[r] # "read"

(* The two words say exactly who is where: l_ is two per counted reader    *)
(* plus one for a writer inside, write_pending_ one per announced writer,  *)
(* so the lock is free again whenever everybody has left.                  *)
WordsAccount ==
  /\ l = 2 * Cardinality(CountedIn) + Cardinality(Holding)
  /\ write_pending = Cardinality(Announced)

(* Writer preference: readers that keep coming back cannot keep writers    *)
(* out; whenever one waits, one gets in.                                   *)
SomeWriterEnters ==
  In("cas") # {} ~> Holding # {}

(* A reader that passed the test of write_pending_ gets in even when       *)
(* writers keep coming back: its count stops every later exchange.         *)
CountedReaderEnters ==
  \A r \in Readers : pc[r] = "count" ~> pc[r] = "read"
=============================================================================

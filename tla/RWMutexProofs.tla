---------------------------- MODULE RWMutexProofs ----------------------------
(***************************************************************************)
(* The lock of thread.h, with a compare_and_swap that returns the value it *)
(* read (the GCC class), is a readers-writer lock for any finite sets of   *)
(* readers and writers.                                                    *)
(*                                                                         *)
(* The inductive invariant is TypeOK, the account of the two words and     *)
(* mutual exclusion: an exchange that ends the loop of write_lock read     *)
(* l_ = 0, the account turns that into "no reader counted in, no writer    *)
(* inside"; a reader that finds the flag clear knows by the same account,  *)
(* and parity, that no writer is inside.                                   *)
(***************************************************************************)
EXTENDS RWMutex, FiniteSetTheorems, TLAPS

(* The sets the account counts are finite, whatever the state. *)
LEMMA CountsFinite ==
  ASSUME NEW S, S \in SUBSET Readers \/ S \in SUBSET Writers
  PROVE  IsFiniteSet(S) /\ Cardinality(S) \in Nat
  BY ThreadsAssumption, FS_Subset, FS_CardinalityType

(* A thread that joins or leaves a counted set moves its count by one. *)
LEMMA CountMoves ==
  ASSUME NEW S, NEW T, NEW t, IsFiniteSet(S)
  PROVE  /\ t \notin S /\ T = S \cup {t} => Cardinality(T) = Cardinality(S) + 1
         /\ t \in S /\ T = S \ {t} => Cardinality(T) = Cardinality(S) - 1
  BY FS_AddElement, FS_RemoveElement

(* Type correctness of the lock, for every backend: needed by every other  *)
(* fact about the functions of thread.h.                                   *)
THEOREM TypeCorrect == Spec => []TypeOK
  <1>1. Init => TypeOK
    BY DEF Init, TypeOK, Threads
  <1>2. TypeOK /\ [Next]_vars => TypeOK'
    <2> SUFFICES ASSUME TypeOK, [Next]_vars PROVE TypeOK'
      OBVIOUS
    <2> USE ThreadsAssumption DEF TypeOK, Threads
    <2>1. ASSUME NEW w \in Writers, Writer(w) PROVE TypeOK'
      <3>1. Stored(l) \in Int
        BY DEF Stored, kWaFlag
      <3> QED
        BY <2>1, <3>1 DEF Writer, WriteLock, WriteCas, WriteUnlock, WriteRetract,
                          Goto, kWaFlag
    <2>2. ASSUME NEW r \in Readers, Reader(r) PROVE TypeOK'
      BY <2>2 DEF Reader, ReadPending, ReadCount, ReadFlag, Loaded, ReadUnlock, Goto, kRcIncr
    <2>3. CASE UNCHANGED vars
      BY <2>3 DEF vars
    <2> QED
      BY <2>1, <2>2, <2>3 DEF Next
  <1> QED
    BY <1>1, <1>2, PTL DEF Spec

(* Mutual exclusion of the GCC build's lock and the account of its words:  *)
(* a writer (ModelImpl::swap) is alone in the section, and l_ and          *)
(* write_pending_ return to zero exactly when everybody has left.          *)
THEOREM GccLockCorrect ==
  ASSUME Backend = "gcc" PROVE Spec => [](MutualExclusion /\ WordsAccount)
  <1> DEFINE Inv == WordsAccount /\ MutualExclusion
  <1>1. Init => Inv
    <2> SUFFICES ASSUME Init PROVE Inv
      OBVIOUS
    <2>1. CountedIn = {} /\ Holding = {} /\ Announced = {}
      BY ThreadsAssumption DEF Init, CountedIn, Holding, Announced, Threads
    <2> QED
      BY <2>1, FS_EmptySet DEF Init, WordsAccount, MutualExclusion
  <1>2. TypeOK /\ Inv /\ [Next]_vars => Inv'
    <2> SUFFICES ASSUME TypeOK, Inv, [Next]_vars PROVE Inv'
      OBVIOUS
    <2>F. /\ IsFiniteSet(CountedIn) /\ Cardinality(CountedIn) \in Nat
          /\ IsFiniteSet(Holding) /\ Cardinality(Holding) \in Nat
          /\ IsFiniteSet(Announced) /\ Cardinality(Announced) \in Nat
      <3>1. CountedIn \in SUBSET Readers
        BY DEF CountedIn
      <3>2. Holding \in SUBSET Writers /\ Announced \in SUBSET Writers
        BY DEF Holding, Announced
      <3> QED
        BY <3>1, <3>2, CountsFinite
    <2>0. Holding = {} => l = 2 * Cardinality(CountedIn)
      BY <2>F, FS_EmptySet DEF WordsAccount
    <2> USE ThreadsAssumption DEF TypeOK, Threads, Goto
    <2>1. ASSUME NEW w \in Writers, WriteLock(w) PROVE Inv'
      <3>1. /\ CountedIn' = CountedIn /\ Holding' = Holding
            /\ Announced' = Announced \cup {w} /\ w \notin Announced
        BY <2>1 DEF WriteLock, CountedIn, Holding, Announced
      <3>2. Cardinality(Announced') = Cardinality(Announced) + 1
        BY <3>1, <2>F, CountMoves
      <3>3. \A r \in Readers : pc'[r] = pc[r]
        BY <2>1 DEF WriteLock
      <3> QED
        BY <2>1, <3>1, <3>2, <3>3 DEF WriteLock, WordsAccount, MutualExclusion
    <2>2. ASSUME NEW w \in Writers, WriteCas(w) PROVE Inv'
      <3>1. CountedIn' = CountedIn /\ Announced' = Announced
        BY <2>2 DEF WriteCas, CountedIn, Announced
      <3>2. \A r \in Readers : pc'[r] = pc[r]
        BY <2>2 DEF WriteCas
      <3>3. CASE l = 0
        <4>1. l' = 1 /\ pc' = [pc EXCEPT ![w] = "write"] /\ UNCHANGED write_pending
          BY <2>2, <3>3 DEF WriteCas, Stored, Retries, kWaFlag
        <4>2. Cardinality(CountedIn) = 0 /\ Cardinality(Holding) = 0
          BY <2>F, <3>3 DEF WordsAccount
        <4>3. CountedIn = {} /\ Holding = {}
          BY <4>2, <2>F, FS_EmptySet
        <4>4. Holding' = {w}
          BY <4>1, <4>3 DEF Holding
        <4>5. Cardinality(Holding') = 1
          BY <4>4, FS_Singleton
        <4>6. \A r \in Readers : pc'[r] # "read"
          BY <3>2, <4>3 DEF CountedIn
        <4> QED
          BY <3>1, <4>1, <4>2, <4>4, <4>5, <4>6 DEF WordsAccount, MutualExclusion
      <3>4. CASE l # 0
        <4>1. l' = l /\ pc' = [pc EXCEPT ![w] = "cas"] /\ UNCHANGED write_pending
          BY <2>2, <3>4 DEF WriteCas, Stored, Retries
        <4>2. Holding' = Holding
          BY <2>2, <4>1 DEF WriteCas, Holding
        <4> QED
          BY <3>1, <3>2, <4>1, <4>2 DEF WordsAccount, MutualExclusion
      <3> QED
        BY <3>3, <3>4
    <2>3. ASSUME NEW w \in Writers, WriteUnlock(w) PROVE Inv'
      <3>1. /\ CountedIn' = CountedIn /\ Announced' = Announced
            /\ Holding' = Holding \ {w} /\ w \in Holding
        BY <2>3 DEF WriteUnlock, CountedIn, Holding, Announced
      <3>2. Cardinality(Holding') = Cardinality(Holding) - 1
        BY <3>1, <2>F, CountMoves
      <3>3. Holding' = {}
        BY <3>1 DEF MutualExclusion
      <3> QED
        BY <2>3, <3>1, <3>2, <3>3, <2>F
        DEF WriteUnlock, kWaFlag, WordsAccount, MutualExclusion
    <2>4. ASSUME NEW w \in Writers, WriteRetract(w) PROVE Inv'
      <3>1. /\ CountedIn' = CountedIn /\ Holding' = Holding
            /\ Announced' = Announced \ {w} /\ w \in Announced
        BY <2>4 DEF WriteRetract, CountedIn, Holding, Announced
      <3>2. Cardinality(Announced') = Cardinality(Announced) - 1
        BY <3>1, <2>F, CountMoves
      <3>3. \A r \in Readers : pc'[r] = pc[r]
        BY <2>4 DEF WriteRetract
      <3> QED
        BY <2>4, <3>1, <3>2, <3>3 DEF WriteRetract, WordsAccount, MutualExclusion
    <2>5. ASSUME NEW r \in Readers, ReadPending(r) PROVE Inv'
      <3>1. CountedIn' = CountedIn /\ Holding' = Holding /\ Announced' = Announced
        BY <2>5 DEF ReadPending, Loaded, CountedIn, Holding, Announced
      <3>2. \A q \in Readers : pc'[q] = "read" => pc[q] = "read"
        BY <2>5 DEF ReadPending, Loaded
      <3> QED
        BY <2>5, <3>1, <3>2 DEF ReadPending, Loaded, WordsAccount, MutualExclusion
    <2>6. ASSUME NEW r \in Readers, ReadCount(r) PROVE Inv'
      <3>1. /\ CountedIn' = CountedIn \cup {r} /\ r \notin CountedIn
            /\ Holding' = Holding /\ Announced' = Announced
        BY <2>6 DEF ReadCount, CountedIn, Holding, Announced
      <3>2. Cardinality(CountedIn') = Cardinality(CountedIn) + 1
        BY <3>1, <2>F, CountMoves
      <3>3. \A q \in Readers : pc'[q] = "read" => pc[q] = "read"
        BY <2>6 DEF ReadCount
      <3> QED
        BY <2>6, <3>1, <3>2, <3>3, <2>F
        DEF ReadCount, kRcIncr, WordsAccount, MutualExclusion
    <2>7. ASSUME NEW r \in Readers, ReadFlag(r) PROVE Inv'
      <3>1. CountedIn' = CountedIn /\ Holding' = Holding /\ Announced' = Announced
        BY <2>7 DEF ReadFlag, Loaded, CountedIn, Holding, Announced
      <3>2. Holding = {}
        <4>1. \A w \in Holding : Cardinality(Holding) = 1
          BY FS_Singleton DEF MutualExclusion
        <4>2. l % 2 = 0
          BY <2>7 DEF ReadFlag, Loaded
        <4>3. Cardinality(Holding) # 1
          BY <4>2, <2>F DEF WordsAccount
        <4> QED
          BY <4>1, <4>3
      <3> QED
        BY <2>7, <3>1, <3>2 DEF ReadFlag, Loaded, WordsAccount, MutualExclusion
    <2>8. ASSUME NEW r \in Readers, ReadUnlock(r) PROVE Inv'
      <3>1. /\ CountedIn' = CountedIn \ {r} /\ r \in CountedIn
            /\ Holding' = Holding /\ Announced' = Announced
        BY <2>8 DEF ReadUnlock, CountedIn, Holding, Announced
      <3>2. Cardinality(CountedIn') = Cardinality(CountedIn) - 1
        BY <3>1, <2>F, CountMoves
      <3>3. \A q \in Readers : pc'[q] = "read" => pc[q] = "read"
        BY <2>8 DEF ReadUnlock
      <3> QED
        BY <2>8, <3>1, <3>2, <3>3, <2>F
        DEF ReadUnlock, kRcIncr, WordsAccount, MutualExclusion
    <2>9. CASE UNCHANGED vars
      <3>1. CountedIn' = CountedIn /\ Holding' = Holding /\ Announced' = Announced
        BY <2>9 DEF vars, CountedIn, Holding, Announced
      <3> QED
        BY <2>9, <3>1 DEF vars, WordsAccount, MutualExclusion
    <2> QED
      BY <2>1, <2>2, <2>3, <2>4, <2>5, <2>6, <2>7, <2>8, <2>9 DEF Next, Writer, Reader
  <1> QED
    BY <1>1, <1>2, TypeCorrect, PTL DEF Spec

(* The GCC build's lock implements the atomic readers-writer lock: what    *)
(* tagger.cpp may assume of scoped_writer_lock and scoped_reader_lock.     *)
THEOREM GccLockImplementsRWLock ==
  ASSUME Backend = "gcc" PROVE Spec => ImplementsRWLock
  <1> DEFINE Inv == TypeOK /\ WordsAccount /\ MutualExclusion
  <1>1. Init => Lock!Init
    BY ThreadsAssumption DEF Init, Lock!Init, Reading, Holding, Threads
  <1>2. Inv /\ [Next]_vars => [Lock!Next]_(Lock!lockVars)
    <2> SUFFICES ASSUME Inv, [Next]_vars PROVE [Lock!Next]_(Lock!lockVars)
      OBVIOUS
    <2> USE ThreadsAssumption DEF TypeOK, Threads, Goto, Lock!lockVars
    <2>F. /\ IsFiniteSet(CountedIn) /\ Cardinality(CountedIn) \in Nat
          /\ IsFiniteSet(Holding) /\ Cardinality(Holding) \in Nat
      <3>1. CountedIn \in SUBSET Readers /\ Holding \in SUBSET Writers
        BY DEF CountedIn, Holding
      <3> QED
        BY <3>1, CountsFinite
    <2>1. ASSUME NEW w \in Writers, WriteLock(w) \/ WriteRetract(w)
          PROVE  UNCHANGED <<Reading, Holding>>
      BY <2>1 DEF WriteLock, WriteRetract, Reading, Holding
    <2>2. ASSUME NEW w \in Writers, WriteCas(w) PROVE [Lock!Next]_(Lock!lockVars)
      <3>1. Reading' = Reading
        BY <2>2 DEF WriteCas, Reading
      <3>2. CASE l = 0
        <4>1. pc' = [pc EXCEPT ![w] = "write"]
          BY <2>2, <3>2 DEF WriteCas, Retries
        <4>2. Cardinality(CountedIn) = 0 /\ Cardinality(Holding) = 0
          BY <2>F, <3>2 DEF WordsAccount
        <4>3. CountedIn = {} /\ Holding = {}
          BY <4>2, <2>F, FS_EmptySet
        <4>4. Holding' = {w} /\ Reading = {}
          BY <4>1, <4>3 DEF Holding, CountedIn, Reading
        <4> QED
          BY <3>1, <4>3, <4>4 DEF Lock!Next, Lock!AcquireWrite
      <3>3. CASE l # 0
        BY <2>2, <3>1, <3>3 DEF WriteCas, Retries, Holding
      <3> QED
        BY <3>2, <3>3
    <2>3. ASSUME NEW w \in Writers, WriteUnlock(w) PROVE [Lock!Next]_(Lock!lockVars)
      <3>1. Reading' = Reading /\ Holding' = Holding \ {w} /\ w \in Holding
        BY <2>3 DEF WriteUnlock, Reading, Holding
      <3> QED
        BY <3>1 DEF Lock!Next, Lock!ReleaseWrite
    <2>4. ASSUME NEW r \in Readers, ReadPending(r) \/ ReadCount(r)
          PROVE  UNCHANGED <<Reading, Holding>>
      BY <2>4 DEF ReadPending, Loaded, ReadCount, Reading, Holding
    <2>5. ASSUME NEW r \in Readers, ReadFlag(r) PROVE [Lock!Next]_(Lock!lockVars)
      <3>1. Holding' = Holding /\ Reading' = Reading \cup {r} /\ r \notin Reading
        BY <2>5 DEF ReadFlag, Loaded, Reading, Holding
      <3>2. Holding = {}
        <4>1. \A w \in Holding : Cardinality(Holding) = 1
          BY FS_Singleton DEF MutualExclusion
        <4>2. l % 2 = 0
          BY <2>5 DEF ReadFlag, Loaded
        <4>3. Cardinality(Holding) # 1
          BY <4>2, <2>F DEF WordsAccount
        <4> QED
          BY <4>1, <4>3
      <3> QED
        BY <3>1, <3>2 DEF Lock!Next, Lock!AcquireRead
    <2>6. ASSUME NEW r \in Readers, ReadUnlock(r) PROVE [Lock!Next]_(Lock!lockVars)
      <3>1. Holding' = Holding /\ Reading' = Reading \ {r} /\ r \in Reading
        BY <2>6 DEF ReadUnlock, Reading, Holding
      <3> QED
        BY <3>1 DEF Lock!Next, Lock!ReleaseRead
    <2>7. CASE UNCHANGED vars
      BY <2>7 DEF vars, Reading, Holding
    <2> QED
      BY <2>1, <2>2, <2>3, <2>4, <2>5, <2>6, <2>7 DEF Next, Writer, Reader
  <1> QED
    BY <1>1, <1>2, TypeCorrect, GccLockCorrect, PTL DEF Spec, ImplementsRWLock, Lock!Spec
=============================================================================

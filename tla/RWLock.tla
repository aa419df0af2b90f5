-------------------------------- MODULE RWLock --------------------------------
(***************************************************************************)
(* What a readers-writer lock promises: acquiring and releasing are atomic *)
(* and a writer holds it alone.  RWMutex implements it (thread.h), and the *)
(* users of the lock in tagger.cpp rely on nothing else.                   *)
(***************************************************************************)
CONSTANTS Readers, Writers

VARIABLES reading,  \* the readers that hold the lock
          writing   \* the writers that hold the lock

lockVars == <<reading, writing>>

Init == reading = {} /\ writing = {}

AcquireRead(r) ==
  /\ r \notin reading /\ writing = {}
  /\ reading' = reading \cup {r} /\ UNCHANGED writing

ReleaseRead(r) ==
  /\ r \in reading
  /\ reading' = reading \ {r} /\ UNCHANGED writing

AcquireWrite(w) ==
  /\ reading = {} /\ writing = {}
  /\ writing' = {w} /\ UNCHANGED reading

ReleaseWrite(w) ==
  /\ w \in writing
  /\ writing' = writing \ {w} /\ UNCHANGED reading

Next ==
  \/ \E r \in Readers : AcquireRead(r) \/ ReleaseRead(r)
  \/ \E w \in Writers : AcquireWrite(w) \/ ReleaseWrite(w)

Spec == Init /\ [][Next]_lockVars
=============================================================================

-------------------------- MODULE MCLatticeSession --------------------------
(* LatticeSession over texts with one way, with three, and one that fails.  *)
EXTENDS LatticeSession

MCWays == [t \in Texts |-> IF t = "bad" THEN 0 ELSE IF t = "t1" THEN 1 ELSE 3]
=============================================================================

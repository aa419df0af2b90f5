------------------------------- MODULE Ordered -------------------------------
(* Finite sets as sequences.                                                *)
EXTENDS Integers, FiniteSets

(* The elements of a finite set in ascending order.                          *)
InOrder(S, Less(_, _)) ==
  [i \in 1 .. Cardinality(S) |-> CHOOSE x \in S : Cardinality({y \in S : Less(y, x)}) = i - 1]
=============================================================================

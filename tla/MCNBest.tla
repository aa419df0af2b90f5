------------------------------- MODULE MCNBest -------------------------------
(* All lattices over four nodes in text order, with every choice of left   *)
(* paths and of a few costs, negative ones and ties included.              *)
EXTENDS NBest, FiniteSetsExt, TLC

MCNode == 1 .. 4
PathCosts == {-1, 0, 2}
NoPath == 99

Edges == {e \in MCNode \X MCNode : e[1] < e[2]}

(* The costs connect() gives, left to right.                               *)
LatticeOf(w) ==
  LET lefts(n) == {l \in 1 .. n - 1 : w[<<l, n>>] # NoPath}
      cost[n \in MCNode] ==
        IF lefts(n) = {} THEN 0 ELSE Min({cost[l] + w[<<l, n>>] : l \in lefts(n)})
  IN  [lpath |-> [n \in MCNode |-> {[lnode |-> l, cost |-> w[<<l, n>>]] : l \in lefts(n)}],
       cost  |-> cost,
       id    |-> [n \in MCNode |-> n]]

MCLattices ==
  {LatticeOf(w) : w \in {v \in [Edges -> PathCosts \cup {NoPath}] :
     \A n \in 2 .. 4 : \E l \in 1 .. n - 1 : v[<<l, n>>] # NoPath}}
=============================================================================

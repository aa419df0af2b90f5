----------------------------- MODULE LatticeGraph -----------------------------
(***************************************************************************)
(* The part of a built lattice that the N-best search reads: for every     *)
(* node its list of left paths (Node::lpath) and the cost of the best way  *)
(* to it from BOS (Node::cost), with the number the allocator gave the     *)
(* node (Node::id).  connect() of src/src/viterbi.cpp builds it,           *)
(* NBestGenerator searches it.                                             *)
(***************************************************************************)
EXTENDS Integers

Paths(N) == [lnode : N, cost : Int]

(* One path per left node, none to the left of BOS, left nodes allocated   *)
(* before the node, and a cost that is the minimum over the left paths.    *)
IsLattice(G, N, bos, eos) ==
  /\ bos \in N /\ eos \in N /\ bos # eos
  /\ G.lpath \in [N -> SUBSET Paths(N)]
  /\ G.cost \in [N -> Int]
  /\ G.id \in [N -> Nat]
  /\ \A n \in N : \A p \in G.lpath[n] : G.id[p.lnode] < G.id[n]
  /\ \A n \in N : \A p, q \in G.lpath[n] : p.lnode = q.lnode => p = q
  /\ G.lpath[bos] = {} /\ G.cost[bos] = 0
  /\ \A n \in N \ {bos} :
       /\ \E p \in G.lpath[n] : G.cost[n] = G.cost[p.lnode] + p.cost
       /\ \A p \in G.lpath[n] : G.cost[n] <= G.cost[p.lnode] + p.cost
=============================================================================

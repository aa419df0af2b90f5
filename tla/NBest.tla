--------------------------------- MODULE NBest ---------------------------------
(***************************************************************************)
(* NBestGenerator of src/src/nbest_generator.cpp: the backward A* search   *)
(* that Lattice::next() drives.  A queue element is a path that grows from *)
(* EOS towards BOS, <<EOS, .., n>>; the chain of QueueElement::next.       *)
(***************************************************************************)
EXTENDS LatticeGraph, Sequences, FiniteSets

CONSTANTS Node, BOS, EOS,
          Lattices,  \* the lattices a parse may leave behind
          None       \* the null pointer

ASSUME LatticesAssumption == \A G \in Lattices : IsLattice(G, Node, BOS, EOS)
ASSUME NodeAssumption == IsFiniteSet(Node)
ASSUME NoneAssumption == None \notin Node

VARIABLES
  lattice,  \* the lattice set() was called with
  agenda,   \* the priority queue: a set of elements
  link,     \* Node::next of every node, None where it is null
  inside,   \* whether a call of next() is in its loop
  yielded   \* the elements next() returned true for, in order

vars == <<lattice, agenda, link, inside, yielded>>

Last(path) == path[Len(path)]

Element(path, gx, fx) == [path |-> path, gx |-> gx, fx |-> fx]

(* NBestGenerator::set, called at the end of analyze: an agenda of EOS.    *)
Init ==
  /\ lattice \in Lattices
  /\ agenda = {Element(<<EOS>>, 0, 0)}
  /\ link = [n \in Node |-> None]
  /\ inside = FALSE
  /\ yielded = <<>>

Call ==
  /\ ~inside
  /\ inside' = TRUE
  /\ UNCHANGED <<lattice, agenda, link, yielded>>

(* agenda_.top(): the queue does not say which of several cheapest.        *)
Top(e) == e \in agenda /\ \A q \in agenda : e.fx <= q.fx

(* Faults: an estimate without the cost left of the node; the best left    *)
(* path alone; an element that stays in the queue; the first link left     *)
(* out; a loop that does not end when the queue is empty.                  *)
ChildrenNoEstimate(e) ==
  {Element(Append(e.path, p.lnode), p.cost + e.gx, p.cost + e.gx) :
     p \in lattice.lpath[Last(e.path)]}

ChildrenBestOnly(e) ==
  {Element(Append(e.path, p.lnode), p.cost + e.gx,
           lattice.cost[p.lnode] + p.cost + e.gx) :
     p \in {q \in lattice.lpath[Last(e.path)] :
              lattice.cost[q.lnode] + q.cost = lattice.cost[Last(e.path)]}}

RelinkedNotBOS(path) ==
  [n \in Node |->
     IF \E i \in 2 .. Len(path) - 1 : path[i] = n
     THEN path[(CHOOSE i \in 2 .. Len(path) - 1 : path[i] = n) - 1]
     ELSE link[n]]

ExhaustedSpins == inside /\ agenda = {} /\ UNCHANGED vars

(* One element per left path of the node on top.                           *)
Children(e) ==
  {Element(Append(e.path, p.lnode), p.cost + e.gx,
           lattice.cost[p.lnode] + p.cost + e.gx) : p \in lattice.lpath[Last(e.path)]}

ExpandNoPop(e) ==
  /\ inside /\ Top(e)
  /\ Last(e.path) # BOS
  /\ agenda' = agenda \cup Children(e)
  /\ UNCHANGED <<lattice, link, inside, yielded>>

Expand(e) ==
  /\ inside /\ Top(e)
  /\ Last(e.path) # BOS
  /\ agenda' = (agenda \ {e}) \cup Children(e)
  /\ UNCHANGED <<lattice, link, inside, yielded>>

(* Node::next of the nodes on a path, for reading it from BOS.             *)
Relinked(path) ==
  [n \in Node |->
     IF \E i \in 2 .. Len(path) : path[i] = n
     THEN path[(CHOOSE i \in 2 .. Len(path) : path[i] = n) - 1]
     ELSE link[n]]

(* BOS reached: relink the nodes of the path and return true.              *)
Yield(e) ==
  /\ inside /\ Top(e)
  /\ Last(e.path) = BOS
  /\ agenda' = agenda \ {e}
  /\ link' = Relinked(e.path)
  /\ yielded' = Append(yielded, e)
  /\ inside' = FALSE
  /\ UNCHANGED lattice

(* The agenda ran empty: return false.                                     *)
Exhausted ==
  /\ inside /\ agenda = {}
  /\ inside' = FALSE
  /\ UNCHANGED <<lattice, agenda, link, yielded>>

Next == Call \/ Exhausted \/ \E e \in agenda : Expand(e) \/ Yield(e)

Spec == Init /\ [][Next]_vars

(* A call of next() runs to its end; callers need not call again.          *)
FairSpec == Spec /\ WF_vars(Exhausted \/ \E e \in agenda : Expand(e) \/ Yield(e))
-----------------------------------------------------------------------------
(* Type invariant: what the elements of the agenda and the results are.    *)
Elements == [path : Seq(Node), gx : Int, fx : Int]

TypeOK ==
  /\ lattice \in Lattices
  /\ agenda \subseteq Elements
  /\ link \in [Node -> Node \cup {None}]
  /\ inside \in BOOLEAN
  /\ yielded \in Seq(Elements)
  /\ \A e \in agenda : e.path # <<>>

(* Results come in the order of their cost, best first.                    *)
CostsNonDecreasing ==
  \A i, j \in DOMAIN yielded : i < j => yielded[i].gx <= yielded[j].gx

(* No segmentation is returned twice.                                      *)
NoDuplicates ==
  \A i, j \in DOMAIN yielded : yielded[i].path = yielded[j].path => i = j

(* The cost of the way from EOS to the end of a path. *)
CostOf(path) ==
  LET to[i \in 1 .. Len(path)] ==
        IF i = 1 THEN 0
        ELSE to[i - 1] + (CHOOSE p \in lattice.lpath[path[i - 1]] : p.lnode = path[i]).cost
  IN  to[Len(path)]

(* A way through the lattice from EOS to BOS, along left paths.            *)
IsWay(q) ==
  /\ q \in Seq(Node) /\ q # <<>>
  /\ q[1] = EOS /\ Last(q) = BOS
  /\ \A i \in 1 .. Len(q) - 1 : \E p \in lattice.lpath[q[i]] : p.lnode = q[i + 1]

(* All ways there are: none is longer than the number of nodes.            *)
CompletePaths ==
  {q \in UNION {[1 .. k -> Node] : k \in 1 .. Cardinality(Node)} : IsWay(q)}

(* When next() has returned false, every segmentation has been returned,   *)
(* each with its true cost, and the first was the cheapest.                *)
AllFound ==
  /\ agenda = {} => {yielded[i].path : i \in DOMAIN yielded} = CompletePaths
  /\ \A i \in DOMAIN yielded : yielded[i].gx = CostOf(yielded[i].path)
  /\ \A q \in CompletePaths : yielded # <<>> => yielded[1].gx <= CostOf(q)

(* After next() returned true, following Node::next from BOS reads exactly *)
(* the path it found, whatever the calls before have left in the nodes.    *)
LinksReadResult ==
  yielded # <<>> =>
    LET path == yielded[Len(yielded)].path
        n == Len(path)
    IN  \A k \in 2 .. n : link[path[k]] = path[k - 1]

(* Every call returns. *)
CallsReturn == inside ~> ~inside
=============================================================================

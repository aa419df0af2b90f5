----------------------------- MODULE NBestProofs -----------------------------
(***************************************************************************)
(* The N-best search of nbest_generator.cpp, for every lattice connect()   *)
(* can build: results come cheapest first, none twice, each with its true  *)
(* cost, when next() returns false none is missing, and the links of the   *)
(* nodes read the last one.                                                *)
(*                                                                         *)
(* Order rests on the cost left of a node being exact: a child's fx is     *)
(* never below its parent's, so nothing in the agenda is cheaper than what *)
(* was returned.  The other two rest on the agenda and the results         *)
(* together being a cut through the tree of paths from EOS: no path of     *)
(* theirs is a prefix of another, and every complete path has one of them  *)
(* as a prefix.  Left nodes have smaller ids, so no path meets a node      *)
(* twice: it is not longer than there are nodes, and its links are apart.  *)
(***************************************************************************)
EXTENDS NBest, FiniteSetTheorems, NaturalsInduction, WellFoundedInduction, TLAPS

(* A set of numbers that is not empty has a smallest one.                  *)
LEMMA Smallest ==
  ASSUME NEW S, S \subseteq Nat, S # {}
  PROVE  \E j \in S : \A k \in S : j <= k
  <1> DEFINE Less == {x \in Nat \X Nat : x[1] < x[2]}
  <1>1. IsWellFoundedOn(Less, Nat)
    BY NatLessThanWellFounded DEF OpToRel
  <1>2. PICK j \in S : \A k \in S : <<k, j>> \notin Less
    BY <1>1, WFMin
  <1>3. \A k \in S : ~(k < j)
    BY <1>2
  <1> QED
    BY <1>3

(* Induction: a set that holds 0 and, with each number below n, the next.  *)
LEMMA UpTo ==
  ASSUME NEW n \in Nat, NEW P, 0 \in P, \A k \in 1 .. n : k - 1 \in P => k \in P
  PROVE  0 .. n \subseteq P
  <1> DEFINE T == (0 .. n) \ P
  <1> SUFFICES ASSUME T # {} PROVE FALSE
    OBVIOUS
  <1>0. T \subseteq Nat
    OBVIOUS
  <1> HIDE DEF T
  <1>1. PICK k \in T : \A m \in T : k <= m
    BY <1>0, Smallest
  <1>2. k \in 0 .. n /\ k \notin P
    BY <1>1 DEF T
  <1>3. k # 0
    BY <1>2
  <1>4. k \in 1 .. n /\ k - 1 \in 0 .. n /\ k - 1 \notin T
    BY <1>1, <1>2, <1>3 
  <1>5. k - 1 \in P
    BY <1>4 DEF T
  <1> QED
    BY <1>2, <1>4, <1>5

(* Iteration: from a first value on, n steps give a sequence of values.    *)
AreSteps(step, n, S) == \A k \in 1 .. n : \A x \in S : step[k][x] \in S

IsIteration(g, step, n, S, first) ==
  g \in [0 .. n -> S] /\ g[0] = first /\ \A k \in 1 .. n : g[k] = step[k][g[k - 1]]

LEMMA Iteration ==
  ASSUME NEW n \in Nat, NEW S, NEW first \in S, NEW step, AreSteps(step, n, S)
  PROVE  \E g : IsIteration(g, step, n, S, first)
  <1> DEFINE P == {m \in 0 .. n : \E g : IsIteration(g, step, m, S, first)}
  <1>1. \E g : IsIteration(g, step, 0, S, first)
    <2>1. IsIteration([k \in 0 .. 0 |-> first], step, 0, S, first)
      BY DEF IsIteration
    <2> QED
      BY <2>1
  <1>2. ASSUME NEW m \in 1 .. n, \E g : IsIteration(g, step, m - 1, S, first)
        PROVE  \E g : IsIteration(g, step, m, S, first)
    <2>1. PICK g : IsIteration(g, step, m - 1, S, first)
      BY <1>2
    <2> DEFINE h == [k \in 0 .. m |-> IF k = m THEN step[m][g[m - 1]] ELSE g[k]]
    <2>2. g[m - 1] \in S
      BY <2>1 DEF IsIteration
    <2>3. h \in [0 .. m -> S]
      BY <2>1, <2>2 DEF IsIteration, AreSteps
    <2>4. h[0] = first
      BY <2>1 DEF IsIteration
    <2>5. ASSUME NEW k \in 1 .. m PROVE h[k] = step[k][h[k - 1]]
      BY <2>1 DEF IsIteration
    <2> HIDE DEF h
    <2>6. IsIteration(h, step, m, S, first)
      BY <2>3, <2>4, <2>5 DEF IsIteration
    <2> QED
      BY <2>6
  <1>3. 0 \in P
    BY <1>1
  <1>4. \A m \in 1 .. n : m - 1 \in P => m \in P
    BY <1>2
  <1> HIDE DEF P
  <1>5. 0 .. n \subseteq P
    BY <1>3, <1>4, UpTo
  <1>6. n \in P
    BY <1>5
  <1> QED
    BY <1>6 DEF P
-----------------------------------------------------------------------------
IsRoot(e) == e.path = <<EOS>>

(* The root is alone; all others have fx = cost of the node + gx.          *)
Estimates ==
  /\ \A e \in agenda : ~IsRoot(e) => e.fx = lattice.cost[Last(e.path)] + e.gx
  /\ (\E e \in agenda : IsRoot(e)) => agenda = {Element(<<EOS>>, 0, 0)} /\ yielded = <<>>

(* Nothing that is left is cheaper than what was returned.                 *)
AgendaBehind ==
  \A i \in DOMAIN yielded, e \in agenda : yielded[i].gx <= e.fx

(* The element set() pushes. *)
LEMMA RootFields ==
  /\ Element(<<EOS>>, 0, 0).path = <<EOS>>
  /\ Element(<<EOS>>, 0, 0).gx = 0
  /\ Element(<<EOS>>, 0, 0).fx = 0
  BY DEF Element

(* What the parts of a lattice are, for the lattice of the run.            *)
LEMMA LatticeFacts ==
  ASSUME TypeOK
  PROVE  /\ BOS \in Node /\ EOS \in Node /\ BOS # EOS
         /\ lattice.lpath \in [Node -> SUBSET Paths(Node)]
         /\ lattice.cost \in [Node -> Int]
         /\ lattice.lpath[BOS] = {} /\ lattice.cost[BOS] = 0
         /\ \A n \in Node : \A p, q \in lattice.lpath[n] : p.lnode = q.lnode => p = q
         /\ \A n \in Node : \A p \in lattice.lpath[n] :
              /\ p.lnode \in Node /\ p.cost \in Int
              /\ lattice.cost[n] <= lattice.cost[p.lnode] + p.cost
  <1>1. IsLattice(lattice, Node, BOS, EOS)
    BY LatticesAssumption DEF TypeOK
  <1>2. \A n \in Node : \A p \in lattice.lpath[n] : p.lnode \in Node /\ p.cost \in Int
    BY <1>1 DEF IsLattice, Paths
  <1>3. \A n \in Node : \A p \in lattice.lpath[n] :
           lattice.cost[n] <= lattice.cost[p.lnode] + p.cost
    BY <1>1 DEF IsLattice
  <1> QED
    BY <1>1, <1>2, <1>3 DEF IsLattice

(* A child is an element one node longer, no cheaper than its parent.      *)
LEMMA ChildFacts ==
  ASSUME TypeOK, NEW e \in agenda, NEW c \in Children(e)
  PROVE  /\ c \in Elements
         /\ Last(e.path) \in Node
         /\ \E p \in lattice.lpath[Last(e.path)] :
              /\ c.path = Append(e.path, p.lnode)
              /\ c.gx = p.cost + e.gx
              /\ c.fx = lattice.cost[p.lnode] + p.cost + e.gx
         /\ Len(c.path) = Len(e.path) + 1
         /\ Last(c.path) \in Node
         /\ c.fx = lattice.cost[Last(c.path)] + c.gx
         /\ lattice.cost[Last(e.path)] + e.gx <= c.fx
         /\ \A i \in 1 .. Len(e.path) : c.path[i] = e.path[i]
  <1>1. e.path \in Seq(Node) /\ e.path # <<>> /\ e.gx \in Int /\ e.fx \in Int
    BY DEF TypeOK, Elements
  <1>2. Last(e.path) \in Node
    BY <1>1 DEF Last
  <1>3. PICK p \in lattice.lpath[Last(e.path)] :
           c = Element(Append(e.path, p.lnode), p.cost + e.gx,
                       lattice.cost[p.lnode] + p.cost + e.gx)
    BY DEF Children
  <1>4. /\ c.path = Append(e.path, p.lnode)
        /\ c.gx = p.cost + e.gx
        /\ c.fx = lattice.cost[p.lnode] + p.cost + e.gx
    BY <1>3 DEF Element
  <1>5. /\ p.lnode \in Node /\ p.cost \in Int
        /\ lattice.cost[Last(e.path)] <= lattice.cost[p.lnode] + p.cost
        /\ lattice.cost[p.lnode] \in Int /\ lattice.cost[Last(e.path)] \in Int
    BY <1>2, LatticeFacts
  <1>6. /\ c.path \in Seq(Node) /\ Len(c.path) = Len(e.path) + 1
        /\ Last(c.path) = p.lnode
        /\ \A i \in 1 .. Len(e.path) : c.path[i] = e.path[i]
    BY <1>1, <1>4, <1>5 DEF Last
  <1>7. c \in Elements
    BY <1>1, <1>3, <1>5, <1>4, <1>6 DEF Element, Elements
  <1>8. \E q \in lattice.lpath[Last(e.path)] :
           /\ c.path = Append(e.path, q.lnode)
           /\ c.gx = q.cost + e.gx
           /\ c.fx = lattice.cost[q.lnode] + q.cost + e.gx
    BY <1>4
  <1>9. /\ c.fx = lattice.cost[Last(c.path)] + c.gx
        /\ lattice.cost[Last(e.path)] + e.gx <= c.fx
    BY <1>1, <1>4, <1>5, <1>6
  <1> QED
    BY <1>2, <1>5, <1>6, <1>7, <1>8, <1>9

(* The type invariant holds when set() returns.                            *)
LEMMA TypeInit == Init => TypeOK
  <1> SUFFICES ASSUME Init PROVE TypeOK
    OBVIOUS
  <1>1. EOS \in Node
    BY LatticesAssumption DEF Init, IsLattice
  <1>2. Element(<<EOS>>, 0, 0) \in Elements
    BY <1>1 DEF Element, Elements
  <1>3. Element(<<EOS>>, 0, 0).path # <<>>
    BY DEF Element
  <1>4. link \in [Node -> Node \cup {None}]
    BY DEF Init
  <1>5. yielded \in Seq(Elements)
    BY DEF Init
  <1>6. agenda \subseteq Elements /\ \A e \in agenda : e.path # <<>>
    BY <1>2, <1>3 DEF Init
  <1> QED
    BY <1>4, <1>5, <1>6 DEF Init, TypeOK

(* Type correctness of the queue, the links and the results.               *)
THEOREM TypeCorrect == Spec => []TypeOK
  <1>1. Init => TypeOK
    BY TypeInit
  <1>2. TypeOK /\ [Next]_vars => TypeOK'
    <2> SUFFICES ASSUME TypeOK, [Next]_vars PROVE TypeOK'
      OBVIOUS
    <2>1. ASSUME NEW e \in agenda, Expand(e) PROVE TypeOK'
      <3>1. \A c \in Children(e) : c \in Elements /\ c.path # <<>>
        BY ChildFacts DEF TypeOK, Elements
      <3> QED
        BY <2>1, <3>1 DEF Expand, TypeOK
    <2>2. ASSUME NEW e \in agenda, Yield(e) PROVE TypeOK'
      <3>1. e \in Elements /\ e.path \in Seq(Node)
        BY DEF TypeOK, Elements
      <3>2. link' \in [Node -> Node \cup {None}]
        <4> SUFFICES ASSUME NEW n \in Node PROVE link'[n] \in Node \cup {None}
          BY <2>2 DEF Yield, Relinked
        <4>1. CASE \E i \in 2 .. Len(e.path) : e.path[i] = n
          <5> DEFINE i == CHOOSE i \in 2 .. Len(e.path) : e.path[i] = n
          <5>1. i \in 2 .. Len(e.path)
            BY <4>1
          <5>2. link'[n] = e.path[i - 1]
            BY <2>2, <4>1 DEF Yield, Relinked
          <5> HIDE DEF i
          <5> QED
            BY <3>1, <5>1, <5>2
        <4>2. CASE ~ \E i \in 2 .. Len(e.path) : e.path[i] = n
          BY <2>2, <4>2 DEF Yield, Relinked, TypeOK
        <4> QED
          BY <4>1, <4>2
      <3>3. yielded' \in Seq(Elements)
        BY <2>2, <3>1 DEF Yield, TypeOK
      <3> QED
        BY <2>2, <3>2, <3>3 DEF Yield, TypeOK
    <2>3. CASE Call \/ Exhausted \/ UNCHANGED vars
      BY <2>3 DEF Call, Exhausted, vars, TypeOK
    <2> QED
      BY <2>1, <2>2, <2>3 DEF Next
  <1> QED
    BY <1>1, <1>2, PTL DEF Spec

(* The order of the results with what makes it inductive.                  *)
Ordering == Estimates /\ AgendaBehind /\ CostsNonDecreasing

LEMMA OrderInvariant == Spec => []Ordering
  <1>1. Init => Ordering
    <2> SUFFICES ASSUME Init PROVE Ordering
      OBVIOUS
    <2>1. \A e \in agenda : IsRoot(e)
      BY RootFields DEF Init, IsRoot
    <2> QED
      BY <2>1 DEF Init, Ordering, Estimates, AgendaBehind, CostsNonDecreasing
  <1>2. TypeOK /\ Ordering /\ [Next]_vars => Ordering'
    <2> SUFFICES ASSUME TypeOK, Estimates, AgendaBehind, CostsNonDecreasing, [Next]_vars
                 PROVE  Ordering'
      BY DEF Ordering
    <2>1. ASSUME NEW e \in agenda, Expand(e) PROVE Ordering'
      <3>1. /\ agenda' = (agenda \ {e}) \cup Children(e)
            /\ yielded' = yielded /\ lattice' = lattice
        BY <2>1 DEF Expand
      <3>2. \A c \in Children(e) : /\ ~IsRoot(c)
                                   /\ c.fx = lattice.cost[Last(c.path)] + c.gx
        BY ChildFacts DEF IsRoot, TypeOK, Elements
      <3>3. Estimates'
        <4>1. \A q \in agenda' : IsRoot(q) => q \in agenda /\ q # e
          BY <3>1, <3>2
        <4>2. ~(\E q \in agenda' : IsRoot(q))
          BY <4>1, RootFields DEF Estimates, IsRoot
        <4>3. \A q \in agenda' : q.fx = lattice.cost[Last(q.path)] + q.gx
          BY <3>1, <3>2, <4>2 DEF Estimates
        <4> QED
          BY <3>1, <4>2, <4>3 DEF Estimates, IsRoot
      <3>4. AgendaBehind'
        <4>1. ASSUME NEW i \in DOMAIN yielded, NEW c \in Children(e)
              PROVE  yielded[i].gx <= c.fx
          <5>1. ~IsRoot(e)
            BY DEF Estimates
          <5>2. e.fx = lattice.cost[Last(e.path)] + e.gx /\ e.fx <= c.fx
            BY <5>1, ChildFacts DEF Estimates
          <5>3. yielded[i] \in Elements /\ e \in Elements /\ c \in Elements
            BY ChildFacts DEF TypeOK
          <5>4. yielded[i].gx \in Int /\ e.fx \in Int /\ c.fx \in Int
            BY <5>3 DEF Elements
          <5> QED
            BY <5>2, <5>4 DEF AgendaBehind
        <4> QED
          BY <3>1, <4>1 DEF AgendaBehind
      <3> QED
        BY <3>1, <3>3, <3>4 DEF Ordering, CostsNonDecreasing
    <2>2. ASSUME NEW e \in agenda, Yield(e) PROVE Ordering'
      <3>1. /\ agenda' = agenda \ {e} /\ yielded' = Append(yielded, e)
            /\ lattice' = lattice /\ Top(e) /\ Last(e.path) = BOS
        BY <2>2 DEF Yield
      <3>2. ~IsRoot(e)
        <4>1. Last(<<EOS>>) = EOS
          BY DEF Last
        <4> QED
          BY <3>1, <4>1, LatticeFacts DEF IsRoot
      <3>3. e.fx = e.gx
        BY <3>1, <3>2, LatticeFacts DEF Estimates, TypeOK, Elements
      <3>4. ~(\E q \in agenda : IsRoot(q))
        BY <3>2, RootFields DEF Estimates, IsRoot
      <3>5. Estimates'
        BY <3>1, <3>4 DEF Estimates, IsRoot
      <3>6. \A i \in DOMAIN yielded : yielded[i].gx <= e.gx
        BY <3>3 DEF AgendaBehind
      <3>7. /\ DOMAIN yielded' = 1 .. Len(yielded) + 1
            /\ \A i \in 1 .. Len(yielded) : yielded'[i] = yielded[i]
            /\ yielded'[Len(yielded) + 1] = e
            /\ DOMAIN yielded = 1 .. Len(yielded)
        BY <3>1 DEF TypeOK
      <3>8. AgendaBehind'
        BY <3>1, <3>3, <3>7 DEF AgendaBehind, Top
      <3>9. CostsNonDecreasing'
        <4> SUFFICES ASSUME NEW i \in 1 .. Len(yielded) + 1,
                            NEW j \in 1 .. Len(yielded) + 1, i < j
                     PROVE  yielded'[i].gx <= yielded'[j].gx
          BY <3>7 DEF CostsNonDecreasing
        <4>0. Len(yielded) \in Nat
          BY DEF TypeOK
        <4>1. i \in 1 .. Len(yielded)
          BY <4>0
        <4>2. CASE j \in 1 .. Len(yielded)
          BY <3>7, <4>1, <4>2 DEF CostsNonDecreasing
        <4>3. CASE j = Len(yielded) + 1
          BY <3>6, <3>7, <4>1, <4>3
        <4> QED
          BY <4>0, <4>2, <4>3
      <3> QED
        BY <3>5, <3>8, <3>9 DEF Ordering
    <2>3. CASE Call \/ Exhausted \/ UNCHANGED vars
      BY <2>3 DEF Call, Exhausted, vars, Ordering, Estimates, AgendaBehind,
                    CostsNonDecreasing, IsRoot
    <2> QED
      BY <2>1, <2>2, <2>3 DEF Next
  <1> QED
    BY <1>1, <1>2, TypeCorrect, PTL DEF Spec

(* Results come in the order of their cost, best first.                    *)
THEOREM ResultsOrdered == Spec => []CostsNonDecreasing
  <1>1. Ordering => CostsNonDecreasing
    BY DEF Ordering
  <1> QED
    BY <1>1, OrderInvariant, PTL
-----------------------------------------------------------------------------
(* A path and its continuations.                                           *)
Prefix(p, q) == Len(p) <= Len(q) /\ \A i \in 1 .. Len(p) : p[i] = q[i]

Apart(p, q) == ~Prefix(p, q) /\ ~Prefix(q, p)

(* No element of the agenda continues another one or a result.             *)
AgendaApart ==
  /\ \A e, f \in agenda : e # f => Apart(e.path, f.path)
  /\ \A e \in agenda, i \in DOMAIN yielded : Apart(e.path, yielded[i].path)

(* What is apart from an element is apart from its children.               *)
LEMMA ChildApart ==
  ASSUME NEW p \in Seq(Node), NEW q \in Seq(Node), NEW r \in Seq(Node),
         Len(q) = Len(p) + 1, \A i \in 1 .. Len(p) : q[i] = p[i],
         Apart(p, r)
  PROVE  Apart(q, r) /\ Apart(r, q)
  <1>0. Len(p) \in Nat /\ Len(q) \in Nat /\ Len(r) \in Nat
    OBVIOUS
  <1>1. ~Prefix(q, r)
    <2> SUFFICES ASSUME Prefix(q, r) PROVE FALSE
      OBVIOUS
    <2>1. Prefix(p, r)
      BY <1>0 DEF Prefix
    <2> QED
      BY <2>1 DEF Apart
  <1>2. ~Prefix(r, q)
    <2> SUFFICES ASSUME Prefix(r, q) PROVE FALSE
      OBVIOUS
    <2>1. CASE Len(r) <= Len(p)
      <3>1. Prefix(r, p)
        BY <1>0, <2>1 DEF Prefix
      <3> QED
        BY <3>1 DEF Apart
    <2>2. CASE Len(r) = Len(q)
      <3>1. Prefix(p, r)
        BY <1>0, <2>2 DEF Prefix
      <3> QED
        BY <3>1 DEF Apart
    <2> QED
      BY <1>0, <2>1, <2>2 DEF Prefix
  <1> QED
    BY <1>1, <1>2 DEF Apart

(* Two children of an element are apart: there is one path per left node.  *)
LEMMA SiblingsApart ==
  ASSUME TypeOK, NEW e \in agenda, NEW c \in Children(e), NEW d \in Children(e), c # d
  PROVE  Apart(c.path, d.path)
  <1>1. e.path \in Seq(Node) /\ Last(e.path) \in Node
    BY ChildFacts DEF TypeOK, Elements
  <1>2. PICK p \in lattice.lpath[Last(e.path)] :
           c = Element(Append(e.path, p.lnode), p.cost + e.gx,
                       lattice.cost[p.lnode] + p.cost + e.gx)
    BY DEF Children
  <1>3. PICK r \in lattice.lpath[Last(e.path)] :
           d = Element(Append(e.path, r.lnode), r.cost + e.gx,
                       lattice.cost[r.lnode] + r.cost + e.gx)
    BY DEF Children
  <1>4. p # r
    BY <1>2, <1>3
  <1>5. p.lnode # r.lnode /\ p.lnode \in Node /\ r.lnode \in Node
    BY <1>1, <1>4, LatticeFacts
  <1>6. c.path = Append(e.path, p.lnode) /\ d.path = Append(e.path, r.lnode)
    BY <1>2, <1>3 DEF Element
  <1>7. /\ Len(c.path) = Len(e.path) + 1 /\ Len(d.path) = Len(e.path) + 1
        /\ c.path[Len(e.path) + 1] = p.lnode /\ d.path[Len(e.path) + 1] = r.lnode
        /\ Len(e.path) \in Nat
    BY <1>1, <1>5, <1>6
  <1> QED
    BY <1>5, <1>7 DEF Apart, Prefix

(* No segmentation is returned twice, over however many calls of next().   *)
THEOREM ResultsDistinct == Spec => []NoDuplicates
  <1> DEFINE Inv == AgendaApart /\ NoDuplicates
  <1>1. Init => Inv
    BY DEF Init, AgendaApart, NoDuplicates
  <1>2. TypeOK /\ Inv /\ [Next]_vars => Inv'
    <2> SUFFICES ASSUME TypeOK, Inv, [Next]_vars PROVE Inv'
      OBVIOUS
    <2>0. /\ \A f \in agenda : f.path \in Seq(Node)
          /\ \A i \in DOMAIN yielded : yielded[i].path \in Seq(Node)
      <3>1. \A i \in DOMAIN yielded : yielded[i] \in Elements
        BY DEF TypeOK
      <3> QED
        BY <3>1 DEF TypeOK, Elements
    <2>1. ASSUME NEW e \in agenda, Expand(e) PROVE Inv'
      <3>1. /\ agenda' = (agenda \ {e}) \cup Children(e)
            /\ yielded' = yielded
        BY <2>1 DEF Expand
      <3>2. ASSUME NEW c \in Children(e), NEW r \in Seq(Node), Apart(e.path, r)
            PROVE  Apart(c.path, r) /\ Apart(r, c.path)
        <4>1. /\ c.path \in Seq(Node) /\ Len(c.path) = Len(e.path) + 1
              /\ \A i \in 1 .. Len(e.path) : c.path[i] = e.path[i]
          BY ChildFacts DEF Elements
        <4> QED
          BY <2>0, <3>2, <4>1, ChildApart
      <3>3. \A f, g \in agenda' : f # g => Apart(f.path, g.path)
        <4> SUFFICES ASSUME NEW f \in agenda', NEW g \in agenda', f # g
                     PROVE  Apart(f.path, g.path)
          OBVIOUS
        <4>1. CASE f \in agenda /\ f # e /\ g \in agenda /\ g # e
          BY <4>1 DEF AgendaApart
        <4>2. CASE f \in Children(e) /\ g \in agenda /\ g # e
          BY <2>0, <3>2, <4>2 DEF AgendaApart
        <4>3. CASE f \in agenda /\ f # e /\ g \in Children(e)
          BY <2>0, <3>2, <4>3 DEF AgendaApart
        <4>4. CASE f \in Children(e) /\ g \in Children(e)
          BY <4>4, SiblingsApart
        <4> QED
          BY <3>1, <4>1, <4>2, <4>3, <4>4
      <3>4. \A f \in agenda', i \in DOMAIN yielded : Apart(f.path, yielded[i].path)
        BY <2>0, <3>1, <3>2 DEF AgendaApart
      <3> QED
        BY <3>1, <3>3, <3>4 DEF AgendaApart, NoDuplicates
    <2>2. ASSUME NEW e \in agenda, Yield(e) PROVE Inv'
      <3>1. agenda' = agenda \ {e} /\ yielded' = Append(yielded, e)
        BY <2>2 DEF Yield
      <3>2. /\ DOMAIN yielded' = 1 .. Len(yielded) + 1
            /\ \A i \in 1 .. Len(yielded) : yielded'[i] = yielded[i]
            /\ yielded'[Len(yielded) + 1] = e
            /\ DOMAIN yielded = 1 .. Len(yielded) /\ Len(yielded) \in Nat
        BY <3>1 DEF TypeOK
      <3>3. \A i \in DOMAIN yielded' : i \in DOMAIN yielded \/ i = Len(yielded) + 1
        BY <3>2
      <3>4. \A i \in DOMAIN yielded : yielded[i].path # e.path
        <4>1. Prefix(e.path, e.path)
          BY <2>0 DEF Prefix
        <4> QED
          BY <4>1 DEF AgendaApart, Apart
      <3>5. AgendaApart'
        BY <3>1, <3>2, <3>3 DEF AgendaApart
      <3>6. NoDuplicates'
        BY <3>2, <3>3, <3>4 DEF NoDuplicates
      <3> QED
        BY <3>5, <3>6
    <2>3. CASE Call \/ Exhausted \/ UNCHANGED vars
      BY <2>3 DEF Call, Exhausted, vars, AgendaApart, NoDuplicates
    <2> QED
      BY <2>1, <2>2, <2>3 DEF Next
  <1> QED
    BY <1>1, <1>2, TypeCorrect, PTL DEF Spec
-----------------------------------------------------------------------------
(* Every way continues what is in the agenda, or what was returned; what   *)
(* was returned ends at BOS.                                               *)
Covered ==
  /\ \A i \in DOMAIN yielded : yielded[i].path # <<>> /\ Last(yielded[i].path) = BOS
  /\ \A q : IsWay(q) =>
       \/ \E e \in agenda : Prefix(e.path, q)
       \/ \E i \in DOMAIN yielded : Prefix(yielded[i].path, q)

(* When the agenda is empty, which is when next() returns false, every way *)
(* through the lattice has been returned.                                  *)
NoneMissing ==
  agenda = {} => \A q : IsWay(q) => \E i \in DOMAIN yielded : yielded[i].path = q

(* Nothing goes on behind BOS, so a way that continues another is it.      *)
LEMMA WaysEndAtBOS ==
  ASSUME TypeOK, NEW r, r \in Seq(Node), r # <<>>, Last(r) = BOS,
         NEW q, IsWay(q), Prefix(r, q)
  PROVE  r = q
  <1>1. Len(r) \in Nat \ {0} /\ Len(q) \in Nat /\ Len(r) <= Len(q) /\ q \in Seq(Node)
    BY DEF Prefix, IsWay
  <1>2. q[Len(r)] = BOS
    BY <1>1 DEF Prefix, Last
  <1>3. ~(Len(r) < Len(q))
    <2> SUFFICES ASSUME Len(r) < Len(q) PROVE FALSE
      OBVIOUS
    <2>1. Len(r) \in 1 .. Len(q) - 1
      BY <1>1
    <2>2. \E p \in lattice.lpath[q[Len(r)]] : TRUE
      BY <2>1 DEF IsWay
    <2> QED
      BY <1>2, <2>2, LatticeFacts
  <1> QED
    BY <1>1, <1>3 DEF Prefix

(* So with an empty agenda every way has been returned.                    *)
LEMMA CoveredIsFound ==
  ASSUME TypeOK, Covered
  PROVE  NoneMissing
  <1> SUFFICES ASSUME agenda = {}, NEW q, IsWay(q)
               PROVE  \E i \in DOMAIN yielded : yielded[i].path = q
    BY DEF NoneMissing
  <1>1. PICK i \in DOMAIN yielded : Prefix(yielded[i].path, q)
    BY DEF Covered
  <1>2. yielded[i] \in Elements
    BY DEF TypeOK
  <1>3. /\ yielded[i].path \in Seq(Node) /\ yielded[i].path # <<>>
        /\ Last(yielded[i].path) = BOS
    BY <1>2 DEF Elements, Covered
  <1> QED
    BY <1>1, <1>3, WaysEndAtBOS

(* Every way is covered, at every step of the search.                      *)
LEMMA CoverInvariant == Spec => []Covered
  <1>1. Init => Covered
    <2> SUFFICES ASSUME Init PROVE Covered
      OBVIOUS
    <2>1. DOMAIN yielded = {}
      BY DEF Init
    <2>2. ASSUME NEW q, IsWay(q) PROVE \E e \in agenda : Prefix(e.path, q)
      <3>1. Len(q) \in Nat /\ Len(q) >= 1 /\ q[1] = EOS
        BY <2>2 DEF IsWay
      <3>2. Len(<<EOS>>) = 1 /\ <<EOS>>[1] = EOS
        OBVIOUS
      <3>3. Prefix(<<EOS>>, q)
        BY <3>1, <3>2 DEF Prefix
      <3> QED
        BY <3>3, RootFields DEF Init
    <2> QED
      BY <2>1, <2>2 DEF Covered
  <1>2. TypeOK /\ Covered /\ [Next]_vars => Covered'
    <2> SUFFICES ASSUME TypeOK, Covered, [Next]_vars PROVE Covered'
      OBVIOUS
    <2>1. ASSUME NEW e \in agenda, Expand(e) PROVE Covered'
      <3>1. /\ agenda' = (agenda \ {e}) \cup Children(e)
            /\ yielded' = yielded /\ lattice' = lattice /\ Last(e.path) # BOS
        BY <2>1 DEF Expand
      <3>2. ASSUME NEW q, IsWay(q), Prefix(e.path, q)
            PROVE  \E c \in Children(e) : Prefix(c.path, q)
        <4>1. /\ e.path \in Seq(Node) /\ e.path # <<>> /\ q \in Seq(Node)
              /\ Last(q) = BOS
          BY <3>2 DEF TypeOK, Elements, IsWay
        <4>2. /\ Len(e.path) \in Nat \ {0} /\ Len(q) \in Nat /\ Len(e.path) <= Len(q)
              /\ q[Len(e.path)] = Last(e.path)
          BY <3>2, <4>1 DEF Prefix, Last
        <4>3. Len(e.path) \in 1 .. Len(q) - 1
          BY <3>1, <4>1, <4>2 DEF Last
        <4>4. PICK p \in lattice.lpath[Last(e.path)] : p.lnode = q[Len(e.path) + 1]
          BY <3>2, <4>2, <4>3 DEF IsWay
        <4> DEFINE c == Element(Append(e.path, p.lnode), p.cost + e.gx,
                                lattice.cost[p.lnode] + p.cost + e.gx)
        <4>5. c \in Children(e)
          BY DEF Children
        <4>6. c.path = Append(e.path, p.lnode)
          BY DEF Element
        <4>7. p.lnode \in Node
          BY <4>1, <4>2, <4>3, <4>4
        <4> HIDE DEF c
        <4>8. Prefix(c.path, q)
          BY <3>2, <4>1, <4>2, <4>3, <4>4, <4>6, <4>7 DEF Prefix
        <4> QED
          BY <4>5, <4>8
      <3>3. \A q : IsWay(q)' <=> IsWay(q)
        BY <3>1 DEF IsWay
      <3> QED
        BY <3>1, <3>2, <3>3 DEF Covered
    <2>2. ASSUME NEW e \in agenda, Yield(e) PROVE Covered'
      <3>1. /\ agenda' = agenda \ {e} /\ yielded' = Append(yielded, e)
            /\ lattice' = lattice /\ Last(e.path) = BOS /\ e.path # <<>>
        BY <2>2 DEF Yield, TypeOK
      <3>2. /\ DOMAIN yielded' = 1 .. Len(yielded) + 1
            /\ \A i \in 1 .. Len(yielded) : yielded'[i] = yielded[i]
            /\ yielded'[Len(yielded) + 1] = e
            /\ DOMAIN yielded = 1 .. Len(yielded) /\ Len(yielded) \in Nat
        BY <3>1 DEF TypeOK
      <3>3. /\ \A i \in DOMAIN yielded' : i \in DOMAIN yielded \/ i = Len(yielded) + 1
            /\ \A i \in DOMAIN yielded : i \in DOMAIN yielded'
            /\ Len(yielded) + 1 \in DOMAIN yielded'
        BY <3>2
      <3>4. \A q : IsWay(q)' <=> IsWay(q)
        BY <3>1 DEF IsWay
      <3>5. \A i \in DOMAIN yielded' : yielded'[i].path # <<>> /\ Last(yielded'[i].path) = BOS
        BY <3>1, <3>2, <3>3 DEF Covered
      <3>6. ASSUME NEW q, IsWay(q)
            PROVE  \/ \E f \in agenda' : Prefix(f.path, q)
                   \/ \E i \in DOMAIN yielded' : Prefix(yielded'[i].path, q)
        BY <3>1, <3>2, <3>3, <3>6 DEF Covered
      <3> QED
        BY <3>4, <3>5, <3>6 DEF Covered
    <2>3. CASE Call \/ Exhausted \/ UNCHANGED vars
      BY <2>3 DEF Call, Exhausted, vars, Covered, IsWay
    <2> QED
      BY <2>1, <2>2, <2>3 DEF Next
  <1> QED
    BY <1>1, <1>2, TypeCorrect, PTL DEF Spec

(* When next() returns false, no segmentation is missing.                  *)
THEOREM ResultsComplete == Spec => []NoneMissing
  <1>1. TypeOK /\ Covered => NoneMissing
    BY CoveredIsFound
  <1> QED
    BY <1>1, CoverInvariant, TypeCorrect, PTL
-----------------------------------------------------------------------------
(* What a step of a path costs.                                            *)
Hop(m, n) == (CHOOSE p \in lattice.lpath[m] : p.lnode = n).cost

(* A path from EOS along left paths, and the sums of its costs.            *)
IsStart(path) ==
  /\ path \in Seq(Node) /\ path # <<>> /\ path[1] = EOS
  /\ \A i \in 1 .. Len(path) - 1 : \E p \in lattice.lpath[path[i]] : p.lnode = path[i + 1]

Sums(path, to) ==
  /\ to \in [1 .. Len(path) -> Int]
  /\ to[1] = 0
  /\ \A i \in 2 .. Len(path) : to[i] = to[i - 1] + Hop(path[i - 1], path[i])

LEMMA HopFacts ==
  ASSUME TypeOK, NEW m \in Node, NEW p \in lattice.lpath[m]
  PROVE  /\ Hop(m, p.lnode) = p.cost
         /\ lattice.cost[m] <= lattice.cost[p.lnode] + Hop(m, p.lnode)
         /\ lattice.id[p.lnode] < lattice.id[m]
         /\ p.lnode \in Node
  <1>1. p = CHOOSE q \in lattice.lpath[m] : q.lnode = p.lnode
    <2> DEFINE r == CHOOSE q \in lattice.lpath[m] : q.lnode = p.lnode
    <2>1. r \in lattice.lpath[m] /\ r.lnode = p.lnode
      OBVIOUS
    <2> QED
      BY <2>1, LatticeFacts
  <1>2. Hop(m, p.lnode) = p.cost
    BY <1>1 DEF Hop
  <1>3. IsLattice(lattice, Node, BOS, EOS)
    BY LatticesAssumption DEF TypeOK
  <1> QED
    BY <1>2, <1>3, LatticeFacts DEF IsLattice

(* The sums of a path exist, and CostOf is the last.                       *)
LEMMA SumsExist ==
  ASSUME TypeOK, NEW path, IsStart(path)
  PROVE  \E to : Sums(path, to) /\ CostOf(path) = to[Len(path)]
  <1> DEFINE n == Len(path) - 1
             step == [k \in 1 .. n |-> [x \in Int |-> x + Hop(path[k], path[k + 1])]]
  <1>0. n \in Nat /\ Len(path) = n + 1 /\ Len(path) \in Nat /\ path \in [1 .. n + 1 -> Node]
    BY DEF IsStart
  <1>1. ASSUME NEW k \in 1 .. n PROVE Hop(path[k], path[k + 1]) \in Int
    <2>1. PICK p \in lattice.lpath[path[k]] : p.lnode = path[k + 1]
      BY DEF IsStart
    <2>2. path[k] \in Node
      BY <1>0
    <2> QED
      BY <2>1, <2>2, HopFacts, LatticeFacts
  <1>2. AreSteps(step, n, Int)
    BY <1>1 DEF AreSteps
  <1>3. PICK g : IsIteration(g, step, n, Int, 0)
    <2> HIDE DEF step, n
    <2>1. n \in Nat /\ 0 \in Int
      BY <1>0
    <2> QED
      BY <1>2, <2>1, Iteration
  <1>4. \A k \in 1 .. n : g[k] = g[k - 1] + Hop(path[k], path[k + 1])
    <2>1. \A k \in 1 .. n : g[k - 1] \in Int
      BY <1>3, <1>0 DEF IsIteration
    <2> QED
      BY <1>3, <2>1 DEF IsIteration
  <1> HIDE DEF step, n
  <1> DEFINE Body(t) == [i \in 1 .. Len(path) |->
                          IF i = 1 THEN 0
                          ELSE t[i - 1] + (CHOOSE p \in lattice.lpath[path[i - 1]] : p.lnode = path[i]).cost]
             h == [i \in 1 .. Len(path) |-> g[i - 1]]
             to == CHOOSE t : t = Body(t)
  <1>5. h = Body(h)
    <2>1. ASSUME NEW i \in 1 .. Len(path), i # 1
          PROVE  g[i - 1] = h[i - 1] + Hop(path[i - 1], path[i])
      <3>1. i - 1 \in 1 .. n /\ i - 1 \in 1 .. Len(path) /\ (i - 1) - 1 = i - 2 /\ (i - 1) + 1 = i
        BY <2>1, <1>0
      <3>2. h[i - 1] = g[(i - 1) - 1]
        BY <3>1
      <3> QED
        BY <1>4, <3>1, <3>2
    <2>2. \A i \in 1 .. Len(path) : g[i - 1] =
            IF i = 1 THEN 0 ELSE h[i - 1] + Hop(path[i - 1], path[i])
      BY <2>1, <1>3 DEF IsIteration
    <2> QED
      BY <2>2 DEF Hop
  <1>6. \E t : t = Body(t)
    BY <1>5
  <1>7. to = Body(to)
    <2> HIDE DEF Body
    <2> QED
      BY <1>6, Zenon
  <1>8. CostOf(path) = to[Len(path)]
    BY DEF CostOf
  <1> HIDE DEF to
  <1>9. Sums(path, to)
    <2>1. /\ DOMAIN to = 1 .. Len(path) /\ to = [i \in 1 .. Len(path) |-> to[i]]
          /\ to[1] = 0
          /\ \A i \in 2 .. Len(path) : to[i] = to[i - 1] + Hop(path[i - 1], path[i])
      <3>1. \A i \in 1 .. Len(path) : to[i] = Body(to)[i]
        BY <1>7, Zenon
      <3>2. DOMAIN to = 1 .. Len(path) /\ to = [i \in 1 .. Len(path) |-> to[i]]
        BY <1>7
      <3>3. to[1] = 0
        BY <3>1, <1>0
      <3>4. \A i \in 2 .. Len(path) : to[i] = to[i - 1] + Hop(path[i - 1], path[i])
        <4> SUFFICES ASSUME NEW i \in 2 .. Len(path)
                     PROVE  to[i] = to[i - 1] + Hop(path[i - 1], path[i])
          OBVIOUS
        <4>1. i \in 1 .. Len(path) /\ i # 1
          BY <1>0
        <4> QED
          BY <3>1, <4>1, Zenon DEF Hop
      <3> QED
        BY <3>2, <3>3, <3>4
    <2> DEFINE P == {k \in 0 .. n : to[k + 1] \in Int}
    <2>2. 0 \in P
      BY <1>0, <2>1
    <2>3. ASSUME NEW k \in 1 .. n, k - 1 \in P PROVE k \in P
      <3>1. k \in 1 .. n /\ k + 1 \in 1 .. Len(path) /\ k + 1 # 1 /\ (k + 1) - 1 = k /\ (k - 1) + 1 = k
        BY <1>0
      <3>2. to[k + 1] = to[k] + Hop(path[k], path[k + 1])
        <4>1. k + 1 \in 2 .. Len(path)
          BY <3>1, <1>0
        <4> QED
          BY <2>1, <3>1, <4>1, Zenon
      <3>3. to[k] \in Int
        BY <2>3, <3>1
      <3> QED
        BY <1>1, <3>1, <3>2, <3>3
    <2>4. 0 .. n \subseteq P
      <3> HIDE DEF P
      <3> QED
        BY <1>0, <2>2, <2>3, UpTo
    <2>5. ASSUME NEW i \in 1 .. Len(path) PROVE to[i] \in Int
      <3>1. i - 1 \in 0 .. n /\ (i - 1) + 1 = i
        BY <1>0
      <3>2. i - 1 \in P
        BY <2>4, <3>1
      <3> QED
        BY <3>1, <3>2
    <2>6. to \in [1 .. Len(path) -> Int]
      BY <2>1, <2>5
    <2> QED
      BY <2>1, <2>6, Zenon DEF Sums
  <1> QED
    BY <1>8, <1>9

(* The sums of a path are those of its continuations, as far as it goes.   *)
LEMMA SumsAgree ==
  ASSUME NEW p, NEW q, p \in Seq(Node), q \in Seq(Node), p # <<>>, Prefix(p, q),
         NEW s, Sums(p, s), NEW t, Sums(q, t)
  PROVE  \A i \in 1 .. Len(p) : s[i] = t[i]
  <1> DEFINE n == Len(p) - 1
             P == {k \in 0 .. n : s[k + 1] = t[k + 1]}
  <1>1. n \in Nat /\ Len(p) = n + 1 /\ Len(p) <= Len(q) /\ Len(q) \in Nat
    BY DEF Prefix
  <1>2. 0 \in P
    BY <1>1 DEF Sums
  <1>3. ASSUME NEW k \in 1 .. n, k - 1 \in P PROVE k \in P
    <2>1. /\ (k - 1) + 1 = k /\ (k + 1) - 1 = k /\ k + 1 \in 2 .. Len(p) /\ k + 1 \in 2 .. Len(q)
          /\ k \in 1 .. Len(p) /\ k + 1 \in 1 .. Len(p)
      BY <1>1
    <2>2. p[k] = q[k] /\ p[k + 1] = q[k + 1]
      BY <2>1 DEF Prefix
    <2>3. s[k] = t[k]
      BY <1>3, <2>1
    <2>4. s[k + 1] = s[k] + Hop(p[k], p[k + 1]) /\ t[k + 1] = t[k] + Hop(q[k], q[k + 1])
      BY <2>1, Zenon DEF Sums
    <2> QED
      BY <2>2, <2>3, <2>4, <1>1
  <1> HIDE DEF P
  <1>4. 0 .. n \subseteq P
    BY <1>1, <1>2, <1>3, UpTo
  <1> SUFFICES ASSUME NEW i \in 1 .. Len(p) PROVE s[i] = t[i]
    OBVIOUS
  <1>5. i - 1 \in 0 .. n /\ (i - 1) + 1 = i
    BY <1>1
  <1> QED
    BY <1>4, <1>5 DEF P

LEMMA CostOfRoot ==
  ASSUME TypeOK
  PROVE  IsStart(<<EOS>>) /\ CostOf(<<EOS>>) = 0
  <1>1. IsStart(<<EOS>>)
    BY LatticeFacts DEF IsStart
  <1>2. PICK to : Sums(<<EOS>>, to) /\ CostOf(<<EOS>>) = to[Len(<<EOS>>)]
    BY <1>1, SumsExist
  <1> QED
    BY <1>1, <1>2 DEF Sums

LEMMA CostOfAppend ==
  ASSUME TypeOK, NEW path, IsStart(path), NEW p \in lattice.lpath[Last(path)]
  PROVE  /\ IsStart(Append(path, p.lnode))
         /\ CostOf(Append(path, p.lnode)) = CostOf(path) + p.cost
         /\ CostOf(path) \in Int /\ CostOf(Append(path, p.lnode)) \in Int
  <1> DEFINE q == Append(path, p.lnode)
             n == Len(path)
  <1>1. path \in Seq(Node) /\ n \in Nat \ {0} /\ Last(path) \in Node /\ Last(path) = path[n]
    BY DEF IsStart, Last
  <1>2. p.lnode \in Node /\ Hop(Last(path), p.lnode) = p.cost /\ p.cost \in Int
    BY <1>1, HopFacts, LatticeFacts
  <1>3. /\ q \in Seq(Node) /\ Len(q) = n + 1 /\ q # <<>>
        /\ \A i \in 1 .. n : q[i] = path[i]
        /\ q[n + 1] = p.lnode
    BY <1>1, <1>2
  <1> HIDE DEF q
  <1>4. IsStart(q)
    <2>1. q[1] = EOS
      BY <1>1, <1>3 DEF IsStart
    <2>2. ASSUME NEW i \in 1 .. n PROVE \E r \in lattice.lpath[q[i]] : r.lnode = q[i + 1]
      <3>1. CASE i = n
        BY <1>1, <1>3, <3>1
      <3>2. CASE i # n
        <4>1. i \in 1 .. Len(path) - 1 /\ i + 1 \in 1 .. n
          BY <1>1, <3>2
        <4> QED
          BY <1>3, <4>1 DEF IsStart
      <3> QED
        BY <3>1, <3>2
    <2> QED
      BY <1>1, <1>3, <2>1, <2>2 DEF IsStart
  <1>5. PICK s : Sums(path, s) /\ CostOf(path) = s[Len(path)]
    BY SumsExist
  <1>6. PICK t : Sums(q, t) /\ CostOf(q) = t[Len(q)]
    BY <1>4, SumsExist
  <1>7. Prefix(path, q)
    BY <1>1, <1>3 DEF Prefix
  <1>8. s[n] = t[n]
    <2>1. path # <<>> /\ n \in 1 .. Len(path)
      BY <1>1 DEF IsStart
    <2> QED
      BY <1>1, <1>3, <1>5, <1>6, <1>7, <2>1, SumsAgree
  <1>9. t[n + 1] = t[n] + Hop(q[n], q[n + 1])
    <2>1. n + 1 \in 2 .. Len(q) /\ (n + 1) - 1 = n
      BY <1>1, <1>3
    <2> QED
      BY <1>6, <2>1, Zenon DEF Sums
  <1>10. Hop(q[n], q[n + 1]) = p.cost
    <2>1. q[n] = Last(path) /\ q[n + 1] = p.lnode
      BY <1>1, <1>3
    <2> QED
      BY <2>1, <1>2
  <1>11. s[n] \in Int /\ CostOf(path) = s[n] /\ CostOf(q) = t[n + 1]
    BY <1>1, <1>3, <1>5, <1>6 DEF Sums
  <1>12. CostOf(q) = CostOf(path) + p.cost /\ CostOf(path) \in Int
    BY <1>8, <1>9, <1>10, <1>11
  <1>13. CostOf(q) \in Int
    BY <1>2, <1>12
  <1> QED
    BY <1>4, <1>12, <1>13 DEF q

(* Along a path the ids go down: no node is met twice.                     *)
LEMMA IdsDescend ==
  ASSUME TypeOK, NEW path, IsStart(path)
  PROVE  \A i, j \in 1 .. Len(path) : i < j => lattice.id[path[j]] < lattice.id[path[i]]
  <1>1. path \in Seq(Node) /\ Len(path) \in Nat
    BY DEF IsStart
  <1>2. \A k \in 1 .. Len(path) : path[k] \in Node /\ lattice.id[path[k]] \in Nat
    BY <1>1, LatticesAssumption DEF TypeOK, IsLattice
  <1>3. ASSUME NEW k \in 1 .. Len(path) - 1
        PROVE  lattice.id[path[k + 1]] < lattice.id[path[k]]
    <2>1. PICK p \in lattice.lpath[path[k]] : p.lnode = path[k + 1]
      BY DEF IsStart
    <2> QED
      BY <1>1, <1>2, <2>1, HopFacts
  <1> SUFFICES ASSUME NEW i \in 1 .. Len(path)
               PROVE  \A j \in 1 .. Len(path) : i < j => lattice.id[path[j]] < lattice.id[path[i]]
    OBVIOUS
  <1> DEFINE n == Len(path) - i
             P == {k \in 0 .. n : k # 0 => lattice.id[path[i + k]] < lattice.id[path[i]]}
  <1>4. n \in Nat
    BY <1>1
  <1>5. 0 \in P
    BY <1>4
  <1>6. ASSUME NEW k \in 1 .. n, k - 1 \in P PROVE k \in P
    <2>1. /\ i + k - 1 \in 1 .. Len(path) - 1 /\ (i + k - 1) + 1 = i + k
          /\ i + k \in 1 .. Len(path) /\ i + (k - 1) = i + k - 1
      BY <1>1
    <2>2. lattice.id[path[i + k]] < lattice.id[path[i + k - 1]]
      BY <1>3, <2>1
    <2>3. CASE k = 1
      BY <2>1, <2>2, <2>3
    <2>4. CASE k # 1
      <3>1. lattice.id[path[i + k - 1]] < lattice.id[path[i]]
        BY <1>6, <2>1, <2>4
      <3>2. i + k - 1 \in 1 .. Len(path)
        BY <2>1
      <3> QED
        BY <1>2, <2>1, <2>2, <3>1, <3>2
    <2> QED
      BY <2>3, <2>4
  <1>7. 0 .. n \subseteq P
    <2> HIDE DEF P
    <2> QED
      BY <1>4, <1>5, <1>6, UpTo
  <1> SUFFICES ASSUME NEW j \in 1 .. Len(path), i < j
               PROVE  lattice.id[path[j]] < lattice.id[path[i]]
    OBVIOUS
  <1>8. j - i \in 0 .. n /\ j - i # 0 /\ i + (j - i) = j
    BY <1>1
  <1> QED
    BY <1>7, <1>8

(* So a path has at most as many nodes as there are.                       *)
LEMMA PathsShort ==
  ASSUME TypeOK, NEW path, IsStart(path)
  PROVE  Len(path) \in 1 .. Cardinality(Node) /\ path \in [1 .. Len(path) -> Node]
  <1>1. /\ path \in Seq(Node) /\ Len(path) \in Nat \ {0} /\ path \in [1 .. Len(path) -> Node]
    BY DEF IsStart
  <1>2. \A k \in 1 .. Len(path) : path[k] \in Node /\ lattice.id[path[k]] \in Nat
    BY <1>1, LatticesAssumption DEF TypeOK, IsLattice
  <1>3. \A i, j \in 1 .. Len(path) : i < j => path[i] # path[j]
    BY <1>2, IdsDescend
  <1>4. path \in Injection(1 .. Len(path), Node)
    BY <1>1, <1>3 DEF Injection, IsInjective
  <1>5. Cardinality(1 .. Len(path)) <= Cardinality(Node)
    BY <1>4, NodeAssumption, FS_Injection
  <1>6. Cardinality(1 .. Len(path)) = Len(path)
    BY <1>1, FS_Interval
  <1>7. Cardinality(Node) \in Nat
    BY NodeAssumption, FS_CardinalityType
  <1> QED
    BY <1>1, <1>5, <1>6, <1>7

(* From no node of a way is the rest cheaper than the estimate says.       *)
LEMMA EstimateHolds ==
  ASSUME TypeOK, NEW q, IsWay(q), NEW t, Sums(q, t)
  PROVE  \A k \in 1 .. Len(q) : t[k] + lattice.cost[q[k]] <= t[Len(q)]
  <1> DEFINE n == Len(q) - 1
             P == {k \in 0 .. n : t[Len(q) - k] + lattice.cost[q[Len(q) - k]] <= t[Len(q)]}
  <1>1. /\ q \in Seq(Node) /\ n \in Nat /\ Len(q) = n + 1 /\ Len(q) \in Nat
        /\ q[Len(q)] = BOS
    BY DEF IsWay, Last
  <1>2. \A k \in 1 .. Len(q) : t[k] \in Int /\ q[k] \in Node /\ lattice.cost[q[k]] \in Int
    BY <1>1, LatticeFacts DEF Sums
  <1>3. 0 \in P
    <2>1. Len(q) - 0 = Len(q) /\ Len(q) \in 1 .. Len(q)
      BY <1>1
    <2>2. lattice.cost[q[Len(q)]] = 0 /\ t[Len(q)] \in Int
      BY <1>1, <1>2, <2>1, LatticeFacts
    <2> QED
      BY <1>1, <2>1, <2>2
  <1>4. ASSUME NEW k \in 1 .. n, k - 1 \in P PROVE k \in P
    <2> DEFINE m == Len(q) - k
    <2>1. /\ m \in 1 .. Len(q) - 1 /\ m + 1 = Len(q) - (k - 1) /\ m + 1 \in 2 .. Len(q)
          /\ (m + 1) - 1 = m /\ m \in 1 .. Len(q) /\ m + 1 \in 1 .. Len(q)
      BY <1>1
    <2> HIDE DEF m
    <2>2. t[m + 1] = t[m] + Hop(q[m], q[m + 1])
      BY <2>1, Zenon DEF Sums
    <2>3. PICK p \in lattice.lpath[q[m]] : p.lnode = q[m + 1]
      BY <2>1 DEF IsWay
    <2>4. lattice.cost[q[m]] <= lattice.cost[q[m + 1]] + Hop(q[m], q[m + 1])
      BY <1>2, <2>1, <2>3, HopFacts
    <2>5. Hop(q[m], q[m + 1]) \in Int
      BY <1>2, <2>1, <2>3, HopFacts, LatticeFacts
    <2>6. t[m + 1] + lattice.cost[q[m + 1]] <= t[Len(q)]
      BY <1>4, <2>1
    <2>7. t[m] \in Int /\ t[m + 1] \in Int /\ lattice.cost[q[m]] \in Int
          /\ lattice.cost[q[m + 1]] \in Int /\ t[Len(q)] \in Int
      BY <1>1, <1>2, <2>1
    <2>8. t[m] + lattice.cost[q[m]] <= t[Len(q)]
      BY <2>2, <2>4, <2>5, <2>6, <2>7
    <2> QED
      BY <2>8 DEF m
  <1>5. 0 .. n \subseteq P
    <2> HIDE DEF P
    <2> QED
      BY <1>1, <1>3, <1>4, UpTo
  <1> SUFFICES ASSUME NEW k \in 1 .. Len(q) PROVE t[k] + lattice.cost[q[k]] <= t[Len(q)]
    OBVIOUS
  <1>6. Len(q) - k \in 0 .. n /\ Len(q) - (Len(q) - k) = k
    BY <1>1
  <1> QED
    BY <1>5, <1>6

(* The agenda and the results are paths with their true costs.             *)
TrueCosts ==
  /\ \A e \in agenda : IsStart(e.path) /\ e.gx = CostOf(e.path)
  /\ \A i \in DOMAIN yielded : IsWay(yielded[i].path) /\ yielded[i].gx = CostOf(yielded[i].path)

LEMMA CostsAreTrue == Spec => []TrueCosts
  <1>1. Init => TypeOK
    BY TypeInit
  <1>2. Init => TrueCosts
    <2> SUFFICES ASSUME Init PROVE TrueCosts
      OBVIOUS
    <2>1. agenda = {Element(<<EOS>>, 0, 0)} /\ DOMAIN yielded = {}
      BY DEF Init
    <2> QED
      BY <1>1, <2>1, CostOfRoot, RootFields DEF TrueCosts
  <1>3. TypeOK /\ TrueCosts /\ [Next]_vars => TrueCosts'
    <2> SUFFICES ASSUME TypeOK, TrueCosts, [Next]_vars PROVE TrueCosts'
      OBVIOUS
    <2>0. ASSUME lattice' = lattice
          PROVE  \A path : /\ IsStart(path)' <=> IsStart(path)
                           /\ IsWay(path)' <=> IsWay(path)
                           /\ CostOf(path)' = CostOf(path)
      BY <2>0 DEF IsStart, IsWay, CostOf
    <2>1. ASSUME NEW e \in agenda, Expand(e) PROVE TrueCosts'
      <3>1. /\ agenda' = (agenda \ {e}) \cup Children(e)
            /\ yielded' = yielded /\ lattice' = lattice
        BY <2>1 DEF Expand
      <3>2. ASSUME NEW c \in Children(e) PROVE IsStart(c.path) /\ c.gx = CostOf(c.path)
        <4>1. PICK p \in lattice.lpath[Last(e.path)] :
                c.path = Append(e.path, p.lnode) /\ c.gx = p.cost + e.gx
          BY ChildFacts
        <4>2. /\ IsStart(Append(e.path, p.lnode))
              /\ CostOf(Append(e.path, p.lnode)) = CostOf(e.path) + p.cost
              /\ CostOf(e.path) \in Int /\ e.gx = CostOf(e.path)
          BY CostOfAppend DEF TrueCosts
        <4>3. p.cost \in Int
          BY ChildFacts, LatticeFacts
        <4> QED
          BY <4>1, <4>2, <4>3
      <3>3. \A f \in agenda' : IsStart(f.path) /\ f.gx = CostOf(f.path)
        BY <3>1, <3>2 DEF TrueCosts
      <3> QED
        BY <2>0, <3>1, <3>3 DEF TrueCosts
    <2>2. ASSUME NEW e \in agenda, Yield(e) PROVE TrueCosts'
      <3>1. /\ agenda' = agenda \ {e} /\ yielded' = Append(yielded, e)
            /\ lattice' = lattice /\ Last(e.path) = BOS
        BY <2>2 DEF Yield
      <3>2. /\ DOMAIN yielded' = 1 .. Len(yielded) + 1
            /\ \A i \in 1 .. Len(yielded) : yielded'[i] = yielded[i]
            /\ yielded'[Len(yielded) + 1] = e
            /\ DOMAIN yielded = 1 .. Len(yielded) /\ Len(yielded) \in Nat
        BY <3>1 DEF TypeOK
      <3>3. \A i \in DOMAIN yielded' : i \in DOMAIN yielded \/ i = Len(yielded) + 1
        BY <3>2
      <3>4. IsWay(e.path) /\ e.gx = CostOf(e.path)
        BY <3>1 DEF TrueCosts, IsStart, IsWay
      <3>5. \A i \in DOMAIN yielded' :
              IsWay(yielded'[i].path) /\ yielded'[i].gx = CostOf(yielded'[i].path)
        BY <3>2, <3>3, <3>4 DEF TrueCosts
      <3> QED
        BY <2>0, <3>1, <3>5 DEF TrueCosts
    <2>3. CASE Call \/ Exhausted \/ UNCHANGED vars
      <3>1. agenda' = agenda /\ yielded' = yielded /\ lattice' = lattice
        BY <2>3 DEF Call, Exhausted, vars
      <3> QED
        BY <2>0, <3>1 DEF TrueCosts
    <2> QED
      BY <2>1, <2>2, <2>3 DEF Next
  <1> QED
    BY <1>2, <1>3, TypeCorrect, PTL DEF Spec

(* When next() has returned false every segmentation has been returned, and *)
(* nothing else; each with its true cost, a cheapest one first.            *)
LEMMA FoundWhenBehind ==
  ASSUME TypeOK, Ordering, Covered, TrueCosts
  PROVE  AllFound
  <1>0. Estimates /\ AgendaBehind /\ CostsNonDecreasing
    BY DEF Ordering
  <1>1. \A q : IsWay(q) => IsStart(q)
    BY DEF IsWay, IsStart
  <1>2. ASSUME agenda = {} PROVE {yielded[i].path : i \in DOMAIN yielded} = CompletePaths
    <2>1. ASSUME NEW i \in DOMAIN yielded PROVE yielded[i].path \in CompletePaths
      BY <1>1, PathsShort DEF TrueCosts, CompletePaths
    <2>2. ASSUME NEW q \in CompletePaths PROVE \E i \in DOMAIN yielded : yielded[i].path = q
      BY <1>2, CoveredIsFound DEF NoneMissing, CompletePaths
    <2> QED
      BY <2>1, <2>2
  <1>3. ASSUME NEW q \in CompletePaths, yielded # <<>> PROVE yielded[1].gx <= CostOf(q)
    <2>1. IsWay(q) /\ q \in Seq(Node)
      BY DEF CompletePaths, IsWay
    <2>2. PICK t : Sums(q, t) /\ CostOf(q) = t[Len(q)]
      BY <1>1, <2>1, SumsExist
    <2>3. 1 \in DOMAIN yielded /\ \A i \in DOMAIN yielded : yielded[i] \in Elements /\ 1 <= i
      BY <1>3 DEF TypeOK
    <2>4. yielded[1].gx \in Int
      BY <2>3 DEF Elements
    <2>5. ASSUME NEW e \in agenda, Prefix(e.path, q) PROVE yielded[1].gx <= CostOf(q)
      <3>1. IsStart(e.path) /\ e.gx = CostOf(e.path) /\ e \in Elements
        BY DEF TrueCosts, TypeOK
      <3>2. PICK s : Sums(e.path, s) /\ CostOf(e.path) = s[Len(e.path)]
        BY <3>1, SumsExist
      <3> DEFINE k == Len(e.path)
      <3>3. k \in 1 .. Len(q) /\ k \in 1 .. Len(e.path) /\ e.path \in Seq(Node) /\ e.path # <<>>
        BY <2>1, <2>5, <3>1 DEF Prefix, IsStart
      <3>4. s[k] = t[k] /\ Last(e.path) = q[k]
        <4>1. s[k] = t[k]
          BY <2>1, <2>2, <2>5, <3>2, <3>3, SumsAgree
        <4> QED
          BY <2>5, <3>3, <4>1 DEF Last, Prefix
      <3>5. t[k] + lattice.cost[q[k]] <= t[Len(q)]
        BY <2>1, <2>2, <3>3, EstimateHolds
      <3>6. ~IsRoot(e)
        BY <1>0, <1>3 DEF Estimates
      <3>7. e.fx = lattice.cost[q[k]] + e.gx /\ yielded[1].gx <= e.fx
        BY <1>0, <2>3, <3>4, <3>6 DEF Estimates, AgendaBehind
      <3>8. /\ t[k] \in Int /\ t[Len(q)] \in Int /\ lattice.cost[q[k]] \in Int
            /\ e.gx = t[k]
        <4>1. Len(q) \in 1 .. Len(q) /\ q[k] \in Node
          BY <2>1, <3>3
        <4> QED
          BY <2>2, <3>1, <3>2, <3>3, <3>4, <4>1, LatticeFacts DEF Sums
      <3> QED
        BY <2>2, <2>4, <3>5, <3>7, <3>8
    <2>6. ASSUME NEW i \in DOMAIN yielded, Prefix(yielded[i].path, q)
          PROVE  yielded[1].gx <= CostOf(q)
      <3>1. IsWay(yielded[i].path) /\ yielded[i].gx = CostOf(yielded[i].path)
        BY DEF TrueCosts
      <3>2. yielded[i].path = q
        <4>1. /\ yielded[i].path \in Seq(Node) /\ yielded[i].path # <<>>
              /\ Last(yielded[i].path) = BOS
          BY <3>1 DEF IsWay
        <4> QED
          BY <2>1, <2>6, <4>1, WaysEndAtBOS
      <3>3. yielded[1].gx <= yielded[i].gx
        <4>1. i = 1 \/ 1 < i
          BY <2>3 DEF TypeOK
        <4> QED
          BY <1>0, <2>3, <2>4, <4>1 DEF CostsNonDecreasing
      <3> QED
        BY <3>1, <3>2, <3>3
    <2> QED
      BY <2>1, <2>5, <2>6 DEF Covered
  <1> QED
    BY <1>2, <1>3 DEF AllFound, TrueCosts

(* The set of results, the costs and the first result are right.           *)
THEOREM AllResultsFound == Spec => []AllFound
  BY OrderInvariant, CoverInvariant, CostsAreTrue, TypeCorrect, FoundWhenBehind, PTL

(* Reading Node::next from BOS gives the last result, whatever the links   *)
(* were before: no node is on a path twice, so none is linked twice.       *)
THEOREM LinksRead == Spec => []LinksReadResult
  <1>1. Init => LinksReadResult
    BY DEF Init, LinksReadResult
  <1>2. TypeOK /\ TrueCosts /\ LinksReadResult /\ [Next]_vars => LinksReadResult'
    <2> SUFFICES ASSUME TypeOK, TrueCosts, LinksReadResult, [Next]_vars PROVE LinksReadResult'
      OBVIOUS
    <2>1. CASE yielded' = yielded /\ link' = link
      BY <2>1 DEF LinksReadResult
    <2>2. ASSUME NEW e \in agenda, Yield(e) PROVE LinksReadResult'
      <3>1. yielded' = Append(yielded, e) /\ link' = Relinked(e.path)
        BY <2>2 DEF Yield
      <3>2. yielded'[Len(yielded')] = e
        BY <3>1 DEF TypeOK
      <3>3. IsStart(e.path) /\ e.path \in Seq(Node)
        BY DEF TrueCosts, IsStart
      <3>4. \A k \in 1 .. Len(e.path) : e.path[k] \in Node /\ lattice.id[e.path[k]] \in Nat
        BY <3>3, LatticesAssumption DEF TypeOK, IsLattice
      <3>5. \A i, j \in 1 .. Len(e.path) : e.path[i] = e.path[j] => i = j
        BY <3>3, <3>4, IdsDescend
      <3>6. ASSUME NEW k \in 2 .. Len(e.path) PROVE link'[e.path[k]] = e.path[k - 1]
        <4> DEFINE i == CHOOSE i \in 2 .. Len(e.path) : e.path[i] = e.path[k]
        <4>1. i \in 2 .. Len(e.path) /\ e.path[i] = e.path[k]
          OBVIOUS
        <4>2. i = k
          BY <3>5, <4>1
        <4>3. e.path[k] \in Node
          BY <3>4
        <4>4. link'[e.path[k]] = e.path[i - 1]
          BY <3>1, <4>1, <4>3 DEF Relinked
        <4> QED
          BY <4>2, <4>4
      <3> QED
        BY <3>2, <3>6 DEF LinksReadResult
    <2> QED
      BY <2>1, <2>2 DEF Next, Call, Exhausted, Expand, vars
  <1> QED
    BY <1>1, <1>2, CostsAreTrue, TypeCorrect, PTL DEF Spec
=============================================================================

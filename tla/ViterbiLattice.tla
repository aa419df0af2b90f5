---------------------------- MODULE ViterbiLattice ----------------------------
(***************************************************************************)
(* Viterbi::analyze of src/src/viterbi.cpp on one lattice: the constraints *)
(* of initPartial, the scan that looks words up and connects them, the     *)
(* best path and the list of all morphs.  One action per phase of analyze, *)
(* one Scan per sentence position.                                         *)
(***************************************************************************)
EXTENDS Tokenizer, LatticeGraph

CONSTANTS
  Inputs,    \* what callers hand over: see InitPartial for the two kinds
  Matrices,  \* connection matrices: <<rcAttr, lcAttr>> -> cost
  CostLimit  \* the initial best_cost of connect, 2147483647 in the code

(* What callers pass are texts, in any number of lines or with any calls;  *)
(* a call is about a position of the text.                                 *)
ASSUME InputsAssumption ==
  \A in \in Inputs :
    IF in.partial
    THEN /\ in.fragments \in Seq(ToSet(in.fragments))
         /\ \A f \in ToSet(in.fragments) : f.surface \in Seq(Bytes)
    ELSE /\ in.sentence \in Seq(Bytes) /\ in.calls \in Seq(ToSet(in.calls))
         /\ \A c \in ToSet(in.calls) :
              c.at \in 0 .. Len(in.sentence) /\ (c.op # "boundary" => c.to \in Nat)

(* The matrix has a cost for the attributes of all tokens and of BOS and   *)
(* EOS: a dictionary whose ids it has not is not compiled.                 *)
LeftIds  == {0} \cup {t.lc : t \in DicTokens}
RightIds == {0} \cup {t.rc : t \in DicTokens}

ASSUME MatrixAssumption ==
  /\ \A m \in Matrices : \A r \in RightIds, l \in LeftIds : m[<<r, l>>] \in Int
  /\ CostLimit \in Int

VARIABLES
  input,     \* the sentence or fragments, and the request type
  matrix,    \* the matrix of the connector
  phase,     \* what analyze does next, or how it ended
  lat,       \* sentence and constraints of the lattice
  nodes,     \* the nodes allocated so far; a node is its index
  begin_node_list, end_node_list,  \* offset -> list of nodes, head first
  pos,       \* the position of the scan
  result     \* nodes from BOS along `next`

vars == <<input, matrix, phase, lat, nodes, begin_node_list, end_node_list, pos, result>>

Size == Len(lat.sentence)

BareLattice(s) ==
  [sentence |-> s, constrained |-> FALSE,
   boundary |-> [p \in Offsets(s) |-> AnyBoundary],
   feature |-> [p \in Offsets(s) |-> NoFeature]]

SetBoundaryConstraint(l, p, type) ==
  [l EXCEPT !.constrained = TRUE, !.boundary[p] = type]

SetFeatureConstraint(l, b, e, f) ==
  LET last == IF e < Len(l.sentence) THEN e ELSE Len(l.sentence)
  IN  IF b >= e \/ f = NoFeature THEN l
      ELSE [l EXCEPT
              !.constrained = TRUE,
              !.boundary = [p \in DOMAIN @ |-> IF p \in {b, last} THEN TokenBoundary
                                               ELSE IF b < p /\ p < last THEN InsideToken
                                               ELSE @[p]],
              !.feature[b] = f]

ApplyCall(l, c) ==
  IF c.op = "boundary" THEN SetBoundaryConstraint(l, c.at, c.type)
  ELSE SetFeatureConstraint(l, c.at, c.to, c.feature)

(* Without MECAB_PARTIAL the caller has made set_boundary_constraint and   *)
(* set_feature_constraint calls; if any, both ends become boundaries.      *)
UserLattice(s, calls) ==
  LET after[i \in 0 .. Len(calls)] ==
        IF i = 0 THEN BareLattice(s) ELSE ApplyCall(after[i - 1], calls[i])
      called == after[Len(calls)]
  IN  IF called.constrained
      THEN SetBoundaryConstraint(SetBoundaryConstraint(called, 0, TokenBoundary),
                                 Len(s), TokenBoundary)
      ELSE called

(* With MECAB_PARTIAL the text was lines "surface" or "surface<TAB>feature"*)
(* up to "EOS"; the fragments are those lines.                             *)
AddFragment(acc, f) ==
  LET e == acc.at + Len(f.surface)
      bounded == SetBoundaryConstraint(
                   SetBoundaryConstraint(acc.l, acc.at, TokenBoundary), e, TokenBoundary)
  IN  [at |-> e, l |-> SetFeatureConstraint(bounded, acc.at, e, f.feature)]

PartialLattice(fragments) ==
  LET s == FlattenSeq([i \in DOMAIN fragments |-> fragments[i].surface])
      after[i \in 0 .. Len(fragments)] ==
        IF i = 0 THEN [at |-> 0, l |-> BareLattice(s)]
        ELSE AddFragment(after[i - 1], fragments[i])
  IN  after[Len(fragments)].l

InitPartial(in) ==
  IF in.partial THEN PartialLattice(in.fragments) ELSE UserLattice(in.sentence, in.calls)

(* BOS and EOS carry attribute 0 on both sides. *)
Sentinel(stat, at) ==
  [surface |-> at, length |-> 0, rlength |-> 0, stat |-> stat, type |-> "none",
   lc |-> 0, rc |-> 0, wcost |-> 0, feature |-> NoFeature,
   cost |-> 0, prev |-> 0, lpath |-> {}]

(* Texts of which no length and no window of a lookup is cut.              *)
ShortTexts == \A in \in Inputs : Len(InitPartial(in).sentence) + 3 <= LengthMax

Init ==
  /\ input \in Inputs
  /\ matrix \in Matrices
  /\ phase = "start"
  /\ lat = BareLattice(<<>>)
  /\ nodes = <<>>
  /\ begin_node_list = [p \in 0 .. 3 |-> <<>>]
  /\ end_node_list = [p \in 0 .. 3 |-> <<>>]
  /\ pos = 0
  /\ result = <<>>

BOS == 1

Start ==
  /\ phase = "start"
  /\ lat' = InitPartial(input)
  /\ nodes' = <<Sentinel("bos", 0)>>
  /\ begin_node_list' = [p \in Offsets(lat'.sentence) |-> <<>>]
  /\ end_node_list' = [p \in Offsets(lat'.sentence) |-> IF p = 0 THEN <<BOS>> ELSE <<>>]
  /\ phase' = "scan"
  /\ UNCHANGED <<input, matrix, pos, result>>

(* Connector::cost. *)
LocalCost(lnode, rnode) == matrix[<<lnode.rc, rnode.lc>>] + rnode.wcost

(* The cost of the best way to rnode over node l of ns; faults: the way to *)
(* l forgotten, the word counted twice.                                    *)
CostViaLocal(ns, l, rnode) == LocalCost(ns[l], rnode)
CostViaTwice(ns, l, rnode) == ns[l].cost + LocalCost(ns[l], rnode) + rnode.wcost
CostVia(ns, l, rnode) == ns[l].cost + LocalCost(ns[l], rnode)

(* The path to a left node; a fault: with the cost of the way so far.      *)
PathToWithWay(ns, l, rnode) == [lnode |-> l, cost |-> CostVia(ns, l, rnode)]
PathTo(ns, l, rnode) == [lnode |-> l, cost |-> LocalCost(ns[l], rnode)]

(* connect for one right node: the first cheapest left node, if any beats  *)
(* CostLimit, and one path to every left node.                             *)
Connected(ns, rnode, lefts) ==
  LET via(i) == CostVia(ns, lefts[i], rnode)
      cheapest == {i \in DOMAIN lefts : via(i) < CostLimit /\ \A k \in DOMAIN lefts : via(i) <= via(k)}
      best == CHOOSE i \in cheapest : \A k \in cheapest : i <= k
  IN  [rnode EXCEPT !.prev  = IF cheapest = {} THEN 0 ELSE lefts[best],
                    !.cost  = IF cheapest = {} THEN CostLimit ELSE via(best),
                    !.lpath = {PathTo(ns, lefts[i], rnode) : i \in DOMAIN lefts}]

(* connect for the whole list of right nodes of a position; ids follow the *)
(* list.  Each is filed where it ends before the next is connected: one    *)
(* whose length with the spaces was cut to 0 is a left node of the others. *)
LinkStep(w, rnode) ==
  LET ns == nodes \o w.linked
  IN  [linked |-> Append(w.linked, Connected(ns, rnode, w.lefts)),
       lefts  |-> IF rnode.rlength = 0 THEN <<Len(ns) + 1>> \o w.lefts ELSE w.lefts]
Linked(rnodes, lefts) ==
  LET step[i \in 0 .. Len(rnodes)] ==
        IF i = 0 THEN [linked |-> <<>>, lefts |-> lefts] ELSE LinkStep(step[i - 1], rnodes[i])
  IN  step[Len(rnodes)].linked

Connect(p, linked) ==
  /\ \A i \in DOMAIN linked : linked[i].prev # 0
  /\ nodes' = nodes \o linked
  /\ begin_node_list' =
       [begin_node_list EXCEPT ![p] = [i \in DOMAIN linked |-> Len(nodes) + i]]
  /\ end_node_list' =
       [x \in DOMAIN end_node_list |->
          LET ends == FlattenSeq([i \in DOMAIN linked |->
                                    IF linked[i].rlength + p = x THEN <<Len(nodes) + i>> ELSE <<>>])
          IN  Reverse(ends) \o end_node_list[x]]

(* A position of the scan that some node ends at: look up and connect, or  *)
(* leave with the exception of lookup, or with "too long sentence." when   *)
(* some right node has no left node below CostLimit.                       *)
ScanOutcome(found, linked) ==
  \/ /\ found.died
     /\ phase' = "died"
     /\ UNCHANGED <<nodes, begin_node_list, end_node_list, pos>>
  \/ /\ ~found.died
     /\ Connect(pos, linked)
     /\ pos' = pos + 1
     /\ UNCHANGED phase
  \/ /\ \E i \in DOMAIN linked : linked[i].prev = 0
     /\ phase' = "failed"
     /\ UNCHANGED <<nodes, begin_node_list, end_node_list, pos>>

ScanFound(found) == ScanOutcome(found, Linked(found.nodes, end_node_list[pos]))

Scan ==
  /\ phase = "scan" /\ pos < Size
  /\ end_node_list[pos] # <<>>
  /\ ScanFound(Lookup(lat, pos))
  /\ UNCHANGED <<input, matrix, lat, result>>

SkipPosition ==
  /\ phase = "scan" /\ pos < Size
  /\ end_node_list[pos] = <<>>
  /\ pos' = pos + 1
  /\ UNCHANGED <<input, matrix, phase, lat, nodes, begin_node_list, end_node_list, result>>

(* EOS is connected at the last position up to the size where a node ends, *)
(* and filed among the nodes that end there; BOS is put back at 0.         *)
LastEnd ==
  CHOOSE p \in 0 .. Size :
    /\ end_node_list[p] # <<>>
    /\ \A q \in p + 1 .. Size : end_node_list[q] = <<>>

EOS == Len(nodes)

FileEOS(eos) ==
  \/ /\ eos.prev = 0
     /\ phase' = "failed"
     /\ UNCHANGED <<nodes, begin_node_list, end_node_list>>
  \/ /\ eos.prev # 0
     /\ phase' = "built"
     /\ nodes' = Append(nodes, eos)
     /\ begin_node_list' = [begin_node_list EXCEPT ![Size] = <<Len(nodes) + 1>>]
     /\ end_node_list' =
          [[end_node_list EXCEPT ![LastEnd] = <<Len(nodes) + 1>> \o @] EXCEPT ![0] = <<BOS>>]

ConnectEOS ==
  /\ phase = "scan" /\ pos = Size
  /\ FileEOS(Connected(nodes, Sentinel("eos", Size), end_node_list[LastEnd]))
  /\ UNCHANGED <<input, matrix, lat, pos, result>>

(* buildBestLattice: back along prev from EOS. *)
BestPath ==
  LET back[k \in 0 .. Len(nodes)] ==
        IF k = 0 THEN <<EOS>>
        ELSE LET p == back[k - 1]
             IN  IF nodes[Head(p)].prev = 0 THEN p ELSE <<nodes[Head(p)].prev>> \o p
  IN  back[Len(nodes)]

(* buildAllLattice: every node in the order of its position; a fault: the  *)
(* last position, where EOS begins, left out.                              *)
AllMorphsButLast ==
  <<BOS>> \o FlattenSeq([p \in 1 .. Size |-> begin_node_list[p - 1]])

AllMorphs ==
  <<BOS>> \o FlattenSeq([p \in 1 .. Size + 1 |-> begin_node_list[p - 1]])

BuildResult ==
  /\ phase = "built"
  /\ result' = IF input.all_morphs THEN AllMorphs ELSE BestPath
  /\ phase' = "done"
  /\ UNCHANGED <<input, matrix, lat, nodes, begin_node_list, end_node_list, pos>>

Next == Start \/ Scan \/ SkipPosition \/ ConnectEOS \/ BuildResult

Spec == Init /\ [][Next]_vars
-----------------------------------------------------------------------------
Finished == phase \in {"built", "done"}

BeginOf(n) == n.surface + n.length - n.rlength  \* with the spaces before it
EndOf(n)   == n.surface + n.length

(* The tokens between BOS and EOS of the best path. *)
Tokens ==
  LET path == BestPath
  IN  [i \in 1 .. Len(path) - 2 |-> nodes[path[i + 1]]]

(* Type invariant: node lists hold allocated nodes, filed by position; a   *)
(* node at trailing spaces ends behind the sentence and still inside the   *)
(* node vectors, which set_sentence makes four entries longer.             *)
TypeOK ==
  /\ input \in Inputs /\ matrix \in Matrices
  /\ phase \in {"start", "scan", "built", "done", "failed", "died"}
  /\ pos \in 0 .. Size
  /\ phase # "start" =>
       /\ DOMAIN begin_node_list = Offsets(lat.sentence)
       /\ DOMAIN end_node_list = Offsets(lat.sentence)
       /\ \A p \in Offsets(lat.sentence) :
            /\ \A n \in ToSet(begin_node_list[p]) : nodes[n].surface >= p
            /\ \A n \in ToSet(end_node_list[p]) : nodes[n].stat # "eos" => EndOf(nodes[n]) = p
  /\ \A n \in DOMAIN nodes : EndOf(nodes[n]) \in Offsets(lat.sentence)

(* Every segmentation of the text up to e into words the lookup offers,    *)
(* collected by the number of words.                                       *)
EndOfChain(chain) == IF chain = <<>> THEN 0 ELSE EndOf(chain[Len(chain)])

Longer(chain, e) ==
  {Append(chain, w) : w \in {v \in ToSet(Lookup(lat, EndOfChain(chain)).nodes) : EndOf(v) <= e}}

Segmentations(e) ==
  LET chains[k \in 0 .. e] ==
        IF k = 0 THEN {<<>>}
        ELSE UNION {Longer(c, e) : c \in {d \in chains[k - 1] : EndOfChain(d) < e}}
  IN  {c \in UNION {chains[k] : k \in 0 .. e} : EndOfChain(c) = e}

ChainCost(chain) ==
  LET to[i \in 1 .. Len(chain)] ==
        IF i = 1 THEN 0 ELSE to[i - 1] + LocalCost(chain[i - 1], chain[i])
  IN  to[Len(chain)]

SegmentationCost(seg) ==
  ChainCost(<<Sentinel("bos", 0)>> \o seg \o <<Sentinel("eos", Size)>>)

(* The best path is a cheapest segmentation among all there are, and the   *)
(* cost on EOS is its cost: what the scan of viterbi() computes position   *)
(* by position is the global optimum.                                      *)
BestIsOptimal ==
  Finished =>
    LET costs == {SegmentationCost(seg) : seg \in Segmentations(LastEnd)}
    IN  /\ nodes[EOS].cost \in costs
        /\ \A c \in costs : nodes[EOS].cost <= c
        /\ SegmentationCost(Tokens) = nodes[EOS].cost

(* From p to the next strong boundary, or to the end, there are only       *)
(* spaces: the words lookup offers at p begin at that boundary instead of  *)
(* ending by it.                                                           *)
SpacesToEnd(p) ==
  LET end == NextBoundary(lat, p, Size)
  IN  SeekToOtherType(lat.sentence, p, end, CharMap[Space]).p = end

(* The tokens of the best path tile the sentence: each starts where the    *)
(* last one ended, and only characters of the class of the space are left  *)
(* out, between tokens (rlength) and after the last one.  Behind a wide    *)
(* space before a boundary a word may reach over the end of the text and   *)
(* is not filed, so the last part is said of the text up to the boundary.  *)
(* Texts of which a lookup does not see the whole tile as well, unless     *)
(* spaces fill all that it sees, the one thing no input of a run has: the  *)
(* word behind them has an rlength that is cut, to 0 at first, so that it  *)
(* is filed where it was looked up, and the analysis ends well without the *)
(* rest of the text (tokenizer.cpp:231, 251).                              *)
TokensTile ==
  Finished =>
    LET ts == Tokens
        start(i) == IF i = 1 THEN 0 ELSE EndOf(ts[i - 1])
    IN  /\ \A i \in DOMAIN ts :
             /\ BeginOf(ts[i]) = start(i)
             /\ SeekToOtherType(lat.sentence, start(i), ts[i].surface, CharMap[Space]).p = ts[i].surface
        /\ start(Len(ts) + 1) <= Size
        /\ SpacesToEnd(start(Len(ts) + 1))

(* Without constraints lookup never throws, and no way through the text is *)
(* cut off: every position a word ends at offers words again.              *)
NoDeadEnd ==
  ~lat.constrained =>
    /\ phase # "died"
    /\ \A p \in 0 .. pos - 1 : end_node_list[p] # <<>> => begin_node_list[p] # <<>>

(* What the N-best search is handed is a lattice in its sense: one path    *)
(* per left node, all to nodes made before, and costs that are exact.      *)
YieldsLattice ==
  Finished =>
    IsLattice([lpath |-> [n \in DOMAIN nodes |-> nodes[n].lpath],
               cost |-> [n \in DOMAIN nodes |-> nodes[n].cost],
               id |-> [n \in DOMAIN nodes |-> n]],
              DOMAIN nodes, BOS, EOS)

(* "too long sentence." is only said when some word at the position (or    *)
(* EOS) cannot be reached below the limit by any segmentation at all.      *)
FailureJustified ==
  phase = "failed" =>
    LET words == IF pos = Size THEN {Sentinel("eos", Size)} ELSE ToSet(Lookup(lat, pos).nodes)
        at    == IF pos = Size THEN LastEnd ELSE pos
    IN  \E w \in words : \A seg \in Segmentations(at) :
          ChainCost(<<Sentinel("bos", 0)>> \o seg \o <<w>>) >= CostLimit

(* The list of all morphs holds the best path, in text order.              *)
AllMorphsOrdered ==
  phase = "done" /\ input.all_morphs =>
    /\ ToSet(BestPath) \subseteq ToSet(result)
    /\ Cardinality(ToSet(result)) = Len(result)
    /\ \A i, j \in DOMAIN result :
         i < j => BeginOf(nodes[result[i]]) <= BeginOf(nodes[result[j]])

(* "The position is a strong token boundary" (MECAB_TOKEN_BOUNDARY): no    *)
(* token of the result extends over one, unless it lies behind spaces that *)
(* end at a boundary.                                                      *)
StrongBoundariesKept ==
  \A t \in ToSet(Tokens), b \in 1 .. Size - 1 :
     lat.boundary[b] = TokenBoundary /\ t.surface < b /\ b < EndOf(t) => SpacesToEnd(BeginOf(t))

(* "The position is not a token boundary" (MECAB_INSIDE_TOKEN): no token   *)
(* ends there but one made of the feature that such spaces demand.         *)
InsidePositionsKept ==
  \A t \in ToSet(Tokens) :
     EndOf(t) < Size /\ lat.boundary[EndOf(t)] = InsideToken =>
       SpacesToEnd(BeginOf(t)) /\ lat.feature[BeginOf(t)] # NoFeature

(* A fragment given with a feature comes out as one token with it.         *)
FeaturesKept ==
  \A b \in 0 .. Size - 1 :
     lat.feature[b] # NoFeature =>
       \E t \in ToSet(Tokens) :
          /\ BeginOf(t) = b /\ EndOf(t) = NextBoundary(lat, b, Size)
          /\ PartialMatch(lat.feature[b], t.feature)

(* Constraints are kept, however fragments and calls of the caller overlap *)
(* (mecab.h:310-323): the two kinds of boundary and, where no boundary is  *)
(* behind a space, the features of fragments, which unlike the calls of    *)
(* the caller cannot overwrite one another (tokenizer.cpp:200-218).        *)
ConstraintsKept ==
  Finished /\ lat.constrained =>
    /\ StrongBoundariesKept
    /\ InsidePositionsKept
    /\ input.partial /\ (\A p \in 0 .. Size - 1 : ~SpacesToEnd(p)) => FeaturesKept

(* Constraints alone never make the analysis fail.  The exception leaves   *)
(* lookup only behind a fragment of which nothing but spaces is left, when *)
(* the position behind the next byte is inside a token: for partial        *)
(* parsing, before a fragment that demands a feature, as the tests say.    *)
(* (The other exception, for a word too long, needs one of more than       *)
(* LengthMax bytes in a dictionary.)                                       *)
ThrowsOnlyBeforeMorpheme ==
  phase = "died" =>
    LET end == NextBoundary(lat, pos, Size)
    IN  /\ SpacesToEnd(pos)
        /\ end + 1 < Size /\ lat.boundary[end] = TokenBoundary
        /\ lat.boundary[end + 1] = InsideToken
        /\ input.partial => lat.feature[end] # NoFeature
=============================================================================

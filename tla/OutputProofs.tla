----------------------------- MODULE OutputProofs -----------------------------
(***************************************************************************)
(* Whatever the calls of the allocator, for every size of array and chunk, *)
(* no cell is handed out twice between two frees and none outside its      *)
(* chunk or array; and the calls on a lattice use its memory so, for any   *)
(* options, analyses, results and buffers, and any number of calls.  What  *)
(* toString writes fits its buffer, and set_result reads it back.          *)
(***************************************************************************)
EXTENDS Output, SequenceTheorems, FiniteSetTheorems, WellFoundedInduction, TLAPS

(* The cursor of the texts stands in a chunk, or in front of the first. *)
TextCursor ==
  /\ chunks \in Seq(Nat)
  /\ at \in [li : Nat, pi : Nat]
  /\ at.li < Len(chunks) \/ (at.li = 0 /\ at.pi = 0 /\ Len(chunks) = 0)

(* Every text lies behind the ones before it and in front of the cursor. *)
Blocks == [chunk : Nat, from : Nat, to : Nat]
Behind(x) == x.chunk < at.li \/ (x.chunk = at.li /\ x.to <= at.pi)
Texts ==
  /\ given \in Seq(Blocks)
  /\ \A i \in DOMAIN given : Behind(given[i])
  /\ \A i \in DOMAIN given : /\ given[i].chunk < Len(chunks)
                             /\ given[i].to <= chunks[given[i].chunk + 1]
  /\ \A i, j \in DOMAIN given : i < j => Apart(given[i], given[j])

(* The same for the nodes. *)
CellsOf == [li : Nat, pi : Nat]
Before(x) == x.li < nodes.li \/ (x.li = nodes.li /\ x.pi < nodes.pi)
NodeCursor ==
  /\ nodes \in [arrays : Nat, li : Nat, pi : Nat]
  /\ nodes.pi <= NodeArray
  /\ nodes.li < nodes.arrays \/ (nodes.li = nodes.arrays /\ nodes.li = 0 /\ nodes.pi = 0)
Cells ==
  /\ cells \in Seq(CellsOf)
  /\ \A i \in DOMAIN cells : Before(cells[i])
  /\ \A i \in DOMAIN cells : cells[i].li < nodes.arrays /\ cells[i].pi < NodeArray
  /\ \A i, j \in DOMAIN cells : i < j => cells[i] # cells[j]

IInv == TextCursor /\ Texts /\ NodeCursor /\ Cells

(* A set of numbers that is not empty has a smallest one. *)
LEMMA Smallest ==
  ASSUME NEW S, S \subseteq Nat, S # {}
  PROVE  \E j \in S : \A k \in S : j <= k
  <1> DEFINE Less == {x \in Nat \X Nat : x[1] < x[2]}
  <1>1. IsWellFoundedOn(Less, Nat)
    BY NatLessThanWellFounded DEF OpToRel
  <1>2. PICK j \in S : \A k \in S : <<k, j>> \notin Less
    BY <1>1, WFMin
  <1>3. \A k \in S : ~(k < j)
    BY <1>2
  <1> QED
    BY <1>3

(* Where the next text goes: behind the cursor, and inside its chunk. *)
LEMMA NextBlockFacts ==
  ASSUME TextCursor, NEW req \in Nat
  PROVE  LET b == NextBlock(req)
         IN  /\ b \in Blocks /\ b.to = b.from + req
             /\ at.li <= b.chunk
             /\ b.chunk = at.li => b.from = at.pi
             /\ IF Fitting(req) = {} THEN b.chunk = Len(chunks) /\ b.from = 0
                ELSE b.chunk < Len(chunks) /\ b.to <= chunks[b.chunk + 1]
  <1> DEFINE b == NextBlock(req)
  <1>1. CASE Fitting(req) = {}
    <2>1. b = [chunk |-> Len(chunks), from |-> 0, to |-> req]
      BY <1>1 DEF NextBlock, Block, TextCursor
    <2>2. at.li <= Len(chunks) /\ (Len(chunks) = at.li => at.pi = 0)
      BY DEF TextCursor
    <2>3. Len(chunks) \in Nat
      BY DEF TextCursor
    <2> QED
      BY <1>1, <2>1, <2>2, <2>3 DEF Blocks
  <1>2. CASE Fitting(req) # {}
    <2>1. Fitting(req) \subseteq Nat
      BY DEF Fitting, TextCursor
    <2> DEFINE i == CHOOSE j \in Fitting(req) : \A k \in Fitting(req) : j <= k
    <2>2. i \in Fitting(req)
      BY <1>2, <2>1, Smallest
    <2>3. b = [chunk |-> i, from |-> From(i), to |-> From(i) + req]
      BY <1>2 DEF NextBlock, Block
    <2> HIDE DEF i
    <2>4. i \in Nat /\ at.li <= i /\ i < Len(chunks) /\ From(i) + req < chunks[i + 1]
      BY <2>2 DEF Fitting, TextCursor
    <2>5. From(i) \in Nat /\ (i = at.li => From(i) = at.pi)
      BY DEF From, TextCursor
    <2>6. chunks[i + 1] \in Nat
      BY <2>4 DEF TextCursor
    <2> QED
      BY <1>2, <2>3, <2>4, <2>5, <2>6 DEF Blocks
  <1> QED
    BY <1>1, <1>2

(* What handing out a text does to the texts and their cursor. *)
LEMMA TextHandedOut ==
  ASSUME TextCursor, Texts, NEW req \in Nat, AllocText(req)
  PROVE  TextCursor' /\ Texts'
  <1> DEFINE b == NextBlock(req)
  <1>1. /\ b \in Blocks /\ b.to = b.from + req /\ at.li <= b.chunk
        /\ b.chunk = at.li => b.from = at.pi
        /\ IF Fitting(req) = {} THEN b.chunk = Len(chunks) /\ b.from = 0
           ELSE b.chunk < Len(chunks) /\ b.to <= chunks[b.chunk + 1]
    BY NextBlockFacts
  <1>2. /\ at' = [li |-> b.chunk, pi |-> b.to]
        /\ given' = Append(given, b)
        /\ chunks' = IF Fitting(req) # {} THEN chunks
                     ELSE Append(chunks, IF req > ChunkMin THEN req ELSE ChunkMin)
    BY DEF AllocText
  <1> HIDE DEF b
  <1>3. /\ chunks' \in Seq(Nat) /\ b.chunk < Len(chunks') /\ b.to <= chunks'[b.chunk + 1]
        /\ Len(chunks) <= Len(chunks')
        /\ \A i \in 1 .. Len(chunks) : chunks'[i] = chunks[i]
    <2>1. CASE Fitting(req) # {}
      BY <1>1, <1>2, <2>1 DEF TextCursor
    <2>2. CASE Fitting(req) = {}
      <3> DEFINE c == IF req > ChunkMin THEN req ELSE ChunkMin
      <3>1. c \in Nat /\ req <= c
        BY SizeAssumption
      <3>2. chunks' = Append(chunks, c) /\ b.chunk = Len(chunks) /\ b.to = req
        BY <1>1, <1>2, <2>2 DEF Blocks
      <3> HIDE DEF c
      <3>3. chunks \in Seq(Nat) /\ Len(chunks) \in Nat
        BY DEF TextCursor
      <3>4. /\ chunks' \in Seq(Nat) /\ Len(chunks') = Len(chunks) + 1
            /\ chunks'[Len(chunks) + 1] = c
            /\ \A i \in 1 .. Len(chunks) : chunks'[i] = chunks[i]
        BY <3>1, <3>2, <3>3, AppendProperties
      <3> QED
        BY <3>1, <3>2, <3>3, <3>4
    <2> QED
      BY <2>1, <2>2
  <1>4. TextCursor'
    BY <1>1, <1>2, <1>3 DEF TextCursor, Blocks
  <1>5. /\ given' \in Seq(Blocks) /\ Len(given') = Len(given) + 1
        /\ given'[Len(given) + 1] = b
        /\ \A i \in 1 .. Len(given) : given'[i] = given[i] /\ given[i] \in Blocks
        /\ DOMAIN given = 1 .. Len(given) /\ DOMAIN given' = 1 .. Len(given) + 1
        /\ Len(given) \in Nat
    BY <1>1, <1>2, AppendProperties, ElementOfSeq DEF Texts
  <1>6. \A i \in 1 .. Len(given) :
          /\ Apart(given[i], b)
          /\ given[i].chunk < b.chunk \/ (given[i].chunk = b.chunk /\ given[i].to <= b.to)
          /\ given[i].chunk < Len(chunks') /\ given[i].to <= chunks'[given[i].chunk + 1]
    <2> SUFFICES ASSUME NEW i \in 1 .. Len(given)
                 PROVE  /\ Apart(given[i], b)
                        /\ given[i].chunk < b.chunk \/ (given[i].chunk = b.chunk /\ given[i].to <= b.to)
                        /\ given[i].chunk < Len(chunks') /\ given[i].to <= chunks'[given[i].chunk + 1]
      OBVIOUS
    <2>1. /\ given[i] \in Blocks /\ Behind(given[i]) /\ given[i].chunk < Len(chunks)
          /\ given[i].to <= chunks[given[i].chunk + 1]
      BY <1>5 DEF Texts
    <2>2. given[i].chunk \in Nat /\ given[i].from \in Nat /\ given[i].to \in Nat
      BY <2>1 DEF Blocks
    <2>3. b.chunk \in Nat /\ b.from \in Nat /\ b.to = b.from + req
      BY <1>1 DEF Blocks
    <2>4. at.li \in Nat /\ at.pi \in Nat /\ Len(chunks) \in Nat /\ Len(chunks') \in Nat
      BY <1>3, <1>4 DEF TextCursor
    <2>5. given[i].chunk < at.li \/ (given[i].chunk = at.li /\ given[i].to <= at.pi)
      BY <2>1 DEF Behind
    <2>6. given[i].chunk + 1 \in 1 .. Len(chunks)
      <3>1. PICK m, n : m = given[i].chunk /\ n = Len(chunks)
        OBVIOUS
      <3>2. m \in Nat /\ n \in Nat /\ m < n
        BY <2>1, <2>2, <2>4, <3>1
      <3>3. m + 1 \in 1 .. n
        BY <3>2
      <3> QED
        BY <3>1, <3>3
    <2>7. chunks'[given[i].chunk + 1] = chunks[given[i].chunk + 1]
      BY <1>3, <2>6
    <2>8. given[i].chunk < Len(chunks') /\ given[i].to <= chunks'[given[i].chunk + 1]
      BY <1>3, <2>1, <2>2, <2>4, <2>7
    <2>9. given[i].chunk < b.chunk \/ (given[i].chunk = b.chunk /\ given[i].to <= b.from)
      <3>1. PICK m, t : m = given[i].chunk /\ t = given[i].to
        OBVIOUS
      <3>2. PICK d, g : d = b.chunk /\ g = b.from
        OBVIOUS
      <3>3. m \in Nat /\ t \in Nat /\ d \in Nat /\ g \in Nat /\ at.li \in Nat /\ at.pi \in Nat
        BY <2>2, <2>3, <2>4, <3>1, <3>2
      <3>4. at.li <= d /\ (d = at.li => g = at.pi) /\ (m < at.li \/ (m = at.li /\ t <= at.pi))
        BY <1>1, <2>5, <3>1, <3>2
      <3>5. m < d \/ (m = d /\ t <= g)
        BY <3>3, <3>4
      <3> QED
        BY <3>1, <3>2, <3>5
    <2> QED
      BY <2>2, <2>3, <2>8, <2>9 DEF Apart
  <1>7. \A i \in DOMAIN given' : Behind(given[i])'
    <2>1. at'.li = b.chunk /\ at'.pi = b.to /\ b.to \in Nat
      BY <1>1, <1>2 DEF Blocks
    <2>2. \A i \in 1 .. Len(given) + 1 :
            given'[i].chunk < at'.li \/ (given'[i].chunk = at'.li /\ given'[i].to <= at'.pi)
      BY <1>5, <1>6, <2>1
    <2> QED
      BY <1>5, <2>2 DEF Behind
  <1>8. \A i \in DOMAIN given' : /\ given'[i].chunk < Len(chunks')
                                 /\ given'[i].to <= chunks'[given'[i].chunk + 1]
    BY <1>3, <1>5, <1>6
  <1>9. \A i, j \in DOMAIN given' : i < j => Apart(given'[i], given'[j])
    <2> SUFFICES ASSUME NEW i \in 1 .. Len(given) + 1, NEW j \in 1 .. Len(given) + 1, i < j
                 PROVE  Apart(given'[i], given'[j])
      BY <1>5
    <2>1. i \in 1 .. Len(given)
      BY <1>5
    <2>2. CASE j = Len(given) + 1
      BY <1>5, <1>6, <2>1, <2>2
    <2>3. CASE j # Len(given) + 1
      <3>1. j \in 1 .. Len(given)
        BY <1>5, <2>3
      <3> QED
        BY <1>5, <2>1, <3>1 DEF Texts
    <2> QED
      BY <2>2, <2>3
  <1> QED
    BY <1>4, <1>5, <1>7, <1>8, <1>9 DEF Texts, Apart

(* Where the next node goes: behind all others, inside its array. *)
LEMMA NextCellFacts ==
  ASSUME NodeCursor
  PROVE  /\ NextCell \in CellsOf /\ NextCell.pi < NodeArray /\ NextCell.li <= nodes.arrays
         /\ \A x \in CellsOf : Before(x) => x # NextCell
         /\ \A x \in CellsOf : Before(x) => x.li < NextCell.li
                                            \/ (x.li = NextCell.li /\ x.pi < NextCell.pi)
  <1>1. /\ nodes.arrays \in Nat /\ nodes.li \in Nat /\ nodes.pi \in Nat /\ nodes.pi <= NodeArray
        /\ nodes.li < nodes.arrays \/ (nodes.li = nodes.arrays /\ nodes.li = 0 /\ nodes.pi = 0)
    BY DEF NodeCursor
  <1>2. CASE nodes.pi = NodeArray
    <2>1. NextCell = [li |-> nodes.li + 1, pi |-> 0]
      BY <1>2 DEF NextCell
    <2> QED
      BY <1>1, <1>2, <2>1, SizeAssumption DEF CellsOf, Before
  <1>3. CASE nodes.pi # NodeArray
    <2>1. NextCell = [li |-> nodes.li, pi |-> nodes.pi]
      BY <1>3 DEF NextCell
    <2> QED
      BY <1>1, <1>3, <2>1, SizeAssumption DEF CellsOf, Before
  <1> QED
    BY <1>2, <1>3

(* What handing out a node does to the nodes and their cursor. *)
LEMMA NodeHandedOut ==
  ASSUME NodeCursor, Cells, NewNode
  PROVE  NodeCursor' /\ Cells'
  <1> DEFINE n == NextCell
  <1>1. /\ n \in CellsOf /\ n.pi < NodeArray /\ n.li <= nodes.arrays
        /\ \A x \in CellsOf : Before(x) => x # n
        /\ \A x \in CellsOf : Before(x) => x.li < n.li \/ (x.li = n.li /\ x.pi < n.pi)
    BY NextCellFacts
  <1>2. /\ nodes' = [li |-> n.li, pi |-> n.pi + 1,
                     arrays |-> IF n.li = nodes.arrays THEN nodes.arrays + 1 ELSE nodes.arrays]
        /\ cells' = Append(cells, n)
    BY DEF NewNode
  <1> HIDE DEF n
  <1>3. n.li \in Nat /\ n.pi \in Nat /\ nodes.arrays \in Nat /\ NodeArray \in Nat
    BY <1>1, SizeAssumption DEF CellsOf, NodeCursor
  <1>4. /\ nodes'.li = n.li /\ nodes'.pi = n.pi + 1 /\ nodes'.arrays \in Nat
        /\ n.li < nodes'.arrays /\ nodes.arrays <= nodes'.arrays
    BY <1>1, <1>2, <1>3
  <1>5. NodeCursor'
    BY <1>1, <1>2, <1>3, <1>4 DEF NodeCursor
  <1>6. /\ cells' \in Seq(CellsOf) /\ cells'[Len(cells) + 1] = n
        /\ \A i \in 1 .. Len(cells) : cells'[i] = cells[i] /\ cells[i] \in CellsOf
        /\ DOMAIN cells = 1 .. Len(cells) /\ DOMAIN cells' = 1 .. Len(cells) + 1
        /\ Len(cells) \in Nat
    BY <1>1, <1>2, AppendProperties, ElementOfSeq DEF Cells
  <1>7. \A i \in 1 .. Len(cells) :
          /\ cells[i] # n /\ cells[i].li \in Nat /\ cells[i].pi \in Nat
          /\ cells[i].li < n.li \/ (cells[i].li = n.li /\ cells[i].pi < n.pi)
          /\ cells[i].li < nodes.arrays /\ cells[i].pi < NodeArray
    <2>1. \A x \in CellsOf : x.li \in Nat /\ x.pi \in Nat
      BY DEF CellsOf
    <2> QED
      BY <1>1, <1>6, <2>1 DEF Cells
  <1>8. \A i \in DOMAIN cells' : Before(cells[i])'
    <2>1. \A i \in 1 .. Len(cells) + 1 :
            cells'[i].li < nodes'.li \/ (cells'[i].li = nodes'.li /\ cells'[i].pi < nodes'.pi)
      BY <1>3, <1>4, <1>6, <1>7
    <2> QED
      BY <1>6, <2>1 DEF Before
  <1>9. \A i \in DOMAIN cells' : cells'[i].li < nodes'.arrays /\ cells'[i].pi < NodeArray
    BY <1>1, <1>3, <1>4, <1>6, <1>7
  <1>10. \A i, j \in DOMAIN cells' : i < j => cells'[i] # cells'[j]
    <2> SUFFICES ASSUME NEW i \in 1 .. Len(cells) + 1, NEW j \in 1 .. Len(cells) + 1, i < j
                 PROVE  cells'[i] # cells'[j]
      BY <1>6
    <2>1. i \in 1 .. Len(cells)
      BY <1>6
    <2>2. CASE j = Len(cells) + 1
      BY <1>6, <1>7, <2>1, <2>2
    <2>3. CASE j # Len(cells) + 1
      <3>1. j \in 1 .. Len(cells)
        BY <1>6, <2>3
      <3> QED
        BY <1>6, <2>1, <3>1 DEF Cells
    <2> QED
      BY <2>2, <2>3
  <1> QED
    BY <1>5, <1>6, <1>8, <1>9, <1>10 DEF Cells

LEMMA MemoryStep ==
  ASSUME IInv, [MemoryNext]_memoryVars
  PROVE  IInv'
  <1>1. ASSUME NEW req \in Nat, AllocText(req), NewNode \/ UNCHANGED <<nodes, cells>>
        PROVE  IInv'
    <2>1. TextCursor' /\ Texts'
      BY <1>1, TextHandedOut DEF IInv
    <2>2. NodeCursor' /\ Cells'
      BY <1>1, NodeHandedOut DEF IInv, NodeCursor, Cells, Before
    <2> QED
      BY <2>1, <2>2 DEF IInv
  <1>2. CASE NewNode /\ UNCHANGED <<chunks, at, given, stale>>
    <2>1. NodeCursor' /\ Cells'
      BY <1>2, NodeHandedOut DEF IInv
    <2> QED
      BY <1>2, <2>1 DEF IInv, TextCursor, Texts, Behind
  <1>3. CASE FreeAll
    <2>1. TextCursor' /\ Texts'
      BY <1>3 DEF FreeAll, IInv, TextCursor, Texts
    <2>2. cells' = <<>> /\ nodes' = [nodes EXCEPT !.li = 0, !.pi = 0]
      BY <1>3 DEF FreeAll
    <2>3. nodes'.arrays = nodes.arrays /\ nodes'.li = 0 /\ nodes'.pi = 0
      BY <2>2 DEF IInv, NodeCursor
    <2>4. nodes' \in [arrays : Nat, li : Nat, pi : Nat]
      BY <2>2 DEF IInv, NodeCursor
    <2>5. NodeCursor'
      BY <2>3, <2>4, SizeAssumption DEF IInv, NodeCursor
    <2>6. Cells'
      BY <2>2 DEF Cells
    <2> QED
      BY <2>1, <2>5, <2>6 DEF IInv
  <1>4. CASE UNCHANGED memoryVars
    BY <1>4 DEF memoryVars, IInv, TextCursor, Texts, NodeCursor, Cells, Behind, Before
  <1> QED
    BY <1>1, <1>2, <1>3, <1>4 DEF MemoryNext

LEMMA MemoryStart ==
  ASSUME MemoryInit PROVE IInv
  BY SizeAssumption DEF MemoryInit, IInv, TextCursor, Texts, NodeCursor, Cells

LEMMA MemorySafe ==
  ASSUME IInv PROVE NoCellTwice /\ InsideChunks
  BY DEF IInv, Texts, Cells, NoCellTwice, InsideChunks

(* Between two frees no cell is handed out twice, and no text or node lies  *)
(* outside its chunk or array, whatever is asked for (freelist.h:28, 61).  *)
THEOREM AllocatorCorrect == MemorySpec => [](NoCellTwice /\ InsideChunks)
  <1>1. MemoryInit => IInv
    BY MemoryStart
  <1>2. IInv /\ [MemoryNext]_memoryVars => IInv'
    BY MemoryStep
  <1>3. IInv => NoCellTwice /\ InsideChunks
    BY MemorySafe
  <1> QED
    BY <1>1, <1>2, <1>3, PTL DEF MemorySpec
-----------------------------------------------------------------------------
(* One step per action: a free, a text, a node, both, or nothing. *)
LEMMA CallsAllocate ==
  ASSUME [Next]_vars PROVE [MemoryNext]_memoryVars
  <1>1. ASSUME NEW a \in Analyses, SetSentence(a) PROVE FreeAll
    BY <1>1 DEF SetSentence, Cleared
  <1>2. ASSUME NEW r \in Results, SetResult(r)
        PROVE  \E req \in Nat : AllocText(req) /\ UNCHANGED <<nodes, cells>>
    <2>1. AllocText(Len(r) + 2) /\ UNCHANGED <<nodes, cells>>
      BY <1>2 DEF SetResult
    <2> QED
      BY <2>1 DEF AllocText
  <1>3. CASE CopySentence
    <2>1. AllocText(Len(Spelled(job.entries)) + 2) /\ UNCHANGED <<nodes, cells>>
      BY <1>3 DEF CopySentence
    <2> QED
      BY <2>1 DEF AllocText, MemoryNext
  <1>4. CASE SetOwnSentence
    BY <1>4 DEF SetOwnSentence, Cleared, MemoryNext
  <1>5. CASE CopyIn
    <2>1. AllocText(Len(text) + 2) /\ UNCHANGED <<nodes, cells>>
      BY <1>5 DEF CopyIn
    <2> QED
      BY <2>1 DEF AllocText, MemoryNext
  <1>6. CASE Analyze \/ ResultBos \/ ResultEos \/ EntryTooLong
    BY <1>6 DEF Analyze, ResultBos, ResultEos, EntryTooLong, MemoryNext
  <1>7. CASE NextEntry
    <2>1. \E req : AllocText(req) /\ NewNode
      BY <1>7 DEF NextEntry
    <2> QED
      BY <2>1 DEF AllocText, MemoryNext
  <1>8. CASE LinkEos \/ ToStringCall \/ ToStringNode \/ Read
    BY <1>8 DEF LinkEos, ToStringCall, ToStringNode, Read, KeepLattice
  <1>9. ASSUME NEW n \in 0 .. NBEST_MAX + 1, EnumNBestAsString(n) PROVE UNCHANGED memoryVars
    BY <1>9 DEF EnumNBestAsString
  <1>10. CASE UNCHANGED vars
    BY <1>10 DEF vars
  <1> QED
    BY <1>1, <1>2, <1>3, <1>4, <1>5, <1>6, <1>7, <1>8, <1>9, <1>10 DEF Next, MemoryNext

(* The memory of a lattice sees only calls of the allocator (tokenizer.h). *)
THEOREM OutputUsesAllocator == Spec => MemorySpec
  <1>1. Init => MemoryInit
    BY DEF Init
  <1>2. [Next]_vars => [MemoryNext]_memoryVars
    BY CallsAllocate
  <1> QED
    BY <1>1, <1>2, PTL DEF Spec, MemorySpec

(* So no two texts or nodes of a lattice ever share a cell between two      *)
(* frees, however its sentence and results are set (tagger.cpp:711, 747).  *)
THEOREM LatticeMemoryApart == Spec => []NoCellTwice
  BY OutputUsesAllocator, AllocatorCorrect, PTL
-----------------------------------------------------------------------------
(* What holds of 0 and of a number after the one before it holds up to n.   *)
LEMMA UpTo ==
  ASSUME NEW n \in Nat, NEW P, 0 \in P, \A k \in 1 .. n : k - 1 \in P => k \in P
  PROVE  0 .. n \subseteq P
  <1> DEFINE T == (0 .. n) \ P
  <1> SUFFICES ASSUME T # {} PROVE FALSE
    OBVIOUS
  <1>1. T \subseteq Nat
    OBVIOUS
  <1> HIDE DEF T
  <1>2. PICK k \in T : \A m \in T : k <= m
    BY <1>1, Smallest
  <1>3. k \in 0 .. n /\ k \notin P
    BY <1>2 DEF T
  <1>4. k # 0
    BY <1>3
  <1>5. k \in 1 .. n /\ k - 1 \in 0 .. n /\ k - 1 \notin T
    BY <1>2, <1>3, <1>4
  <1>6. k - 1 \in P
    BY <1>5 DEF T
  <1> QED
    BY <1>3, <1>5, <1>6

(* Iteration: from a first value on, n steps give a sequence of values.    *)
AreSteps(step, n, S) == \A k \in 1 .. n : \A x \in S : step[k][x] \in S

IsIteration(g, step, n, S, first) ==
  g \in [0 .. n -> S] /\ g[0] = first /\ \A k \in 1 .. n : g[k] = step[k][g[k - 1]]

(* Steps that stay in a set, taken one after the other, stay in it.         *)
LEMMA Iteration ==
  ASSUME NEW n \in Nat, NEW S, NEW first \in S, NEW step, AreSteps(step, n, S)
  PROVE  \E g : IsIteration(g, step, n, S, first)
  <1> DEFINE P == {m \in 0 .. n : \E g : IsIteration(g, step, m, S, first)}
  <1>1. \E g : IsIteration(g, step, 0, S, first)
    <2>1. IsIteration([k \in 0 .. 0 |-> first], step, 0, S, first)
      BY DEF IsIteration
    <2> QED
      BY <2>1
  <1>2. ASSUME NEW m \in 1 .. n, \E g : IsIteration(g, step, m - 1, S, first)
        PROVE  \E g : IsIteration(g, step, m, S, first)
    <2>1. PICK g : IsIteration(g, step, m - 1, S, first)
      BY <1>2
    <2> DEFINE h == [k \in 0 .. m |-> IF k = m THEN step[m][g[m - 1]] ELSE g[k]]
    <2>2. g[m - 1] \in S
      BY <2>1 DEF IsIteration
    <2>3. h \in [0 .. m -> S]
      BY <2>1, <2>2 DEF IsIteration, AreSteps
    <2>4. h[0] = first
      BY <2>1 DEF IsIteration
    <2>5. ASSUME NEW k \in 1 .. m PROVE h[k] = step[k][h[k - 1]]
      BY <2>1 DEF IsIteration
    <2> HIDE DEF h
    <2>6. IsIteration(h, step, m, S, first)
      BY <2>3, <2>4, <2>5 DEF IsIteration
    <2> QED
      BY <2>6
  <1>3. 0 \in P
    BY <1>1
  <1>4. \A m \in 1 .. n : m - 1 \in P => m \in P
    BY <1>2
  <1> HIDE DEF P
  <1>5. 0 .. n \subseteq P
    BY <1>3, <1>4, UpTo
  <1>6. n \in P
    BY <1>5
  <1> QED
    BY <1>6 DEF P


(* Putting sequences together, one after the other.                        *)
AreHeads(ss, f) ==
  /\ FlattenSeq(ss) = f[Len(ss)] /\ f[1] = ss[1]
  /\ \A k \in 1 .. Len(ss) - 1 : f[k + 1] = f[k] \o ss[k + 1]

(* FlattenSeq puts together one more part at every step.                    *)
LEMMA FlattenedHeads ==
  ASSUME NEW X, NEW ss, ss \in Seq(Seq(X)), Len(ss) # 0
  PROVE  \E f : AreHeads(ss, f)
  <1> DEFINE n == Len(ss) - 1
             Body(t) == [i \in 1 .. Len(ss) |-> IF i = 1 THEN ss[i] ELSE t[i - 1] \o ss[i]]
             f == CHOOSE t : t = Body(t)
             step == [k \in 1 .. n |-> [x \in Seq(X) |-> x \o ss[k + 1]]]
  <1>1. n \in Nat /\ Len(ss) = n + 1 /\ \A i \in 1 .. n + 1 : ss[i] \in Seq(X)
    OBVIOUS
  <1> HIDE DEF n
  <1>2. AreSteps(step, n, Seq(X))
    BY <1>1 DEF AreSteps
  <1>3. PICK g : IsIteration(g, step, n, Seq(X), ss[1])
    <2>1. ss[1] \in Seq(X)
      BY <1>1
    <2> HIDE DEF step
    <2> QED
      BY <1>1, <1>2, <2>1, Iteration
  <1> DEFINE h == [i \in 1 .. Len(ss) |-> g[i - 1]]
  <1>4. h = Body(h)
    <2>1. ASSUME NEW k \in 1 .. n PROVE g[k] = g[k - 1] \o ss[k + 1]
      <3>1. g[k] = step[k][g[k - 1]] /\ g[k - 1] \in Seq(X)
        <4> HIDE DEF step, h, f
        <4> QED
          BY <1>3, <1>1 DEF IsIteration
      <3> QED
        BY <3>1
    <2>2. g[0] = ss[1]
      <3> HIDE DEF step
      <3> QED
        BY <1>3 DEF IsIteration
    <2>3. ASSUME NEW i \in 1 .. Len(ss), i # 1 PROVE h[i] = h[i - 1] \o ss[i]
      <3>1. i - 1 \in 1 .. n /\ i - 1 \in 1 .. Len(ss) /\ (i - 1) + 1 = i
        BY <1>1, <2>3
      <3>2. g[i - 1] = g[(i - 1) - 1] \o ss[i]
        BY <2>1, <3>1
      <3> QED
        BY <3>1, <3>2
    <2>4. h[1] = ss[1] /\ 1 \in 1 .. Len(ss)
      BY <1>1, <2>2
    <2>5. \A i \in 1 .. Len(ss) : h[i] = IF i = 1 THEN ss[i] ELSE h[i - 1] \o ss[i]
      BY <2>3, <2>4
    <2>6. h = [i \in 1 .. Len(ss) |-> h[i]]
      OBVIOUS
    <2> HIDE DEF h
    <2> QED
      BY <2>5, <2>6
  <1>5. f = Body(f)
    <2>1. \E t : t = Body(t)
      BY <1>4
    <2> HIDE DEF Body
    <2> QED
      BY <2>1, Zenon
  <1>6. FlattenSeq(ss) = f[Len(ss)]
    BY DEF FlattenSeq
  <1> HIDE DEF f
  <1>7. f[1] = ss[1]
    <2>1. \A i \in 1 .. Len(ss) : f[i] = Body(f)[i]
      BY <1>5, Zenon
    <2> QED
      BY <1>1, <2>1
  <1>8. \A k \in 1 .. n : f[k + 1] = f[k] \o ss[k + 1]
    <2> SUFFICES ASSUME NEW k \in 1 .. n PROVE f[k + 1] = f[k] \o ss[k + 1]
      OBVIOUS
    <2>1. k + 1 \in 1 .. Len(ss) /\ k + 1 # 1 /\ (k + 1) - 1 = k
      BY <1>1
    <2>2. f[k + 1] = Body(f)[k + 1]
      BY <1>5, Zenon
    <2> QED
      BY <2>1, <2>2
  <1> QED
    BY <1>1, <1>6, <1>7, <1>8 DEF AreHeads, n

(* The heads are sequences again. *)
LEMMA HeadsAre ==
  ASSUME NEW X, NEW ss \in Seq(Seq(X)), NEW f, Len(ss) # 0, AreHeads(ss, f)
  PROVE  \A k \in 1 .. Len(ss) : f[k] \in Seq(X)
  <1> DEFINE n == Len(ss) - 1
             P == {k \in 0 .. n : f[k + 1] \in Seq(X)}
  <1>1. n \in Nat /\ Len(ss) = n + 1 /\ \A i \in 1 .. n + 1 : ss[i] \in Seq(X)
    OBVIOUS
  <1> HIDE DEF n
  <1>2. 0 \in P
    BY <1>1 DEF AreHeads
  <1>3. ASSUME NEW k \in 1 .. n, k - 1 \in P PROVE k \in P
    <2>1. (k - 1) + 1 = k /\ k + 1 \in 1 .. n + 1 /\ k \in 1 .. Len(ss) - 1
      BY <1>1
    <2>2. PICK s : s = f[k]
      OBVIOUS
    <2>3. PICK t : t = ss[k + 1]
      OBVIOUS
    <2>4. s \in Seq(X)
      BY <1>3, <2>1, <2>2
    <2>5. t \in Seq(X)
      BY <1>1, <2>1, <2>3
    <2>6. f[k + 1] = s \o t
      BY <2>1, <2>2, <2>3, Zenon DEF AreHeads
    <2>7. f[k + 1] \in Seq(X)
      BY <2>4, <2>5, <2>6
    <2> QED
      BY <2>7
  <1> HIDE DEF P
  <1>4. 0 .. n \subseteq P
    BY <1>1, <1>2, <1>3, UpTo
  <1>5. ASSUME NEW k \in 1 .. n + 1 PROVE f[k] \in Seq(X)
    <2>1. k - 1 \in P /\ (k - 1) + 1 = k
      BY <1>1, <1>4
    <2> QED
      BY <2>1 DEF P
  <1> QED
    BY <1>1, <1>5

(* What is put together is as long as its last part at least. *)
LEMMA FlattenLong ==
  ASSUME NEW X, NEW ss \in Seq(Seq(X)), Len(ss) # 0
  PROVE  /\ FlattenSeq(ss) \in Seq(X) /\ Len(ss[Len(ss)]) <= Len(FlattenSeq(ss))
         /\ Len(ss) = 1 => FlattenSeq(ss) = ss[1]
  <1>1. PICK f : AreHeads(ss, f)
    BY FlattenedHeads
  <1>2. \A k \in 1 .. Len(ss) : f[k] \in Seq(X)
    BY <1>1, HeadsAre
  <1>3. PICK flat : flat = FlattenSeq(ss)
    OBVIOUS
  <1>4. flat = f[Len(ss)] /\ f[1] = ss[1]
    BY <1>1, <1>3 DEF AreHeads
  <1>5. CASE Len(ss) = 1
    <2>1. flat \in Seq(X) /\ flat = ss[Len(ss)] /\ Len(flat) \in Nat
      BY <1>2, <1>4, <1>5
    <2> QED
      BY <1>3, <1>5, <2>1
  <1>6. CASE Len(ss) > 1
    <2> DEFINE k == Len(ss) - 1
    <2>1. k \in 1 .. Len(ss) - 1 /\ k \in 1 .. Len(ss) /\ k + 1 = Len(ss) /\ k + 1 \in 1 .. Len(ss)
      BY <1>6
    <2> HIDE DEF k
    <2>2. PICK s : s = f[k]
      OBVIOUS
    <2>3. PICK t : t = ss[k + 1]
      OBVIOUS
    <2>4. s \in Seq(X)
      BY <1>2, <2>1, <2>2
    <2>5. t \in Seq(X)
      BY <2>1, <2>3
    <2>6. f[k + 1] = s \o t
      BY <1>1, <2>1, <2>2, <2>3, Zenon DEF AreHeads
    <2>7. s \in Seq(X) /\ t \in Seq(X) /\ flat = s \o t
      BY <1>4, <2>1, <2>4, <2>5, <2>6
    <2>8. flat \in Seq(X) /\ Len(t) <= Len(flat)
      BY <2>7
    <2>9. Len(ss[Len(ss)]) <= Len(flat)
      BY <2>1, <2>3, <2>8
    <2> QED
      BY <1>3, <1>6, <2>8, <2>9
  <1>7. Len(ss) = 1 \/ Len(ss) > 1
    <2>1. PICK n : n = Len(ss)
      OBVIOUS
    <2>2. n \in Nat /\ n # 0
      BY <2>1
    <2> QED
      BY <2>1, <2>2
  <1> QED
    BY <1>5, <1>6, <1>7

(* What is put together fits into the room that its parts have. *)
AreEnds(e, n) == e[0] = 0 /\ \A k \in 0 .. n : e[k] \in Nat
LEMMA FlattenShort ==
  ASSUME NEW X, NEW ss \in Seq(Seq(X)), Len(ss) # 0, NEW e, AreEnds(e, Len(ss)),
         \A k \in 1 .. Len(ss) : Len(ss[k]) + 2 + e[k - 1] <= e[k]
  PROVE  FlattenSeq(ss) \in Seq(X) /\ Len(FlattenSeq(ss)) + 2 <= e[Len(ss)]
  <1> DEFINE n == Len(ss) - 1
  <1>1. PICK f : AreHeads(ss, f)
    BY FlattenedHeads
  <1>2. \A k \in 1 .. Len(ss) : f[k] \in Seq(X)
    BY <1>1, HeadsAre
  <1>3. n \in Nat /\ Len(ss) = n + 1 /\ \A i \in 1 .. n + 1 : ss[i] \in Seq(X)
    OBVIOUS
  <1> HIDE DEF n
  <1> DEFINE P == {k \in 0 .. n : Len(f[k + 1]) + 2 <= e[k + 1]}
  <1>4. 0 \in P
    <2>1. f[1] = ss[1] /\ 1 \in 1 .. Len(ss) /\ 1 - 1 = 0 /\ 0 + 1 = 1
      BY <1>1, <1>3 DEF AreHeads
    <2>2. Len(ss[1]) + 2 + e[0] <= e[1] /\ e[0] = 0
      BY <2>1 DEF AreEnds
    <2>3. Len(ss[1]) \in Nat
      BY <1>3
    <2>4. Len(f[0 + 1]) + 2 <= e[0 + 1]
      BY <2>1, <2>2, <2>3
    <2> QED
      BY <1>3, <2>4
  <1>5. ASSUME NEW k \in 1 .. n, k - 1 \in P PROVE k \in P
    <2>1. (k - 1) + 1 = k /\ (k + 1) - 1 = k /\ k + 1 \in 1 .. Len(ss) /\ k \in 1 .. Len(ss) - 1
          /\ k \in 0 .. Len(ss) /\ k + 1 \in 0 .. Len(ss)
      BY <1>3
    <2>2. PICK s : s = f[k]
      OBVIOUS
    <2>3. PICK t : t = ss[k + 1]
      OBVIOUS
    <2>4. s \in Seq(X) /\ t \in Seq(X)
      BY <1>2, <1>3, <2>1, <2>2, <2>3
    <2>5. s \in Seq(X) /\ t \in Seq(X) /\ f[k + 1] = s \o t
      BY <1>1, <2>1, <2>2, <2>3, <2>4, Zenon DEF AreHeads
    <2>6. Len(f[k + 1]) = Len(s) + Len(t) /\ Len(s) \in Nat /\ Len(t) \in Nat
      BY <2>5
    <2>7. Len(s) + 2 <= e[k]
      BY <1>5, <2>1, <2>2
    <2>8. Len(t) + 2 + e[k] <= e[k + 1]
      BY <2>1, <2>3
    <2>9. e[k] \in Nat /\ e[k + 1] \in Nat
      BY <2>1 DEF AreEnds
    <2>10. Len(f[k + 1]) + 2 <= e[k + 1]
      <3> HIDE DEF P
      <3>1. PICK u, v, w : u = Len(f[k + 1]) /\ v = Len(s) /\ w = Len(t)
        OBVIOUS
      <3>2. v \in Nat /\ w \in Nat /\ u = v + w /\ v + 2 <= e[k] /\ w + 2 + e[k] <= e[k + 1]
        BY <2>6, <2>7, <2>8, <3>1
      <3>3. u + 2 <= e[k + 1]
        BY <2>9, <3>2
      <3> QED
        BY <3>1, <3>3
    <2> QED
      BY <1>3, <2>10
  <1> HIDE DEF P
  <1>6. 0 .. n \subseteq P
    BY <1>3, <1>4, <1>5, UpTo
  <1>7. n \in P
    BY <1>3, <1>6
  <1>8. FlattenSeq(ss) = f[n + 1] /\ f[n + 1] \in Seq(X)
    BY <1>1, <1>2, <1>3 DEF AreHeads
  <1> QED
    BY <1>3, <1>7, <1>8 DEF P

(* The numbers of a set that are smaller. *)
BelowIn(S, x) == {y \in S : y < x}
RankOf(S, x) == Cardinality(BelowIn(S, x))

(* Ranks grow with the numbers and stay below the size of the set.          *)
LEMMA RankFacts ==
  ASSUME NEW S, S \subseteq Nat, IsFiniteSet(S)
  PROVE  /\ \A x : IsFiniteSet(BelowIn(S, x)) /\ RankOf(S, x) \in Nat
         /\ \A x, y \in S : RankOf(S, x) < RankOf(S, y) => x < y
         /\ \A x \in S : RankOf(S, x) < Cardinality(S)
  <1>1. \A x : BelowIn(S, x) \subseteq S
    BY DEF BelowIn
  <1>2. \A x : IsFiniteSet(BelowIn(S, x)) /\ RankOf(S, x) \in Nat
    BY <1>1, FS_Subset, FS_CardinalityType DEF RankOf
  <1>3. ASSUME NEW x \in S, NEW y \in S, RankOf(S, x) < RankOf(S, y) PROVE x < y
    <2>1. CASE y <= x
      <3>1. x \in Nat /\ y \in Nat /\ \A z \in S : z \in Nat
        OBVIOUS
      <3>2. \A z \in S : z < y => z < x
        BY <2>1, <3>1
      <3>3. BelowIn(S, y) \subseteq BelowIn(S, x)
        BY <3>2, Zenon DEF BelowIn
      <3>4. RankOf(S, y) <= RankOf(S, x)
        BY <1>2, <3>3, FS_Subset DEF RankOf
      <3> QED
        BY <1>2, <1>3, <3>4
    <2>2. x \in Nat /\ y \in Nat
      OBVIOUS
    <2> QED
      BY <2>1, <2>2
  <1>4. ASSUME NEW x \in S PROVE RankOf(S, x) < Cardinality(S)
    <2>1. x \notin BelowIn(S, x)
      BY DEF BelowIn
    <2>2. BelowIn(S, x) # S
      BY <2>1
    <2>3. /\ Cardinality(BelowIn(S, x)) \in Nat /\ Cardinality(S) \in Nat
          /\ Cardinality(BelowIn(S, x)) <= Cardinality(S)
          /\ Cardinality(BelowIn(S, x)) # Cardinality(S)
      BY <1>1, <1>2, <2>2, FS_Subset, FS_CardinalityType
    <2>4. Cardinality(BelowIn(S, x)) < Cardinality(S)
      BY <2>3
    <2> QED
      BY <2>4 DEF RankOf
  <1> QED
    BY <1>2, <1>3, <1>4

(* A finite set of numbers that is not empty has a largest one. *)
LEMMA Largest ==
  ASSUME NEW S, S \subseteq Nat, IsFiniteSet(S), S # {}
  PROVE  \E x \in S : \A y \in S : y <= x
  <1> DEFINE Gap(x) == Cardinality(S) - RankOf(S, x)
             G == {Gap(x) : x \in S}
  <1>1. /\ Cardinality(S) \in Nat
        /\ \A x \in S : RankOf(S, x) \in Nat /\ RankOf(S, x) < Cardinality(S)
        /\ \A x, y \in S : RankOf(S, x) < RankOf(S, y) => x < y
    BY RankFacts, FS_CardinalityType
  <1>2. G \subseteq Nat /\ G # {}
    <2>1. \A x \in S : Gap(x) \in Nat
      BY <1>1
    <2> QED
      BY <2>1
  <1>3. PICK g \in G : \A h \in G : g <= h
    <2> HIDE DEF G
    <2> QED
      BY <1>2, Smallest
  <1>4. PICK x \in S : g = Gap(x)
    BY <1>3
  <1>5. \A y \in S : Gap(x) <= Gap(y)
    BY <1>3, <1>4
  <1>6. ASSUME NEW y \in S, x < y PROVE FALSE
    <2>1. x \in Nat /\ y \in Nat /\ \A z \in S : z \in Nat
      OBVIOUS
    <2>2. BelowIn(S, x) \subseteq BelowIn(S, y) /\ x \in BelowIn(S, y) /\ x \notin BelowIn(S, x)
      <3>1. (\A z \in S : z < x => z < y) /\ ~(x < x)
        BY <1>6, <2>1
      <3> QED
        BY <1>6, <3>1, Zenon DEF BelowIn
    <2>3. BelowIn(S, x) # BelowIn(S, y) /\ IsFiniteSet(BelowIn(S, y))
      BY <2>2, RankFacts
    <2>4. RankOf(S, x) <= RankOf(S, y) /\ RankOf(S, x) # RankOf(S, y)
      BY <2>2, <2>3, FS_Subset DEF RankOf
    <2>5. RankOf(S, x) < RankOf(S, y)
      BY <1>1, <2>4
    <2>6. Gap(x) <= Gap(y)
      BY <1>5
    <2> QED
      BY <1>1, <2>5, <2>6
  <1>7. \A y \in S : y <= x
    BY <1>6
  <1> QED
    BY <1>7

(* Every rank below the number of elements is that of one of them. *)
LEMMA RanksTaken ==
  ASSUME NEW S, S \subseteq Nat, IsFiniteSet(S), NEW i \in 1 .. Cardinality(S)
  PROVE  \E x \in S : RankOf(S, x) = i - 1
  <1> DEFINE T == {x \in S : RankOf(S, x) >= i - 1}
  <1>1. Cardinality(S) \in Nat /\ i \in Nat /\ 1 <= i /\ i <= Cardinality(S) /\ \A x : RankOf(S, x) \in Nat
    <2>1. Cardinality(S) \in Nat
      BY FS_CardinalityType
    <2>2. \A x : RankOf(S, x) \in Nat
      BY RankFacts
    <2> QED
      BY <2>1, <2>2
  <1>2. S # {}
    BY <1>1, FS_EmptySet
  <1>3. PICK m \in S : \A y \in S : y <= m
    BY <1>2, Largest
  <1>4. m \in T
    <2>1. m \in Nat /\ \A z \in S : z \in Nat /\ (z < m <=> z # m)
      BY <1>3
    <2>2. BelowIn(S, m) = S \ {m}
      BY <2>1 DEF BelowIn
    <2>3. RankOf(S, m) = Cardinality(S) - 1
      BY <2>2, FS_RemoveElement DEF RankOf
    <2> QED
      BY <1>1, <2>3
  <1>5. T \subseteq Nat /\ T # {}
    BY <1>4
  <1>6. PICK x \in T : \A y \in T : x <= y
    <2> HIDE DEF T
    <2> QED
      BY <1>5, Smallest
  <1>7. x \in S /\ RankOf(S, x) >= i - 1
    BY <1>6
  <1>8. ASSUME RankOf(S, x) # i - 1 PROVE FALSE
    <2>1. BelowIn(S, x) # {} /\ BelowIn(S, x) \subseteq Nat /\ IsFiniteSet(BelowIn(S, x))
      <3>1. RankOf(S, x) > 0
        BY <1>1, <1>7, <1>8
      <3>2. BelowIn(S, x) # {}
        BY <3>1, FS_EmptySet DEF RankOf
      <3> QED
        BY <3>2, RankFacts DEF BelowIn
    <2>2. PICK z \in BelowIn(S, x) : \A y \in BelowIn(S, x) : y <= z
      BY <2>1, Largest
    <2>3. z \in S /\ z < x
      BY <2>2 DEF BelowIn
    <2>4. x \in Nat /\ z \in Nat /\ \A y \in S : y \in Nat
      BY <1>7, <2>3
    <2>5. \A y \in S : y < x => y <= z
      BY <2>2 DEF BelowIn
    <2>6. \A y \in S : y < z <=> y < x /\ y # z
      BY <2>3, <2>4, <2>5
    <2>7. BelowIn(S, z) = BelowIn(S, x) \ {z}
      BY <2>6, Zenon DEF BelowIn
    <2>8. RankOf(S, z) = RankOf(S, x) - 1
      BY <2>1, <2>2, <2>7, FS_RemoveElement DEF RankOf
    <2>9. z \in T
      BY <1>1, <1>7, <1>8, <2>3, <2>8
    <2> QED
      BY <1>6, <1>7, <2>3, <2>9
  <1> QED
    BY <1>7, <1>8

(* A finite set of numbers in order. *)
Ascends(e, S) ==
  /\ e = [i \in 1 .. Cardinality(S) |-> e[i]] /\ Cardinality(S) \in Nat
  /\ \A i \in 1 .. Cardinality(S) : e[i] \in S
  /\ \A i, j \in 1 .. Cardinality(S) : i < j => e[i] < e[j]
(* InOrder lists a finite set of numbers from the smallest on.              *)
LEMMA OrderAscends ==
  ASSUME NEW S, S \subseteq Nat, IsFiniteSet(S)
  PROVE  Ascends(InOrder(S, <), S)
  <1> DEFINE n == Cardinality(S)
             Nth(i) == CHOOSE x \in S : Cardinality({y \in S : y < x}) = i - 1
             e == [i \in 1 .. n |-> Nth(i)]
  <1>1. InOrder(S, <) = e
    BY DEF InOrder
  <1>2. n \in Nat
    BY FS_CardinalityType
  <1>3. ASSUME NEW i \in 1 .. n PROVE e[i] \in S /\ RankOf(S, e[i]) = i - 1
    <2>1. \E x \in S : Cardinality({y \in S : y < x}) = i - 1
      BY RanksTaken DEF RankOf, BelowIn
    <2>2. e[i] \in S /\ Cardinality({y \in S : y < e[i]}) = i - 1
      BY <2>1
    <2> QED
      BY <2>2 DEF RankOf, BelowIn
  <1>4. ASSUME NEW i \in 1 .. n, NEW j \in 1 .. n, i < j PROVE e[i] < e[j]
    <2>1. i \in Int /\ j \in Int /\ i - 1 < j - 1
      BY <1>2, <1>4
    <2>2. e[i] \in S /\ e[j] \in S /\ RankOf(S, e[i]) < RankOf(S, e[j])
      <3> HIDE DEF e
      <3> QED
        BY <1>3, <2>1
    <2> QED
      BY <2>2, RankFacts
  <1>5. e = [i \in 1 .. n |-> e[i]]
    <2> HIDE DEF Nth
    <2> QED
      OBVIOUS
  <1> HIDE DEF e
  <1> QED
    BY <1>1, <1>2, <1>3, <1>4, <1>5 DEF Ascends

(* The pieces of a text lie behind each other in it, a separator between    *)
(* two of them; e[k] is the place behind the k-th.                         *)
PiecesEnd(p, e, len) ==
  /\ AreEnds(e, Len(p)) /\ e[Len(p)] <= len + 1
  /\ \A k \in 1 .. Len(p) : Len(p[k]) + 1 + e[k - 1] = e[k]

(* Split gives pieces of its text, and not more than it may.                *)
LEMMA SplitFacts ==
  ASSUME NEW X, NEW t \in Seq(X), NEW separator, NEW most \in Nat
  PROVE  LET p == Split(t, separator, most)
         IN  p \in Seq(Seq(X)) /\ Len(p) <= most /\ \E e : PiecesEnd(p, e, Len(t))
  <1> DEFINE S == {i \in DOMAIN t : t[i] = separator} \cup {Len(t) + 1}
             ends == InOrder(S, <)
             m == IF Len(ends) < most THEN Len(ends) ELSE most
             Piece(k) == SubSeq(t, IF k = 1 THEN 1 ELSE ends[k - 1] + 1, ends[k] - 1)
             p == [k \in 1 .. m |-> Piece(k)]
  <1>1. Split(t, separator, most) = p
    BY DEF Split
  <1>2. Len(t) \in Nat /\ DOMAIN t = 1 .. Len(t)
    OBVIOUS
  <1>3. S \subseteq Nat /\ \A i \in S : i \in 1 .. Len(t) + 1
    BY <1>2
  <1>4. IsFiniteSet(S)
    <2>1. S \in SUBSET Nat /\ Len(t) + 1 \in Nat /\ \A i \in S : i <= Len(t) + 1
      BY <1>2, <1>3
    <2> HIDE DEF S
    <2> QED
      BY <2>1, FS_BoundedSetOfNaturals
  <1> HIDE DEF S
  <1>5. Ascends(ends, S)
    BY <1>3, <1>4, OrderAscends
  <1>6. ends \in Seq(S) /\ Len(ends) = Cardinality(S)
    <2>1. ends = [i \in 1 .. Cardinality(S) |-> ends[i]] /\ Cardinality(S) \in Nat
          /\ \A i \in 1 .. Cardinality(S) : ends[i] \in S
      BY <1>5 DEF Ascends
    <2> HIDE DEF ends
    <2> QED
      BY <2>1
  <1> HIDE DEF ends
  <1>7. /\ m \in Nat /\ m <= most /\ m <= Len(ends) /\ Len(ends) \in Nat
        /\ \A k \in 1 .. m : ends[k] \in 1 .. Len(t) + 1
        /\ \A j, k \in 1 .. m : j < k => ends[j] < ends[k]
    BY <1>3, <1>5, <1>6 DEF Ascends
  <1> HIDE DEF m
  <1> DEFINE e == [k \in 0 .. m |-> IF k = 0 THEN 0 ELSE ends[k]]
  <1>8. e[0] = 0 /\ e[m] <= Len(t) + 1 /\ \A k \in 0 .. m : e[k] \in Nat
    BY <1>2, <1>7
  <1>9. ASSUME NEW k \in 1 .. m
        PROVE  Piece(k) \in Seq(X) /\ Len(Piece(k)) + 1 + e[k - 1] = e[k]
    <2>1. k - 1 \in 0 .. m /\ k \in 0 .. m
      BY <1>7
    <2>2. e[k] = ends[k] /\ ends[k] \in 1 .. Len(t) + 1
      BY <1>7, <2>1
    <2>3. e[k - 1] \in Nat /\ e[k - 1] < e[k] /\ Piece(k) = SubSeq(t, e[k - 1] + 1, e[k] - 1)
      <3>1. CASE k = 1
        BY <1>7, <2>2, <3>1
      <3>2. CASE k # 1
        <4>1. k - 1 \in 1 .. m /\ k - 1 < k
          BY <1>7, <3>2
        <4>2. e[k - 1] = ends[k - 1] /\ ends[k - 1] < ends[k]
          BY <1>7, <4>1
        <4>3. ends[k - 1] \in Nat
          BY <1>7, <4>1
        <4>4. Piece(k) = SubSeq(t, ends[k - 1] + 1, ends[k] - 1)
          BY <3>2
        <4> HIDE DEF Piece, e
        <4> QED
          BY <2>2, <4>2, <4>3, <4>4
      <3> QED
        BY <3>1, <3>2
    <2>4. e[k - 1] \in Nat /\ e[k] \in Nat /\ e[k - 1] < e[k] /\ e[k] <= Len(t) + 1
      BY <1>2, <2>2, <2>3
    <2>5. Piece(k) = SubSeq(t, e[k - 1] + 1, e[k] - 1)
      BY <2>3
    <2> HIDE DEF Piece, e
    <2>6. PICK a : a = e[k - 1]
      OBVIOUS
    <2>7. PICK b : b = e[k]
      OBVIOUS
    <2>8. a \in Nat /\ b \in Nat /\ a < b /\ b <= Len(t) + 1 /\ Piece(k) = SubSeq(t, a + 1, b - 1)
      BY <2>4, <2>5, <2>6, <2>7
    <2> DEFINE lo == a + 1
               hi == b - 1
    <2>9. lo \in 1 .. Len(t) + 1 /\ hi \in lo - 1 .. Len(t) /\ Piece(k) = SubSeq(t, lo, hi)
          /\ hi - lo + 2 + a = b
      BY <1>2, <2>8
    <2> HIDE DEF lo, hi
    <2>10. SubSeq(t, lo, hi) \in Seq(X) /\ Len(SubSeq(t, lo, hi)) = hi - lo + 1
      BY <2>9, SubSeqProperties
    <2>11. lo \in Int /\ hi \in Int /\ a \in Int
      BY <1>2, <2>8, <2>9
    <2> QED
      BY <2>9, <2>10, <2>11, <2>6, <2>7
  <1> HIDE DEF Piece, e
  <1>10. p \in Seq(Seq(X)) /\ Len(p) = m /\ \A k \in 1 .. m : p[k] = Piece(k)
    BY <1>7, <1>9
  <1> HIDE DEF p
  <1>11. PiecesEnd(p, e, Len(t))
    BY <1>8, <1>9, <1>10 DEF PiecesEnd, AreEnds
  <1> QED
    BY <1>1, <1>7, <1>10, <1>11

(* The entries of a result, each with its line behind the lines of those    *)
(* before it; the tab and the end of the line are two more places.         *)
Entries == [surface : Seq(STRING), feature : Seq(STRING)]
Fits(entries, e, len) ==
  /\ entries \in Seq(Entries) /\ AreEnds(e, Len(entries)) /\ e[Len(entries)] <= len + 1
  /\ \A k \in 1 .. Len(entries) :
       Len(entries[k].surface) + Len(entries[k].feature) + 2 + e[k - 1] <= e[k]

(* Two columns of a line are shorter than the line. *)
LEMMA TwoColumns ==
  ASSUME NEW line \in Seq(STRING), Len(Split(line, "\t", 2)) >= 2
  PROVE  LET cols == Split(line, "\t", 2)
         IN  /\ cols[1] \in Seq(STRING) /\ cols[2] \in Seq(STRING)
             /\ Len(cols[1]) + Len(cols[2]) + 1 <= Len(line)
  <1>1. PICK p : p = Split(line, "\t", 2)
    OBVIOUS
  <1>2. p \in Seq(Seq(STRING)) /\ Len(p) <= 2 /\ \E e : PiecesEnd(p, e, Len(line))
    BY <1>1, SplitFacts
  <1>3. PICK e : PiecesEnd(p, e, Len(line))
    BY <1>2
  <1>4. Len(p) = 2 /\ p[1] \in Seq(STRING) /\ p[2] \in Seq(STRING)
    <2>1. Len(p) >= 2
      BY <1>1
    <2>2. p \in Seq(Seq(STRING)) /\ Len(p) \in Nat /\ Len(p) <= 2
      BY <1>2
    <2>3. PICK m : m = Len(p)
      OBVIOUS
    <2>4. m \in Nat /\ m >= 2 /\ m <= 2
      BY <2>1, <2>2, <2>3, Zenon
    <2>5. m = 2
      BY <2>4
    <2>6. Len(p) = 2
      BY <2>3, <2>5
    <2>7. 1 \in 1 .. Len(p) /\ 2 \in 1 .. Len(p)
      BY <2>6
    <2> QED
      BY <2>2, <2>6, <2>7, ElementOfSeq
  <1>5. PICK a : a = Len(p[1])
    OBVIOUS
  <1>6. PICK b : b = Len(p[2])
    OBVIOUS
  <1>7. a \in Nat /\ b \in Nat /\ Len(line) \in Nat
    BY <1>4, <1>5, <1>6
  <1>8. e[0] = 0 /\ e[1] \in Nat /\ e[2] \in Nat /\ e[2] <= Len(line) + 1
    BY <1>3, <1>4 DEF PiecesEnd, AreEnds
  <1>9. a + 1 + e[0] = e[1] /\ b + 1 + e[1] = e[2]
    <2>1. 1 \in 1 .. 2 /\ 2 \in 1 .. 2 /\ 1 - 1 = 0 /\ 2 - 1 = 1
      OBVIOUS
    <2> QED
      BY <1>3, <1>4, <1>5, <1>6, <2>1 DEF PiecesEnd
  <1>10. a + b + 1 <= Len(line)
    BY <1>7, <1>8, <1>9
  <1> QED
    BY <1>1, <1>4, <1>5, <1>6, <1>10

(* Places that never go back end at the last one.                           *)
LEMMA EndsAscend ==
  ASSUME NEW n \in Nat, NEW e, AreEnds(e, n), \A k \in 1 .. n : e[k - 1] <= e[k], NEW j \in 0 .. n
  PROVE  e[j] <= e[n]
  <1> DEFINE P == {k \in 0 .. n - j : e[j] <= e[j + k]}
  <1>1. \A k \in 0 .. n : e[k] \in Nat
    BY DEF AreEnds
  <1>2. 0 \in P /\ n - j \in Nat
    BY <1>1
  <1>3. ASSUME NEW k \in 1 .. n - j, k - 1 \in P PROVE k \in P
    <2>1. /\ j + k \in 1 .. n /\ (j + k) - 1 = j + (k - 1) /\ j + (k - 1) \in 0 .. n
          /\ j \in 0 .. n /\ j + k \in 0 .. n
      BY <1>3
    <2>2. e[j] <= e[j + (k - 1)]
      BY <1>3
    <2>3. e[j + (k - 1)] <= e[j + k]
      BY <2>1
    <2>4. e[j] \in Nat /\ e[j + (k - 1)] \in Nat /\ e[j + k] \in Nat
      BY <1>1, <2>1
    <2>5. e[j] <= e[j + k]
      BY <2>2, <2>3, <2>4
    <2> QED
      BY <2>5
  <1> HIDE DEF P
  <1>4. 0 .. n - j \subseteq P
    BY <1>2, <1>3, UpTo
  <1>5. n - j \in P /\ j + (n - j) = n
    BY <1>2, <1>4
  <1> QED
    BY <1>5 DEF P

(* The lines that set_result understands fit into its text (tagger.cpp:755).*)
LEMMA EntriesFit ==
  ASSUME NEW t \in Seq(STRING)
  PROVE  \E e : Fits(EntriesOf(t), e, Len(t))
  <1> DEFINE lines == Split(t, "\n", Len(t))
             Stops(i) == lines[i] = <<"EOS">> \/ Len(Split(lines[i], "\t", 2)) < 2
             stops == {i \in DOMAIN lines : Stops(i)}
             n == IF stops = {} THEN Len(lines) ELSE (CHOOSE i \in stops : \A k \in stops : i <= k) - 1
             Entry(i) == [surface |-> Split(lines[i], "\t", 2)[1], feature |-> Split(lines[i], "\t", 2)[2]]
             entries == [i \in 1 .. n |-> Entry(i)]
  <1>1. EntriesOf(t) = entries
    BY DEF EntriesOf
  <1>2. Len(t) \in Nat
    OBVIOUS
  <1>3. lines \in Seq(Seq(STRING)) /\ \E e : PiecesEnd(lines, e, Len(t))
    BY <1>2, SplitFacts
  <1>4. PICK e : PiecesEnd(lines, e, Len(t))
    BY <1>3
  <1> HIDE DEF lines
  <1>5. Len(lines) \in Nat /\ DOMAIN lines = 1 .. Len(lines) /\ \A i \in 1 .. Len(lines) : lines[i] \in Seq(STRING)
    BY <1>3
  <1>6. n \in 0 .. Len(lines) /\ \A i \in 1 .. n : ~Stops(i)
    <2> HIDE DEF Stops
    <2>1. CASE stops = {}
      BY <1>5, <2>1
    <2>2. CASE stops # {}
      <3>1. stops \subseteq Nat
        BY <1>5
      <3> DEFINE first == CHOOSE i \in stops : \A k \in stops : i <= k
      <3>2. first \in stops /\ \A k \in stops : first <= k
        <4> HIDE DEF stops
        <4> QED
          BY <2>2, <3>1, Smallest
      <3>3. n = first - 1
        BY <2>2
      <3> HIDE DEF first, n
      <3>4. first \in 1 .. Len(lines)
        BY <1>5, <3>2
      <3>5. n \in 0 .. Len(lines)
        BY <1>5, <3>3, <3>4
      <3>6. ASSUME NEW i \in 1 .. n, Stops(i) PROVE FALSE
        <4>1. i \in DOMAIN lines /\ i < first
          BY <1>5, <3>3, <3>4, <3>5
        <4>2. first <= i
          BY <3>2, <3>6, <4>1
        <4> QED
          BY <1>5, <3>4, <4>1, <4>2
      <3> QED
        BY <3>5, <3>6
    <2> QED
      BY <2>1, <2>2
  <1> HIDE DEF n
  <1>7. ASSUME NEW i \in 1 .. n
        PROVE  /\ Entry(i) \in Entries /\ i \in 1 .. Len(lines)
               /\ Len(Entry(i).surface) + Len(Entry(i).feature) + 1 <= Len(lines[i])
    <2>1. i \in 1 .. Len(lines) /\ lines[i] \in Seq(STRING)
      BY <1>5, <1>6
    <2>2. PICK cols : cols = Split(lines[i], "\t", 2)
      OBVIOUS
    <2>3. Len(cols) >= 2
      <3>1. ~(Len(Split(lines[i], "\t", 2)) < 2)
        BY <1>6
      <3>2. Len(cols) \in Nat
        BY <2>1, <2>2, SplitFacts
      <3> QED
        BY <2>2, <3>1, <3>2
    <2>4. /\ cols[1] \in Seq(STRING) /\ cols[2] \in Seq(STRING)
          /\ Len(cols[1]) + Len(cols[2]) + 1 <= Len(lines[i])
      BY <2>1, <2>2, <2>3, TwoColumns
    <2>5. Entry(i) = [surface |-> cols[1], feature |-> cols[2]]
      BY <2>2
    <2> HIDE DEF Entry
    <2>6. Entry(i) \in Entries /\ Entry(i).surface = cols[1] /\ Entry(i).feature = cols[2]
      BY <2>4, <2>5 DEF Entries
    <2> QED
      BY <2>1, <2>4, <2>6
  <1> HIDE DEF Entry
  <1>8. entries \in Seq(Entries) /\ Len(entries) = n /\ \A i \in 1 .. n : entries[i] = Entry(i)
    <2>1. n \in Nat
      BY <1>5, <1>6
    <2>2. \A i \in 1 .. n : Entry(i) \in Entries
      BY <1>7, Zenon
    <2>3. n \in Nat /\ \A i \in 1 .. n : Entry(i) \in Entries
      BY <2>1, <2>2
    <2> QED
      BY <2>3
  <1> HIDE DEF entries
  <1>9. AreEnds(e, n) /\ e[n] <= Len(t) + 1
    <2>1. /\ \A k \in 0 .. Len(lines) : e[k] \in Nat
          /\ e[0] = 0 /\ e[Len(lines)] <= Len(t) + 1
          /\ \A k \in 1 .. Len(lines) : Len(lines[k]) + 1 + e[k - 1] = e[k]
      BY <1>4 DEF PiecesEnd, AreEnds
    <2>2. \A k \in 1 .. Len(lines) : Len(lines[k]) \in Nat
      BY <1>5
    <2>3. ASSUME NEW k \in 1 .. Len(lines) PROVE e[k - 1] <= e[k]
      <3>1. k - 1 \in 0 .. Len(lines) /\ k \in 0 .. Len(lines)
        BY <1>5
      <3>2. e[k - 1] \in Nat /\ e[k] \in Nat /\ Len(lines[k]) + 1 + e[k - 1] = e[k]
        BY <2>1, <3>1
      <3> QED
        BY <2>2, <3>2
    <2>4. AreEnds(e, Len(lines))
      BY <2>1 DEF AreEnds
    <2>5. e[n] <= e[Len(lines)]
      BY <1>5, <1>6, <2>3, <2>4, EndsAscend
    <2>6. e[n] \in Nat /\ e[Len(lines)] \in Nat
      BY <1>5, <1>6, <2>1
    <2>7. e[n] <= Len(t) + 1
      BY <1>2, <2>1, <2>5, <2>6
    <2>8. \A k \in 0 .. n : e[k] \in Nat
      BY <1>5, <1>6, <2>1
    <2> QED
      BY <2>1, <2>7, <2>8 DEF AreEnds
  <1>10. ASSUME NEW k \in 1 .. n
         PROVE  Len(entries[k].surface) + Len(entries[k].feature) + 2 + e[k - 1] <= e[k]
    <2>1. k \in 1 .. Len(lines) /\ k - 1 \in 0 .. n /\ k \in 0 .. n
      BY <1>5, <1>6
    <2>2. Len(lines[k]) + 1 + e[k - 1] = e[k] /\ Len(lines[k]) \in Nat /\ e[k - 1] \in Nat
      BY <1>4, <1>5, <1>9, <2>1 DEF PiecesEnd, AreEnds
    <2>3. PICK a : a = Len(Entry(k).surface)
      OBVIOUS
    <2>4. PICK b : b = Len(Entry(k).feature)
      OBVIOUS
    <2>5. a \in Nat /\ b \in Nat /\ a + b + 1 <= Len(lines[k])
      <3>1. Entry(k) \in Entries /\ a + b + 1 <= Len(lines[k])
        BY <1>7, <2>3, <2>4
      <3>2. Entry(k).surface \in Seq(STRING) /\ Entry(k).feature \in Seq(STRING)
        BY <3>1 DEF Entries
      <3>3. PICK u : u = Entry(k).surface
        OBVIOUS
      <3>4. PICK v : v = Entry(k).feature
        OBVIOUS
      <3>5. u \in Seq(STRING) /\ v \in Seq(STRING) /\ a = Len(u) /\ b = Len(v)
        BY <2>3, <2>4, <3>2, <3>3, <3>4, Zenon
      <3>6. a \in Nat /\ b \in Nat
        BY <3>5
      <3> QED
        BY <3>1, <3>6
    <2>6. a + b + 2 + e[k - 1] <= e[k]
      BY <2>2, <2>5
    <2> QED
      BY <1>8, <2>3, <2>4, <2>6
  <1> QED
    BY <1>1, <1>8, <1>9, <1>10 DEF Fits

(* The sentence that the entries spell is shorter than their text. *)
LEMMA SpelledFits ==
  ASSUME NEW entries, NEW e, NEW len \in Nat, Fits(entries, e, len)
  PROVE  /\ Spelled(entries) \in Seq(STRING)
         /\ IF Len(entries) = 0 THEN Len(Spelled(entries)) = 0
            ELSE Len(Spelled(entries)) + 1 <= len
  <1> DEFINE ss == [i \in DOMAIN entries |-> entries[i].surface]
  <1>1. /\ entries \in Seq(Entries) /\ AreEnds(e, Len(entries)) /\ e[Len(entries)] <= len + 1
        /\ \A k \in 1 .. Len(entries) :
             Len(entries[k].surface) + Len(entries[k].feature) + 2 + e[k - 1] <= e[k]
    BY DEF Fits
  <1>2. /\ Len(entries) \in Nat /\ DOMAIN entries = 1 .. Len(entries)
        /\ \A i \in 1 .. Len(entries) : entries[i].surface \in Seq(STRING) /\ entries[i].feature \in Seq(STRING)
    <2>1. \A i \in 1 .. Len(entries) : entries[i] \in Entries
      BY <1>1
    <2> QED
      BY <1>1, <2>1 DEF Entries
  <1>3. ss \in Seq(Seq(STRING)) /\ Len(ss) = Len(entries) /\ \A i \in 1 .. Len(entries) : ss[i] = entries[i].surface
    BY <1>2
  <1>4. Spelled(entries) = FlattenSeq(ss)
    BY DEF Spelled
  <1> HIDE DEF ss
  <1>5. CASE Len(entries) = 0
    <2>1. FlattenSeq(ss) = ss /\ ss = <<>>
      BY <1>3, <1>5 DEF FlattenSeq
    <2> QED
      BY <1>4, <1>5, <2>1
  <1>6. CASE Len(entries) # 0
    <2>1. ASSUME NEW k \in 1 .. Len(ss) PROVE Len(ss[k]) + 2 + e[k - 1] <= e[k]
      <3>1. PICK a : a = Len(entries[k].surface)
        OBVIOUS
      <3>2. PICK b : b = Len(entries[k].feature)
        OBVIOUS
      <3>3. a \in Nat /\ b \in Nat /\ k - 1 \in 0 .. Len(entries) /\ k \in 0 .. Len(entries)
        BY <1>2, <1>3, <3>1, <3>2
      <3>4. a + b + 2 + e[k - 1] <= e[k] /\ e[k] \in Nat /\ e[k - 1] \in Nat
        BY <1>1, <1>3, <3>1, <3>2, <3>3 DEF AreEnds
      <3>5. a + 2 + e[k - 1] <= e[k]
        BY <3>3, <3>4
      <3> QED
        BY <1>3, <3>1, <3>5
    <2>2. FlattenSeq(ss) \in Seq(STRING) /\ Len(FlattenSeq(ss)) + 2 <= e[Len(ss)]
      BY <1>1, <1>3, <1>6, <2>1, FlattenShort
    <2>3. Len(FlattenSeq(ss)) \in Nat /\ e[Len(entries)] \in Nat
      BY <1>1, <1>2, <2>2 DEF AreEnds
    <2>4. Len(FlattenSeq(ss)) + 1 <= len
      BY <1>1, <1>3, <2>2, <2>3
    <2> QED
      BY <1>4, <1>6, <2>2, <2>4
  <1> QED
    BY <1>5, <1>6

(* No chunk is smaller than the smallest, and what was freed was a text. *)
Roomy ==
  /\ \A i \in DOMAIN chunks : ChunkMin <= chunks[i]
  /\ stale \subseteq Blocks
Taken == {given[i] : i \in DOMAIN given}

(* Chunks are never smaller than BUF_SIZE (freelist.h:41), stale texts are texts.*)
LEMMA RoomyStep ==
  ASSUME TextCursor, Texts, Roomy, [MemoryNext]_memoryVars PROVE Roomy'
  <1>1. ASSUME NEW req \in Nat, AllocText(req) PROVE Roomy'
    <2> DEFINE c == IF req > ChunkMin THEN req ELSE ChunkMin
    <2>1. chunks' = chunks \/ chunks' = Append(chunks, c)
      BY <1>1 DEF AllocText
    <2>2. c \in Nat /\ ChunkMin <= c
      BY SizeAssumption
    <2> HIDE DEF c
    <2>3. chunks \in Seq(Nat)
      BY DEF TextCursor
    <2>4. \A i \in DOMAIN chunks' : ChunkMin <= chunks'[i]
      <3>1. CASE chunks' = chunks
        BY <3>1 DEF Roomy
      <3>2. CASE chunks' = Append(chunks, c)
        <4>1. /\ DOMAIN chunks = 1 .. Len(chunks) /\ DOMAIN chunks' = 1 .. Len(chunks) + 1 /\ Len(chunks) \in Nat
              /\ \A i \in 1 .. Len(chunks) : chunks'[i] = chunks[i]
              /\ chunks'[Len(chunks) + 1] = c
          BY <2>2, <2>3, <3>2
        <4>2. \A i \in 1 .. Len(chunks) + 1 : i \in 1 .. Len(chunks) \/ i = Len(chunks) + 1
          BY <4>1
        <4> QED
          BY <2>2, <4>1, <4>2 DEF Roomy
      <3> QED
        BY <2>1, <3>1, <3>2
    <2>5. stale' \subseteq stale
      BY <1>1 DEF AllocText
    <2> QED
      BY <2>4, <2>5 DEF Roomy
  <1>2. CASE FreeAll
    <2>1. \A i \in DOMAIN given : given[i] \in Blocks
      BY DEF Texts
    <2> QED
      BY <1>2, <2>1 DEF FreeAll, Roomy
  <1>3. CASE UNCHANGED <<chunks, stale>>
    BY <1>3 DEF Roomy
  <1> QED
    BY <1>1, <1>2, <1>3 DEF MemoryNext, memoryVars

(* A chunk that has room for a text of some length and one in front of      *)
(* which, or in whose first cells, the next texts go.                      *)
Big(c, len) == c \in 0 .. Len(chunks) - 1 /\ len + 2 <= chunks[c + 1]
InFront(c, b, len) == c < b.chunk \/ (c = b.chunk /\ len + 2 <= b.from)
CursorIn(c, s) == at.li < c \/ (at.li = c /\ at.pi <= s)

(* The next text goes in front of a place with room behind the cursor.      *)
LEMMA NextInFront ==
  ASSUME TextCursor, NEW c \in 0 .. Len(chunks) - 1, NEW s \in Nat, NEW q \in Nat,
         CursorIn(c, s), s + q < chunks[c + 1]
  PROVE  /\ Fitting(q) # {} /\ NextBlock(q) \in Blocks
         /\ LET b == NextBlock(q) IN b.chunk < c \/ (b.chunk = c /\ b.to <= s + q)
  <1>1. at.li \in Nat /\ at.pi \in Nat /\ Len(chunks) \in Nat /\ c \in Nat /\ chunks[c + 1] \in Nat
    BY DEF TextCursor
  <1>2. c \in Fitting(q) /\ From(c) <= s
    <2>1. CASE at.li = c
      <3>1. From(c) = at.pi /\ at.pi <= s
        BY <1>1, <2>1 DEF From, CursorIn
      <3>2. From(c) + q < chunks[c + 1] /\ c \in at.li .. Len(chunks) - 1
        BY <1>1, <2>1, <3>1
      <3> QED
        BY <3>1, <3>2 DEF Fitting
    <2>2. CASE at.li # c
      <3>1. From(c) = 0 /\ at.li < c
        BY <1>1, <2>2 DEF From, CursorIn
      <3>2. From(c) + q < chunks[c + 1] /\ c \in at.li .. Len(chunks) - 1
        BY <1>1, <3>1
      <3> QED
        BY <3>1, <3>2 DEF Fitting
    <2> QED
      BY <2>1, <2>2
  <1>3. Fitting(q) \subseteq Nat /\ Fitting(q) # {}
    <2>1. Fitting(q) \subseteq at.li .. Len(chunks) - 1
      BY Zenon DEF Fitting
    <2>2. \A j \in at.li .. Len(chunks) - 1 : j \in Nat
      BY <1>1
    <2> QED
      BY <1>2, <2>1, <2>2, Zenon
  <1> DEFINE i == CHOOSE j \in Fitting(q) : \A k \in Fitting(q) : j <= k
  <1>4. i \in Fitting(q) /\ \A k \in Fitting(q) : i <= k
    BY <1>3, Smallest
  <1>5. NextBlock(q) = [chunk |-> i, from |-> From(i), to |-> From(i) + q]
    BY <1>3 DEF NextBlock, Block
  <1> HIDE DEF i
  <1>6. i \in Nat /\ i <= c /\ From(i) \in Nat
    BY <1>1, <1>2, <1>3, <1>4 DEF From
  <1>7. NextBlock(q) \in Blocks
    BY <1>5, <1>6 DEF Blocks
  <1>8. i < c \/ (i = c /\ From(i) + q <= s + q)
    BY <1>1, <1>2, <1>6
  <1> QED
    BY <1>3, <1>5, <1>7, <1>8

(* So a text taken in front of b does not touch b, and there is room for    *)
(* the next.                                                               *)
LEMMA TakenInFront ==
  ASSUME TextCursor, NEW c \in Nat, NEW len \in Nat, NEW s \in Nat, NEW q \in Nat, NEW b \in Blocks,
         Big(c, len), InFront(c, b, len), CursorIn(c, s), s + q <= len + 1 \/ s + q < chunks[c + 1],
         s + q <= len + 2
  PROVE  /\ Apart(b, NextBlock(q))
         /\ AllocText(q) => chunks' = chunks /\ CursorIn(c, s + q)'
  <1>1. c \in 0 .. Len(chunks) - 1 /\ chunks[c + 1] \in Nat /\ len + 2 <= chunks[c + 1]
    BY DEF Big, TextCursor
  <1>2. s + q < chunks[c + 1]
    BY <1>1
  <1> DEFINE n == NextBlock(q)
  <1>3. /\ Fitting(q) # {} /\ n \in Blocks
        /\ n.chunk < c \/ (n.chunk = c /\ n.to <= s + q)
    BY <1>1, <1>2, NextInFront
  <1>4. AllocText(q) => chunks' = chunks /\ at' = [li |-> n.chunk, pi |-> n.to]
    BY <1>3 DEF AllocText
  <1> HIDE DEF n
  <1>5. n.chunk \in Nat /\ n.to \in Nat /\ n.from \in Nat /\ b.chunk \in Nat /\ b.from \in Nat
    BY <1>3 DEF Blocks
  <1>6. b.chunk # n.chunk \/ n.to <= b.from
    BY <1>3, <1>5 DEF InFront
  <1>7. Apart(b, n)
    BY <1>6 DEF Apart
  <1>8. AllocText(q) => CursorIn(c, s + q)'
    BY <1>3, <1>4 DEF CursorIn
  <1> QED
    BY <1>4, <1>7, <1>8 DEF n

(* BOS, EOS and the nodes of entries.                                        *)
AnyNode == Nodes \cup {BosNode, EosNode}
LEMMA NodesMade ==
  /\ BosNode.stat = "BOS" /\ EosNode.stat = "EOS"
  /\ \A e \in Entries :
       LET n == [BosNode EXCEPT !.stat = "NOR", !.surface = e.surface, !.feature = e.feature]
       IN  n \in AnyNode /\ n.stat = "NOR"
  <1> DEFINE N(stat, surface, feature, y) ==
               [stat |-> stat, surface |-> surface, space |-> <<>>, feature |-> feature,
                paths |-> <<>>, likely |-> y]
  <1>1. PICK y, b : y = FALSE /\ b = <<"B">>
    OBVIOUS
  <1>2. y \in BOOLEAN
    BY <1>1, Zenon
  <1>3. BosNode = N("BOS", <<>>, b, y)
    BY <1>1, Zenon DEF BosNode
  <1>4. ASSUME NEW surface \in Seq(STRING), NEW feature \in Seq(STRING)
        PROVE  N("NOR", surface, feature, y) \in Nodes
    <2>1. \A S : <<>> \in Seq(S)
      OBVIOUS
    <2> QED
      BY <1>2, <2>1 DEF Nodes
  <1>5. ASSUME NEW stat, NEW surface, NEW feature
        PROVE  [N("BOS", <<>>, b, y) EXCEPT !.stat = stat, !.surface = surface, !.feature = feature]
                 = N(stat, surface, feature, y)
    <2>1. [N("BOS", <<>>, b, y) EXCEPT !.stat = stat] = N(stat, <<>>, b, y)
      OBVIOUS
    <2>2. [N(stat, <<>>, b, y) EXCEPT !.surface = surface] = N(stat, surface, b, y)
      OBVIOUS
    <2>3. [N(stat, surface, b, y) EXCEPT !.feature = feature] = N(stat, surface, feature, y)
      OBVIOUS
    <2> HIDE DEF N
    <2> QED
      BY <2>1, <2>2, <2>3
  <1>6. [N("BOS", <<>>, b, y) EXCEPT !.stat = "EOS"] = N("EOS", <<>>, b, y)
    OBVIOUS
  <1>7. \A stat, surface, feature : N(stat, surface, feature, y).stat = stat
    OBVIOUS
  <1> HIDE DEF N
  <1>8. EosNode = N("EOS", <<>>, b, y)
    BY <1>3, <1>6, Zenon DEF EosNode
  <1>9. BosNode.stat = "BOS" /\ EosNode.stat = "EOS"
    BY <1>3, <1>7, <1>8, Zenon
  <1>10. ASSUME NEW e \in Entries
         PROVE  LET n == [BosNode EXCEPT !.stat = "NOR", !.surface = e.surface, !.feature = e.feature]
                IN  n \in AnyNode /\ n.stat = "NOR"
    <2> DEFINE n == [BosNode EXCEPT !.stat = "NOR", !.surface = e.surface, !.feature = e.feature]
    <2>1. e.surface \in Seq(STRING) /\ e.feature \in Seq(STRING)
      BY DEF Entries
    <2>2. n = N("NOR", e.surface, e.feature, y)
      BY <1>3, <1>5
    <2> HIDE DEF n
    <2>3. n \in Nodes /\ n.stat = "NOR"
      BY <1>4, <1>7, <2>1, <2>2, Zenon
    <2> QED
      BY <2>3 DEF n, AnyNode
  <1> QED
    BY <1>9, <1>10

(* While set_result is at work, the copy of its text has left so much room  *)
(* in front of the copy of its sentence that what is copied after the free  *)
(* goes there.                                                             *)
ResultJobs ==
  [is : {"result"}, stage : {"sentence", "set", "copy", "ready", "eos", "entries"}, entries : Seq(Entries)]
AnalysisJobs == [is : {"analysis"}, stage : {"copy", "ready"}, paths : Seq(Paths)]
Jobs == {NoJob} \cup AnalysisJobs \cup ResultJobs
Room(entries, b, r, e, c) ==
  /\ r \in Results /\ entries = EntriesOf(r) /\ Fits(entries, e, Len(r))
  /\ c \in Nat /\ Big(c, Len(r)) /\ InFront(c, b, Len(r))
SafeAt(b, k) == \E r, e, c : Room(job.entries, b, r, e, c) /\ CursorIn(c, e[k])
Copied(r) ==
  /\ given # <<>>
  /\ LET b == given[Len(given)] IN b.to = b.from + Len(r) + 2 /\ at = [li |-> b.chunk, pi |-> b.to]
Past == IF job.stage = "entries" THEN Len(path) - 1 ELSE 0

AtSentence == \E r \in Results : job.entries = EntriesOf(r) /\ Copied(r)
AtSet == sentence.block \in Taken /\ \E r, e, c : Room(job.entries, sentence.block, r, e, c)
AtCopy == sentence.block \in stale /\ SafeAt(sentence.block, 0) /\ text = Spelled(job.entries)
After == sentence.block \in Taken \/ (sentence.block \in stale /\ SafeAt(sentence.block, Past))
Walked ==
  /\ job.stage \in {"eos", "entries"} => path \in Seq(AnyNode)
  /\ job.stage = "eos" => Len(path) = 1
  /\ job.stage = "entries" => Len(path) \in 1 .. Len(job.entries) + 1
Held ==
  job.is = "result" =>
    /\ Runs
    /\ job.stage = "sentence" => AtSentence
    /\ job.stage # "sentence" => sentence.in = "memory"
    /\ job.stage = "set" => AtSet
    /\ job.stage = "copy" => AtCopy
    /\ job.stage \in {"ready", "eos", "entries"} => After
    /\ Walked
Keeps == job.is # "result" /\ sentence.in = "memory" => sentence.block \in stale \cup Taken
SInv == IInv /\ Roomy /\ job \in Jobs /\ Held /\ Keeps

(* The allocator keeps its own part of the invariant.                       *)
LEMMA MemoryKept ==
  ASSUME SInv, [Next]_vars PROVE (IInv /\ Roomy)'
  <1>1. [MemoryNext]_memoryVars
    BY CallsAllocate
  <1> QED
    BY <1>1, MemoryStep, RoomyStep DEF SInv, IInv

(* A text that was handed out is the last of those taken.                    *)
LEMMA TakenNext ==
  ASSUME TextCursor, Texts, NEW req \in Nat, AllocText(req)
  PROVE  /\ NextBlock(req) \in Blocks /\ Taken' = Taken \cup {NextBlock(req)}
         /\ given' # <<>> /\ given'[Len(given')] = NextBlock(req)
         /\ \A i \in 1 .. Len(chunks) : i \in 1 .. Len(chunks') /\ chunks'[i] = chunks[i]
  <1> DEFINE b == NextBlock(req)
  <1>1. b \in Blocks
    BY NextBlockFacts
  <1>2. given' = Append(given, b)
    BY DEF AllocText
  <1> HIDE DEF b
  <1>3. /\ Len(given) \in Nat /\ Len(given') = Len(given) + 1 /\ given'[Len(given) + 1] = b
        /\ DOMAIN given = 1 .. Len(given) /\ DOMAIN given' = 1 .. Len(given) + 1
        /\ \A i \in 1 .. Len(given) : given'[i] = given[i]
        /\ given' \in Seq(Blocks)
    BY <1>1, <1>2, AppendProperties DEF Texts
  <1>4. Taken' = Taken \cup {b}
    <2>1. ASSUME NEW x PROVE x \in Taken' <=> x \in Taken \/ x = b
      <3>1. x \in Taken' <=> \E i \in 1 .. Len(given) + 1 : x = given'[i]
        BY <1>3 DEF Taken
      <3>2. x \in Taken <=> \E i \in 1 .. Len(given) : x = given[i]
        BY <1>3 DEF Taken
      <3>3. \A i \in 1 .. Len(given) + 1 : i \in 1 .. Len(given) \/ i = Len(given) + 1
        BY <1>3
      <3>4. Len(given) + 1 \in 1 .. Len(given) + 1 /\ \A i \in 1 .. Len(given) : i \in 1 .. Len(given) + 1
        BY <1>3
      <3> QED
        BY <1>3, <3>1, <3>2, <3>3, <3>4
    <2> QED
      BY <2>1
  <1>5. given' # <<>>
    BY <1>3
  <1>6. ASSUME NEW i \in 1 .. Len(chunks) PROVE i \in 1 .. Len(chunks') /\ chunks'[i] = chunks[i]
    <2> DEFINE c == IF req > ChunkMin THEN req ELSE ChunkMin
    <2>1. chunks' = chunks \/ chunks' = Append(chunks, c)
      BY DEF AllocText
    <2>2. c \in Nat
      BY SizeAssumption
    <2> HIDE DEF c
    <2>3. chunks \in Seq(Nat)
      BY DEF TextCursor
    <2> QED
      BY <2>1, <2>2, <2>3
  <1> QED
    BY <1>1, <1>3, <1>4, <1>5, <1>6 DEF b

(* The first copy leaves room in front of the second.                        *)
LEMMA SecondCopy ==
  ASSUME TextCursor, Texts, NEW r \in Results, Copied(r), NEW req \in Nat, AllocText(req),
         NEW entries, entries = EntriesOf(r), NEW n, n = NextBlock(req)
  PROVE  \E e, c : Room(entries, n, r, e, c)'
  <1>1. r \in Seq(STRING) /\ Len(r) \in Nat
    BY InputsAssumption
  <1>2. PICK b : b = given[Len(given)]
    OBVIOUS
  <1>3. b.to = b.from + Len(r) + 2 /\ at = [li |-> b.chunk, pi |-> b.to]
    BY <1>2 DEF Copied
  <1>4. given \in Seq(Blocks) /\ Len(given) \in 1 .. Len(given)
    BY DEF Copied, Texts
  <1>5. b \in Blocks /\ b.chunk < Len(chunks) /\ b.to <= chunks[b.chunk + 1]
    BY <1>2, <1>4 DEF Texts
  <1>6. b.chunk \in Nat /\ b.from \in Nat /\ b.to \in Nat
    BY <1>5 DEF Blocks
  <1>7. n \in Blocks /\ at.li <= n.chunk /\ (n.chunk = at.li => n.from = at.pi)
    BY NextBlockFacts
  <1>8. \A i \in 1 .. Len(chunks) : i \in 1 .. Len(chunks') /\ chunks'[i] = chunks[i]
    BY TakenNext
  <1>9. n.chunk \in Nat /\ n.from \in Nat
    BY <1>7 DEF Blocks
  <1>10. InFront(b.chunk, n, Len(r))
    BY <1>1, <1>3, <1>6, <1>7, <1>9 DEF InFront
  <1>11. Big(b.chunk, Len(r))'
    <2>1. Len(chunks) \in Nat /\ b.chunk + 1 \in 1 .. Len(chunks)
      BY <1>5, <1>6 DEF TextCursor
    <2>2. b.chunk + 1 \in 1 .. Len(chunks') /\ chunks'[b.chunk + 1] = chunks[b.chunk + 1]
      BY <1>8, <2>1
    <2>3. chunks[b.chunk + 1] \in Nat
      BY <2>1 DEF TextCursor
    <2>4. Len(r) + 2 <= chunks[b.chunk + 1]
      <3>1. b.to <= chunks[b.chunk + 1] /\ b.to = b.from + Len(r) + 2
        BY <1>3, <1>5
      <3> QED
        BY <1>1, <1>6, <2>3, <3>1
    <2>5. Len(chunks') \in Nat
      BY TextHandedOut DEF TextCursor
    <2> QED
      BY <1>6, <2>2, <2>5, <2>4 DEF Big
  <1>12. PICK e : Fits(EntriesOf(r), e, Len(r))
    BY <1>1, EntriesFit
  <1> QED
    BY <1>6, <1>10, <1>11, <1>12 DEF Room, InFront

(* What a job is, and what remains of it when its stage changes.             *)
LEMMA JobFacts ==
  ASSUME job \in Jobs
  PROVE  /\ job.is \in {"none", "analysis", "result"}
         /\ job.is = "none" => job = NoJob
         /\ job.is = "analysis" => job \in AnalysisJobs
         /\ job.is = "result" => job \in ResultJobs
         /\ \A name \in {"sentence", "set", "eos", "entries"} : Stage(name) => job.is = "result"
  BY DEF Jobs, NoJob, AnalysisJobs, ResultJobs, Stage

(* A result job keeps its entries when its stage changes.                   *)
LEMMA NextStage ==
  ASSUME job \in ResultJobs, NEW name \in {"sentence", "set", "copy", "ready", "eos", "entries"},
         job' = [job EXCEPT !.stage = name]
  PROVE  /\ job' \in Jobs /\ job'.is = "result" /\ job'.stage = name /\ job'.entries = job.entries
  BY DEF Jobs, ResultJobs

(* The copy of the result is the last text handed out (tagger.cpp:748).     *)
LEMMA SetResultKeeps ==
  ASSUME SInv, NEW r \in Results, SetResult(r)
  PROVE  (job \in Jobs /\ Held /\ Keeps)'
  <1> DEFINE req == Len(r) + 2
  <1>1. r \in Seq(STRING) /\ Len(r) \in Nat /\ req \in Nat
    BY InputsAssumption
  <1>2. /\ job' = [is |-> "result", stage |-> "sentence", entries |-> EntriesOf(r)]
        /\ AllocText(req) /\ answer' = NoAnswer
    BY DEF SetResult
  <1>3. EntriesOf(r) \in Seq(Entries)
    BY <1>1, EntriesFit DEF Fits
  <1>4. TextCursor /\ Texts
    BY DEF SInv, IInv
  <1>5. job' \in ResultJobs /\ job'.is = "result" /\ job'.stage = "sentence" /\ job'.entries = EntriesOf(r)
    BY <1>2, <1>3 DEF ResultJobs
  <1>6. Runs'
    BY <1>2 DEF Runs, NoAnswer, Died, OverrunAnswer
  <1>7. Copied(r)'
    <2>1. given' # <<>> /\ given'[Len(given')] = NextBlock(req)
      BY <1>1, <1>2, <1>4, TakenNext
    <2>2. at' = [li |-> NextBlock(req).chunk, pi |-> NextBlock(req).to]
      BY <1>2 DEF AllocText
    <2>3. NextBlock(req).to = NextBlock(req).from + req /\ NextBlock(req).from \in Nat
      BY <1>1, <1>4, NextBlockFacts DEF Blocks
    <2>4. NextBlock(req).to = NextBlock(req).from + Len(r) + 2
      BY <1>1, <2>3
    <2> QED
      BY <2>1, <2>2, <2>4 DEF Copied
  <1>8. AtSentence'
    BY <1>5, <1>7 DEF AtSentence
  <1>9. Held'
    BY <1>5, <1>6, <1>8 DEF Held, Walked
  <1> QED
    BY <1>5, <1>9 DEF Jobs, Keeps

(* The copy of the sentence comes behind it (tagger.cpp:768).               *)
LEMMA CopySentenceKeeps ==
  ASSUME SInv, CopySentence
  PROVE  (job \in Jobs /\ Held /\ Keeps)'
  <1> DEFINE req == Len(Spelled(job.entries)) + 2
  <1>1. /\ Stage("sentence") /\ AllocText(req) /\ sentence' = Here(NextBlock(req))
        /\ job' = [job EXCEPT !.stage = "set"] /\ answer' = answer
    BY DEF CopySentence, KeepOutput
  <1>2. job \in ResultJobs /\ job.is = "result" /\ job.stage = "sentence"
    BY <1>1, JobFacts DEF SInv, Stage, Runs
  <1>3. job' \in Jobs /\ job'.is = "result" /\ job'.stage = "set" /\ job'.entries = job.entries
    BY <1>1, <1>2, NextStage
  <1>4. TextCursor /\ Texts /\ req \in Nat
    BY <1>1 DEF SInv, IInv, AllocText
  <1>5. PICK r \in Results : job.entries = EntriesOf(r) /\ Copied(r)
    BY <1>2 DEF SInv, Held, AtSentence
  <1> HIDE DEF req
  <1> DEFINE n == NextBlock(req)
             entries == job.entries
  <1>6. PICK m, es : m = n /\ es = entries
    OBVIOUS
  <1>7. sentence'.in = "memory" /\ sentence'.block = m
    BY <1>1, <1>6 DEF Here
  <1>8. sentence'.block \in Taken'
    BY <1>1, <1>4, <1>6, <1>7, TakenNext
  <1>9. AtSet'
    <2>1. es = EntriesOf(r) /\ Copied(r) /\ AllocText(req)
      BY <1>1, <1>5, <1>6
    <2>2. PICK e, c : Room(es, m, r, e, c)'
      BY <1>4, <1>6, <2>1, SecondCopy
    <2>3. Room(job.entries, sentence.block, r, e, c)'
      BY <1>3, <1>6, <1>7, <2>2
    <2> QED
      BY <1>8, <2>3 DEF AtSet
  <1>10. Held'
    BY <1>1, <1>3, <1>7, <1>9 DEF Held, Walked, Stage, Runs
  <1> QED
    BY <1>3, <1>10 DEF Keeps

(* A place that was safe stays so where neither the texts nor the job change.*)
LEMMA SafeStays ==
  ASSUME NEW b, NEW k, SafeAt(b, k), UNCHANGED <<chunks, at>>, job'.entries = job.entries
  PROVE  SafeAt(b, k)'
  <1>1. PICK r, e, c : Room(job.entries, b, r, e, c) /\ CursorIn(c, e[k])
    BY DEF SafeAt
  <1>2. Room(job.entries, b, r, e, c)' /\ CursorIn(c, e[k])'
    BY <1>1 DEF Room, Big, InFront, CursorIn
  <1> QED
    BY <1>2 DEF SafeAt

(* The free leaves both copies unused, and the cursor in front of them.     *)
LEMMA SetOwnSentenceKeeps ==
  ASSUME SInv, SetOwnSentence
  PROVE  (job \in Jobs /\ Held /\ Keeps)'
  <1> DEFINE name == IF allocates THEN "copy" ELSE "ready"
  <1>1. /\ Stage("set") /\ FreeAll /\ text' = Spelled(job.entries) /\ sentence' = sentence
        /\ job' = [job EXCEPT !.stage = name] /\ answer' = answer
    BY DEF SetOwnSentence, Cleared, KeepOutput
  <1>2. job \in ResultJobs /\ job.is = "result" /\ job.stage = "set"
    BY <1>1, JobFacts DEF SInv, Stage, Runs
  <1>3. name \in {"copy", "ready"}
    OBVIOUS
  <1> HIDE DEF name
  <1>4. job' \in Jobs /\ job'.is = "result" /\ job'.stage = name /\ job'.entries = job.entries
    BY <1>1, <1>2, <1>3, NextStage
  <1>5. sentence.block \in Taken /\ sentence.in = "memory" /\ Runs
    BY <1>2 DEF SInv, Held, AtSet
  <1>6. sentence'.block \in stale'
    BY <1>1, <1>5 DEF FreeAll, Taken
  <1>7. PICK r, e, c : Room(job.entries, sentence.block, r, e, c)
    BY <1>2 DEF SInv, Held, AtSet
  <1>8. Room(job.entries, sentence.block, r, e, c)'
    <2>1. chunks' = chunks
      BY <1>1 DEF FreeAll
    <2> QED
      BY <1>1, <1>4, <1>7, <2>1 DEF Room, Big, InFront
  <1>9. CursorIn(c, e[0])'
    <2>1. c \in Nat /\ e[0] = 0
      BY <1>7 DEF Room, Fits, AreEnds
    <2>2. at'.li = 0 /\ at'.pi = 0
      BY <1>1 DEF FreeAll
    <2> QED
      BY <2>1, <2>2 DEF CursorIn
  <1>10. SafeAt(sentence.block, 0)'
    BY <1>8, <1>9 DEF SafeAt
  <1>11. AtCopy'
    BY <1>1, <1>4, <1>6, <1>10 DEF AtCopy
  <1>12. After'
    BY <1>3, <1>4, <1>6, <1>10 DEF After, Past
  <1>13. Held'
    BY <1>1, <1>3, <1>4, <1>5, <1>11, <1>12 DEF Held, Walked, Runs
  <1> QED
    BY <1>4, <1>13 DEF Keeps

(* A second copy is a text that was handed out (tagger.cpp:717).            *)
LEMMA CopyInKeeps ==
  ASSUME SInv, CopyIn
  PROVE  (job \in Jobs /\ Held /\ Keeps)'
  <1> DEFINE req == Len(text) + 2
  <1>1. /\ Stage("copy") /\ AllocText(req) /\ sentence' = Here(NextBlock(req))
        /\ job' = [job EXCEPT !.stage = "ready"] /\ answer' = answer
    BY DEF CopyIn, KeepOutput
  <1>2. TextCursor /\ Texts /\ req \in Nat
    BY <1>1 DEF SInv, IInv, AllocText
  <1> HIDE DEF req
  <1>3. sentence'.in = "memory" /\ sentence'.block \in Taken'
    BY <1>1, <1>2, TakenNext DEF Here
  <1>4. job.is \in {"analysis", "result"} /\ Runs
    BY <1>1, JobFacts DEF SInv, Stage, Runs
  <1>5. CASE job.is = "result"
    <2>1. job' \in Jobs /\ job'.is = "result" /\ job'.stage = "ready"
      BY <1>1, <1>5, JobFacts, NextStage DEF SInv
    <2>2. Held'
      BY <1>1, <1>3, <1>4, <2>1 DEF Held, Walked, After, Runs
    <2> QED
      BY <2>1, <2>2 DEF Keeps
  <1>6. CASE job.is = "analysis"
    <2>1. job \in AnalysisJobs
      BY <1>6, JobFacts DEF SInv
    <2>2. job' \in AnalysisJobs /\ job'.is = "analysis"
      BY <1>1, <2>1 DEF AnalysisJobs
    <2> QED
      BY <1>3, <2>2 DEF Held, Keeps, Jobs
  <1> QED
    BY <1>4, <1>5, <1>6

(* BOS and EOS take no text.                                                *)
LEMMA ResultNodesKeep ==
  ASSUME SInv, ResultBos \/ ResultEos
  PROVE  (job \in Jobs /\ Held /\ Keeps)'
  <1> DEFINE name == IF job.stage = "ready" THEN "eos" ELSE "entries"
  <1>1. /\ job.is = "result" /\ job.stage \in {"ready", "eos"} /\ job' = [job EXCEPT !.stage = name]
        /\ job.stage = "ready" => path' = <<BosNode>>
        /\ job.stage = "eos" => path' = path
        /\ UNCHANGED <<chunks, at, given, stale, sentence, answer>>
    <2>1. Stage("eos") => job.is = "result"
      BY JobFacts DEF SInv
    <2> QED
      BY <2>1 DEF ResultBos, ResultEos, Stage, KeepOutput
  <1>2. name \in {"eos", "entries"} /\ (name = "eos" <=> job.stage = "ready") /\ (name = "entries" <=> job.stage = "eos")
    BY <1>1
  <1> HIDE DEF name
  <1>3. job' \in Jobs /\ job'.is = "result" /\ job'.stage = name /\ job'.entries = job.entries
    BY <1>1, <1>2, JobFacts, NextStage DEF SInv
  <1>4. After /\ sentence.in = "memory" /\ Runs /\ Walked /\ Past = 0
    BY <1>1 DEF SInv, Held, Past
  <1>5. Walked' /\ Past' = 0
    <2>1. <<BosNode>> \in Seq(AnyNode) /\ Len(<<BosNode>>) = 1
      <3>1. \A S : \A x \in S : <<x>> \in Seq(S) /\ Len(<<x>>) = 1
        OBVIOUS
      <3>2. BosNode \in AnyNode
        BY Zenon DEF AnyNode
      <3> QED
        BY <3>1, <3>2, Zenon
    <2>2. path' \in Seq(AnyNode) /\ Len(path') = 1
      BY <1>1, <1>4, <2>1 DEF Walked
    <2>3. 1 \in 1 .. Len(job'.entries) + 1
      <3>1. job'.entries \in Seq(Entries)
        BY <1>1, <1>3, JobFacts DEF SInv, ResultJobs
      <3> QED
        BY <3>1
    <2>4. Walked'
      BY <2>2, <2>3 DEF Walked
    <2> QED
      BY <2>2, <2>4 DEF Past
  <1>6. After'
    <2>1. CASE sentence.block \in Taken
      BY <1>1, <2>1 DEF After, Taken
    <2>2. CASE sentence.block \in stale /\ SafeAt(sentence.block, 0)
      <3>1. PICK b : b = sentence.block
        OBVIOUS
      <3>2. SafeAt(b, 0)'
        BY <1>1, <1>3, <2>2, <3>1, SafeStays
      <3> QED
        BY <1>1, <1>5, <2>2, <3>1, <3>2 DEF After
    <2> QED
      BY <1>4, <2>1, <2>2 DEF After
  <1>7. Held'
    BY <1>1, <1>2, <1>3, <1>4, <1>5, <1>6 DEF Held, Runs
  <1> QED
    BY <1>3, <1>7 DEF Keeps

(* The copy of a feature fits behind those of the entries before it.         *)
LEMMA FeatureFits ==
  ASSUME NEW entries, NEW e, NEW len \in Nat, Fits(entries, e, len), NEW i \in 1 .. Len(entries)
  PROVE  /\ e[i - 1] \in Nat /\ entries[i] \in Entries
         /\ Len(entries[i].feature) \in Nat
         /\ e[i - 1] + (Len(entries[i].feature) + 2) <= e[i]
         /\ e[i] \in Nat /\ e[i] <= len + 1
  <1>1. entries \in Seq(Entries) /\ AreEnds(e, Len(entries)) /\ e[Len(entries)] <= len + 1
    BY DEF Fits
  <1>2. ASSUME NEW k \in 1 .. Len(entries)
        PROVE  /\ e[k - 1] \in Nat /\ entries[k] \in Entries /\ Len(entries[k].feature) \in Nat
               /\ e[k - 1] + (Len(entries[k].feature) + 2) <= e[k] /\ e[k] \in Nat
    <2>1. entries[k] \in Entries
      BY <1>1
    <2>2. entries[k].surface \in Seq(STRING) /\ entries[k].feature \in Seq(STRING)
      BY <2>1 DEF Entries
    <2>3. PICK a, b : a = Len(entries[k].surface) /\ b = Len(entries[k].feature)
      OBVIOUS
    <2>4. a \in Nat /\ b \in Nat
      <3>1. PICK s, f : s = entries[k].surface /\ f = entries[k].feature
        OBVIOUS
      <3>2. s \in Seq(STRING) /\ f \in Seq(STRING) /\ a = Len(s) /\ b = Len(f)
        BY <2>2, <2>3, <3>1, Zenon
      <3> QED
        BY <3>2
    <2>5. a + b + 2 + e[k - 1] <= e[k]
      BY <2>3 DEF Fits
    <2>6. k - 1 \in 0 .. Len(entries) /\ k \in 0 .. Len(entries)
      BY <1>1
    <2>7. e[k - 1] \in Nat /\ e[k] \in Nat
      BY <1>1, <2>6 DEF AreEnds
    <2>8. e[k - 1] + (b + 2) <= e[k]
      BY <2>4, <2>5, <2>7
    <2> QED
      BY <2>1, <2>3, <2>4, <2>7, <2>8
  <1>3. Len(entries) \in Nat /\ i \in 0 .. Len(entries) /\ Len(entries) \in 0 .. Len(entries)
    BY <1>1
  <1>4. ASSUME NEW k \in 1 .. Len(entries) PROVE e[k - 1] <= e[k]
    <2>1. PICK b : b = Len(entries[k].feature)
      OBVIOUS
    <2>2. e[k - 1] \in Nat /\ b \in Nat /\ e[k - 1] + (b + 2) <= e[k] /\ e[k] \in Nat
      BY <1>2, <2>1
    <2> QED
      BY <2>2
  <1>5. e[i] <= e[Len(entries)]
    BY <1>1, <1>3, <1>4, EndsAscend
  <1>6. e[i] \in Nat /\ e[Len(entries)] \in Nat
    BY <1>1, <1>3 DEF AreEnds
  <1>7. e[i] <= len + 1
    BY <1>1, <1>5, <1>6
  <1> QED
    BY <1>2, <1>6, <1>7

(* The copy of a feature goes where the copy of the result was.             *)
LEMMA NextEntryKeeps ==
  ASSUME SInv, NextEntry
  PROVE  (job \in Jobs /\ Held /\ Keeps)'
  <1> DEFINE i == Len(path)
             x == job.entries[i]
             n == [BosNode EXCEPT !.stat = "NOR", !.surface = x.surface, !.feature = x.feature]
             req == Len(x.feature) + 2
  <1>1. /\ Stage("entries") /\ i <= Len(job.entries) /\ AllocText(req) /\ path' = Append(path, n)
        /\ job' = job /\ sentence' = sentence /\ answer' = answer
    BY DEF NextEntry, KeepOutput
  <1>2. job \in ResultJobs /\ job.is = "result" /\ job.stage = "entries"
    BY <1>1, JobFacts DEF SInv, Stage, Runs
  <1>3. /\ After /\ sentence.in = "memory" /\ Runs
        /\ path \in Seq(AnyNode) /\ i \in 1 .. Len(job.entries) + 1
    BY <1>2 DEF SInv, Held, Walked
  <1>4. job.entries \in Seq(Entries)
    BY <1>2 DEF ResultJobs
  <1>5. i \in 1 .. Len(job.entries) /\ i \in Nat /\ Len(job.entries) \in Nat
    BY <1>1, <1>3, <1>4
  <1>6. x \in Entries
    BY <1>4, <1>5
  <1>7. n \in AnyNode
    <2> HIDE DEF x
    <2> QED
      BY <1>6, NodesMade
  <1>8. path' \in Seq(AnyNode) /\ Len(path') = i + 1
    <2> HIDE DEF n
    <2> QED
      BY <1>1, <1>3, <1>7
  <1>9. Walked'
    BY <1>1, <1>2, <1>5, <1>8 DEF Walked
  <1>10. Past = i - 1 /\ Past' = i
    BY <1>1, <1>2, <1>5, <1>8 DEF Past
  <1>11. TextCursor /\ Texts /\ req \in Nat /\ stale \subseteq Blocks
    BY <1>1 DEF SInv, IInv, AllocText, Roomy
  <1> HIDE DEF n
  <1>12. ASSUME sentence.block \in Taken PROVE After'
    <2>1. sentence'.block \in Taken'
      <3> HIDE DEF req
      <3> QED
        BY <1>1, <1>11, <1>12, TakenNext
    <2> QED
      BY <2>1 DEF After
  <1>13. ASSUME sentence.block \in stale, SafeAt(sentence.block, i - 1) PROVE After'
    <2> HIDE DEF req, i
    <2>1. PICK b, k, q : b = sentence.block /\ k = i /\ q = req
      OBVIOUS
    <2>2. b \in stale /\ b \in Blocks /\ q \in Nat /\ k \in Nat /\ AllocText(q)
      BY <1>1, <1>5, <1>11, <1>13, <2>1
    <2>3. PICK r, e, c : Room(job.entries, b, r, e, c) /\ CursorIn(c, e[k - 1])
      BY <1>13, <2>1 DEF SafeAt
    <2>4. /\ r \in Results /\ Len(r) \in Nat /\ Fits(job.entries, e, Len(r)) /\ c \in Nat
          /\ Big(c, Len(r)) /\ InFront(c, b, Len(r))
      BY <2>3, InputsAssumption DEF Room
    <2>5. e[k - 1] \in Nat /\ e[k - 1] + q <= e[k] /\ e[k] \in Nat /\ e[k] <= Len(r) + 1
      BY <1>5, <2>1, <2>4, FeatureFits DEF req
    <2>6. e[k - 1] + q <= Len(r) + 1 /\ e[k - 1] + q <= Len(r) + 2
      BY <2>2, <2>4, <2>5
    <2>7. Apart(b, NextBlock(q)) /\ chunks' = chunks /\ CursorIn(c, e[k - 1] + q)'
      BY <1>11, <2>2, <2>3, <2>4, <2>5, <2>6, TakenInFront
    <2>8. b \in stale'
      BY <2>2, <2>7 DEF AllocText
    <2>9. CursorIn(c, e[k])'
      <3>1. at'.pi \in Nat
        BY <1>11, <2>2, TextHandedOut DEF TextCursor
      <3> QED
        BY <2>2, <2>5, <2>7, <3>1 DEF CursorIn
    <2>10. Room(job.entries, b, r, e, c)'
      BY <1>1, <2>3, <2>7 DEF Room, Big, InFront
    <2>11. SafeAt(b, k)'
      BY <2>9, <2>10 DEF SafeAt
    <2>12. Past' = k /\ sentence'.block = b
      BY <1>1, <1>10, <2>1
    <2> QED
      BY <2>8, <2>11, <2>12 DEF After
  <1>14. After'
    BY <1>3, <1>10, <1>12, <1>13 DEF After
  <1>15. Held'
    BY <1>1, <1>2, <1>3, <1>9, <1>14 DEF Held, Runs
  <1> QED
    BY <1>1, <1>2, <1>15 DEF SInv, Keeps

(* A job that ends leaves the sentence where it is.                         *)
LEMMA FillsEnd ==
  ASSUME SInv, LinkEos \/ EntryTooLong \/ Analyze
  PROVE  (job \in Jobs /\ Held /\ Keeps)'
  <1>1. job' = NoJob /\ UNCHANGED <<given, stale, sentence>>
    BY DEF LinkEos, EntryTooLong, Analyze, memoryVars
  <1>2. sentence.in = "memory" => sentence.block \in stale \cup Taken
    <2>1. CASE LinkEos \/ EntryTooLong
      <3>1. job.is = "result" /\ job.stage = "entries"
        BY <2>1, JobFacts DEF LinkEos, EntryTooLong, SInv, Stage
      <3> QED
        BY <3>1 DEF SInv, Held, After
    <2>2. CASE Analyze
      BY <2>2 DEF Analyze, SInv, Keeps
    <2> QED
      BY <2>1, <2>2
  <1>3. job' \in Jobs /\ job'.is # "result"
    BY <1>1 DEF Jobs, NoJob
  <1>4. Keeps'
    BY <1>1, <1>2 DEF Keeps, Taken
  <1> QED
    BY <1>3, <1>4 DEF Held

(* A sentence of the caller is in none of the lattice's memory.             *)
LEMMA SetSentenceKeeps ==
  ASSUME SInv, NEW a \in Analyses, SetSentence(a)
  PROVE  (job \in Jobs /\ Held /\ Keeps)'
  <1> DEFINE name == IF allocates THEN "copy" ELSE "ready"
  <1>1. sentence' = Caller /\ job' = [is |-> "analysis", stage |-> name, paths |-> a.paths]
    BY DEF SetSentence
  <1>2. name \in {"copy", "ready"} /\ a.paths \in Seq(Paths)
    BY InputsAssumption
  <1> HIDE DEF name
  <1>3. job' \in AnalysisJobs /\ job'.is = "analysis"
    BY <1>1, <1>2 DEF AnalysisJobs
  <1>4. sentence'.in = "caller"
    BY <1>1 DEF Caller
  <1> QED
    BY <1>3, <1>4 DEF Jobs, Held, Keeps

(* What is written or read changes neither the memory nor the job.           *)
LEMMA OutputKeeps ==
  ASSUME SInv, ToStringCall \/ ToStringNode \/ (\E n \in 0 .. NBEST_MAX + 1 : EnumNBestAsString(n))
               \/ Read \/ UNCHANGED vars
  PROVE  (job \in Jobs /\ Held /\ Keeps)'
  <1>1. UNCHANGED <<memoryVars, sentence, text, job>>
    BY DEF ToStringCall, ToStringNode, EnumNBestAsString, Read, KeepLattice, latticeVars, vars
  <1>2. Keeps' /\ job' \in Jobs
    BY <1>1 DEF SInv, Keeps, Taken, memoryVars
  <1>3. CASE job.is = "result"
    <2>1. UNCHANGED path /\ (answer' = answer \/ answer' = NoAnswer)
      <3>1. ~Calling
        BY <1>3 DEF Calling, NoJob
      <3> QED
        BY <3>1 DEF ToStringCall, ToStringNode, EnumNBestAsString, Read, latticeVars, vars
    <2>2. Runs'
      BY <1>3, <2>1 DEF SInv, Held, Runs, NoAnswer, Died, OverrunAnswer
    <2>3. Held' <=> (job.is = "result" => Held')
      BY <1>3
    <2>4. \A b, k : SafeAt(b, k) => SafeAt(b, k)'
      BY <1>1, SafeStays DEF memoryVars
    <2>5. /\ AtSentence => AtSentence'
          /\ AtSet => AtSet'
          /\ Walked => Walked'
      BY <1>1, <2>1 DEF AtSentence, AtSet, Walked, Copied, Room, Big, InFront, Taken, memoryVars
    <2>6. Past' = Past
      BY <1>1, <2>1 DEF Past
    <2>7. AtCopy => AtCopy'
      BY <1>1, <2>4 DEF AtCopy, memoryVars
    <2>8. After => After'
      BY <1>1, <2>4, <2>6 DEF After, Taken, memoryVars
    <2>9. Held'
      BY <1>1, <1>3, <2>2, <2>5, <2>7, <2>8 DEF SInv, Held
    <2> QED
      BY <1>2, <2>9
  <1>4. CASE job.is # "result"
    BY <1>1, <1>2, <1>4 DEF Held
  <1> QED
    BY <1>3, <1>4

(* A new lattice has no sentence and no job.                                *)
LEMMA SInvStart ==
  ASSUME Init PROVE SInv
  <1>1. IInv
    BY MemoryStart DEF Init
  <1>2. chunks = <<>> /\ stale = {} /\ job = NoJob /\ sentence = None
    BY DEF Init, MemoryInit
  <1>3. Roomy
    BY <1>2 DEF Roomy
  <1>4. job \in Jobs /\ job.is # "result" /\ sentence.in # "memory"
    BY <1>2 DEF Jobs, NoJob, None
  <1> QED
    BY <1>1, <1>3, <1>4 DEF SInv, Held, Keeps

(* No call breaks the invariant.                                            *)
LEMMA SInvStep ==
  ASSUME SInv, [Next]_vars PROVE SInv'
  <1>1. (IInv /\ Roomy)'
    BY MemoryKept
  <1>2. (job \in Jobs /\ Held /\ Keeps)'
    BY SetSentenceKeeps, SetResultKeeps, CopySentenceKeeps, SetOwnSentenceKeeps, CopyInKeeps,
       FillsEnd, ResultNodesKeep, NextEntryKeeps, OutputKeeps DEF Next
  <1> QED
    BY <1>1, <1>2 DEF SInv

(* What SInv says of the two copies where set_sentence copies again.         *)
LEMMA KeptBySInv ==
  ASSUME SInv PROVE SentenceKept
  <1> SUFFICES ASSUME sentence.in = "memory", ~Stage("sentence") PROVE
          /\ sentence.block \in stale \cup Taken
          /\ (job.is = "result" /\ Stage("copy")) => Apart(sentence.block, NextBlock(Len(text) + 2))
    BY DEF SentenceKept, Taken
  <1>1. job.is \in {"none", "analysis", "result"} /\ (job.is = "result" => job \in ResultJobs)
    BY JobFacts DEF SInv
  <1>2. sentence.block \in stale \cup Taken
    <2>1. CASE job.is = "result"
      <3>1. job.stage \in {"set", "copy", "ready", "eos", "entries"}
        BY <1>1, <2>1 DEF ResultJobs, Stage, SInv, Held
      <3> QED
        BY <2>1, <3>1 DEF SInv, Held, AtSet, AtCopy, After
    <2>2. CASE job.is # "result"
      BY <2>2 DEF SInv, Keeps
    <2> QED
      BY <2>1, <2>2
  <1>3. ASSUME job.is = "result", Stage("copy") PROVE Apart(sentence.block, NextBlock(Len(text) + 2))
    <2>1. AtCopy
      BY <1>3 DEF SInv, Held, Stage
    <2>2. PICK b, r, e, c : b = sentence.block /\ Room(job.entries, b, r, e, c) /\ CursorIn(c, e[0])
      BY <2>1 DEF AtCopy, SafeAt
    <2>3. /\ r \in Results /\ Len(r) \in Nat /\ Fits(job.entries, e, Len(r)) /\ c \in Nat
          /\ Big(c, Len(r)) /\ InFront(c, b, Len(r))
      BY <2>2, InputsAssumption DEF Room
    <2>4. e[0] = 0
      BY <2>3 DEF Fits, AreEnds
    <2>5. TextCursor /\ b \in Blocks
      BY <2>1, <2>2 DEF SInv, IInv, Roomy, AtCopy
    <2>6. text = Spelled(job.entries)
      BY <2>1 DEF AtCopy
    <2>7. PICK m : m = Len(text)
      OBVIOUS
    <2>8. m \in Nat /\ IF Len(job.entries) = 0 THEN m = 0 ELSE m + 1 <= Len(r)
      BY <2>3, <2>6, <2>7, SpelledFits
    <2>9. 0 + (m + 2) <= Len(r) + 1 \/ 0 + (m + 2) < chunks[c + 1]
      <3>1. CASE Len(job.entries) = 0
        <4>1. c + 1 \in DOMAIN chunks /\ chunks[c + 1] \in Nat
          BY <2>3, <2>5 DEF Big, TextCursor
        <4>2. ChunkMin <= chunks[c + 1] /\ ChunkMin > 2 /\ ChunkMin \in Nat
          BY <4>1, InputsAssumption, SizeAssumption DEF SInv, Roomy
        <4> QED
          BY <2>8, <3>1, <4>1, <4>2
      <3>2. CASE Len(job.entries) # 0
        BY <2>3, <2>8, <3>2
      <3> QED
        BY <3>1, <3>2
    <2>10. 0 + (m + 2) <= Len(r) + 2
      BY <2>3, <2>8
    <2>11. CursorIn(c, 0)
      BY <2>2, <2>4
    <2>12. Apart(b, NextBlock(m + 2))
      <3>1. m + 2 \in Nat /\ 0 \in Nat
        BY <2>8
      <3> QED
        BY <2>3, <2>5, <2>9, <2>10, <2>11, <3>1, TakenInFront
    <2> QED
      BY <2>2, <2>7, <2>12
  <1> QED
    BY <1>2, <1>3

(* Whatever callers set, analyse and write, the sentence of a lattice is never*)
(* overwritten before the lattice has another one (tagger.cpp:771, 802).    *)
THEOREM SentenceStays == Spec => []SentenceKept
  <1>1. Init => SInv
    BY SInvStart
  <1>2. SInv /\ [Next]_vars => SInv'
    BY SInvStep
  <1>3. SInv => SentenceKept
    BY KeptBySInv
  <1> QED
    BY <1>1, <1>2, <1>3, PTL DEF Spec

(* What toString finds behind BOS while a lattice is filled and after it:    *)
(* EOS is linked last, and BOS is filed at the first position by then.     *)
Linked == path # <<>> /\ path[Len(path)].stat = "EOS"
Positions == 0 \in DOMAIN end_nodes /\ end_nodes = [p \in DOMAIN end_nodes |-> end_nodes[p]]
Empty == path = <<>> /\ results = <<>> /\ Positions
Partial == results = <<>> /\ Positions /\ end_nodes[0] \in 1 .. Len(path) /\ ~Linked
Found ==
  /\ Linked => 0 \in DOMAIN end_nodes /\ end_nodes[0] \in 1 .. Len(path) - 1
  /\ results # <<>> => 0 \in DOMAIN end_nodes /\ end_nodes[0] = 1
DInv ==
  /\ path \in Seq(AnyNode) /\ results \in Seq(Paths)
  /\ job.is = "result" => answer = NoAnswer
  /\ job.is = "analysis" => Empty
  /\ job.is = "result" /\ job.stage \in {"copy", "ready"} => Empty
  /\ job.is = "result" /\ job.stage \in {"eos", "entries"} => Partial
  /\ job.is # "result" => Found
  /\ answer = Died => ~Linked

(* Of what an analysis links only BOS ends at the first position.            *)
LEMMA BosFiled ==
  ASSUME NEW p \in Paths, 0 \in DOMAIN end_nodes
  PROVE  EndsOf(p)[0] = 1
  <1> DEFINE ss(i) == [k \in 1 .. i |-> p[k].space \o p[k].surface]
             At(i) == Len(FlattenSeq(ss(i)))
             here == {i \in DOMAIN p : p[i].stat # "EOS" /\ At(i) = 0}
  <1>1. EndsOf(p)[0] = IF here = {} THEN 0 ELSE CHOOSE i \in here : \A k \in here : k <= i
    BY Zenon DEF EndsOf
  <1>2. p \in Seq(Nodes) /\ IsPath(p)
    BY DEF Paths
  <1>3. Len(p) \in Nat /\ Len(p) >= 2 /\ DOMAIN p = 1 .. Len(p)
    BY <1>2 DEF IsPath
  <1>4. ASSUME NEW k \in 1 .. Len(p)
        PROVE  p[k].space \in Seq(STRING) /\ p[k].surface \in Seq(STRING)
    <2>1. p[k] \in Nodes
      BY <1>2, <1>3
    <2> QED
      BY <2>1 DEF Nodes
  <1>5. ASSUME NEW i \in 1 .. Len(p)
        PROVE  /\ ss(i) \in Seq(Seq(STRING)) /\ Len(ss(i)) = i
               /\ ss(i)[i] = p[i].space \o p[i].surface
    <2>1. \A k \in 1 .. i : k \in 1 .. Len(p)
      BY <1>3
    <2>2. \A k \in 1 .. i : p[k].space \o p[k].surface \in Seq(STRING)
      <3> TAKE k \in 1 .. i
      <3>1. PICK s, t : s = p[k].space /\ t = p[k].surface
        OBVIOUS
      <3>2. s \in Seq(STRING) /\ t \in Seq(STRING)
        BY <1>4, <2>1, <3>1
      <3>3. s \o t \in Seq(STRING)
        BY <3>2
      <3> QED
        BY <3>1, <3>3
    <2>3. i \in Nat /\ i \in 1 .. i
      BY <1>3
    <2> DEFINE word(k) == p[k].space \o p[k].surface
    <2>4. \A k \in 1 .. i : word(k) \in Seq(STRING)
      BY <2>2
    <2> HIDE DEF word
    <2>5. ss(i) = [k \in 1 .. i |-> word(k)]
      BY Zenon DEF word
    <2> HIDE DEF ss
    <2>6. /\ ss(i) \in Seq(Seq(STRING)) /\ Len(ss(i)) = i
          /\ ss(i)[i] = word(i)
      BY <2>3, <2>4, <2>5
    <2> QED
      BY <2>6 DEF word
  <1> HIDE DEF ss
  <1>6. ASSUME NEW i \in 1 .. Len(p)
        PROVE  /\ FlattenSeq(ss(i)) \in Seq(STRING) /\ Len(p[i].space \o p[i].surface) <= At(i)
               /\ i = 1 => FlattenSeq(ss(i)) = p[i].space \o p[i].surface
    <2>1. Len(ss(i)) # 0
      BY <1>5
    <2> QED
      BY <1>5, <2>1, FlattenLong
  <1>7. 1 \in here
    <2>1. (\E l \in BOOLEAN : p[1] = [BosNode EXCEPT !.likely = l]) /\ 1 \in 1 .. Len(p)
      BY <1>2, <1>3 DEF IsPath
    <2>2. p[1].space = <<>> /\ p[1].surface = <<>> /\ p[1].stat # "EOS"
      <3>1. \A fe, pa, li, l :
              LET n == [[stat |-> "BOS", surface |-> <<>>, space |-> <<>>, feature |-> fe, paths |-> pa,
                         likely |-> li] EXCEPT !.likely = l]
              IN  n.space = <<>> /\ n.surface = <<>> /\ n.stat # "EOS"
        OBVIOUS
      <3> QED
        BY <2>1, <3>1, Zenon DEF BosNode
    <2>3. <<>> \o <<>> = <<>> /\ Len(<<>>) = 0
      OBVIOUS
    <2>4. At(1) = 0
      BY <1>6, <2>1, <2>2, <2>3
    <2> HIDE DEF At
    <2> QED
      BY <1>3, <2>1, <2>2, <2>4
  <1>8. ASSUME NEW i \in here PROVE i = 1
    <2>1. i \in 1 .. Len(p) /\ p[i].stat # "EOS" /\ At(i) = 0
      BY <1>3
    <2>2. i # Len(p)
      BY <1>2, <2>1 DEF IsPath
    <2>3. CASE i \in 2 .. Len(p) - 1
      <3>1. p[i].surface # <<>>
        BY <1>2, <2>3 DEF IsPath
      <3>2. PICK s, t : s = p[i].space /\ t = p[i].surface
        OBVIOUS
      <3>3. s \in Seq(STRING) /\ t \in Seq(STRING) /\ t # <<>>
        BY <1>4, <2>1, <3>1, <3>2
      <3>4. PICK m : m = At(i)
        OBVIOUS
      <3>5. PICK f : f = FlattenSeq(ss(i))
        OBVIOUS
      <3>6. Len(s \o t) <= Len(f) /\ Len(f) = 0
        BY <1>6, <2>1, <3>2, <3>5
      <3> QED
        BY <3>3, <3>6
    <2>4. PICK n : n = Len(p)
      OBVIOUS
    <2>5. n \in Nat /\ i \in 1 .. n /\ i # n /\ (i \in 2 .. n - 1 => i = 1)
      BY <1>3, <2>1, <2>2, <2>3, <2>4, Zenon
    <2> HIDE DEF here, At
    <2> QED
      BY <2>5
  <1>9. here = {1}
    <2> HIDE DEF here
    <2> QED
      BY <1>7, <1>8
  <1>10. (CHOOSE i \in {1} : \A k \in {1} : k <= i) = 1
    OBVIOUS
  <1> QED
    BY <1>1, <1>9, <1>10

(* What paths and the positions of a cleared lattice look like.              *)
LEMMA PathFacts ==
  ASSUME NEW p \in Paths
  PROVE  p \in Seq(AnyNode) /\ Len(p) \in Nat /\ Len(p) >= 2
  BY DEF Paths, IsPath, AnyNode

(* A cleared lattice has a first position.                                  *)
LEMMA ClearedPositions ==
  ASSUME NEW n \in Nat, end_nodes' = [p \in 0 .. n + 3 |-> 0]
  PROVE  Positions'
  <1>1. 0 \in 0 .. n + 3
    OBVIOUS
  <1> QED
    BY <1>1 DEF Positions

(* BOS alone is a sequence of nodes that no EOS ends.                       *)
LEMMA OnlyBos == <<BosNode>> \in Seq(AnyNode) /\ Len(<<BosNode>>) = 1 /\ <<BosNode>>[1].stat # "EOS"
  <1>1. \A S : \A x \in S : <<x>> \in Seq(S) /\ Len(<<x>>) = 1 /\ <<x>>[1] = x
    OBVIOUS
  <1>2. BosNode \in AnyNode /\ BosNode.stat = "BOS"
    BY NodesMade, Zenon DEF AnyNode
  <1>3. BosNode.stat # "EOS"
    BY <1>2
  <1> QED
    BY <1>1, <1>2, <1>3, Zenon

(* A new sentence empties the lattice (tagger.cpp:711).                     *)
LEMMA SetSentenceFinds ==
  ASSUME DInv, NEW a \in Analyses, SetSentence(a) PROVE DInv'
  <1>1. a.text \in Seq(STRING) /\ Len(a.text) \in Nat
    BY InputsAssumption
  <1>2. /\ path' = <<>> /\ results' = <<>> /\ job'.is = "analysis" /\ answer' = NoAnswer
        /\ end_nodes' = [p \in 0 .. Len(a.text) + 3 |-> 0]
    BY DEF SetSentence, Cleared
  <1>3. Positions'
    BY <1>1, <1>2, ClearedPositions
  <1>4. path' \in Seq(AnyNode) /\ results' \in Seq(Paths)
    BY <1>2
  <1>5. ~Linked'
    BY <1>2 DEF Linked
  <1>6. job'.is # "result" /\ answer' # Died
    BY <1>2 DEF NoAnswer, Died
  <1>7. Empty' /\ Found'
    BY <1>2, <1>3, <1>5 DEF Empty, Found
  <1> QED
    BY <1>2, <1>4, <1>5, <1>6, <1>7 DEF DInv

(* set_result first copies its text and leaves the lattice as it is.        *)
LEMMA SetResultFinds ==
  ASSUME DInv, NEW r \in Results, SetResult(r) PROVE DInv'
  <1>1. /\ path' = path /\ results' = results /\ job'.is = "result" /\ job'.stage = "sentence"
        /\ answer' = NoAnswer
    BY DEF SetResult
  <1>2. answer' # Died
    BY <1>1 DEF NoAnswer, Died
  <1> QED
    BY <1>1, <1>2 DEF DInv

(* The sentence of a result empties the lattice as well.                    *)
LEMMA SetOwnSentenceFinds ==
  ASSUME SInv, DInv, SetOwnSentence PROVE DInv'
  <1> DEFINE name == IF allocates THEN "copy" ELSE "ready"
  <1>1. /\ Stage("set") /\ path' = <<>> /\ results' = <<>> /\ answer' = answer
        /\ job' = [job EXCEPT !.stage = name]
        /\ end_nodes' = [p \in 0 .. Len(Spelled(job.entries)) + 3 |-> 0]
    BY DEF SetOwnSentence, Cleared, KeepOutput
  <1>2. job \in ResultJobs /\ job.is = "result" /\ job.stage = "set"
    BY <1>1, JobFacts DEF SInv, Stage, Runs
  <1>3. name \in {"copy", "ready"}
    OBVIOUS
  <1> HIDE DEF name
  <1>4. job'.is = "result" /\ job'.stage \in {"copy", "ready"}
    BY <1>1, <1>2, <1>3, NextStage
  <1>5. PICK r, e, c : Room(job.entries, sentence.block, r, e, c)
    BY <1>2 DEF SInv, Held, AtSet
  <1>6. Len(r) \in Nat /\ Fits(job.entries, e, Len(r))
    BY <1>5, InputsAssumption DEF Room
  <1>7. Len(Spelled(job.entries)) \in Nat
    BY <1>6, SpelledFits
  <1>8. Positions'
    BY <1>1, <1>7, ClearedPositions
  <1>9. path' \in Seq(AnyNode) /\ results' \in Seq(Paths) /\ ~Linked' /\ Empty'
    BY <1>1, <1>8 DEF Linked, Empty
  <1> QED
    BY <1>1, <1>2, <1>4, <1>9 DEF DInv

(* The copies change only the stage.                                         *)
LEMMA CopiesFind ==
  ASSUME SInv, DInv, CopySentence \/ CopyIn PROVE DInv'
  <1>1. /\ UNCHANGED <<path, results, end_nodes, answer>>
        /\ \/ Stage("sentence") /\ job' = [job EXCEPT !.stage = "set"]
           \/ Stage("copy") /\ job' = [job EXCEPT !.stage = "ready"]
    BY DEF CopySentence, CopyIn, KeepOutput
  <1>2. /\ UNCHANGED Linked /\ UNCHANGED Empty /\ UNCHANGED Found
    BY <1>1 DEF Linked, Empty, Found, Positions
  <1>3. CASE Stage("sentence") /\ job' = [job EXCEPT !.stage = "set"]
    <2>1. job \in ResultJobs /\ job.is = "result"
      BY <1>3, JobFacts DEF SInv
    <2>2. job'.is = "result" /\ job'.stage = "set"
      BY <1>3, <2>1, NextStage
    <2> QED
      BY <1>1, <1>2, <2>1, <2>2 DEF DInv
  <1>4. CASE Stage("copy") /\ job' = [job EXCEPT !.stage = "ready"]
    <2>1. job.is \in {"analysis", "result"} /\ job.stage = "copy"
      BY <1>4, JobFacts DEF SInv, Stage
    <2>2. CASE job.is = "result"
      <3>1. job \in ResultJobs
        BY <2>2, JobFacts DEF SInv
      <3>2. job'.is = "result" /\ job'.stage = "ready"
        BY <1>4, <3>1, NextStage
      <3> QED
        BY <1>1, <1>2, <2>1, <2>2, <3>2 DEF DInv
    <2>3. CASE job.is = "analysis"
      <3>1. job \in AnalysisJobs
        BY <2>3, JobFacts DEF SInv
      <3>2. job'.is = "analysis"
        BY <1>4, <3>1 DEF AnalysisJobs
      <3> QED
        BY <1>1, <1>2, <2>3, <3>2 DEF DInv
    <2> QED
      BY <2>1, <2>2, <2>3
  <1> QED
    BY <1>1, <1>3, <1>4

(* An analysis links its best path or none (viterbi.cpp:374).               *)
LEMMA AnalyzeFinds ==
  ASSUME SInv, DInv, Analyze PROVE DInv'
  <1>1. /\ job.is = "analysis" /\ answer # Died /\ answer' = answer /\ job' = NoJob
        /\ path' = IF job.paths = <<>> THEN <<BosNode>> ELSE Head(job.paths)
        /\ end_nodes' = EndsOf(path') /\ results' \in {job.paths, <<>>}
    BY DEF Analyze, Stage, Runs, KeepOutput
  <1>2. job.paths \in Seq(Paths) /\ 0 \in DOMAIN end_nodes
    BY <1>1, JobFacts DEF SInv, AnalysisJobs, DInv, Empty, Positions
  <1>3. job'.is = "none"
    BY <1>1 DEF NoJob
  <1>4. ASSUME NEW p, path' = p PROVE 0 \in DOMAIN end_nodes'
    <2>1. DOMAIN EndsOf(p) = DOMAIN end_nodes
      BY Zenon DEF EndsOf
    <2> QED
      BY <1>1, <1>2, <1>4, <2>1
  <1>5. CASE job.paths = <<>>
    <2>1. path' = <<BosNode>> /\ results' = <<>>
      BY <1>1, <1>5
    <2>2. path' \in Seq(AnyNode) /\ ~Linked'
      BY <2>1, OnlyBos DEF Linked
    <2>3. Found' /\ results' \in Seq(Paths)
      BY <2>1, <2>2 DEF Found
    <2> QED
      BY <1>1, <1>3, <2>2, <2>3 DEF DInv
  <1>6. CASE job.paths # <<>>
    <2>1. PICK p : p = path'
      OBVIOUS
    <2>2. p \in Paths
      BY <1>1, <1>2, <1>6, <2>1
    <2>3. p \in Seq(AnyNode) /\ Len(p) \in Nat /\ Len(p) >= 2
      BY <2>2, PathFacts
    <2>4. end_nodes'[0] = 1
      BY <1>1, <1>2, <2>1, <2>2, BosFiled
    <2>5. 0 \in DOMAIN end_nodes'
      BY <1>4, <2>1
    <2>6. Found'
      BY <2>1, <2>3, <2>4, <2>5 DEF Found
    <2>7. results' \in Seq(Paths)
      BY <1>1, <1>2
    <2> QED
      BY <1>1, <1>3, <2>1, <2>3, <2>6, <2>7 DEF DInv
  <1> QED
    BY <1>5, <1>6

(* BOS is filed at the first position before anything else is.              *)
LEMMA ResultNodesFind ==
  ASSUME SInv, DInv, ResultBos \/ ResultEos PROVE DInv'
  <1>1. Stage("eos") => job.is = "result"
    BY JobFacts DEF SInv
  <1>2. /\ job.is = "result" /\ job.stage \in {"ready", "eos"} /\ job \in ResultJobs
        /\ UNCHANGED <<results, answer>>
    BY <1>1, JobFacts DEF SInv, ResultBos, ResultEos, Stage, KeepOutput
  <1>3. CASE ResultBos
    <2>1. /\ job.stage = "ready" /\ job' = [job EXCEPT !.stage = "eos"]
          /\ path' = <<BosNode>> /\ end_nodes' = [end_nodes EXCEPT ![0] = 1]
      BY <1>3 DEF ResultBos, Stage
    <2>2. job'.is = "result" /\ job'.stage = "eos"
      BY <1>2, <2>1, NextStage
    <2>3. Empty
      BY <1>2, <2>1 DEF DInv
    <2>4. Positions' /\ end_nodes'[0] = 1
      BY <2>1, <2>3 DEF Empty, Positions
    <2>5. path' \in Seq(AnyNode) /\ Len(path') = 1 /\ ~Linked'
      BY <2>1, OnlyBos DEF Linked
    <2>6. Partial'
      BY <1>2, <2>3, <2>4, <2>5 DEF Empty, Partial
    <2> QED
      BY <1>2, <2>2, <2>5, <2>6 DEF DInv
  <1>4. CASE ResultEos
    <2>1. /\ job.stage = "eos" /\ job' = [job EXCEPT !.stage = "entries"]
          /\ UNCHANGED <<path, end_nodes>>
      BY <1>4 DEF ResultEos, Stage
    <2>2. job'.is = "result" /\ job'.stage = "entries"
      BY <1>2, <2>1, NextStage
    <2>3. UNCHANGED Linked /\ UNCHANGED Partial
      BY <1>2, <2>1 DEF Linked, Partial, Positions
    <2> QED
      BY <1>2, <2>1, <2>2, <2>3 DEF DInv
  <1> QED
    BY <1>3, <1>4

(* An entry of no surface is filed at the first position again, in front of BOS.*)
LEMMA NextEntryFinds ==
  ASSUME SInv, DInv, NextEntry PROVE DInv'
  <1> DEFINE i == Len(path)
             x == job.entries[i]
             n == [BosNode EXCEPT !.stat = "NOR", !.surface = x.surface, !.feature = x.feature]
             to == Len(Spelled(SubSeq(job.entries, 1, i)))
  <1>1. /\ Stage("entries") /\ i <= Len(job.entries) /\ path' = Append(path, n)
        /\ end_nodes' = [end_nodes EXCEPT ![to] = i + 1]
        /\ job' = job /\ results' = results /\ answer' = answer
    BY DEF NextEntry, KeepOutput
  <1>2. job \in ResultJobs /\ job.is = "result" /\ job.stage = "entries"
    BY <1>1, JobFacts DEF SInv, Stage, Runs
  <1>3. path \in Seq(AnyNode) /\ i \in Nat /\ i \in 1 .. Len(job.entries) + 1
    BY <1>2 DEF SInv, Held, Walked, DInv
  <1>4. job.entries \in Seq(Entries) /\ i \in 1 .. Len(job.entries)
    BY <1>1, <1>2, <1>3 DEF ResultJobs
  <1>5. n \in AnyNode /\ n.stat = "NOR"
    <2>1. x \in Entries
      BY <1>4
    <2> HIDE DEF x
    <2> QED
      BY <2>1, NodesMade
  <1>6. Partial
    BY <1>2 DEF DInv
  <1> HIDE DEF n, to
  <1>7. path' \in Seq(AnyNode) /\ Len(path') = i + 1 /\ path'[i + 1] = n
    BY <1>1, <1>3, <1>5
  <1>8. ~Linked'
    BY <1>5, <1>7 DEF Linked
  <1>9. Positions' /\ end_nodes'[0] \in 1 .. i + 1
    <2> HIDE DEF i
    <2>1. Positions /\ end_nodes[0] \in 1 .. i
      BY <1>6 DEF Partial, i
    <2>2. Positions' /\ (end_nodes'[0] = end_nodes[0] \/ end_nodes'[0] = i + 1)
      BY <1>1, <2>1 DEF Positions
    <2> QED
      BY <1>3, <2>1, <2>2
  <1>10. Partial'
    BY <1>1, <1>6, <1>7, <1>8, <1>9 DEF Partial
  <1> QED
    BY <1>1, <1>2, <1>7, <1>8, <1>10 DEF DInv

(* EOS is linked behind whatever was filed last at the first position.      *)
LEMMA LinkEosFinds ==
  ASSUME SInv, DInv, LinkEos PROVE DInv'
  <1>1. /\ Stage("entries") /\ path' = Append(path, EosNode) /\ job' = NoJob
        /\ UNCHANGED <<end_nodes, results, answer>>
    BY DEF LinkEos, KeepOutput
  <1>2. job.is = "result" /\ job.stage = "entries" /\ answer # Died
    BY <1>1, JobFacts DEF SInv, Stage, Runs
  <1>3. path \in Seq(AnyNode) /\ Partial /\ results \in Seq(Paths)
    BY <1>2 DEF DInv
  <1>4. EosNode \in AnyNode
    BY Zenon DEF AnyNode
  <1>5. path' \in Seq(AnyNode) /\ Len(path') = Len(path) + 1 /\ Len(path) \in Nat
    BY <1>1, <1>3, <1>4
  <1>6. Found'
    BY <1>1, <1>3, <1>5 DEF Partial, Positions, Found
  <1>7. job'.is = "none"
    BY <1>1 DEF NoJob
  <1> QED
    BY <1>1, <1>2, <1>3, <1>5, <1>6, <1>7 DEF DInv

(* After an entry that is too long the path ends with its node, not with EOS.*)
LEMMA TooLongFacts ==
  ASSUME SInv, DInv, EntryTooLong
  PROVE  /\ path' \in Seq(AnyNode) /\ Len(path') = Len(path) + 1 /\ Len(path) \in Nat /\ ~Linked'
         /\ \A k \in 1 .. Len(path) : path'[k] = path[k]
         /\ Partial /\ job' = NoJob /\ job'.is = "none" /\ answer' = Threw /\ UNCHANGED <<end_nodes, results>>
  <1> DEFINE n == [BosNode EXCEPT !.stat = "NOR", !.surface = <<>>, !.feature = <<>>]
  <1>1. Stage("entries") /\ path' = Append(path, n) /\ job' = NoJob /\ answer' = Threw
        /\ UNCHANGED <<end_nodes, results>>
    BY DEF EntryTooLong
  <1>2. job.is = "result" /\ job.stage = "entries"
    BY <1>1, JobFacts DEF SInv, Stage, Runs
  <1>3. path \in Seq(AnyNode) /\ Partial /\ Len(path) \in Nat
    BY <1>2 DEF DInv
  <1>4. n \in AnyNode /\ n.stat = "NOR"
    <2>1. PICK e : e = [surface |-> <<>>, feature |-> <<>>]
      OBVIOUS
    <2>2. e \in Entries /\ e.surface = <<>> /\ e.feature = <<>>
      BY <2>1 DEF Entries
    <2> QED
      BY <2>2, NodesMade, Zenon
  <1> HIDE DEF n
  <1>5. /\ path' \in Seq(AnyNode) /\ Len(path') = Len(path) + 1 /\ path'[Len(path) + 1] = n
        /\ \A k \in 1 .. Len(path) : path'[k] = path[k]
    BY <1>1, <1>3, <1>4
  <1>6. ~Linked'
    BY <1>4, <1>5 DEF Linked
  <1>7. job'.is = "none"
    BY <1>1 DEF NoJob
  <1> QED
    BY <1>1, <1>3, <1>5, <1>6, <1>7

LEMMA TooLongFinds ==
  ASSUME SInv, DInv, EntryTooLong PROVE DInv'
  <1>1. /\ path' \in Seq(AnyNode) /\ ~Linked' /\ Partial /\ job'.is = "none" /\ answer' = Threw
        /\ UNCHANGED <<end_nodes, results>>
    BY TooLongFacts
  <1>2. Found' /\ results' \in Seq(Paths)
    BY <1>1 DEF Partial, Found, DInv
  <1> QED
    BY <1>1, <1>2 DEF DInv, Threw, Died

(* Where a path is linked, more than BOS is found.                           *)
LEMMA NothingDies ==
  ASSUME DInv, Calling, Linked PROVE Len(FromBos) >= 2
  <1>1. job.is # "result"
    BY DEF Calling, NoJob
  <1>2. Found /\ path \in Seq(AnyNode)
    BY <1>1 DEF DInv
  <1>3. PICK b : b = end_nodes[0]
    OBVIOUS
  <1>4. 0 \in DOMAIN end_nodes /\ b \in 1 .. Len(path) - 1
    BY <1>2, <1>3 DEF Found
  <1>5. Len(path) \in Nat
    BY <1>2
  <1>6. end_nodes # <<>> /\ b # 0
    BY <1>4
  <1>7. FromBos = SubSeq(path, b, Len(path))
    BY <1>3, <1>6 DEF FromBos
  <1>8. Len(SubSeq(path, b, Len(path))) = Len(path) - b + 1
    BY <1>2, <1>4, <1>5, SubSeqProperties
  <1> QED
    BY <1>4, <1>5, <1>7, <1>8

(* A call that responds has not died.                                       *)
LEMMA Responded ==
  ASSUME NEW w, NEW of, Respond(w, of) PROVE answer' # Died
  <1>1. OverrunAnswer # Died /\ \A x : [is |-> "null", what |-> x] # Died
    BY DEF OverrunAnswer, Died
  <1>2. \A own, t, x : [is |-> "text", of |-> of, own |-> own, text |-> t, whole |-> x] # Died
    BY DEF Died
  <1> QED
    BY <1>1, <1>2, Zenon DEF Respond

(* toString reads what follows BOS only where EOS is linked.                *)
LEMMA ToStringFinds ==
  ASSUME DInv, ToStringCall \/ ToStringNode PROVE DInv'
  <1>1. /\ Calling /\ UNCHANGED <<path, results, end_nodes, job>>
        /\ answer' # Died \/ ~Linked
    <2>1. CASE ToStringCall
      <3>1. Calling /\ UNCHANGED <<path, results, end_nodes, job>>
        BY <2>1 DEF ToStringCall, KeepLattice
      <3>2. CASE Dies
        <4>1. Len(FromBos) < 2
          BY <3>2 DEF Dies
        <4>2. ASSUME Linked PROVE FALSE
          <5>1. Len(FromBos) >= 2
            BY <3>1, <4>2, NothingDies
          <5>2. PICK k : k = Len(FromBos)
            OBVIOUS
          <5> QED
            BY <4>1, <5>1
        <4> QED
          BY <3>1, <4>2
      <3>3. CASE ~Dies
        BY <2>1, <3>1, <3>3, Responded DEF ToStringCall
      <3> QED
        BY <3>2, <3>3
    <2>2. CASE ToStringNode
      BY <2>2, Responded DEF ToStringNode, KeepLattice
    <2> QED
      BY <2>1, <2>2
  <1>2. job.is # "result"
    BY <1>1 DEF Calling, NoJob
  <1>3. UNCHANGED Linked /\ UNCHANGED Empty /\ UNCHANGED Found
    BY <1>1 DEF Linked, Empty, Found, Positions
  <1> QED
    BY <1>1, <1>2, <1>3 DEF DInv

(* enumNBestAsString gives the lattice another of the paths that were found,*)
(* or leaves the one it has.                                               *)
LEMMA EnumTakes ==
  ASSUME DInv, NEW n \in 0 .. NBEST_MAX + 1, EnumNBestAsString(n)
  PROVE  /\ Calling /\ UNCHANGED <<end_nodes, job>> /\ job.is # "result"
         /\ \E w : Respond(w, "list")
         /\ \/ UNCHANGED <<path, results>>
            \/ \E t \in 1 .. Len(results) :
                 path' = results[t] /\ results' = SubSeq(results, t + 1, Len(results))
  <1> DEFINE k == IF n < Len(results) THEN n ELSE Len(results)
             Fails(i, real) == ~[j \in 1 .. k |-> Write(Style, results[j], text, real)][i].ok
             Failing(real) == {i \in 1 .. k : Fails(i, real)}
             First(failed) ==
               IF failed = {} THEN k ELSE CHOOSE i \in failed : \A j \in failed : i <= j
             Took(real) == First(Failing(real))
  <1>1. Calling /\ UNCHANGED <<end_nodes, job>>
    BY DEF EnumNBestAsString
  <1>2. job.is # "result"
    BY <1>1 DEF Calling, NoJob
  <1>3. CASE n = 0 \/ n > NBEST_MAX
    BY <1>1, <1>2, <1>3 DEF EnumNBestAsString
  <1>4. CASE ~(n = 0 \/ n > NBEST_MAX)
    <2>1. PICK real \in Reals :
            /\ \E w : Respond(w, "list")
            /\ results' = SubSeq(results, Took(real) + 1, Len(results))
            /\ path' = IF k = 0 THEN path ELSE results[Took(real)]
      BY <1>4, Zenon DEF EnumNBestAsString
    <2> DEFINE failed == Failing(real)
    <2>2. PICK t : t = First(failed)
      <3> HIDE DEF First, failed
      <3> QED
        OBVIOUS
    <2>3. t = IF failed = {} THEN k ELSE CHOOSE i \in failed : \A j \in failed : i <= j
      <3> HIDE DEF failed, k
      <3> QED
        BY <2>2, Zenon
    <2>4. failed \subseteq 1 .. k
      <3> HIDE DEF Fails
      <3> QED
        OBVIOUS
    <2>5. results \in Seq(Paths) /\ Len(results) \in Nat /\ n \in Nat /\ n # 0
      BY <1>4, InputsAssumption DEF DInv
    <2>6. k \in 0 .. Len(results) /\ (k = 0 => results = <<>>)
      BY <2>5
    <2>7. results' = SubSeq(results, t + 1, Len(results)) /\ path' = IF k = 0 THEN path ELSE results[t]
      <3> HIDE DEF k, First, Failing
      <3> QED
        BY <2>1, <2>2, Zenon
    <2> HIDE DEF failed, k, Took, First
    <2>8. CASE k = 0
      <3>1. failed = {} /\ t = 0 /\ results = <<>>
        BY <2>3, <2>4, <2>6, <2>8
      <3>2. results' = results /\ path' = path
        BY <2>7, <2>8, <3>1
      <3> QED
        BY <1>1, <1>2, <2>1, <3>2
    <2>9. CASE k # 0
      <3>1. k \in 1 .. Len(results)
        BY <2>5, <2>6, <2>9
      <3>2. t \in 1 .. k
        <4>1. CASE failed = {}
          BY <2>3, <3>1, <4>1
        <4>2. CASE failed # {}
          <5>1. failed \subseteq Nat
            BY <2>4, <3>1
          <5>2. (CHOOSE i \in failed : \A j \in failed : i <= j) \in failed
            BY <4>2, <5>1, Smallest
          <5>3. t \in failed
            BY <2>3, <4>2, <5>2, Zenon
          <5> QED
            BY <2>4, <5>3
        <4> QED
          BY <4>1, <4>2
      <3>3. t \in 1 .. Len(results)
        BY <2>5, <3>1, <3>2
      <3> QED
        BY <1>1, <1>2, <2>1, <2>7, <2>9, <3>3
    <2> QED
      BY <2>8, <2>9
  <1> QED
    BY <1>3, <1>4

(* What another path is: it begins with BOS.                                *)
LEMMA EnumFinds ==
  ASSUME DInv, NEW n \in 0 .. NBEST_MAX + 1, EnumNBestAsString(n) PROVE DInv'
  <1>1. Calling /\ UNCHANGED <<end_nodes, job>> /\ job.is # "result" /\ answer' # Died
    BY EnumTakes, Responded
  <1>2. CASE UNCHANGED <<path, results>>
    <2>1. UNCHANGED Linked /\ UNCHANGED Empty /\ UNCHANGED Found
      BY <1>1, <1>2 DEF Linked, Empty, Found, Positions
    <2> QED
      BY <1>1, <1>2, <2>1 DEF DInv
  <1>3. ASSUME NEW t \in 1 .. Len(results), path' = results[t],
               results' = SubSeq(results, t + 1, Len(results))
        PROVE  DInv'
    <2>1. results \in Seq(Paths) /\ Found /\ Len(results) \in Nat /\ results # <<>>
      BY <1>1, <1>3 DEF DInv
    <2>2. PICK p : p = results[t]
      OBVIOUS
    <2>3. p \in Paths /\ p \in Seq(AnyNode) /\ Len(p) \in Nat /\ Len(p) >= 2
      BY <2>1, <2>2, PathFacts
    <2>4. results' \in Seq(Paths)
      BY <1>3, <2>1, SubSeqProperties
    <2>5. 0 \in DOMAIN end_nodes /\ end_nodes[0] = 1
      BY <2>1 DEF Found
    <2>6. job.is # "analysis"
      BY <2>1 DEF DInv, Empty
    <2>7. Found'
      BY <1>1, <1>3, <2>2, <2>3, <2>5 DEF Found
    <2> QED
      BY <1>1, <1>3, <2>2, <2>3, <2>4, <2>6, <2>7 DEF DInv
  <1> QED
    BY <1>2, <1>3, EnumTakes

(* Reading the answer changes nothing else.                                 *)
LEMMA RestFinds ==
  ASSUME DInv, Read \/ UNCHANGED vars PROVE DInv'
  <1>1. UNCHANGED <<path, results, end_nodes, job>> /\ (answer' = answer \/ answer' = NoAnswer)
    BY DEF Read, latticeVars, vars
  <1>2. UNCHANGED Linked /\ UNCHANGED Empty /\ UNCHANGED Found /\ UNCHANGED Partial
    BY <1>1 DEF Linked, Empty, Found, Partial, Positions
  <1>3. NoAnswer # Died
    BY DEF NoAnswer, Died
  <1> QED
    BY <1>1, <1>2, <1>3 DEF DInv

(* A new lattice has no path.                                               *)
LEMMA DInvStart ==
  ASSUME Init PROVE DInv
  <1>1. path = <<>> /\ results = <<>> /\ job.is = "none" /\ answer = NoAnswer
    BY DEF Init, NoJob
  <1>2. answer # Died
    BY <1>1 DEF NoAnswer, Died
  <1>3. path \in Seq(AnyNode) /\ results \in Seq(Paths) /\ ~Linked
    BY <1>1 DEF Linked
  <1> QED
    BY <1>1, <1>2, <1>3 DEF DInv, Found

(* No call breaks the second invariant.                                     *)
LEMMA DInvStep ==
  ASSUME SInv, DInv, [Next]_vars PROVE DInv'
  BY SetSentenceFinds, SetResultFinds, SetOwnSentenceFinds, CopiesFind, AnalyzeFinds, ResultNodesFind,
     NextEntryFinds, TooLongFinds, LinkEosFinds, ToStringFinds, EnumFinds, RestFinds DEF Next

(* No output call reads through a null pointer on a lattice that has a result,*)
(* for any analyses, results and buffers (tagger.cpp:786, 804, writer.cpp:119).*)
THEOREM ResultsDoNotDie == Spec => []DiesWithoutResult
  <1>1. Init => SInv /\ DInv
    BY SInvStart, DInvStart
  <1>2. SInv /\ DInv /\ [Next]_vars => (SInv /\ DInv)'
    BY SInvStep, DInvStep
  <1>3. DInv => DiesWithoutResult
    BY DEF DInv, Linked, DiesWithoutResult
  <1> QED
    BY <1>1, <1>2, <1>3, PTL DEF Spec
-----------------------------------------------------------------------------
(***************************************************************************)
(* Putting sequences together, one part more at a time.                    *)
(***************************************************************************)
LEMMA HeadOf ==
  ASSUME NEW X, NEW s \in Seq(X), NEW k \in 1 .. Len(s)
  PROVE  /\ SubSeq(s, 1, k) = Append(SubSeq(s, 1, k - 1), s[k])
         /\ SubSeq(s, 1, k - 1) \in Seq(X) /\ SubSeq(s, 1, k) \in Seq(X) /\ s[k] \in X
  <1>1. /\ k - 1 \in 0 .. Len(s) /\ k \in 0 .. Len(s) /\ Len(s) \in Nat
        /\ 1 \in 1 .. Len(s) + 1 /\ k \in 1 - 1 .. Len(s) /\ k - 1 \in 1 - 1 .. Len(s)
    OBVIOUS
  <1>2. PICK a, b : a = SubSeq(s, 1, k - 1) /\ b = SubSeq(s, 1, k)
    OBVIOUS
  <1>3. /\ a \in Seq(X) /\ Len(a) = k - 1 /\ \A i \in 1 .. k - 1 : a[i] = s[i]
        /\ b \in Seq(X) /\ Len(b) = k /\ \A i \in 1 .. k : b[i] = s[i]
    BY <1>1, <1>2, SubSeqProperties
  <1>4. Append(a, s[k]) \in Seq(X) /\ Len(Append(a, s[k])) = k
        /\ \A i \in 1 .. k : Append(a, s[k])[i] = s[i]
    BY <1>1, <1>3
  <1>5. b = Append(a, s[k])
    <2>1. PICK c : c = Append(a, s[k])
      OBVIOUS
    <2>2. c \in Seq(X) /\ Len(c) = k /\ \A i \in 1 .. k : c[i] = s[i]
      BY <1>4, <2>1
    <2>3. b = c
      BY <1>3, <2>2, SeqEqual
    <2> QED
      BY <2>1, <2>3
  <1> QED
    BY <1>2, <1>3, <1>5

(* Nothing put together is nothing.                                         *)
LEMMA FlattenNone == FlattenSeq(<<>>) = <<>>
  BY DEF FlattenSeq

(* A last part is put behind all others.                                    *)
LEMMA FlattenAppend ==
  ASSUME NEW X, NEW ss \in Seq(Seq(X)), NEW s \in Seq(X)
  PROVE  FlattenSeq(Append(ss, s)) = FlattenSeq(ss) \o s /\ FlattenSeq(ss) \in Seq(X)
  <1>1. PICK all : all = Append(ss, s)
    OBVIOUS
  <1>2. PICK n : n = Len(ss)
    OBVIOUS
  <1>3. /\ n \in Nat /\ all \in Seq(Seq(X)) /\ Len(all) = n + 1 /\ Len(all) # 0
        /\ all[n + 1] = s /\ \A i \in 1 .. n : all[i] = ss[i]
    BY <1>1, <1>2
  <1>4. CASE n = 0
    <2>1. ss = <<>>
      BY <1>2, <1>4, EmptySeq
    <2>2. FlattenSeq(all) = s
      <3>1. Len(all) = 1 /\ all[1] = s
        BY <1>3, <1>4
      <3> QED
        BY <1>3, <3>1, FlattenLong
    <2>3. <<>> \o s = s /\ <<>> \in Seq(X)
      OBVIOUS
    <2> QED
      BY <1>1, <2>1, <2>2, <2>3, FlattenNone
  <1>5. CASE n # 0
    <2>1. PICK f : AreHeads(all, f)
      BY <1>3, FlattenedHeads
    <2>2. PICK g : AreHeads(ss, g)
      BY <1>2, <1>5, FlattenedHeads
    <2> DEFINE P == {k \in 0 .. n - 1 : f[k + 1] = g[k + 1]}
    <2>3. 0 \in P
      <3>1. f[1] = all[1] /\ g[1] = ss[1] /\ 1 \in 1 .. n /\ 0 \in 0 .. n - 1 /\ 0 + 1 = 1
        BY <1>3, <1>5, <2>1, <2>2 DEF AreHeads
      <3> QED
        BY <1>3, <3>1
    <2>4. ASSUME NEW k \in 1 .. n - 1, k - 1 \in P PROVE k \in P
      <3>1. k \in 1 .. Len(all) - 1 /\ k \in 1 .. Len(ss) - 1 /\ k + 1 \in 1 .. n /\ (k - 1) + 1 = k
            /\ k \in 0 .. n - 1
        BY <1>2, <1>3
      <3>2. f[k + 1] = f[k] \o all[k + 1] /\ g[k + 1] = g[k] \o ss[k + 1]
        BY <2>1, <2>2, <3>1 DEF AreHeads
      <3>3. f[k] = g[k] /\ all[k + 1] = ss[k + 1]
        BY <1>3, <2>4, <3>1
      <3> QED
        BY <3>1, <3>2, <3>3
    <2> HIDE DEF P
    <2>5. n - 1 \in Nat
      BY <1>3, <1>5
    <2>6. 0 .. n - 1 \subseteq P
      BY <2>3, <2>4, <2>5, UpTo
    <2>7. f[n] = g[n]
      <3>1. n - 1 \in P /\ (n - 1) + 1 = n
        BY <1>3, <2>5, <2>6
      <3> QED
        BY <3>1 DEF P
    <2>8. FlattenSeq(all) = f[n + 1] /\ FlattenSeq(ss) = g[n] /\ f[n + 1] = f[n] \o all[n + 1]
      <3>1. n \in 1 .. Len(all) - 1
        BY <1>3, <1>5
      <3> QED
        BY <1>2, <1>3, <2>1, <2>2, <3>1 DEF AreHeads
    <2>9. FlattenSeq(ss) \in Seq(X)
      BY <1>2, <1>5, FlattenLong
    <2> QED
      BY <1>1, <1>3, <2>7, <2>8, <2>9
  <1> QED
    BY <1>4, <1>5

(* To append at the end of what is joined is to append to its second part.  *)
LEMMA AddedLast ==
  ASSUME NEW S, NEW a \in Seq(S), NEW h \in Seq(S), NEW s \in S
  PROVE  a \o h \in Seq(S) /\ a \o Append(h, s) = Append(a \o h, s)
  <1>1. a \o h \in Seq(S) /\ <<s>> \in Seq(S)
    BY ConcatProperties
  <1>2. Append(h, s) = h \o <<s>> /\ Append(a \o h, s) = (a \o h) \o <<s>>
    BY <1>1, AppendIsConcat
  <1>3. (a \o h) \o <<s>> = a \o (h \o <<s>>)
    BY <1>1, ConcatAssociative
  <1> QED
    BY <1>1, <1>2, <1>3

(* Parts put together behind parts put together.                            *)
LEMMA FlattenJoined ==
  ASSUME NEW X, NEW a \in Seq(Seq(X)), NEW b \in Seq(Seq(X))
  PROVE  FlattenSeq(a \o b) = FlattenSeq(a) \o FlattenSeq(b) /\ FlattenSeq(b) \in Seq(X)
  <1> DEFINE n == Len(b)
             Good(t) == /\ FlattenSeq(a \o t) = FlattenSeq(a) \o FlattenSeq(t)
                        /\ FlattenSeq(t) \in Seq(X)
             P == {k \in 0 .. n : Good(SubSeq(b, 1, k))}
  <1>0. FlattenSeq(a) \in Seq(X)
    <2>1. <<>> \in Seq(X)
      OBVIOUS
    <2> QED
      BY <2>1, FlattenAppend
  <1>1. n \in Nat /\ SubSeq(b, 1, n) = b /\ SubSeq(b, 1, 0) = <<>>
    OBVIOUS
  <1>2. Good(<<>>)
    <2>1. a \o <<>> = a
      OBVIOUS
    <2>2. \A t \in Seq(X) : t \o <<>> = t /\ <<>> \in Seq(X)
      OBVIOUS
    <2> QED
      BY <1>0, <2>1, <2>2, FlattenNone
  <1>3. ASSUME NEW h \in Seq(Seq(X)), NEW s \in Seq(X), Good(h) PROVE Good(Append(h, s))
    <2>3. a \o h \in Seq(Seq(X)) /\ a \o Append(h, s) = Append(a \o h, s)
      <3> DEFINE S == Seq(X)
      <3>1. a \in Seq(S) /\ h \in Seq(S) /\ s \in S
        OBVIOUS
      <3> HIDE DEF S
      <3> QED
        BY <3>1, AddedLast DEF S
    <2>4. PICK u, v, w : u = FlattenSeq(a) /\ v = FlattenSeq(h) /\ w = FlattenSeq(a \o h)
      OBVIOUS
    <2>5. u \in Seq(X) /\ v \in Seq(X) /\ w = u \o v
      BY <1>0, <1>3, <2>4
    <2>6. FlattenSeq(Append(a \o h, s)) = w \o s /\ FlattenSeq(Append(h, s)) = v \o s
      BY <2>3, <2>4, FlattenAppend
    <2>7. w \o s = u \o (v \o s) /\ v \o s \in Seq(X)
      BY <2>5, ConcatAssociative, ConcatProperties
    <2> QED
      BY <2>3, <2>4, <2>6, <2>7
  <1> HIDE DEF Good
  <1>4. 0 \in P
    <2>1. 0 \in 0 .. n
      BY <1>1
    <2>2. Good(SubSeq(b, 1, 0))
      BY <1>1, <1>2, Zenon
    <2> HIDE DEF n
    <2> QED
      BY <2>1, <2>2
  <1>5. ASSUME NEW k \in 1 .. n, k - 1 \in P PROVE k \in P
    <2>1. /\ SubSeq(b, 1, k) = Append(SubSeq(b, 1, k - 1), b[k])
          /\ SubSeq(b, 1, k - 1) \in Seq(Seq(X)) /\ b[k] \in Seq(X) /\ k \in 0 .. n
      BY <1>1, HeadOf
    <2>2. Good(SubSeq(b, 1, k))
      BY <1>3, <1>5, <2>1
    <2> QED
      BY <2>1, <2>2
  <1>6. n \in P
    <2> HIDE DEF P
    <2>1. 0 .. n \subseteq P
      BY <1>1, <1>4, <1>5, UpTo
    <2> QED
      BY <1>1, <2>1
  <1>7. Good(b)
    BY <1>1, <1>6
  <1> QED
    BY <1>7 DEF Good

(***************************************************************************)
(* The buffer of toString.  Doubling a size that is not 0 ends above what  *)
(* is needed, and so no write into a buffer of one's own goes behind it.   *)
(***************************************************************************)
Twice(f, need, n) == IF need < n THEN n ELSE f[2 * n]
Solves(g, need, m) == g \in [Nat -> Nat] /\ \A n \in Nat : n >= m => g[n] = Twice(g, need, n)

(* The doubling is a function: from every number below need on it reaches   *)
(* one above it.                                                           *)
LEMMA DoublingExists ==
  ASSUME NEW need \in Nat
  PROVE  \E f : f = [n \in Nat |-> Twice(f, need, n)]
  <1> DEFINE P == {k \in 0 .. need : \E g : Solves(g, need, need + 1 - k)}
  <1>1. 0 \in P
    <2> DEFINE g == [n \in Nat |-> n]
    <2>1. g \in [Nat -> Nat] /\ \A n \in Nat : n >= need + 1 => need < n /\ g[n] = n
      OBVIOUS
    <2> HIDE DEF g
    <2>2. Solves(g, need, need + 1)
      BY <2>1 DEF Solves, Twice
    <2>3. need + 1 - 0 = need + 1 /\ 0 \in 0 .. need
      OBVIOUS
    <2> QED
      BY <2>2, <2>3
  <1>2. ASSUME NEW k \in 1 .. need, k - 1 \in P PROVE k \in P
    <2>1. PICK m : m = need + 1 - k
      OBVIOUS
    <2>2. m \in Nat /\ m >= 1 /\ m <= need /\ need + 1 - (k - 1) = m + 1
      BY <2>1
    <2>3. PICK g : Solves(g, need, m + 1)
      BY <1>2, <2>2
    <2> DEFINE h == [g EXCEPT ![m] = g[2 * m]]
    <2>4. g \in [Nat -> Nat] /\ 2 * m \in Nat /\ 2 * m # m
      BY <2>2, <2>3 DEF Solves
    <2>5. h \in [Nat -> Nat] /\ h[m] = g[2 * m] /\ \A n \in Nat : n # m => h[n] = g[n]
      BY <2>2, <2>4
    <2> HIDE DEF h
    <2>6. h[m] = Twice(h, need, m)
      BY <2>2, <2>4, <2>5 DEF Twice
    <2>7. ASSUME NEW n \in Nat, n >= m + 1 PROVE h[n] = Twice(h, need, n)
      <3>1. n # m /\ 2 * n # m /\ 2 * n \in Nat
        BY <2>2, <2>7
      <3>2. g[n] = Twice(g, need, n)
        BY <2>3, <2>7 DEF Solves
      <3> QED
        BY <2>5, <3>1, <3>2 DEF Twice
    <2>8. ASSUME NEW n \in Nat, n >= m PROVE n = m \/ n >= m + 1
      BY <2>2, <2>8
    <2>9. Solves(h, need, m)
      BY <2>5, <2>6, <2>7, <2>8 DEF Solves
    <2>10. k \in 0 .. need
      OBVIOUS
    <2> QED
      BY <2>1, <2>9, <2>10
  <1> HIDE DEF P
  <1>3. need \in P
    BY <1>1, <1>2, UpTo
  <1>4. PICK g : Solves(g, need, 1)
    <2>1. need + 1 - need = 1
      OBVIOUS
    <2> QED
      BY <1>3, <2>1 DEF P
  <1> DEFINE f == [g EXCEPT ![0] = 0]
  <1>5. g \in [Nat -> Nat] /\ f \in [Nat -> Nat] /\ f[0] = 0 /\ \A n \in Nat : n # 0 => f[n] = g[n]
    BY <1>4 DEF Solves
  <1> HIDE DEF f
  <1>6. ASSUME NEW n \in Nat PROVE f[n] = Twice(f, need, n)
    <2>1. CASE n = 0
      <3>1. 2 * n = n /\ ~(need < n)
        BY <2>1
      <3> QED
        BY <3>1 DEF Twice
    <2>2. CASE n # 0
      <3>1. 2 * n \in Nat /\ 2 * n # 0 /\ n >= 1
        BY <2>2
      <3>2. g[n] = Twice(g, need, n)
        BY <1>4, <3>1 DEF Solves
      <3> QED
        BY <1>5, <2>2, <3>1, <3>2 DEF Twice
    <2> QED
      BY <2>1, <2>2
  <1>7. f = [n \in Nat |-> f[n]]
    BY <1>5
  <1> QED
    BY <1>6, <1>7

(* What is doubled ends above what is needed.                               *)
LEMMA DoubledFits ==
  ASSUME NEW size \in Nat, NEW need \in Nat, NEW start \in Nat, start > 0
  PROVE  Doubled(size, need, start) \in Nat /\ need < Doubled(size, need, start)
  <1> DEFINE a == IF size = 0 THEN start ELSE size
             f == CHOOSE t : t = [n \in Nat |-> IF need < n THEN n ELSE t[2 * n]]
  <1>1. Doubled(size, need, start) = IF need < size THEN size ELSE f[2 * a]
    BY Zenon DEF Doubled
  <1>2. f = [n \in Nat |-> IF need < n THEN n ELSE f[2 * n]]
    <2>1. \E t : t = [n \in Nat |-> IF need < n THEN n ELSE t[2 * n]]
      BY DoublingExists, Zenon DEF Twice
    <2> QED
      BY <2>1, Zenon
  <1> HIDE DEF f
  <1>3. ASSUME NEW n \in Nat PROVE f[n] = IF need < n THEN n ELSE f[2 * n]
    BY <1>2
  <1> DEFINE P == {k \in 0 .. need : \A n \in Nat : n >= need + 1 - k => f[n] \in Nat /\ need < f[n]}
  <1>4. 0 \in P
    BY <1>3
  <1>5. ASSUME NEW k \in 1 .. need, k - 1 \in P PROVE k \in P
    <2>1. ASSUME NEW n \in Nat, n >= need + 1 - k PROVE f[n] \in Nat /\ need < f[n]
      <3>1. need + 1 - k >= 1 /\ need + 1 - (k - 1) = need + 1 - k + 1
        OBVIOUS
      <3>2. CASE need < n
        BY <1>3, <3>2
      <3>3. CASE ~(need < n)
        <4>1. 2 * n \in Nat /\ 2 * n >= need + 1 - (k - 1) /\ f[n] = f[2 * n]
          BY <1>3, <2>1, <3>1, <3>3
        <4> QED
          BY <1>5, <4>1
      <3> QED
        BY <3>2, <3>3
    <2> QED
      BY <2>1
  <1> HIDE DEF P
  <1>6. need \in P
    BY <1>4, <1>5, UpTo
  <1>7. 2 * a \in Nat /\ 2 * a >= need + 1 - need
    OBVIOUS
  <1>8. f[2 * a] \in Nat /\ need < f[2 * a]
    BY <1>6, <1>7 DEF P
  <1> QED
    BY <1>1, <1>8

(* What is written: bytes of texts and those the writer adds.               *)
Symbols == STRING \cup {"0", "#", "\t", "\n", " ", "EOS", "BOS", "U", "B"}

(* A buffer, and what one write makes of one's own.                         *)
Buffers == [own : {TRUE}, alloc : Nat, text : Seq(Symbols), error : {FALSE}]
(* A write goes behind the text of a buffer of its own, and fits.          *)
LEMMA PutOwn ==
  ASSUME NEW b \in Buffers, NEW w \in Seq(Symbols)
  PROVE  LET c == Put(b, w, ChunkMin)
         IN  /\ c \in Buffers /\ c.text = b.text \o w /\ Len(c.text) < c.alloc
  <1>1. PICK n : n = Len(b.text) + Len(w)
    OBVIOUS
  <1>2. PICK t : t = b.text \o w
    OBVIOUS
  <1>3. b.own = TRUE /\ b.alloc \in Nat /\ b.text \in Seq(Symbols) /\ b.error = FALSE
        /\ b = [own |-> TRUE, alloc |-> b.alloc, text |-> b.text, error |-> FALSE]
    BY DEF Buffers
  <1>4. t \in Seq(Symbols) /\ Len(t) = n /\ n \in Nat
    BY <1>1, <1>2, <1>3, ConcatProperties
  <1>5. ChunkMin \in Nat /\ ChunkMin > 0
    BY SizeAssumption
  <1>6. PICK d : d = Doubled(b.alloc, n, ChunkMin)
    OBVIOUS
  <1>7. d \in Nat /\ n < d
    BY <1>3, <1>4, <1>5, <1>6, DoubledFits
  <1>8. Put(b, w, ChunkMin) = [own |-> TRUE, alloc |-> d, text |-> t, error |-> FALSE]
    <2>1. Put(b, w, ChunkMin) = [b EXCEPT !.alloc = d, !.text = t]
      BY <1>1, <1>2, <1>3, <1>6, Zenon DEF Put
    <2>2. PICK y, e : y = TRUE /\ e = FALSE
      OBVIOUS
    <2>3. PICK x, u : x = b.alloc /\ u = b.text
      OBVIOUS
    <2>4. [[own |-> y, alloc |-> x, text |-> u, error |-> e] EXCEPT !.alloc = d]
            = [own |-> y, alloc |-> d, text |-> u, error |-> e]
      OBVIOUS
    <2>5. [[own |-> y, alloc |-> d, text |-> u, error |-> e] EXCEPT !.text = t]
            = [own |-> y, alloc |-> d, text |-> t, error |-> e]
      OBVIOUS
    <2>6. b = [own |-> y, alloc |-> x, text |-> u, error |-> e]
      BY <1>3, <2>2, <2>3, Zenon
    <2>7. Put(b, w, ChunkMin) = [own |-> y, alloc |-> d, text |-> t, error |-> e]
      BY <2>1, <2>4, <2>5, <2>6
    <2> QED
      BY <2>2, <2>7, Zenon
  <1>9. [own |-> TRUE, alloc |-> d, text |-> t, error |-> FALSE] \in Buffers
    BY <1>4, <1>7 DEF Buffers
  <1> QED
    BY <1>2, <1>4, <1>7, <1>8, <1>9

(* All writes of a call, a 0 behind them.                                   *)
LEMMA IntoOwn ==
  ASSUME NEW b \in Buffers, b.text = <<>>, NEW ws \in Seq(Seq(Symbols))
  PROVE  LET c == Into(b, ws)
         IN  c \in Buffers /\ c.text = FlattenSeq(ws) \o <<"0">> /\ Len(c.text) < c.alloc
  <1> DEFINE all == Append(ws, <<"0">>)
             n == Len(all)
             Body(t) == [i \in 0 .. n |-> IF i = 0 THEN b ELSE Put(t[i - 1], all[i], ChunkMin)]
             c == CHOOSE t : t = Body(t)
             step == [k \in 1 .. n |-> [x \in Buffers |-> Put(x, all[k], ChunkMin)]]
  <1>1. Into(b, ws) = c[n]
    BY Zenon DEF Into
  <1>0. <<"0">> \in Seq(Symbols)
    <2>1. \A S : \A z \in S : <<z>> \in Seq(S)
      OBVIOUS
    <2>2. "0" \in Symbols
      BY Zenon DEF Symbols
    <2> QED
      BY <2>1, <2>2, Zenon
  <1>2. all \in Seq(Seq(Symbols)) /\ n \in Nat /\ n >= 1 /\ \A i \in 1 .. n : all[i] \in Seq(Symbols)
    <2>1. PICK z : z = <<"0">>
      OBVIOUS
    <2>2. z \in Seq(Symbols)
      BY <1>0, <2>1
    <2>3. Append(ws, z) \in Seq(Seq(Symbols)) /\ Len(Append(ws, z)) = Len(ws) + 1 /\ Len(ws) \in Nat
      BY <2>2, AppendProperties
    <2> HIDE DEF all
    <2>4. all = Append(ws, z)
      BY <2>1 DEF all
    <2> QED
      BY <2>3, <2>4
  <1>3. FlattenSeq(all) = FlattenSeq(ws) \o <<"0">>
    <2> QED
      BY <1>0, FlattenAppend
  <1> HIDE DEF all, n
  <1>4. AreSteps(step, n, Buffers)
    <2>1. \A k \in 1 .. n : \A x \in Buffers : step[k][x] = Put(x, all[k], ChunkMin)
      OBVIOUS
    <2> HIDE DEF step
    <2> QED
      BY <1>2, <2>1, PutOwn DEF AreSteps
  <1>5. PICK g : IsIteration(g, step, n, Buffers, b)
    <2> HIDE DEF step
    <2> QED
      BY <1>2, <1>4, Iteration
  <1>6. g = Body(g)
    <2>1. \A k \in 1 .. n : g[k] = step[k][g[k - 1]] /\ g[k - 1] \in Buffers
      <3> HIDE DEF step
      <3> QED
        BY <1>2, <1>5 DEF IsIteration
    <2>2. \A k \in 1 .. n : g[k] = Put(g[k - 1], all[k], ChunkMin)
      BY <2>1
    <2>3. g[0] = b /\ g = [i \in 0 .. n |-> g[i]]
      <3> HIDE DEF step
      <3> QED
        BY <1>5 DEF IsIteration
    <2>4. \A i \in 0 .. n : i = 0 \/ i \in 1 .. n
      OBVIOUS
    <2>5. \A i \in 0 .. n : g[i] = IF i = 0 THEN b ELSE Put(g[i - 1], all[i], ChunkMin)
      BY <2>2, <2>3, <2>4
    <2> QED
      BY <2>3, <2>5
  <1>7. c = Body(c)
    <2>1. \E t : t = Body(t)
      BY <1>6
    <2> HIDE DEF Body
    <2> QED
      BY <2>1, Zenon
  <1> HIDE DEF c
  <1>8. c[0] = b /\ \A i \in 1 .. n : c[i] = Put(c[i - 1], all[i], ChunkMin)
    <2>1. \A i \in 0 .. n : c[i] = Body(c)[i]
      BY <1>7, Zenon
    <2>2. 0 \in 0 .. n /\ \A i \in 1 .. n : i \in 0 .. n /\ i # 0
      BY <1>2
    <2> QED
      BY <2>1, <2>2
  <1> HIDE DEF Body, step
  <1> DEFINE Good(k) == c[k] \in Buffers /\ c[k].text = FlattenSeq(SubSeq(all, 1, k))
             P == {k \in 0 .. n : Good(k)}
  <1>9. Good(0)
    <2>1. SubSeq(all, 1, 0) = <<>>
      BY <1>2, SubSeqEmpty
    <2> QED
      BY <1>8, <2>1, FlattenNone
  <1>10. ASSUME NEW k \in 1 .. n, Good(k - 1) PROVE Good(k) /\ Len(c[k].text) < c[k].alloc
    <2>1. PICK d : d = c[k - 1]
      OBVIOUS
    <2>2. c[k] = Put(d, all[k], ChunkMin) /\ all[k] \in Seq(Symbols) /\ d \in Buffers
      BY <1>2, <1>8, <1>10, <2>1
    <2>3. c[k] \in Buffers /\ c[k].text = d.text \o all[k] /\ Len(c[k].text) < c[k].alloc
      BY <2>2, PutOwn
    <2>4. SubSeq(all, 1, k) = Append(SubSeq(all, 1, k - 1), all[k]) /\ SubSeq(all, 1, k - 1) \in Seq(Seq(Symbols))
      BY <1>2, HeadOf DEF n
    <2>5. FlattenSeq(SubSeq(all, 1, k)) = FlattenSeq(SubSeq(all, 1, k - 1)) \o all[k]
      BY <2>2, <2>4, FlattenAppend
    <2> QED
      BY <1>10, <2>1, <2>3, <2>5
  <1> HIDE DEF Good
  <1>11. 0 .. n \subseteq P
    <2>1. 0 \in P
      <3>1. 0 \in 0 .. n
        BY <1>2
      <3> QED
        BY <1>9, <3>1
    <2>2. ASSUME NEW k \in 1 .. n, k - 1 \in P PROVE k \in P
      <3>1. k \in 0 .. n
        OBVIOUS
      <3> QED
        BY <1>10, <2>2, <3>1
    <2> HIDE DEF P
    <2> QED
      BY <1>2, <2>1, <2>2, UpTo
  <1>12. Good(n - 1) /\ n \in 1 .. n
    <2>1. n - 1 \in 0 .. n
      BY <1>2
    <2> QED
      BY <1>2, <1>11, <2>1
  <1>13. Good(n) /\ Len(c[n].text) < c[n].alloc
    BY <1>10, <1>12
  <1>14. SubSeq(all, 1, n) = all
    BY <1>2, SubSeqFull DEF n
  <1> QED
    BY <1>1, <1>3, <1>13, <1>14 DEF Good

(***************************************************************************)
(* What each style writes is a sequence of texts.                          *)
(***************************************************************************)
Says(w) == w.ok => w.writes \in Seq(Seq(Symbols))

(* The symbols that the writer adds, and texts made of symbols.             *)
LEMMA SymbolTexts ==
  /\ \A c \in Symbols : <<c>> \in Seq(Symbols)
  /\ {"0", "#", "\t", "\n", " ", "EOS", "BOS", "U", "B"} \subseteq Symbols
  /\ \A t \in Seq(STRING) : t \in Seq(Symbols)
  /\ \A S : \A a \in S : <<a>> \in Seq(S)
  /\ \A S : \A a, b \in S : <<a, b>> \in Seq(S)
  /\ \A S : \A a, b, c, d \in S : <<a, b, c, d>> \in Seq(S)
  /\ \A S : \A a, b, c, d, e \in S : <<a, b, c, d, e>> \in Seq(S)
  /\ \A S : \A a, b, c, d, e, f \in S : <<a, b, c, d, e, f>> \in Seq(S)
  /\ \A S : <<>> \in Seq(S)
  <1>1. {"0", "#", "\t", "\n", " ", "EOS", "BOS", "U", "B"} \subseteq Symbols
    BY Zenon DEF Symbols
  <1>2. \A S, T : S \subseteq T => \A t \in Seq(S) : t \in Seq(T)
    OBVIOUS
  <1>3. STRING \subseteq Symbols
    BY Zenon DEF Symbols
  <1>4. /\ \A S : \A a \in S : <<a>> \in Seq(S)
        /\ \A S : \A a, b \in S : <<a, b>> \in Seq(S)
        /\ \A S : <<>> \in Seq(S)
    OBVIOUS
  <1>5. \A S : \A a, b, c, d \in S : <<a, b, c, d>> \in Seq(S)
    OBVIOUS
  <1>6. \A S : \A a, b, c, d, e \in S : <<a, b, c, d, e>> \in Seq(S)
    OBVIOUS
  <1>7. \A S : \A a, b, c, d, e, f \in S : <<a, b, c, d, e, f>> \in Seq(S)
    OBVIOUS
  <1> QED
    BY <1>1, <1>2, <1>3, <1>4, <1>5, <1>6, <1>7, Zenon

(* Parts one after the other are texts if each of them is.                  *)
LEMMA PartsJoined ==
  ASSUME NEW n \in Nat, NEW f, DOMAIN f = 1 .. n, f = [i \in 1 .. n |-> f[i]],
         \A i \in 1 .. n : f[i] \in Seq(Seq(Symbols))
  PROVE  FlattenSeq(f) \in Seq(Seq(Symbols))
  <1> DEFINE X == Seq(Symbols)
  <1> HIDE DEF X
  <1>1. \A i \in 1 .. n : f[i] \in Seq(X)
    BY DEF X
  <1>2. f \in Seq(Seq(X))
    BY <1>1
  <1>3. <<>> \in Seq(X)
    OBVIOUS
  <1>4. FlattenSeq(f) \in Seq(X)
    BY <1>2, <1>3, FlattenAppend
  <1> QED
    BY <1>4 DEF X

(* The fields of what is written.                                           *)
LEMMA WrittenSays ==
  /\ \A ws : Written(ws).ok = TRUE /\ Written(ws).writes = ws
  /\ \A why : Failed(why).ok = FALSE
  /\ \A ws \in Seq(Seq(Symbols)) : Says(Written(ws))
  /\ \A why : Says(Failed(why))
  <1>1. \A y, ws, what : [ok |-> y, writes |-> ws, what |-> what].ok = y
                         /\ [ok |-> y, writes |-> ws, what |-> what].writes = ws
    OBVIOUS
  <1>2. \A ws : Written(ws).ok = TRUE /\ Written(ws).writes = ws
    BY <1>1, Zenon DEF Written
  <1>3. \A why : Failed(why).ok = FALSE
    BY <1>1, Zenon DEF Failed
  <1> QED
    BY <1>2, <1>3, Zenon DEF Says

(* A format says what its elements say, or what the first that fails does.  *)
LEMMA AllSay ==
  ASSUME NEW n \in Nat, NEW parts, DOMAIN parts = 1 .. n, \A i \in 1 .. n : Says(parts[i])
  PROVE  Says(AllOf(parts))
  <1> DEFINE failed == {i \in DOMAIN parts : ~parts[i].ok}
             ws == [i \in DOMAIN parts |-> parts[i].writes]
  <1>1. CASE failed = {}
    <2>1. AllOf(parts) = Written(FlattenSeq(ws))
      BY <1>1, Zenon DEF AllOf
    <2>2. AllOf(parts).writes = FlattenSeq(ws)
      BY <2>1, WrittenSays, Zenon
    <2>3. \A i \in 1 .. n : parts[i].ok
      BY <1>1
    <2>4. DOMAIN ws = 1 .. n /\ \A i \in 1 .. n : ws[i] \in Seq(Seq(Symbols))
      BY <2>3 DEF Says
    <2>5. ws = [i \in 1 .. n |-> ws[i]]
      BY <2>4
    <2> HIDE DEF ws
    <2> QED
      BY <2>2, <2>4, <2>5, PartsJoined DEF Says
  <1>2. CASE failed # {}
    <2> DEFINE j == CHOOSE i \in failed : \A k \in failed : i <= k
    <2>1. AllOf(parts) = parts[j]
      BY <1>2, Zenon DEF AllOf
    <2>2. failed \subseteq Nat
      OBVIOUS
    <2>3. j \in failed
      <3> HIDE DEF failed
      <3> QED
        BY <1>2, <2>2, Smallest
    <2>4. ~parts[j].ok
      BY <2>3
    <2> QED
      BY <2>1, <2>4 DEF Says
  <1> QED
    BY <1>1, <1>2

LEMMA AllInSay ==
  ASSUME NEW W, \A w \in W : Says(w), NEW parts \in Seq(W)
  PROVE  Says(AllOf(parts))
  <1>1. PICK n \in Nat : n = Len(parts)
    OBVIOUS
  <1>2. DOMAIN parts = 1 .. n /\ \A i \in 1 .. n : parts[i] \in W
    BY <1>1
  <1>3. \A i \in 1 .. n : Says(parts[i])
    BY <1>2
  <1> QED
    BY <1>2, <1>3, AllSay

(* A real number is a text of one write, or none (utils.h:47).               *)
LEMMA RealsSay ==
  ASSUME NEW real \in Reals
  PROVE  Says(real) /\ (real.ok => real.writes[1] \in Seq(Symbols)) /\ real.ok \in BOOLEAN
  <1>1. CASE real = Failed(Overrun)
    BY <1>1, WrittenSays
  <1>2. CASE \E t \in Leftovers : real = Written(<<t>>)
    <2>1. PICK t \in Leftovers : real = Written(<<t>>)
      BY <1>2
    <2>2. t \in Seq(Symbols)
      BY InputsAssumption, SymbolTexts
    <2>3. PICK ws : ws = <<t>>
      OBVIOUS
    <2>4. ws \in Seq(Seq(Symbols)) /\ ws[1] \in Seq(Symbols)
      BY <2>2, <2>3
    <2>5. real.writes = ws /\ real.ok = TRUE
      BY <2>1, <2>3, WrittenSays
    <2> QED
      BY <2>4, <2>5 DEF Says
  <1> QED
    BY <1>1, <1>2, Zenon DEF Reals

(* A node that can be written, and the elements of formats.                 *)
TextLinks == [feature : Seq(Symbols), likely : BOOLEAN]
Writable(n) ==
  /\ n.surface \in Seq(Symbols) /\ n.space \in Seq(Symbols) /\ n.feature \in Seq(Symbols)
  /\ n.paths \in Seq(TextLinks)
Stats == {"NOR", "UNK", "BOS", "EOS", "EON"}
Elementary(e) ==
  /\ e.is = "text" => e.text \in Symbols
  /\ e.is = "f" => e.columns \in Seq(Nat) /\ e.separator \in Symbols
  /\ e.is = "pp" => e.separator \in Symbols /\ e.real \in BOOLEAN
IsFormat(f) == (\E n \in Nat : DOMAIN f = 1 .. n) /\ \A i \in DOMAIN f : Elementary(f[i])

(* Columns are texts, or fail.                                              *)
LEMMA ColumnsSay ==
  ASSUME NEW columns \in Seq(Nat), NEW feature \in Seq(Symbols), NEW separator \in Symbols
  PROVE  Says(Columns(columns, feature, separator))
  <1> DEFINE Shown(i) == feature[columns[i] + 1] # "*"
             One(i) == IF ~Shown(i) THEN <<>>
                       ELSE IF i > 1 /\ Shown(i - 1) THEN << <<separator>>, <<feature[columns[i] + 1]>> >>
                       ELSE << <<feature[columns[i] + 1]>> >>
             f == [i \in DOMAIN columns |-> One(i)]
  <1>1. CASE feature = <<>> \/ \E i \in DOMAIN columns : columns[i] >= Len(feature)
    <2>1. \E why : Columns(columns, feature, separator) = Failed(why)
      BY <1>1, Zenon DEF Columns
    <2> QED
      BY <2>1, WrittenSays
  <1>2. CASE ~(feature = <<>> \/ \E i \in DOMAIN columns : columns[i] >= Len(feature))
    <2>1. Columns(columns, feature, separator) = Written(FlattenSeq(f))
      BY <1>2, Zenon DEF Columns
    <2>2. DOMAIN columns = 1 .. Len(columns) /\ Len(columns) \in Nat
      OBVIOUS
    <2>3. ASSUME NEW i \in 1 .. Len(columns) PROVE One(i) \in Seq(Seq(Symbols))
      <3>1. columns[i] \in Nat /\ columns[i] < Len(feature)
        BY <1>2, <2>2
      <3>2. feature[columns[i] + 1] \in Symbols
        BY <3>1
      <3>3. <<separator>> \in Seq(Symbols) /\ <<feature[columns[i] + 1]>> \in Seq(Symbols)
        BY <3>2, SymbolTexts, Zenon
      <3>4. PICK a, b : a = <<separator>> /\ b = <<feature[columns[i] + 1]>>
        OBVIOUS
      <3>5. <<>> \in Seq(Seq(Symbols)) /\ <<a, b>> \in Seq(Seq(Symbols)) /\ <<b>> \in Seq(Seq(Symbols))
        BY <3>3, <3>4
      <3>6. One(i) \in {<<>>, <<a, b>>, <<b>>}
        BY <3>4, Zenon
      <3> HIDE DEF One
      <3> QED
        BY <3>5, <3>6
    <2> HIDE DEF One
    <2>4. DOMAIN f = 1 .. Len(columns) /\ f = [i \in 1 .. Len(columns) |-> f[i]]
          /\ \A i \in 1 .. Len(columns) : f[i] \in Seq(Seq(Symbols))
      BY <2>2, <2>3
    <2> HIDE DEF f
    <2>5. FlattenSeq(f) \in Seq(Seq(Symbols))
      BY <2>2, <2>4, PartsJoined
    <2> QED
      BY <2>1, <2>5, WrittenSays
  <1> QED
    BY <1>1, <1>2

(* So are the elements of formats.                                          *)
LEMMA ElementSays ==
  ASSUME NEW e, Elementary(e), NEW node, Writable(node), NEW s \in Seq(Symbols), NEW real \in Reals
  PROVE  Says(Element(e, node, s, real))
  <1> DEFINE w == Element(e, node, s, real)
  <1>0. \A t \in Seq(Symbols) : Says(Written(<<t>>))
    BY WrittenSays, SymbolTexts, Zenon
  <1>1. CASE e.is = "text"
    <2>1. w = Written(<< <<e.text>> >>)
      BY <1>1 DEF Element
    <2>2. <<e.text>> \in Seq(Symbols)
      BY <1>1, SymbolTexts, Zenon DEF Elementary
    <2> QED
      BY <1>0, <2>1, <2>2, Zenon
  <1>2. CASE e.is = "S"
    <2>1. w = Written(<<s>>)
      BY <1>2 DEF Element
    <2> QED
      BY <1>0, <2>1, Zenon
  <1>3. CASE e.is = "m"
    <2>1. w = Written(<<node.surface>>)
      BY <1>3 DEF Element
    <2> QED
      BY <1>0, <2>1, Zenon DEF Writable
  <1>4. CASE e.is = "M"
    <2>1. w = Written(<<node.space \o node.surface>>)
      BY <1>4 DEF Element
    <2>2. node.space \o node.surface \in Seq(Symbols)
      <3>1. PICK a, b : a = node.space /\ b = node.surface
        OBVIOUS
      <3>2. a \o b \in Seq(Symbols)
        BY <3>1, ConcatProperties DEF Writable
      <3> QED
        BY <3>1, <3>2
    <2> QED
      BY <1>0, <2>1, <2>2, Zenon
  <1>5. CASE e.is = "pS"
    <2>1. w = Written(<<node.space>>)
      BY <1>5 DEF Element
    <2> QED
      BY <1>0, <2>1, Zenon DEF Writable
  <1>6. CASE e.is = "H"
    <2>1. w = Written(<<node.feature>>)
      BY <1>6 DEF Element
    <2> QED
      BY <1>0, <2>1, Zenon DEF Writable
  <1>7. CASE e.is = "f"
    <2>1. w = Columns(e.columns, node.feature, e.separator)
      BY <1>7 DEF Element
    <2>2. e.columns \in Seq(Nat) /\ e.separator \in Symbols /\ node.feature \in Seq(Symbols)
      BY <1>7, Zenon DEF Elementary, Writable
    <2> QED
      BY <2>1, <2>2, ColumnsSay
  <1>8. CASE e.is = "pp"
    <2> DEFINE n == 2 * Len(node.paths) - 1
               f == [i \in 1 .. n |-> IF i % 2 = 0 THEN <<e.separator>>
                                      ELSE IF e.real THEN real.writes[1] ELSE <<"#">>]
    <2>1. w = IF node.paths = <<>> THEN Failed("no path information is available")
              ELSE IF e.real /\ ~real.ok THEN real ELSE Written(f)
      BY <1>8 DEF Element
    <2>2. <<"#">> \in Seq(Symbols) /\ <<e.separator>> \in Seq(Symbols)
      BY <1>8, SymbolTexts, Zenon DEF Elementary
    <2>3. ASSUME node.paths # <<>>, ~(e.real /\ ~real.ok) PROVE f \in Seq(Seq(Symbols))
      <3>1. n \in Nat
        BY <2>3 DEF Writable
      <3> DEFINE g(i) == IF i % 2 = 0 THEN <<e.separator>> ELSE IF e.real THEN real.writes[1] ELSE <<"#">>
      <3>2. e.real \in BOOLEAN
        BY <1>8 DEF Elementary
      <3>3. e.real => real.writes[1] \in Seq(Symbols)
        BY <2>3, RealsSay, Zenon
      <3>4. \A i \in 1 .. n : g(i) \in Seq(Symbols)
        BY <2>2, <3>3, Zenon
      <3> HIDE DEF n, g
      <3>5. [i \in 1 .. n |-> g(i)] \in Seq(Seq(Symbols))
        BY <3>1, <3>4
      <3> QED
        BY <3>5 DEF g
    <2> HIDE DEF f
    <2> QED
      BY <2>1, <2>3, WrittenSays, RealsSay, Zenon
  <1>9. CASE e.is = "number"
    <2>1. w = Number
      BY <1>9 DEF Element
    <2>2. <<"#">> \in Seq(Symbols)
      BY SymbolTexts, Zenon
    <2> QED
      BY <1>0, <2>1, <2>2, Zenon DEF Number
  <1>10. CASE e.is = "real"
    <2>1. w = real
      BY <1>10 DEF Element
    <2> QED
      BY <2>1, RealsSay, Zenon
  <1>11. CASE e.is \notin {"text", "S", "m", "M", "pS", "H", "f", "pp", "number", "real"}
    <2>1. w = Failed("unknown meta char")
      BY <1>11 DEF Element
    <2> QED
      BY <2>1, WrittenSays, Zenon
  <1> QED
    BY <1>1, <1>2, <1>3, <1>4, <1>5, <1>6, <1>7, <1>8, <1>9, <1>10, <1>11

(* A node in the format of its stat.                                        *)
LEMMA NodeSays ==
  ASSUME NEW w, \A x \in Stats : IsFormat(w.formats[x]), NEW node, Writable(node), node.stat \in Stats,
         NEW s \in Seq(Symbols), NEW real \in Reals
  PROVE  Says(WriteNode(w, node, s, real))
  <1> DEFINE format == w.formats[node.stat]
             parts == [i \in DOMAIN format |-> Element(format[i], node, s, real)]
  <1>1. WriteNode(w, node, s, real) = AllOf(parts)
    BY Zenon DEF WriteNode
  <1>2. IsFormat(format)
    OBVIOUS
  <1> HIDE DEF format
  <1>3. PICK n \in Nat : DOMAIN format = 1 .. n
    BY <1>2 DEF IsFormat
  <1>4. \A i \in 1 .. n : Says(Element(format[i], node, s, real))
    BY <1>2, <1>3, ElementSays, Zenon DEF IsFormat
  <1>5. DOMAIN parts = 1 .. n /\ \A i \in 1 .. n : Says(parts[i])
    <2>1. DOMAIN parts = 1 .. n /\ \A i \in 1 .. n : parts[i] = Element(format[i], node, s, real)
      BY <1>3
    <2> HIDE DEF parts
    <2> QED
      BY <1>4, <2>1, Zenon
  <1> HIDE DEF parts
  <1> QED
    BY <1>1, <1>3, <1>5, AllSay

(* Every node of a path can be written.                                     *)
LEMMA AnyWritable ==
  ASSUME NEW n \in AnyNode PROVE Writable(n) /\ n.stat \in Stats
  <1>1. CASE n \in Nodes
    <2>1. n.surface \in Seq(STRING) /\ n.space \in Seq(STRING) /\ n.feature \in Seq(STRING)
          /\ n.paths \in Seq(Links) /\ n.stat \in {"NOR", "UNK", "BOS", "EOS"}
      BY <1>1 DEF Nodes
    <2>2. Links \subseteq TextLinks
      <3>1. \A t \in Seq(STRING) : t \in Seq(Symbols)
        BY SymbolTexts
      <3> QED
        BY <3>1 DEF Links, TextLinks
    <2>3. \A S, T : S \subseteq T => \A t \in Seq(S) : t \in Seq(T)
      OBVIOUS
    <2>4. n.paths \in Seq(TextLinks)
      BY <2>1, <2>2, <2>3, Zenon
    <2> QED
      BY <2>1, <2>4, SymbolTexts, Zenon DEF Writable, Stats
  <1>2. CASE n \in {BosNode, EosNode}
    <2>1. \A st, fe, y :
            LET m == [stat |-> st, surface |-> <<>>, space |-> <<>>, feature |-> fe, paths |-> <<>>, likely |-> y]
            IN  /\ m.surface = <<>> /\ m.space = <<>> /\ m.feature = fe /\ m.paths = <<>>
                /\ [m EXCEPT !.stat = "EOS"].surface = <<>> /\ [m EXCEPT !.stat = "EOS"].space = <<>>
                /\ [m EXCEPT !.stat = "EOS"].feature = fe /\ [m EXCEPT !.stat = "EOS"].paths = <<>>
      OBVIOUS
    <2>2. n.surface = <<>> /\ n.space = <<>> /\ n.feature = <<"B">> /\ n.paths = <<>>
      <3>1. CASE n = BosNode
        BY <2>1, <3>1, Zenon DEF BosNode
      <3>2. CASE n = EosNode
        BY <2>1, <3>2, Zenon DEF BosNode, EosNode
      <3> QED
        BY <1>2, <3>1, <3>2
    <2>3. <<>> \in Seq(Symbols) /\ <<"B">> \in Seq(Symbols)
      BY SymbolTexts, Zenon
    <2>4. Writable(n)
      <3>1. <<>> \in Seq(TextLinks)
        OBVIOUS
      <3> QED
        BY <2>2, <2>3, <3>1, Zenon DEF Writable
    <2>5. n.stat \in Stats
      BY <1>2, NodesMade, Zenon DEF Stats
    <2> QED
      BY <2>4, <2>5
  <1> QED
    BY <1>1, <1>2 DEF AnyNode

(* The nodes with another stat.                                             *)
LEMMA Renamed ==
  ASSUME NEW n \in AnyNode, NEW stat \in Stats
  PROVE  LET m == [n EXCEPT !.stat = stat] IN Writable(m) /\ m.stat = stat
  <1> DEFINE N(st, su, sp, fe, pa, li) ==
               [stat |-> st, surface |-> su, space |-> sp, feature |-> fe, paths |-> pa, likely |-> li]
  <1>1. \A st, su, sp, fe, pa, li :
          /\ [N(st, su, sp, fe, pa, li) EXCEPT !.stat = stat] = N(stat, su, sp, fe, pa, li)
          /\ N(st, su, sp, fe, pa, li).stat = st /\ N(st, su, sp, fe, pa, li).surface = su
          /\ N(st, su, sp, fe, pa, li).space = sp /\ N(st, su, sp, fe, pa, li).feature = fe
          /\ N(st, su, sp, fe, pa, li).paths = pa
    OBVIOUS
  <1>2. \E st, su, sp, fe, pa, li : n = N(st, su, sp, fe, pa, li)
    <2>1. CASE n \in Nodes
      <3>1. n = N(n.stat, n.surface, n.space, n.feature, n.paths, n.likely)
        BY <2>1 DEF Nodes
      <3> QED
        BY <3>1
    <2>2. CASE n = BosNode
      BY <2>2, Zenon DEF BosNode
    <2>3. CASE n = EosNode
      <3>1. \A b, y : [N("BOS", <<>>, <<>>, b, <<>>, y) EXCEPT !.stat = "EOS"] = N("EOS", <<>>, <<>>, b, <<>>, y)
        OBVIOUS
      <3>2. EosNode = [N("BOS", <<>>, <<>>, <<"B">>, <<>>, FALSE) EXCEPT !.stat = "EOS"]
        BY Zenon DEF EosNode, BosNode
      <3> HIDE DEF N
      <3>3. EosNode = N("EOS", <<>>, <<>>, <<"B">>, <<>>, FALSE)
        BY <3>1, <3>2, Zenon
      <3> QED
        BY <2>3, <3>3, Zenon
    <2> QED
      BY <2>1, <2>2, <2>3 DEF AnyNode
  <1> HIDE DEF N
  <1>3. PICK st, su, sp, fe, pa, li : n = N(st, su, sp, fe, pa, li)
    BY <1>2
  <1>4. PICK m : m = [n EXCEPT !.stat = stat]
    OBVIOUS
  <1>5. m = N(stat, su, sp, fe, pa, li)
    BY <1>1, <1>3, <1>4
  <1>6. Writable(n)
    BY AnyWritable
  <1>7. m.stat = stat /\ m.surface = n.surface /\ m.space = n.space /\ m.feature = n.feature
        /\ m.paths = n.paths
    BY <1>1, <1>3, <1>5
  <1>8. Writable(m)
    BY <1>6, <1>7 DEF Writable
  <1> QED
    BY <1>4, <1>7, <1>8

(* What two of the styles write of a node.                                   *)
LEMMA NodeTexts ==
  ASSUME NEW n \in AnyNode, NEW real \in Reals
  PROVE  Says(EMOf(n, real)) /\ Says(DumpOf(n, real))
  <1>1. Writable(n) /\ n.stat \in Stats
    BY AnyWritable
  <1>2. \A c \in {"#", "\n", "U", "B"} : <<c>> \in Seq(Symbols)
    BY SymbolTexts, Zenon
  <1>3. PICK name : name = Name(n)
    OBVIOUS
  <1>4. name \in Seq(Symbols)
    <2>1. <<"BOS">> \in Seq(Symbols) /\ <<"EOS">> \in Seq(Symbols)
      BY SymbolTexts, Zenon
    <2>2. CASE n.stat \in {"BOS", "EOS"}
      <3>1. name = <<n.stat>>
        BY <1>3, <2>2 DEF Name
      <3> QED
        BY <2>1, <2>2, <3>1
    <2>3. CASE n.stat \notin {"BOS", "EOS"}
      <3>1. name = n.surface
        BY <1>3, <2>3 DEF Name
      <3> QED
        BY <1>1, <3>1 DEF Writable
    <2> QED
      BY <2>2, <2>3
  <1>5. n.feature \in Seq(Symbols) /\ n.paths \in Seq(TextLinks)
    BY <1>1 DEF Writable
  <1>6. Says(real) /\ Says(Number) /\ Says(Written(<< <<"\n">> >>)) /\ Says(Written(<<>>))
    <2>1. \A t \in Seq(Symbols) : <<t>> \in Seq(Seq(Symbols))
      BY SymbolTexts, Zenon
    <2>2. << <<"#">> >> \in Seq(Seq(Symbols)) /\ << <<"\n">> >> \in Seq(Seq(Symbols))
      BY <1>2, <2>1, Zenon
    <2>3. <<>> \in Seq(Seq(Symbols))
      BY SymbolTexts, Zenon
    <2> QED
      BY <2>2, <2>3, WrittenSays, RealsSay, Zenon DEF Number
  <1>7. Says(DumpOf(n, real))
    <2>1. PICK a, b, c : a = Written(<< Name(n), n.feature >>) /\ b = Written(<< <<"\n">> >>) /\ c = Number
      OBVIOUS
    <2>2. Says(a) /\ Says(b) /\ Says(c)
      <3>1. << name, n.feature >> \in Seq(Seq(Symbols))
        BY <1>4, <1>5, SymbolTexts, Zenon
      <3> QED
        BY <1>3, <1>6, <2>1, <3>1, WrittenSays, Zenon
    <2> DEFINE W == {a, b, c, real}
               k == 2 * Len(n.paths)
               links == [i \in 1 .. k |-> IF i % 2 = 1 THEN c ELSE real]
    <2>3. DumpOf(n, real) = AllOf(<<c, a, c, real, real, real, c>> \o links \o <<b>>)
      BY <2>1, Zenon DEF DumpOf
    <2>4. links \in Seq(W)
      <3>1. k \in Nat
        BY <1>5
      <3> HIDE DEF k
      <3> QED
        BY <3>1
    <2>5. <<c, a, c, real, real, real, c>> \in Seq(W) /\ <<b>> \in Seq(W)
      OBVIOUS
    <2>6. \A w \in W : Says(w)
      BY <1>6, <2>2
    <2> HIDE DEF W, links
    <2>7. PICK x : x = <<c, a, c, real, real, real, c>>
      OBVIOUS
    <2>8. x \o links \o <<b>> \in Seq(W)
      BY <2>4, <2>5, <2>7, ConcatProperties
    <2> QED
      BY <2>3, <2>6, <2>7, <2>8, AllInSay
  <1>8. ASSUME NEW kind \in {"U", "B"}, NEW x \in Seq(Symbols)
        PROVE  Says(ProbLine(kind, x, n.feature, real))
    <2>1. PICK a, b : a = Written(<< <<kind>>, x, n.feature >>) /\ b = Written(<< <<"\n">> >>)
      OBVIOUS
    <2>2. Says(a) /\ Says(b)
      <3>1. \A S : \A u, v, t \in S : <<u, v, t>> \in Seq(S)
        OBVIOUS
      <3>2. <<kind>> \in Seq(Symbols)
        BY <1>2, <1>8, Zenon
      <3>3. << <<kind>>, x, n.feature >> \in Seq(Seq(Symbols))
        BY <1>5, <1>8, <3>1, <3>2, Zenon
      <3> QED
        BY <1>6, <2>1, <3>3, WrittenSays, Zenon
    <2>3. ProbLine(kind, x, n.feature, real) = AllOf(<<a, real, b>>)
      BY <2>1, Zenon DEF ProbLine
    <2>4. <<a, real, b>> \in Seq({a, real, b})
      OBVIOUS
    <2>5. \A w \in {a, real, b} : Says(w)
      BY <1>6, <2>2
    <2> QED
      BY <2>3, <2>4, <2>5, AllInSay
  <1>9. Says(EMOf(n, real))
    <2> DEFINE Link(l) == IF l.likely THEN ProbLine("B", l.feature, n.feature, real) ELSE Written(<<>>)
               own == IF n.likely THEN ProbLine("U", Name(n), n.feature, real) ELSE Written(<<>>)
               links == [i \in DOMAIN n.paths |-> Link(n.paths[i])]
               W == {own} \cup {Link(n.paths[i]) : i \in DOMAIN n.paths}
    <2>1. EMOf(n, real) = AllOf(<<own>> \o links)
      BY Zenon DEF EMOf
    <2>2. Says(own)
      BY <1>3, <1>4, <1>6, <1>8, Zenon
    <2>3. ASSUME NEW i \in DOMAIN n.paths PROVE Says(Link(n.paths[i]))
      <3>1. n.paths[i] \in TextLinks
        BY <1>5
      <3>2. n.paths[i].feature \in Seq(Symbols)
        BY <3>1 DEF TextLinks
      <3> QED
        BY <1>6, <1>8, <3>2, Zenon
    <2> HIDE DEF Link, own
    <2>4. \A w \in W : Says(w)
      BY <2>2, <2>3
    <2>5. links \in Seq(W) /\ <<own>> \in Seq(W)
      <3>1. PICK k \in Nat : DOMAIN n.paths = 1 .. k
        BY <1>5
      <3>2. links = [i \in 1 .. k |-> Link(n.paths[i])] /\ \A i \in 1 .. k : Link(n.paths[i]) \in W
        BY <3>1
      <3>3. own \in W
        OBVIOUS
      <3> HIDE DEF links, W
      <3> QED
        BY <3>2, <3>3
    <2> HIDE DEF W, links
    <2>6. PICK x : x = <<own>>
      OBVIOUS
    <2>7. x \o links \in Seq(W)
      BY <2>5, <2>6, ConcatProperties
    <2> QED
      BY <2>1, <2>4, <2>6, <2>7, AllInSay
  <1> QED
    BY <1>7, <1>9

(* All of a path, node by node.                                             *)
LEMMA EachWritten ==
  ASSUME NEW p \in Seq(AnyNode), NEW f, DOMAIN f = DOMAIN p, f = [i \in DOMAIN p |-> f[i]],
         \A i \in DOMAIN p : f[i] \in Seq(Seq(Symbols))
  PROVE  FlattenSeq(f) \in Seq(Seq(Symbols))
  <1>1. DOMAIN p = 1 .. Len(p) /\ Len(p) \in Nat
    OBVIOUS
  <1> QED
    BY <1>1, PartsJoined

(* A style that writes what it has, or that has formats.                     *)
Formatted(w) == \A x \in Stats : IsFormat(w.formats[x])
Styled(w) == w.write \in {"lattice", "wakati", "none", "em", "dump"} \/ Formatted(w)

(* What a lattice writes, BOS and EOS there, are texts.                      *)
LEMMA WriteSays ==
  ASSUME NEW w, Styled(w), NEW p \in Seq(AnyNode), NEW s \in Seq(Symbols),
         Len(p) >= 2 \/ w.write \in {"none", "em", "dump"}, NEW real \in Reals
  PROVE  Says(Write(w, p, s, real))
  <1> DEFINE words == SubSeq(p, 2, Len(p) - 1)
             As(i) == IF i = 1 THEN "BOS" ELSE IF i = Len(p) THEN "EOS" ELSE p[i].stat
  <1>0. DOMAIN p = 1 .. Len(p) /\ Len(p) \in Nat
    OBVIOUS
  <1>1. ASSUME Len(p) >= 2
        PROVE  words \in Seq(AnyNode)
    <2>1. 2 \in 1 .. Len(p) + 1 /\ Len(p) - 1 \in 2 - 1 .. Len(p)
      BY <1>0, <1>1
    <2> QED
      BY <2>1, SubSeqProperties
  <1>2. CASE w.write = "lattice"
    <2> DEFINE f == [i \in DOMAIN words |-> << words[i].surface, <<"\t">>, words[i].feature, <<"\n">> >>]
    <2>1. Write(w, p, s, real) = Written(FlattenSeq(f) \o << <<"EOS", "\n">> >>)
      BY <1>2 DEF Write
    <2>2. words \in Seq(AnyNode)
      BY <1>1, <1>2
    <2> HIDE DEF words
    <2>3. <<"\t">> \in Seq(Symbols) /\ <<"\n">> \in Seq(Symbols)
      BY SymbolTexts, Zenon
    <2>4. ASSUME NEW i \in DOMAIN words
          PROVE  << words[i].surface, <<"\t">>, words[i].feature, <<"\n">> >> \in Seq(Seq(Symbols))
      <3>1. words[i] \in AnyNode
        BY <2>2
      <3>2. words[i].surface \in Seq(Symbols) /\ words[i].feature \in Seq(Symbols)
        BY <3>1, AnyWritable, Zenon DEF Writable
      <3> QED
        BY <2>3, <3>2, SymbolTexts, Zenon
    <2>5. FlattenSeq(f) \in Seq(Seq(Symbols))
      <3>1. DOMAIN f = DOMAIN words /\ f = [i \in DOMAIN words |-> f[i]]
            /\ \A i \in DOMAIN words : f[i] \in Seq(Seq(Symbols))
        BY <2>4, Zenon
      <3> HIDE DEF f
      <3> QED
        BY <2>2, <3>1, EachWritten
    <2>6. << <<"EOS", "\n">> >> \in Seq(Seq(Symbols))
      <3>1. "EOS" \in Symbols /\ "\n" \in Symbols
        BY SymbolTexts, Zenon
      <3>2. <<"EOS", "\n">> \in Seq(Symbols)
        BY <3>1, SymbolTexts, Zenon
      <3> QED
        BY <3>2, SymbolTexts, Zenon
    <2> HIDE DEF f
    <2>7. FlattenSeq(f) \o << <<"EOS", "\n">> >> \in Seq(Seq(Symbols))
      BY <2>5, <2>6, ConcatProperties
    <2> QED
      BY <2>1, <2>7, WrittenSays, Zenon
  <1>3. CASE w.write = "wakati"
    <2> DEFINE f == [i \in DOMAIN words |-> << words[i].surface, <<" ">> >>]
    <2>1. Write(w, p, s, real) = Written(Append(FlattenSeq(f), <<"\n">>))
      BY <1>3 DEF Write
    <2>2. words \in Seq(AnyNode)
      BY <1>1, <1>3
    <2> HIDE DEF words
    <2>3. <<" ">> \in Seq(Symbols) /\ <<"\n">> \in Seq(Symbols)
      BY SymbolTexts, Zenon
    <2>4. ASSUME NEW i \in DOMAIN words
          PROVE  << words[i].surface, <<" ">> >> \in Seq(Seq(Symbols))
      <3>1. words[i] \in AnyNode
        BY <2>2
      <3>2. words[i].surface \in Seq(Symbols)
        BY <3>1, AnyWritable, Zenon DEF Writable
      <3> QED
        BY <2>3, <3>2, SymbolTexts, Zenon
    <2>5. FlattenSeq(f) \in Seq(Seq(Symbols))
      <3>1. DOMAIN f = DOMAIN words /\ f = [i \in DOMAIN words |-> f[i]]
            /\ \A i \in DOMAIN words : f[i] \in Seq(Seq(Symbols))
        BY <2>4, Zenon
      <3> HIDE DEF f
      <3> QED
        BY <2>2, <3>1, EachWritten
    <2> HIDE DEF f
    <2>6. Append(FlattenSeq(f), <<"\n">>) \in Seq(Seq(Symbols))
      BY <2>3, <2>5, AppendProperties
    <2> QED
      BY <2>1, <2>6, WrittenSays, Zenon
  <1>4. CASE w.write = "none"
    <2>1. Write(w, p, s, real) = Written(<<>>)
      BY <1>4 DEF Write
    <2> QED
      BY <2>1, WrittenSays, SymbolTexts, Zenon
  <1>5. CASE w.write = "em"
    <2>1. PICK eos : eos = Written(<< <<"EOS", "\n">> >>)
      OBVIOUS
    <2>2. Says(eos)
      <3>1. "EOS" \in Symbols /\ "\n" \in Symbols
        BY SymbolTexts, Zenon
      <3>2. <<"EOS", "\n">> \in Seq(Symbols)
        BY <3>1, SymbolTexts, Zenon
      <3>3. << <<"EOS", "\n">> >> \in Seq(Seq(Symbols))
        BY <3>2, SymbolTexts, Zenon
      <3> QED
        BY <2>1, <3>3, WrittenSays, Zenon
    <2> DEFINE f == [i \in DOMAIN p |-> EMOf(p[i], real)]
               W == {EMOf(p[i], real) : i \in DOMAIN p} \cup {eos}
    <2>3. Write(w, p, s, real) = AllOf(Append(f, eos))
      BY <1>5, <2>1 DEF Write
    <2>4. \A i \in DOMAIN p : p[i] \in AnyNode
      OBVIOUS
    <2>5. \A x \in W : Says(x)
      BY <2>2, <2>4, NodeTexts, Zenon
    <2>6. f \in Seq(W) /\ eos \in W
      <3>1. f = [i \in 1 .. Len(p) |-> f[i]] /\ \A i \in 1 .. Len(p) : f[i] \in W
        BY <1>0
      <3> HIDE DEF f, W
      <3>2. f \in Seq(W)
        BY <1>0, <3>1
      <3> QED
        BY <3>2 DEF W
    <2> HIDE DEF f, W
    <2>7. Append(f, eos) \in Seq(W)
      BY <2>6
    <2> QED
      BY <2>3, <2>5, <2>7, AllInSay
  <1>6. CASE w.write = "dump"
    <2> DEFINE f == [i \in DOMAIN p |-> DumpOf(p[i], real)]
    <2>1. Write(w, p, s, real) = AllOf(f)
      BY <1>6 DEF Write
    <2>2. \A i \in DOMAIN p : p[i] \in AnyNode
      OBVIOUS
    <2>3. DOMAIN f = 1 .. Len(p) /\ \A i \in 1 .. Len(p) : f[i] = DumpOf(p[i], real)
      BY <1>0
    <2> HIDE DEF f
    <2>4. \A i \in 1 .. Len(p) : Says(f[i])
      BY <1>0, <2>2, <2>3, NodeTexts, Zenon
    <2> QED
      BY <1>0, <2>1, <2>3, <2>4, AllSay
  <1>7. CASE w.write \notin {"lattice", "wakati", "none", "em", "dump"}
    <2> DEFINE n(i) == [p[i] EXCEPT !.stat = As(i)]
               parts == [i \in DOMAIN p |-> WriteNode(w, n(i), s, real)]
    <2>1. Write(w, p, s, real) = AllOf(parts)
      BY <1>7 DEF Write
    <2>2. ASSUME NEW i \in DOMAIN p PROVE Says(WriteNode(w, n(i), s, real))
      <3>1. p[i] \in AnyNode /\ Writable(p[i]) /\ p[i].stat \in Stats
        BY AnyWritable
      <3>2. Writable(n(i)) /\ n(i).stat \in Stats
        <4>1. As(i) \in Stats
          BY <3>1 DEF Stats
        <4> HIDE DEF As
        <4> QED
          BY <3>1, <4>1, Renamed
      <3> HIDE DEF n
      <3> QED
        BY <1>7, <3>2, NodeSays DEF Styled, Formatted
    <2> HIDE DEF n
    <2>3. DOMAIN parts = 1 .. Len(p) /\ \A i \in 1 .. Len(p) : Says(parts[i])
      <3>1. DOMAIN parts = 1 .. Len(p) /\ \A i \in 1 .. Len(p) : parts[i] = WriteNode(w, n(i), s, real)
        BY <1>0
      <3> HIDE DEF parts
      <3> QED
        BY <1>0, <2>2, <3>1
    <2> HIDE DEF parts
    <2> QED
      BY <1>0, <2>1, <2>3, AllSay
  <1> QED
    BY <1>2, <1>3, <1>4, <1>5, <1>6, <1>7

(***************************************************************************)
(* toString stays inside its buffer: every call writes texts.              *)
(***************************************************************************)
Fitted == answer.is = "text" /\ answer.own => Len(answer.text) < buffer
BosInPath == end_nodes # <<>> => end_nodes[0] \in 0 .. Len(path)
Opened == writer = None \/ Formatted(writer)
WInv ==
  /\ Opened /\ text \in Seq(STRING) /\ buffer \in Nat /\ Fitted /\ BosInPath
  /\ calls \in 0 .. MaxCalls /\ sentence.in \in {"none", "caller", "memory"}

(* What a format may hold can be written.                                   *)
LEMMA GivenFormat ==
  ASSUME NEW f \in Seq(Elements) PROVE IsFormat(f)
  <1>1. ASSUME NEW e \in Elements PROVE Elementary(e)
    <2>1. \A t \in STRING : t \in Symbols
      BY Zenon DEF Symbols
    <2>2. CASE e \in [is : {"text"}, text : STRING]
      BY <2>1, <2>2 DEF Elementary
    <2>3. CASE e \in [is : {"f"}, columns : Seq(Nat), separator : STRING]
      BY <2>1, <2>3 DEF Elementary
    <2>4. CASE e \in [is : {"pp"}, separator : STRING, real : BOOLEAN]
      BY <2>1, <2>4 DEF Elementary
    <2>5. CASE e \in [is : STRING \ {"text", "f", "pp"}]
      BY <2>5 DEF Elementary
    <2> QED
      BY <2>2, <2>3, <2>4, <2>5 DEF Elements
  <1>2. DOMAIN f = 1 .. Len(f) /\ Len(f) \in Nat /\ \A i \in DOMAIN f : f[i] \in Elements
    OBVIOUS
  <1> QED
    BY <1>1, <1>2 DEF IsFormat

(* The format that is used when none is given.                              *)
LEMMA DefaultFormats == IsFormat(NodeDefault) /\ IsFormat(<<>>)
  <1>1. IsFormat(<<>>)
    <2>1. DOMAIN <<>> = 1 .. 0
      OBVIOUS
    <2> QED
      BY <2>1 DEF IsFormat
  <1>2. \A a, b, c, d : LET f == <<a, b, c, d>>
                        IN DOMAIN f = 1 .. 4 /\ f[1] = a /\ f[2] = b /\ f[3] = c /\ f[4] = d
    OBVIOUS
  <1>3. \A i \in 1 .. 4 : i = 1 \/ i = 2 \/ i = 3 \/ i = 4
    OBVIOUS
  <1>4. \A m \in {"m", "H"} : Elementary(Macro(m))
    BY DEF Elementary, Macro
  <1>5. \A t \in Symbols : Elementary(Text(t))
    BY DEF Elementary, Text
  <1>6. Elementary(Macro("m")) /\ Elementary(Macro("H")) /\ Elementary(Text("\t")) /\ Elementary(Text("\n"))
    BY <1>4, <1>5, SymbolTexts, Zenon
  <1>7. PICK a, b, c, d : a = Macro("m") /\ b = Text("\t") /\ c = Macro("H") /\ d = Text("\n")
    OBVIOUS
  <1>8. PICK f : f = <<a, b, c, d>>
    OBVIOUS
  <1>9. IsFormat(f)
    <2>1. DOMAIN f = 1 .. 4 /\ f[1] = a /\ f[2] = b /\ f[3] = c /\ f[4] = d
      BY <1>2, <1>8
    <2>2. Elementary(a) /\ Elementary(b) /\ Elementary(c) /\ Elementary(d)
      BY <1>6, <1>7, Zenon
    <2>3. \A i \in 1 .. 4 : Elementary(f[i])
      BY <1>3, <2>1, <2>2
    <2> QED
      BY <2>1, <2>3 DEF IsFormat
  <1>10. NodeDefault = f
    BY <1>7, <1>8, Zenon DEF NodeDefault
  <1> QED
    BY <1>1, <1>9, <1>10, Zenon

(* Writer::open gives every stat a format.                                  *)
LEMMA WriterOpened ==
  ASSUME NEW c \in Confs, OpenWriter(c) # Refused
  PROVE  Formatted(OpenWriter(c).conf)
  <1> DEFINE Format(name, style) == Get(c, <<name, style>>, <<>>)
             style == IF Format("node-format", "") = <<>> THEN Get(c, <<"output-format-type", "">>, "") ELSE ""
             node == Format("node-format", style)
             unk == Format("unk-format", style)
             nodes_as == IF node = <<>> THEN NodeDefault ELSE node
             unks_as == IF unk \in {<<>>, NodeDefault} THEN nodes_as ELSE unk
             bos == Format("bos-format", style)
             eos == Format("eos-format", style)
             eon == Format("eon-format", style)
             formats == [NOR |-> nodes_as, UNK |-> unks_as, BOS |-> bos, EOS |-> eos, EON |-> eon]
             none == [s \in {"NOR", "UNK", "BOS", "EOS", "EON"} |-> <<>>]
             W(write, fs) == [write |-> write, formats |-> fs]
  <1>1. ASSUME NEW name \in {"node-format", "unk-format", "bos-format", "eos-format", "eon-format"}, NEW s
        PROVE  IsFormat(Format(name, s))
    <2>1. PICK k : k = <<name, s>>
      OBVIOUS
    <2>2. k[1] # "output-format-type"
      BY <2>1
    <2>3. CASE k \in DOMAIN c
      <3>1. c[k] \in Seq(Elements)
        BY <2>2, <2>3, ConfsAssumption
      <3>2. Format(name, s) = c[k]
        BY <2>1, <2>3 DEF Get
      <3> QED
        BY <3>1, <3>2, GivenFormat
    <2>4. CASE k \notin DOMAIN c
      BY <2>1, <2>4, DefaultFormats DEF Get
    <2> QED
      BY <2>3, <2>4
  <1>2. /\ IsFormat(node) /\ IsFormat(unk) /\ IsFormat(bos) /\ IsFormat(eos) /\ IsFormat(eon)
    BY <1>1
  <1>3. \E w, fs : OpenWriter(c).conf = W(w, fs) /\ (fs = none \/ fs = formats)
    <2>1. \E w, fs : OpenWriter(c) = Conf(W(w, fs), <<>>) /\ (fs = none \/ fs = formats)
      BY Zenon DEF OpenWriter
    <2>2. \A x, y : Conf(x, y).conf = x
      BY DEF Conf
    <2>3. PICK w, fs : OpenWriter(c) = Conf(W(w, fs), <<>>) /\ (fs = none \/ fs = formats)
      BY <2>1
    <2> HIDE DEF W, none, formats
    <2>4. OpenWriter(c).conf = W(w, fs)
      BY <2>2, <2>3
    <2> QED
      BY <2>3, <2>4
  <1> HIDE DEF node, unk, bos, eos, eon, Format, style
  <1>4. IsFormat(nodes_as) /\ IsFormat(unks_as)
    BY <1>2, DefaultFormats
  <1> HIDE DEF nodes_as, unks_as
  <1>5. ASSUME NEW x \in Stats PROVE IsFormat(formats[x]) /\ IsFormat(none[x])
    <2>1. IsFormat(none[x])
      <3>1. none[x] = <<>>
        BY DEF Stats
      <3> QED
        BY <3>1, DefaultFormats
    <2>2. formats[x] \in {nodes_as, unks_as, bos, eos, eon}
      BY DEF Stats
    <2> QED
      BY <1>2, <1>4, <2>1, <2>2
  <1>6. \A w, fs : W(w, fs).formats = fs
    OBVIOUS
  <1> HIDE DEF W, none, formats
  <1> QED
    BY <1>3, <1>5, <1>6 DEF Formatted

(* Whatever a call says, the text it returns from its own buffer fits.      *)
LEMMA RespondFits ==
  ASSUME NEW w, Says(w), NEW of, buffer \in Nat, Respond(w, of)
  PROVE  buffer' \in Nat /\ Fitted'
  <1>1. PICK b \in {Own} \cup {Fixed(n) : n \in Sizes} :
          LET c == Into(b, w.writes)
          IN  /\ buffer' = IF b.own /\ w.ok THEN c.alloc ELSE buffer
              /\ answer' = IF ~w.ok /\ w.what = Overrun THEN OverrunAnswer
                           ELSE IF ~w.ok THEN [is |-> "null", what |-> w.what]
                           ELSE IF c.error THEN [is |-> "null", what |-> "output buffer overflow"]
                           ELSE [is |-> "text", of |-> of, own |-> b.own, text |-> c.text,
                                 whole |-> FlattenSeq(w.writes) \o <<"0">>]
    BY Zenon DEF Respond
  <1>2. PICK c : c = Into(b, w.writes)
    OBVIOUS
  <1>3. /\ buffer' = IF b.own /\ w.ok THEN c.alloc ELSE buffer
        /\ answer' = IF ~w.ok /\ w.what = Overrun THEN OverrunAnswer
                     ELSE IF ~w.ok THEN [is |-> "null", what |-> w.what]
                     ELSE IF c.error THEN [is |-> "null", what |-> "output buffer overflow"]
                     ELSE [is |-> "text", of |-> of, own |-> b.own, text |-> c.text,
                           whole |-> FlattenSeq(w.writes) \o <<"0">>]
    BY <1>1, <1>2, Zenon
  <1>4. /\ \A x : [is |-> "null", what |-> x].is = "null"
        /\ \A own, t, x : LET a == [is |-> "text", of |-> of, own |-> own, text |-> t, whole |-> x]
                          IN  a.own = own /\ a.text = t
    OBVIOUS
  <1>5. CASE ~w.ok
    <2>1. OverrunAnswer.is = "overrun"
      BY DEF OverrunAnswer
    <2>2. buffer' = buffer /\ answer'.is \in {"null", "overrun"}
      BY <1>3, <1>4, <1>5, <2>1, Zenon
    <2> QED
      BY <2>2 DEF Fitted
  <1>6. CASE w.ok /\ ~b.own
    <2>1. buffer' = buffer
      BY <1>3, <1>6, Zenon
    <2>2. answer'.is = "null" \/ answer'.own = b.own
      BY <1>3, <1>4, <1>6, Zenon
    <2> QED
      BY <1>6, <2>1, <2>2 DEF Fitted
  <1>7. CASE w.ok /\ b.own
    <2>1. b = Own
      <3>1. \A n : Fixed(n).own = FALSE
        <4>1. \A y, n : [own |-> y, alloc |-> n, text |-> <<>>, error |-> FALSE].own = y
          OBVIOUS
        <4> QED
          BY <4>1, Zenon DEF Fixed
      <3> QED
        BY <1>7, <3>1
    <2>2. b \in Buffers /\ b.text = <<>>
      <3>1. PICK y, e : y = TRUE /\ e = FALSE
        OBVIOUS
      <3>2. [own |-> y, alloc |-> buffer, text |-> <<>>, error |-> e]
              \in [own : {y}, alloc : Nat, text : Seq(Symbols), error : {e}]
            /\ [own |-> y, alloc |-> buffer, text |-> <<>>, error |-> e].text = <<>>
        OBVIOUS
      <3>3. Own = [own |-> y, alloc |-> buffer, text |-> <<>>, error |-> e]
        BY <3>1, Zenon DEF Own
      <3>4. Buffers = [own : {y}, alloc : Nat, text : Seq(Symbols), error : {e}]
        BY <3>1, Zenon DEF Buffers
      <3> QED
        BY <2>1, <3>2, <3>3, <3>4
    <2>3. w.writes \in Seq(Seq(Symbols))
      BY <1>7 DEF Says
    <2>4. c \in Buffers /\ Len(c.text) < c.alloc
      BY <1>2, <2>2, <2>3, IntoOwn, Zenon
    <2>5. c.alloc \in Nat
      BY <2>4 DEF Buffers
    <2>6. buffer' = c.alloc
      BY <1>3, <1>7, Zenon
    <2>7. answer'.is = "null" \/ answer'.text = c.text
      BY <1>3, <1>4, <1>7, Zenon
    <2> QED
      BY <2>4, <2>5, <2>6, <2>7 DEF Fitted
  <1> QED
    BY <1>5, <1>6, <1>7

(* What the three calls write are texts.                                    *)
LEMMA BehindBos ==
  ASSUME DInv, BosInPath PROVE FromBos \in Seq(AnyNode)
  <1>1. path \in Seq(AnyNode)
    BY DEF DInv
  <1>2. CASE end_nodes = <<>> \/ end_nodes[0] = 0
    BY <1>2 DEF FromBos
  <1>3. CASE ~(end_nodes = <<>> \/ end_nodes[0] = 0)
    <2>1. PICK b : b = end_nodes[0]
      OBVIOUS
    <2>2. b \in 1 .. Len(path) /\ Len(path) \in Nat
      BY <1>1, <1>3, <2>1 DEF BosInPath
    <2>3. FromBos = SubSeq(path, b, Len(path))
      BY <1>3, <2>1 DEF FromBos
    <2> QED
      BY <1>1, <2>2, <2>3, SubSeqProperties
  <1> QED
    BY <1>2, <1>3

(* The style of a lattice is one of the built-in ones or has formats.       *)
LEMMA StyleKnown == ASSUME Opened PROVE Styled(Style)
  <1>1. CASE writer = None
    <2>1. Style = [write |-> "lattice"]
      BY <1>1 DEF Style
    <2>2. Style.write = "lattice"
      BY <2>1
    <2> QED
      BY <2>2 DEF Styled
  <1>2. CASE writer # None
    BY <1>2 DEF Style, Opened, Styled
  <1> QED
    BY <1>1, <1>2

(* toString of the lattice.                                                 *)
LEMMA ToStringFits ==
  ASSUME SInv, DInv, WInv, ToStringCall PROVE WInv'
  <1>1. UNCHANGED <<writer, text, end_nodes, path, calls, sentence>>
    BY DEF ToStringCall, KeepLattice
  <1>2. text \in Seq(Symbols)
    BY SymbolTexts DEF WInv
  <1>3. buffer' \in Nat /\ Fitted'
    <2>1. CASE Dies
      <3>1. answer' = Died /\ buffer' = buffer
        BY <2>1 DEF ToStringCall
      <3>2. answer'.is # "text"
        BY <3>1 DEF Died
      <3> QED
        BY <3>1, <3>2 DEF WInv, Fitted
    <2>2. CASE ~Dies
      <3>0. PICK real \in Reals :
              Respond(IF Unavailable THEN Failed("") ELSE Write(Style, FromBos, text, real), "path")
        BY <2>2 DEF ToStringCall
      <3> DEFINE w == IF Unavailable THEN Failed("") ELSE Write(Style, FromBos, text, real)
      <3>1. Respond(w, "path")
        BY <3>0
      <3>2. CASE Unavailable
        <4>1. Says(w)
          BY <3>2, WrittenSays
        <4> HIDE DEF w
        <4> QED
          BY <3>1, <4>1, RespondFits DEF WInv
      <3>3. CASE ~Unavailable
        <4>1. Styled(Style) /\ FromBos \in Seq(AnyNode)
          BY StyleKnown, BehindBos DEF WInv
        <4>2. Len(FromBos) >= 2 \/ Style.write \in {"none", "em", "dump"}
          <5>1. PICK k : k = Len(FromBos)
            OBVIOUS
          <5>2. k \in Nat
            BY <4>1, <5>1
          <5>3. ~(k < 2) \/ Style.write \in {"none", "em", "dump"}
            BY <2>2, <3>3, <5>1, Zenon DEF Dies
          <5> QED
            BY <5>1, <5>2, <5>3
        <4>3. Says(Write(Style, FromBos, text, real))
          BY <1>2, <4>1, <4>2, WriteSays
        <4>4. Says(w)
          BY <3>3, <4>3
        <4> HIDE DEF w
        <4> QED
          BY <3>1, <4>4, RespondFits DEF WInv
      <3> QED
        BY <3>2, <3>3
    <2> QED
      BY <2>1, <2>2
  <1> QED
    BY <1>1, <1>3 DEF WInv, Opened, BosInPath

(* toString of a node.                                                      *)
LEMMA ToStringNodeFits ==
  ASSUME SInv, DInv, WInv, ToStringNode PROVE WInv'
  <1>1. UNCHANGED <<writer, text, end_nodes, path, calls, sentence>>
    BY DEF ToStringNode, KeepLattice
  <1>2. text \in Seq(Symbols)
    BY SymbolTexts DEF WInv
  <1>3. PICK i \in 0 .. Len(path), real \in Reals :
          Respond(IF i = 0 THEN Failed("node is NULL") ELSE NodeLine(path[i], real), "node")
    BY DEF ToStringNode
  <1> DEFINE w == IF i = 0 THEN Failed("node is NULL") ELSE NodeLine(path[i], real)
  <1>4. Says(w)
    <2>1. CASE i = 0
      BY <2>1, WrittenSays
    <2>2. CASE i # 0
      <3>1. path[i] \in AnyNode
        BY <2>2 DEF DInv
      <3>2. PICK n : n = path[i]
        OBVIOUS
      <3>3. Writable(n) /\ n.stat \in Stats
        BY <3>1, <3>2, AnyWritable
      <3>4. CASE writer = None
        <4>1. NodeLine(n, real) = Written(<< n.surface, <<"\t">>, n.feature >>)
          BY <3>4 DEF NodeLine
        <4>2. << n.surface, <<"\t">>, n.feature >> \in Seq(Seq(Symbols))
          <5>1. \A S : \A a, b, c \in S : <<a, b, c>> \in Seq(S)
            OBVIOUS
          <5>2. <<"\t">> \in Seq(Symbols)
            BY SymbolTexts, Zenon
          <5> QED
            BY <3>3, <5>1, <5>2, Zenon DEF Writable
        <4> QED
          BY <2>2, <3>2, <4>1, <4>2, WrittenSays, Zenon
      <3>5. CASE writer # None
        <4>1. NodeLine(n, real) = WriteNode(writer, n, text, real)
          BY <3>5 DEF NodeLine
        <4>2. Says(WriteNode(writer, n, text, real))
          BY <1>2, <3>3, <3>5, NodeSays DEF WInv, Opened, Formatted
        <4> QED
          BY <2>2, <3>2, <4>1, <4>2, Zenon
      <3> QED
        BY <3>4, <3>5
    <2> QED
      BY <2>1, <2>2
  <1>5. Respond(w, "node")
    BY <1>3
  <1> HIDE DEF w
  <1>6. buffer' \in Nat /\ Fitted'
    BY <1>4, <1>5, RespondFits DEF WInv
  <1> QED
    BY <1>1, <1>6 DEF WInv, Opened, BosInPath

(* The sentence that entries spell is a text.                               *)
LEMMA SpelledText ==
  ASSUME NEW entries \in Seq(Entries) PROVE Spelled(entries) \in Seq(STRING)
  <1> DEFINE f == [i \in DOMAIN entries |-> entries[i].surface]
  <1>1. DOMAIN entries = 1 .. Len(entries) /\ Len(entries) \in Nat
    OBVIOUS
  <1>2. \A i \in DOMAIN entries : entries[i].surface \in Seq(STRING)
    <2>1. \A i \in DOMAIN entries : entries[i] \in Entries
      OBVIOUS
    <2> QED
      BY <2>1 DEF Entries
  <1>3. f \in Seq(Seq(STRING))
    BY <1>1, <1>2
  <1>4. <<>> \in Seq(STRING)
    OBVIOUS
  <1> HIDE DEF f
  <1>5. FlattenSeq(f) \in Seq(STRING)
    BY <1>3, <1>4, FlattenAppend
  <1> QED
    BY <1>5 DEF Spelled, f

(* What is filed at a position is in the path.                              *)
LEMMA EndsInside ==
  ASSUME NEW p \in Seq(AnyNode), 0 \in DOMAIN end_nodes PROVE EndsOf(p)[0] \in 0 .. Len(p)
  <1> DEFINE At(i) == Len(FlattenSeq([k \in 1 .. i |-> p[k].space \o p[k].surface]))
             here == {i \in DOMAIN p : p[i].stat # "EOS" /\ At(i) = 0}
  <1>1. EndsOf(p)[0] = IF here = {} THEN 0 ELSE CHOOSE i \in here : \A k \in here : k <= i
    BY Zenon DEF EndsOf
  <1>2. DOMAIN p = 1 .. Len(p) /\ Len(p) \in Nat
    OBVIOUS
  <1>3. here \subseteq 1 .. Len(p)
    BY <1>2
  <1> HIDE DEF here
  <1>4. CASE here = {}
    BY <1>1, <1>2, <1>4
  <1>5. CASE here # {}
    <2>1. IsFiniteSet(here) /\ here \subseteq Nat
      <3>1. \A i \in here : i <= Len(p) /\ i \in Nat
        BY <1>2, <1>3
      <3> QED
        BY <1>2, <3>1, FS_BoundedSetOfNaturals
    <2>2. PICK m : m = CHOOSE i \in here : \A k \in here : k <= i
      OBVIOUS
    <2>3. m \in here
      BY <1>5, <2>1, <2>2, Largest
    <2>4. EndsOf(p)[0] = m
      BY <1>1, <1>5, <2>2, Zenon
    <2>5. m \in 1 .. Len(p)
      BY <1>3, <2>3
    <2> QED
      BY <1>2, <2>4, <2>5
  <1> QED
    BY <1>4, <1>5

(* The first of the calls that fails, or the last of all.                   *)
LEMMA TakenPath ==
  ASSUME NEW k \in Nat, k >= 1, NEW failed, failed \subseteq 1 .. k
  PROVE  (IF failed = {} THEN k ELSE CHOOSE i \in failed : \A j \in failed : i <= j) \in 1 .. k
  <1>1. CASE failed = {}
    BY <1>1
  <1>2. CASE failed # {}
    <2>1. failed \subseteq Nat
      OBVIOUS
    <2>2. (CHOOSE i \in failed : \A j \in failed : i <= j) \in failed
      BY <1>2, <2>1, Smallest
    <2> QED
      BY <1>2, <2>2
  <1> QED
    BY <1>1, <1>2

(* After BOS set_result goes on to EOS and the entries.                     *)
LEMMA ResultStages ==
  ASSUME SInv, DInv, ResultBos \/ ResultEos \/ NextEntry
  PROVE  DInv' /\ job'.is = "result" /\ job'.stage \in {"eos", "entries"}
  <1>1. DInv'
    BY ResultNodesFind, NextEntryFinds
  <1>2. CASE ResultBos
    <2>1. job \in ResultJobs /\ job' = [job EXCEPT !.stage = "eos"]
      BY <1>2, JobFacts DEF ResultBos, SInv, Stage
    <2> QED
      BY <1>1, <2>1, NextStage
  <1>3. CASE ResultEos
    <2>1. job \in ResultJobs /\ job' = [job EXCEPT !.stage = "entries"]
      BY <1>3, JobFacts DEF ResultEos, SInv, Stage
    <2> QED
      BY <1>1, <2>1, NextStage
  <1>4. CASE NextEntry
    <2>1. job \in ResultJobs /\ job' = job /\ job.stage = "entries"
      BY <1>4, JobFacts DEF NextEntry, SInv, Stage
    <2> QED
      BY <1>1, <2>1 DEF ResultJobs
  <1> QED
    BY <1>2, <1>3, <1>4

(* enumNBestAsString writes paths that were found, and an EON.              *)
LEMMA EonWritable == Writable(EonNode) /\ EonNode.stat \in Stats
  <1> DEFINE N(st, su, sp, fe, pa, li) ==
               [stat |-> st, surface |-> su, space |-> sp, feature |-> fe, paths |-> pa, likely |-> li]
  <1>2. PICK y, b : y = FALSE /\ b = <<"B">>
    OBVIOUS
  <1>3. BosNode = N("BOS", <<>>, <<>>, b, <<>>, y)
    BY <1>2, Zenon DEF BosNode
  <1>4. /\ [N("BOS", <<>>, <<>>, b, <<>>, y) EXCEPT !.stat = "EOS"] = N("EOS", <<>>, <<>>, b, <<>>, y)
        /\ [N("EOS", <<>>, <<>>, b, <<>>, y) EXCEPT !.stat = "EON"] = N("EON", <<>>, <<>>, b, <<>>, y)
        /\ [N("EON", <<>>, <<>>, b, <<>>, y) EXCEPT !.feature = <<>>] = N("EON", <<>>, <<>>, <<>>, <<>>, y)
    OBVIOUS
  <1>5. /\ N("EON", <<>>, <<>>, <<>>, <<>>, y).stat = "EON" /\ N("EON", <<>>, <<>>, <<>>, <<>>, y).surface = <<>>
        /\ N("EON", <<>>, <<>>, <<>>, <<>>, y).space = <<>> /\ N("EON", <<>>, <<>>, <<>>, <<>>, y).feature = <<>>
        /\ N("EON", <<>>, <<>>, <<>>, <<>>, y).paths = <<>>
    OBVIOUS
  <1> HIDE DEF N
  <1>6. EonNode = [[N("BOS", <<>>, <<>>, b, <<>>, y) EXCEPT !.stat = "EOS"] EXCEPT !.stat = "EON", !.feature = <<>>]
    BY <1>3, Zenon DEF EonNode, EosNode
  <1>7. EonNode = N("EON", <<>>, <<>>, <<>>, <<>>, y)
    <2>1. EonNode = [[[N("BOS", <<>>, <<>>, b, <<>>, y) EXCEPT !.stat = "EOS"] EXCEPT !.stat = "EON"]
                       EXCEPT !.feature = <<>>]
      BY <1>6
    <2> QED
      BY <1>4, <2>1
  <1>8. <<>> \in Seq(Symbols) /\ <<>> \in Seq(TextLinks)
    OBVIOUS
  <1>9. PICK n : n = EonNode
    OBVIOUS
  <1>10. n.stat = "EON" /\ n.surface = <<>> /\ n.space = <<>> /\ n.feature = <<>> /\ n.paths = <<>>
    BY <1>5, <1>7, <1>9
  <1> QED
    BY <1>8, <1>9, <1>10 DEF Writable, Stats

(* The list of the best results.                                            *)
LEMMA EnumFits ==
  ASSUME SInv, DInv, WInv, NEW n \in 0 .. NBEST_MAX + 1, EnumNBestAsString(n) PROVE WInv'
  <1> DEFINE k == IF n < Len(results) THEN n ELSE Len(results)
             List(real) == [i \in 1 .. k |-> Write(Style, results[i], text, real)]
             Eon(real) == IF writer = None THEN Written(<<>>) ELSE WriteNode(writer, EonNode, text, real)
  <1>1. /\ Calling /\ UNCHANGED <<writer, text, end_nodes, calls, sentence>> /\ job.is # "result"
        /\ \/ UNCHANGED <<path, results>>
           \/ \E t \in 1 .. Len(results) : path' = results[t]
    BY EnumTakes DEF EnumNBestAsString
  <1>2. text \in Seq(Symbols) /\ results \in Seq(Paths)
    BY SymbolTexts DEF WInv, DInv
  <1>3. BosInPath'
    <2>1. CASE UNCHANGED path
      BY <1>1, <2>1 DEF WInv, BosInPath
    <2>2. ASSUME NEW t \in 1 .. Len(results), path' = results[t] PROVE BosInPath'
      <3>1. results # <<>> /\ results[t] \in Paths
        BY <1>2
      <3>2. end_nodes[0] = 1
        BY <1>1, <3>1 DEF DInv, Empty, Found
      <3>3. Len(path') >= 2 /\ Len(path') \in Nat
        BY <2>2, <3>1, PathFacts
      <3> QED
        BY <1>1, <3>2, <3>3 DEF BosInPath
    <2> QED
      BY <1>1, <2>1, <2>2
  <1>4. CASE n = 0 \/ n > NBEST_MAX
    <2>1. Respond(Failed("nbest size must be 1 <= nbest <= 512"), "list")
      BY <1>4 DEF EnumNBestAsString
    <2>2. buffer' \in Nat /\ Fitted'
      BY <2>1, WrittenSays, RespondFits DEF WInv
    <2> QED
      BY <1>1, <1>3, <2>2 DEF WInv, Opened
  <1>5. CASE ~(n = 0 \/ n > NBEST_MAX)
    <2>1. PICK real \in Reals : Respond(AllOf(Append(List(real), Eon(real))), "list")
      BY <1>5, Zenon DEF EnumNBestAsString
    <2> DEFINE list == List(real)
               eon == Eon(real)
               W == {Write(Style, results[i], text, real) : i \in 1 .. k} \cup {eon}
    <2>2. Len(results) \in Nat /\ n \in Nat
      BY <1>2, InputsAssumption
    <2>3. k \in 0 .. Len(results)
      BY <2>2
    <2>4. list = [i \in 1 .. k |-> Write(Style, results[i], text, real)]
      BY Zenon
    <2>5. Respond(AllOf(Append(list, eon)), "list")
      BY <2>1, Zenon
    <2>6. Says(eon)
      <3>1. CASE writer = None
        BY <3>1, WrittenSays, SymbolTexts, Zenon
      <3>2. CASE writer # None
        <4>1. Says(WriteNode(writer, EonNode, text, real))
          BY <1>2, <3>2, EonWritable, NodeSays DEF WInv, Opened, Formatted
        <4> QED
          BY <3>2, <4>1, Zenon
      <3> QED
        BY <3>1, <3>2
    <2> HIDE DEF k, eon, List
    <2>7. Styled(Style)
      BY StyleKnown DEF WInv
    <2>8. ASSUME NEW i \in 1 .. k PROVE Says(Write(Style, results[i], text, real))
      <3>1. PICK p : p = results[i]
        OBVIOUS
      <3>2. p \in Paths
        BY <1>2, <2>2, <2>3, <3>1
      <3>3. p \in Seq(AnyNode) /\ Len(p) >= 2
        BY <3>2, PathFacts
      <3>4. Says(Write(Style, p, text, real))
        BY <1>2, <2>7, <3>3, WriteSays
      <3> QED
        BY <3>1, <3>4
    <2>9. \A w \in W : Says(w)
      BY <2>6, <2>8, Zenon
    <2>10. Append(list, eon) \in Seq(W)
      <3>1. \A i \in 1 .. k : Write(Style, results[i], text, real) \in W
        OBVIOUS
      <3>2. eon \in W /\ k \in Nat
        BY <2>3
      <3> HIDE DEF W, list
      <3>3. list \in Seq(W)
        BY <2>4, <3>1, <3>2
      <3> QED
        BY <3>2, <3>3
    <2> HIDE DEF W, list
    <2>11. Says(AllOf(Append(list, eon)))
      BY <2>9, <2>10, AllInSay
    <2>12. buffer' \in Nat /\ Fitted'
      BY <2>5, <2>11, RespondFits DEF WInv
    <2> QED
      BY <1>1, <1>3, <2>12 DEF WInv, Opened
  <1> QED
    BY <1>4, <1>5

(* The lattice itself: what is filed first stays in its path.               *)
LEMMA ClearedFits ==
  ASSUME NEW m \in Nat, end_nodes' = [p \in 0 .. m + 3 |-> 0], path' = <<>> PROVE BosInPath'
  <1>1. end_nodes'[0] = 0
    BY SMT
  <1> QED
    BY <1>1 DEF BosInPath

(* The calls that fill the lattice or read the answer write nothing.        *)
LEMMA FillsFit ==
  ASSUME SInv, DInv, WInv,
         (\E a \in Analyses : SetSentence(a)) \/ (\E r \in Results : SetResult(r)) \/ CopySentence \/ SetOwnSentence
         \/ CopyIn \/ Analyze \/ ResultBos \/ ResultEos \/ NextEntry \/ EntryTooLong \/ LinkEos \/ Read \/ UNCHANGED vars
  PROVE  WInv'
  <1>1. UNCHANGED <<writer, buffer>>
    BY DEF SetSentence, SetResult, CopySentence, SetOwnSentence, CopyIn, Analyze, ResultBos, ResultEos, NextEntry,
           EntryTooLong, LinkEos, Read, KeepOutput, vars
  <1>2. Fitted'
    <2>1. answer' \in {answer, NoAnswer, Threw}
      BY DEF SetSentence, SetResult, CopySentence, SetOwnSentence, CopyIn, Analyze, ResultBos, ResultEos, NextEntry,
             EntryTooLong, LinkEos, Read, KeepOutput, vars
    <2>2. NoAnswer.is # "text" /\ Threw.is # "text"
      BY DEF NoAnswer, Threw
    <2> QED
      BY <1>1, <2>1, <2>2 DEF WInv, Fitted
  <1>3. calls' \in 0 .. MaxCalls
    <2>1. calls' = calls \/ (calls' = calls + 1 /\ calls < MaxCalls)
      BY DEF SetSentence, SetResult, CopySentence, SetOwnSentence, CopyIn, Analyze, ResultBos, ResultEos, NextEntry,
             EntryTooLong, LinkEos, Read, KeepOutput, Fills, vars, latticeVars
    <2> QED
      BY <2>1, InputsAssumption DEF WInv
  <1>4. sentence'.in \in {"none", "caller", "memory"}
    <2>1. sentence' = sentence \/ sentence' = Caller \/ \E b : sentence' = Here(b)
      BY DEF SetSentence, SetResult, CopySentence, SetOwnSentence, CopyIn, Analyze, ResultBos, ResultEos, NextEntry,
             EntryTooLong, LinkEos, Read, KeepOutput, vars, latticeVars
    <2>2. Caller.in = "caller" /\ \A b : Here(b).in = "memory"
      BY DEF Caller, Here
    <2> QED
      BY <2>1, <2>2 DEF WInv
  <1>5. text' \in Seq(STRING) /\ BosInPath'
    <2>1. CASE \E a \in Analyses : SetSentence(a)
      <3>1. PICK a \in Analyses : SetSentence(a)
        BY <2>1
      <3>2. a.text \in Seq(STRING) /\ text' = a.text /\ path' = <<>> /\ end_nodes' = [p \in 0 .. Len(a.text) + 3 |-> 0]
        BY <3>1, InputsAssumption DEF SetSentence, Cleared
      <3>3. Len(a.text) \in Nat
        BY <3>2
      <3> QED
        BY <3>2, <3>3, ClearedFits
    <2>2. CASE SetOwnSentence
      <3> DEFINE t == Spelled(job.entries)
      <3>1. text' = t /\ path' = <<>> /\ end_nodes' = [p \in 0 .. Len(t) + 3 |-> 0]
        BY <2>2 DEF SetOwnSentence, Cleared
      <3>2. job \in ResultJobs
        BY <2>2, JobFacts DEF SInv, SetOwnSentence, Stage
      <3>3. job.entries \in Seq(Entries)
        BY <3>2 DEF ResultJobs
      <3>4. t \in Seq(STRING)
        BY <3>3, SpelledText
      <3>5. Len(t) \in Nat
        BY <3>4
      <3> QED
        BY <3>1, <3>4, <3>5, ClearedFits
    <2>3. CASE Analyze
      <3>1. text' = text
        BY <2>3 DEF Analyze
      <3>2. path' = IF job.paths = <<>> THEN <<BosNode>> ELSE Head(job.paths)
        BY <2>3 DEF Analyze
      <3>3. end_nodes' = EndsOf(path') /\ job.is = "analysis"
        BY <2>3 DEF Analyze
      <3>4. job.paths \in Seq(Paths) /\ 0 \in DOMAIN end_nodes
        BY <3>3, JobFacts DEF SInv, AnalysisJobs, DInv, Empty, Positions
      <3>5. CASE job.paths = <<>>
        <4>1. PICK p : p = <<BosNode>>
          OBVIOUS
        <4>2. p \in Seq(AnyNode) /\ Len(p) = 1
          BY <4>1, OnlyBos, Zenon
        <4>3. EndsOf(p)[0] \in 0 .. 1
          BY <3>4, <4>2, EndsInside
        <4> QED
          BY <3>1, <3>2, <3>3, <3>5, <4>1, <4>2, <4>3 DEF BosInPath, WInv
      <3>6. CASE job.paths # <<>>
        <4>1. PICK p : p = path'
          OBVIOUS
        <4>2. p \in Paths
          BY <3>2, <3>4, <3>6, <4>1
        <4>3. EndsOf(p)[0] = 1 /\ Len(p) \in Nat /\ Len(p) >= 2
          BY <3>4, <4>2, PathFacts, BosFiled
        <4> QED
          BY <3>1, <3>3, <4>1, <4>3 DEF BosInPath, WInv
      <3> QED
        BY <3>5, <3>6
    <2>4. CASE ResultBos \/ NextEntry \/ ResultEos
      <3>1. text' = text
        BY <2>4 DEF ResultBos, NextEntry, ResultEos
      <3>2. DInv' /\ job'.is = "result" /\ job'.stage \in {"eos", "entries"}
        BY <2>4, ResultStages
      <3>3. Partial' /\ path' \in Seq(AnyNode)
        BY <3>2 DEF DInv
      <3> QED
        BY <3>1, <3>3 DEF Partial, BosInPath, WInv
    <2>5. CASE LinkEos
      <3>1. text' = text /\ end_nodes' = end_nodes /\ path' = Append(path, EosNode)
        BY <2>5 DEF LinkEos
      <3>2. Partial /\ path \in Seq(AnyNode)
        <4>1. job.is = "result" /\ job.stage = "entries"
          BY <2>5, JobFacts DEF LinkEos, SInv, Stage
        <4> QED
          BY <4>1 DEF DInv
      <3>3. EosNode \in AnyNode
        BY Zenon DEF AnyNode
      <3>4. Len(path') = Len(path) + 1 /\ Len(path) \in Nat
        BY <3>1, <3>2, <3>3
      <3> QED
        BY <3>1, <3>2, <3>4 DEF Partial, BosInPath, WInv
    <2>6. CASE (\E r \in Results : SetResult(r)) \/ CopySentence \/ CopyIn \/ Read \/ UNCHANGED vars
      <3>1. UNCHANGED <<text, end_nodes, path>>
        BY <2>6 DEF SetResult, CopySentence, CopyIn, Read, vars, latticeVars
      <3> QED
        BY <3>1 DEF WInv, BosInPath
    <2>7. CASE EntryTooLong
      <3>1. text' = text /\ end_nodes' = end_nodes /\ Len(path') = Len(path) + 1 /\ Len(path) \in Nat
        BY <2>7, TooLongFacts DEF EntryTooLong
      <3> QED
        BY <3>1 DEF WInv, BosInPath
    <2> QED
      BY <2>1, <2>2, <2>3, <2>4, <2>5, <2>6, <2>7
  <1> QED
    BY <1>1, <1>2, <1>3, <1>4, <1>5 DEF WInv, Opened

(* A new lattice has an empty buffer.                                       *)
LEMMA WInvStart == ASSUME Init PROVE WInv
  <1>1. Opened
    <2>1. writer = None \/ \E c \in Confs : OpenWriter(c) # Refused /\ writer = OpenWriter(c).conf
      BY DEF Init
    <2> QED
      BY <2>1, WriterOpened DEF Opened
  <1>2. text = <<>> /\ end_nodes = <<>> /\ calls = 0 /\ buffer = 0 /\ answer = NoAnswer /\ sentence = None
    BY DEF Init
  <1>3. answer.is # "text" /\ sentence.in = "none"
    BY <1>2 DEF NoAnswer, None
  <1>4. text \in Seq(STRING) /\ calls \in 0 .. MaxCalls /\ buffer \in Nat
    BY <1>2, InputsAssumption
  <1> QED
    BY <1>1, <1>2, <1>3, <1>4 DEF WInv, Fitted, BosInPath

(* No call breaks the third invariant.                                      *)
LEMMA WInvStep == ASSUME SInv, DInv, WInv, [Next]_vars PROVE WInv'
  BY ToStringFits, ToStringNodeFits, EnumFits, FillsFit DEF Next

(* toString never writes behind its own buffer and bos_node() stays in the  *)
(* path that is linked, for any formats, paths, results and sizes.          *)
THEOREM TypeCorrect == Spec => []TypeOK
  <1>1. Init => SInv /\ DInv /\ WInv
    BY SInvStart, DInvStart, WInvStart
  <1>2. SInv /\ DInv /\ WInv /\ [Next]_vars => (SInv /\ DInv /\ WInv)'
    BY SInvStep, DInvStep, WInvStep
  <1>3. SInv /\ WInv => TypeOK
    <2>1. SInv => InsideChunks
      BY MemorySafe DEF SInv
    <2> QED
      BY <2>1 DEF WInv, Fitted, BosInPath, TypeOK
  <1> QED
    BY <1>1, <1>2, <1>3, PTL DEF Spec
-----------------------------------------------------------------------------
(* A listing of a set of numbers from the smallest on.                      *)
Lists(e, m, S) ==
  /\ \A k \in 1 .. m : e[k] \in Nat
  /\ \A j, k \in 1 .. m : j < k => e[j] < e[k]
  /\ S = {e[k] : k \in 1 .. m}

(* As many numbers are listed as there are.                                 *)
LEMMA ListedCount ==
  ASSUME NEW m \in Nat, NEW e, NEW S, Lists(e, m, S)
  PROVE  \A k \in 0 .. m : IsFiniteSet({e[j] : j \in 1 .. k}) /\ Cardinality({e[j] : j \in 1 .. k}) = k
  <1> DEFINE T(k) == {e[j] : j \in 1 .. k}
             P == {k \in 0 .. m : IsFiniteSet(T(k)) /\ Cardinality(T(k)) = k}
  <1>1. 0 \in P
    <2>1. T(0) = {}
      OBVIOUS
    <2> HIDE DEF T
    <2> QED
      BY <2>1, FS_EmptySet
  <1>2. ASSUME NEW k \in 1 .. m, k - 1 \in P PROVE k \in P
    <2>1. T(k) = T(k - 1) \cup {e[k]}
      <3>1. \A j : j \in 1 .. k <=> (j \in 1 .. k - 1 \/ j = k)
        OBVIOUS
      <3> QED
        BY <3>1
    <2>2. e[k] \notin T(k - 1)
      <3>1. ASSUME NEW j \in 1 .. k - 1 PROVE e[j] # e[k]
        <4>1. j \in 1 .. m /\ k \in 1 .. m /\ j < k
          OBVIOUS
        <4>2. e[j] < e[k] /\ e[j] \in Nat /\ e[k] \in Nat
          BY <4>1 DEF Lists
        <4> QED
          BY <4>2
      <3> QED
        BY <3>1
    <2> HIDE DEF T
    <2>3. IsFiniteSet(T(k - 1)) /\ Cardinality(T(k - 1)) = k - 1
      BY <1>2
    <2>4. IsFiniteSet(T(k)) /\ Cardinality(T(k)) = k
      BY <2>1, <2>2, <2>3, FS_AddElement
    <2>5. k \in 0 .. m
      OBVIOUS
    <2> QED
      BY <2>4, <2>5
  <1> HIDE DEF P
  <1>3. 0 .. m \subseteq P
    BY <1>1, <1>2, UpTo
  <1> QED
    BY <1>3 DEF P

(* InOrder gives the listing.                                               *)
LEMMA OrderListed ==
  ASSUME NEW m \in Nat, NEW e, NEW S, Lists(e, m, S)
  PROVE  InOrder(S, <) = [k \in 1 .. m |-> e[k]]
  <1> DEFINE T(k) == {e[j] : j \in 1 .. k}
  <1>0. \A k \in 0 .. m : IsFiniteSet(T(k)) /\ Cardinality(T(k)) = k
    BY ListedCount
  <1>1. S = {e[j] : j \in 1 .. m} /\ IsFiniteSet(S) /\ Cardinality(S) = m
    <2>1. S = T(m) /\ m \in 0 .. m
      BY DEF Lists
    <2> HIDE DEF T
    <2>2. IsFiniteSet(S) /\ Cardinality(S) = m
      BY <1>0, <2>1
    <2> QED
      BY <2>1, <2>2 DEF T
  <1>2. ASSUME NEW k \in 1 .. m PROVE Cardinality({y \in S : y < e[k]}) = k - 1
    <2>1. {y \in S : y < e[k]} = {e[j] : j \in 1 .. k - 1}
      <3>1. ASSUME NEW j \in 1 .. m PROVE e[j] < e[k] <=> j \in 1 .. k - 1
        <4>1. e[j] \in Nat /\ e[k] \in Nat /\ (j < k => e[j] < e[k]) /\ (k < j => e[k] < e[j])
          BY DEF Lists
        <4> QED
          BY <4>1
      <3>2. \A j \in 1 .. k - 1 : j \in 1 .. m
        OBVIOUS
      <3> QED
        BY <1>1, <3>1, <3>2
    <2>2. k - 1 \in 0 .. m
      OBVIOUS
    <2>3. {y \in S : y < e[k]} = T(k - 1)
      BY <2>1
    <2> HIDE DEF T
    <2> QED
      BY <1>0, <2>2, <2>3
  <1>3. ASSUME NEW k \in 1 .. m
        PROVE  (CHOOSE x \in S : Cardinality({y \in S : y < x}) = k - 1) = e[k]
    <2> DEFINE R(x) == Cardinality({y \in S : y < x})
    <2>1. e[k] \in S /\ R(e[k]) = k - 1
      BY <1>1, <1>2
    <2>2. ASSUME NEW x \in S, R(x) = k - 1 PROVE x = e[k]
      <3>1. PICK j \in 1 .. m : x = e[j]
        BY <1>1
      <3>2. R(x) = j - 1
        BY <1>2, <3>1
      <3> HIDE DEF R
      <3>3. j = k
        BY <2>2, <3>2
      <3> QED
        BY <3>1, <3>3
    <2> HIDE DEF R
    <2>3. (CHOOSE x \in S : R(x) = k - 1) = e[k]
      BY <2>1, <2>2
    <2> QED
      BY <2>3, Zenon DEF R
  <1>4. InOrder(S, <) = [k \in 1 .. Cardinality(S) |-> CHOOSE x \in S : Cardinality({y \in S : y < x}) = k - 1]
    BY DEF InOrder
  <1> DEFINE Nth(k) == CHOOSE x \in S : Cardinality({y \in S : y < x}) = k - 1
  <1>5. \A k \in 1 .. m : Nth(k) = e[k]
    BY <1>3, Zenon
  <1>6. InOrder(S, <) = [k \in 1 .. m |-> Nth(k)]
    BY <1>1, <1>4, Zenon
  <1> HIDE DEF Nth
  <1> QED
    BY <1>5, <1>6

(* The pieces of a text between the places that are listed.                 *)
PiecesAt(p, t, e, m) ==
  /\ DOMAIN p = 1 .. m /\ Len(p) = m
  /\ \A k \in 1 .. m : p[k] = SubSeq(t, IF k = 1 THEN 1 ELSE e[k - 1] + 1, e[k] - 1)

(* Where a text is split.                                                   *)
LEMMA SplitAt ==
  ASSUME NEW X, NEW t \in Seq(X), NEW separator, NEW most \in Nat, NEW m \in Nat, NEW e,
         Lists(e, m, {i \in DOMAIN t : t[i] = separator} \cup {Len(t) + 1}), m <= most
  PROVE  PiecesAt(Split(t, separator, most), t, e, m)
  <1> DEFINE S == {i \in DOMAIN t : t[i] = separator} \cup {Len(t) + 1}
             ends == InOrder(S, <)
             m2 == IF Len(ends) < most THEN Len(ends) ELSE most
             Piece(k) == SubSeq(t, IF k = 1 THEN 1 ELSE ends[k - 1] + 1, ends[k] - 1)
             p == [k \in 1 .. m2 |-> Piece(k)]
  <1>1. Split(t, separator, most) = p
    BY DEF Split
  <1>2. ends = [k \in 1 .. m |-> e[k]]
    <2> HIDE DEF S
    <2> QED
      BY OrderListed DEF S
  <1> HIDE DEF ends
  <1>3. Len(ends) = m /\ \A k \in 1 .. m : ends[k] = e[k]
    BY <1>2
  <1>4. m2 = m
    BY <1>3
  <1> HIDE DEF m2
  <1>5. ASSUME NEW k \in 1 .. m PROVE Piece(k) = SubSeq(t, IF k = 1 THEN 1 ELSE e[k - 1] + 1, e[k] - 1)
    <2>1. k # 1 => k - 1 \in 1 .. m
      OBVIOUS
    <2> QED
      BY <1>3, <2>1
  <1> HIDE DEF Piece
  <1>6. DOMAIN p = 1 .. m /\ Len(p) = m /\ \A k \in 1 .. m : p[k] = Piece(k)
    BY <1>4
  <1> HIDE DEF p
  <1> QED
    BY <1>1, <1>5, <1>6 DEF PiecesAt

(* A line of the default style, without its end.                            *)
Body(s, f) == (s \o <<"\t">>) \o f

(* Where the parts of a line are.                                           *)
LEMMA BodyFacts ==
  ASSUME NEW s \in Seq(Symbols), NEW f \in Seq(Symbols)
  PROVE  LET a == Len(s)
             b == Len(f)
         IN
         /\ a \in Nat /\ b \in Nat /\ Body(s, f) \in Seq(Symbols) /\ Len(Body(s, f)) = a + b + 1
         /\ \A i \in 1 .. a : Body(s, f)[i] = s[i]
         /\ Body(s, f)[a + 1] = "\t"
         /\ \A i \in 1 .. b : Body(s, f)[a + 1 + i] = f[i]
  <1> DEFINE a == Len(s)
             b == Len(f)
  <1>1. PICK w : w = <<"\t">>
    OBVIOUS
  <1>2. w \in Seq(Symbols)
    BY <1>1, SymbolTexts, Zenon
  <1>3. Len(w) = 1 /\ w[1] = "\t"
    BY <1>1
  <1>4. PICK u : u = s \o w
    OBVIOUS
  <1>5. PICK t : t = u \o f
    OBVIOUS
  <1>6. a \in Nat /\ b \in Nat /\ u \in Seq(Symbols) /\ Len(u) = a + 1
        /\ (\A i \in 1 .. a : u[i] = s[i]) /\ u[a + 1] = "\t"
    <2>1. a \in Nat /\ b \in Nat
      OBVIOUS
    <2>2. u \in Seq(Symbols) /\ Len(u) = Len(s) + Len(w)
          /\ \A i \in 1 .. Len(s) + Len(w) : u[i] = IF i <= Len(s) THEN s[i] ELSE w[i - Len(s)]
      BY <1>2, <1>4, ConcatProperties
    <2>3. a + 1 \in 1 .. a + 1 /\ ~(a + 1 <= a) /\ (a + 1) - a = 1
      BY <2>1
    <2>4. Len(u) = a + 1 /\ u[a + 1] = w[1]
      BY <1>3, <2>2, <2>3
    <2>5. \A i \in 1 .. a : i \in 1 .. a + 1 /\ i <= a
      BY <2>1
    <2>6. \A i \in 1 .. a : u[i] = s[i]
      BY <1>3, <2>2, <2>5
    <2> QED
      BY <1>3, <2>1, <2>2, <2>4, <2>6
  <1>7. t \in Seq(Symbols) /\ Len(t) = a + 1 + b /\ (\A i \in 1 .. a + 1 : t[i] = u[i])
        /\ \A i \in 1 .. b : t[a + 1 + i] = f[i]
    <2>1. t \in Seq(Symbols) /\ Len(t) = Len(u) + Len(f)
          /\ \A i \in 1 .. Len(u) + Len(f) : t[i] = IF i <= Len(u) THEN u[i] ELSE f[i - Len(u)]
      BY <1>5, <1>6, ConcatProperties
    <2>2. ASSUME NEW i \in 1 .. b PROVE t[a + 1 + i] = f[i]
      <3>1. a + 1 + i \in 1 .. Len(u) + Len(f) /\ ~(a + 1 + i <= Len(u)) /\ (a + 1 + i) - Len(u) = i
        BY <1>6
      <3> QED
        BY <2>1, <3>1
    <2> QED
      BY <1>6, <2>1, <2>2
  <1>8. Body(s, f) = t
    BY <1>1, <1>4, <1>5 DEF Body
  <1>9. \A i \in 1 .. a : t[i] = s[i]
    BY <1>6, <1>7
  <1>10. t[a + 1] = "\t"
    BY <1>6, <1>7
  <1> QED
    BY <1>6, <1>7, <1>8, <1>9, <1>10

(* A part of a sequence that equals another one.                            *)
LEMMA PartIs ==
  ASSUME NEW X, NEW t \in Seq(X), NEW p \in Seq(X), NEW from \in Nat, from >= 1, NEW to \in Nat,
         to = from + Len(p) - 1, to <= Len(t), \A i \in 1 .. Len(p) : t[from + i - 1] = p[i]
  PROVE  SubSeq(t, from, to) = p
  <1>1. from \in 1 .. Len(t) + 1 /\ to \in from - 1 .. Len(t) /\ Len(p) \in Nat /\ Len(t) \in Nat
    <2>1. Len(p) \in Nat /\ Len(t) \in Nat
      OBVIOUS
    <2>2. PICK a, b : a = Len(p) /\ b = Len(t)
      OBVIOUS
    <2>3. from \in 1 .. b + 1 /\ to \in from - 1 .. b
      BY <2>1, <2>2
    <2> QED
      BY <2>1, <2>2, <2>3
  <1>2. PICK q : q = SubSeq(t, from, to)
    OBVIOUS
  <1>3. q \in Seq(X) /\ Len(q) = to - from + 1 /\ \A i \in 1 .. to - from + 1 : q[i] = t[from + i - 1]
    BY <1>1, <1>2, SubSeqProperties
  <1>4. to - from + 1 = Len(p)
    BY <1>1
  <1>5. q = p
    <2>1. \A i \in 1 .. Len(p) : q[i] = p[i]
      BY <1>3, <1>4
    <2> QED
      BY <1>3, <1>4, <2>1, SeqEqual
  <1> QED
    BY <1>2, <1>5

(* A line is split into its two columns again.                              *)
LEMMA ColumnsBack ==
  ASSUME NEW s \in Seq(Symbols), NEW f \in Seq(Symbols), Clean(s), Clean(f)
  PROVE  LET p == Split(Body(s, f), "\t", 2) IN Len(p) = 2 /\ p[1] = s /\ p[2] = f
  <1>1. PICK a, b, t : a = Len(s) /\ b = Len(f) /\ t = Body(s, f)
    OBVIOUS
  <1>2. /\ a \in Nat /\ b \in Nat /\ t \in Seq(Symbols) /\ Len(t) = a + b + 1
        /\ \A i \in 1 .. a : t[i] = s[i]
        /\ t[a + 1] = "\t"
        /\ \A i \in 1 .. b : t[a + 1 + i] = f[i]
    <2>1. /\ a \in Nat /\ b \in Nat /\ Body(s, f) \in Seq(Symbols) /\ Len(Body(s, f)) = a + b + 1
          /\ \A i \in 1 .. a : Body(s, f)[i] = s[i]
          /\ Body(s, f)[a + 1] = "\t"
          /\ \A i \in 1 .. b : Body(s, f)[a + 1 + i] = f[i]
      BY <1>1, BodyFacts, Zenon
    <2> QED
      BY <1>1, <2>1
  <1>3. (\A i \in 1 .. a : s[i] # "\t") /\ (\A i \in 1 .. b : f[i] # "\t")
    <2>1. DOMAIN s = 1 .. a /\ DOMAIN f = 1 .. b
      BY <1>1
    <2> QED
      BY <2>1, Zenon DEF Clean
  <1> DEFINE e == [k \in 1 .. 2 |-> IF k = 1 THEN a + 1 ELSE a + b + 2]
             S == {i \in DOMAIN t : t[i] = "\t"} \cup {Len(t) + 1}
  <1>4. e[1] = a + 1 /\ e[2] = a + b + 2
    OBVIOUS
  <1> HIDE DEF e
  <1>5. S = {a + 1, a + b + 2}
    <2>1. ASSUME NEW i \in DOMAIN t, t[i] = "\t" PROVE i = a + 1
      <3>1. i \in 1 .. a + b + 1
        BY <1>2
      <3>2. CASE i \in 1 .. a
        BY <1>2, <1>3, <2>1, <3>2
      <3>3. CASE i > a + 1
        <4>1. i - a - 1 \in 1 .. b /\ a + 1 + (i - a - 1) = i
          BY <1>2, <3>1, <3>3
        <4>2. t[i] = f[i - a - 1]
          BY <1>2, <4>1
        <4> QED
          BY <1>3, <2>1, <4>1, <4>2
      <3> QED
        BY <1>2, <3>1, <3>2, <3>3
    <2>2. a + 1 \in DOMAIN t /\ t[a + 1] = "\t" /\ Len(t) + 1 = a + b + 2
      BY <1>2
    <2> QED
      BY <2>1, <2>2
  <1>6. Lists(e, 2, S)
    <2>1. 1 .. 2 = {1, 2}
      OBVIOUS
    <2>2. {e[k] : k \in 1 .. 2} = {e[1], e[2]}
      BY <2>1
    <2>3. \A k \in 1 .. 2 : e[k] \in Nat
      BY <1>2, <1>4, <2>1
    <2>4. \A j, k \in 1 .. 2 : j < k => e[j] < e[k]
      BY <1>2, <1>4, <2>1
    <2> HIDE DEF S
    <2> QED
      BY <1>4, <1>5, <2>2, <2>3, <2>4 DEF Lists
  <1>7. PICK p : p = Split(t, "\t", 2)
    OBVIOUS
  <1>8. /\ Len(p) = 2
        /\ \A k \in 1 .. 2 : p[k] = SubSeq(t, IF k = 1 THEN 1 ELSE e[k - 1] + 1, e[k] - 1)
    <2>1. 2 \in Nat /\ 2 <= 2
      OBVIOUS
    <2>2. PiecesAt(Split(t, "\t", 2), t, e, 2)
      BY <1>2, <1>6, <2>1, SplitAt, Zenon
    <2> QED
      BY <1>7, <2>2 DEF PiecesAt
  <1>9. p[1] = SubSeq(t, 1, a) /\ p[2] = SubSeq(t, a + 2, a + b + 1)
    <2>1. 1 \in 1 .. 2 /\ 2 \in 1 .. 2
      OBVIOUS
    <2>2. p[1] = SubSeq(t, 1, e[1] - 1) /\ p[2] = SubSeq(t, e[2 - 1] + 1, e[2] - 1)
      BY <1>8, <2>1
    <2>3. e[1] - 1 = a /\ e[2 - 1] + 1 = a + 2 /\ e[2] - 1 = a + b + 1
      BY <1>2, <1>4
    <2> QED
      BY <2>2, <2>3
  <1>10. SubSeq(t, 1, a) = s
    <2>1. \A i \in 1 .. Len(s) : t[1 + i - 1] = s[i]
      BY <1>1, <1>2
    <2>2. a = 1 + Len(s) - 1 /\ a <= Len(t)
      BY <1>1, <1>2
    <2> QED
      BY <1>2, <2>1, <2>2, PartIs
  <1>11. SubSeq(t, a + 2, a + b + 1) = f
    <2>1. ASSUME NEW i \in 1 .. Len(f) PROVE t[(a + 2) + i - 1] = f[i]
      <3>1. i \in 1 .. b /\ (a + 2) + i - 1 = a + 1 + i
        BY <1>1, <1>2
      <3> QED
        BY <1>2, <3>1
    <2>2. a + b + 1 = (a + 2) + Len(f) - 1 /\ a + b + 1 <= Len(t) /\ a + 2 \in Nat /\ a + 2 >= 1 /\ a + b + 1 \in Nat
      BY <1>1, <1>2
    <2> QED
      BY <1>2, <2>1, <2>2, PartIs
  <1> QED
    BY <1>1, <1>7, <1>8, <1>9, <1>10, <1>11

(* Lines one behind the other: h[k] is all of the first k lines, each with  *)
(* its end.                                                                *)
AreLines(h, body, n) ==
  /\ h[0] = <<>>
  /\ \A k \in 1 .. n : /\ body[k] \in Seq(Symbols) /\ \A i \in DOMAIN body[k] : body[k][i] # "\n"
                       /\ h[k] = h[k - 1] \o Append(body[k], "\n")

(* The first k lines end where they should and have what they should.       *)
LinesLie(h, body, k) ==
  /\ h[k] \in Seq(Symbols)
  /\ {i \in DOMAIN h[k] : h[k][i] = "\n"} = {Len(h[j]) : j \in 1 .. k}
  /\ \A j \in 1 .. k : /\ Len(h[j - 1]) \in Nat /\ Len(h[j]) = Len(h[j - 1]) + Len(body[j]) + 1
                       /\ Len(h[j]) <= Len(h[k])
                       /\ \A i \in 1 .. Len(body[j]) : h[k][Len(h[j - 1]) + i] = body[j][i]

(* One more line leaves those before it where they are.                     *)
LEMMA OneMoreLine ==
  ASSUME NEW n \in Nat, NEW h, NEW body, AreLines(h, body, n), NEW k \in 1 .. n, LinesLie(h, body, k - 1)
  PROVE  LinesLie(h, body, k)
  <1>1. PICK g, b, w : g = h[k - 1] /\ b = body[k] /\ w = Append(b, "\n")
    OBVIOUS
  <1>2. PICK t : t = h[k]
    OBVIOUS
  <1>3. PICK x, m : x = Len(g) /\ m = Len(b)
    OBVIOUS
  <1>4. /\ b \in Seq(Symbols) /\ (\A i \in DOMAIN b : b[i] # "\n") /\ t = g \o w /\ g \in Seq(Symbols)
    BY <1>1, <1>2 DEF AreLines, LinesLie
  <1>5. PICK z : z = "\n"
    OBVIOUS
  <1>6. z \in Symbols
    BY <1>5, SymbolTexts, Zenon
  <1>7. /\ w \in Seq(Symbols) /\ Len(w) = m + 1 /\ w[m + 1] = z /\ m \in Nat /\ x \in Nat
        /\ \A i \in 1 .. m : w[i] = b[i] /\ b[i] # z
    BY <1>1, <1>3, <1>4, <1>5, <1>6, AppendProperties
  <1>8. /\ t \in Seq(Symbols) /\ Len(t) = x + m + 1
        /\ (\A i \in 1 .. x : t[i] = g[i])
        /\ (\A i \in 1 .. m + 1 : t[x + i] = w[i])
    <2>1. t \in Seq(Symbols) /\ Len(t) = x + (m + 1)
          /\ \A i \in 1 .. x + (m + 1) : t[i] = IF i <= x THEN g[i] ELSE w[i - x]
      <3>1. t \in Seq(Symbols) /\ Len(t) = Len(g) + Len(w)
            /\ \A i \in 1 .. Len(g) + Len(w) : t[i] = IF i <= Len(g) THEN g[i] ELSE w[i - Len(g)]
        BY <1>4, <1>7, ConcatProperties
      <3> QED
        BY <1>3, <1>7, <3>1
    <2>2. \A i \in 1 .. x : i \in 1 .. x + (m + 1) /\ i <= x
      BY <1>7
    <2>3. ASSUME NEW i \in 1 .. m + 1 PROVE t[x + i] = w[i]
      <3>1. x + i \in 1 .. x + (m + 1) /\ ~(x + i <= x) /\ (x + i) - x = i
        BY <1>7
      <3> QED
        BY <2>1, <3>1
    <2> QED
      BY <1>7, <2>1, <2>2, <2>3
  <1>9. {i \in DOMAIN t : t[i] = "\n"} = {Len(h[j]) : j \in 1 .. k}
    <2>1. {i \in DOMAIN t : t[i] = z} = {i \in DOMAIN g : g[i] = z} \cup {x + m + 1}
      <3>1. DOMAIN t = 1 .. x + m + 1 /\ DOMAIN g = 1 .. x
        BY <1>3, <1>4, <1>8
      <3>2. ASSUME NEW i \in DOMAIN t, t[i] = z PROVE i = x + m + 1 \/ (i \in DOMAIN g /\ g[i] = z)
        <4>1. CASE i \in 1 .. x
          BY <1>8, <3>1, <3>2, <4>1
        <4>2. CASE i > x
          <5>1. i - x \in 1 .. m + 1 /\ x + (i - x) = i
            BY <1>7, <3>1, <4>2
          <5>2. w[i - x] = z
            BY <1>8, <3>2, <5>1
          <5>3. i - x \notin 1 .. m
            BY <1>7, <5>2
          <5> QED
            BY <1>7, <5>1, <5>3
        <4> QED
          BY <1>7, <3>1, <4>1, <4>2
      <3>3. x + m + 1 \in DOMAIN t /\ t[x + m + 1] = z
        <4>1. m + 1 \in 1 .. m + 1 /\ x + (m + 1) = x + m + 1
          BY <1>7
        <4> QED
          BY <1>7, <1>8, <3>1, <4>1
      <3>4. \A i \in DOMAIN g : i \in DOMAIN t /\ t[i] = g[i]
        BY <1>7, <1>8, <3>1
      <3> QED
        BY <3>2, <3>3, <3>4
    <2>2. {i \in DOMAIN g : g[i] = z} = {Len(h[j]) : j \in 1 .. k - 1}
      BY <1>1, <1>5 DEF LinesLie
    <2>3. \A j : j \in 1 .. k <=> (j \in 1 .. k - 1 \/ j = k)
      OBVIOUS
    <2>4. Len(h[k]) = x + m + 1
      BY <1>2, <1>8
    <2>5. {Len(h[j]) : j \in 1 .. k} = {Len(h[j]) : j \in 1 .. k - 1} \cup {x + m + 1}
      BY <2>3, <2>4
    <2> QED
      BY <1>5, <2>1, <2>2, <2>5
  <1>10. ASSUME NEW j \in 1 .. k
         PROVE  /\ Len(h[j - 1]) \in Nat /\ Len(h[j]) = Len(h[j - 1]) + Len(body[j]) + 1
                /\ Len(h[j]) <= Len(t)
                /\ \A i \in 1 .. Len(body[j]) : t[Len(h[j - 1]) + i] = body[j][i]
    <2>1. CASE j = k
      <3>1. Len(h[j - 1]) = x /\ Len(body[j]) = m /\ Len(h[j]) = x + m + 1 /\ body[j] = b
        BY <1>1, <1>2, <1>3, <1>8, <2>1
      <3>2. \A i \in 1 .. m : i \in 1 .. m + 1 /\ t[x + i] = b[i]
        BY <1>7, <1>8
      <3> QED
        BY <1>7, <1>8, <3>1, <3>2
    <2>2. CASE j # k
      <3>1. j \in 1 .. k - 1
        BY <2>2
      <3>2. PICK y, q, l : y = Len(h[j - 1]) /\ q = Len(body[j]) /\ l = Len(h[j])
        OBVIOUS
      <3>3. y \in Nat /\ l = y + q + 1 /\ l <= x /\ \A i \in 1 .. q : g[y + i] = body[j][i]
        BY <1>1, <1>3, <3>1, <3>2 DEF LinesLie
      <3>4. q \in Nat
        BY <3>1, <3>2 DEF AreLines
      <3>5. \A i \in 1 .. q : y + i \in 1 .. x
        BY <1>7, <3>3, <3>4
      <3>6. \A i \in 1 .. q : t[y + i] = body[j][i]
        BY <1>8, <3>3, <3>5
      <3>7. l <= Len(t)
        BY <1>7, <1>8, <3>3, <3>4
      <3> QED
        BY <3>2, <3>3, <3>6, <3>7
    <2> QED
      BY <2>1, <2>2
  <1> QED
    BY <1>2, <1>8, <1>9, <1>10 DEF LinesLie

(* So all lines lie where they should.                                      *)
LEMMA AllLinesLie ==
  ASSUME NEW n \in Nat, NEW h, NEW body, AreLines(h, body, n)
  PROVE  \A k \in 0 .. n : LinesLie(h, body, k)
  <1> DEFINE P == {k \in 0 .. n : LinesLie(h, body, k)}
  <1>1. 0 \in P
    <2>1. h[0] = <<>>
      BY DEF AreLines
    <2>2. {i \in DOMAIN h[0] : h[0][i] = "\n"} = {} /\ {Len(h[j]) : j \in 1 .. 0} = {} /\ h[0] \in Seq(Symbols)
      BY <2>1
    <2>3. LinesLie(h, body, 0)
      BY <2>2 DEF LinesLie
    <2> QED
      BY <2>3
  <1>2. ASSUME NEW k \in 1 .. n, k - 1 \in P PROVE k \in P
    <2>1. LinesLie(h, body, k)
      BY <1>2, OneMoreLine
    <2> QED
      BY <2>1
  <1> HIDE DEF P
  <1>3. 0 .. n \subseteq P
    BY <1>1, <1>2, UpTo
  <1> QED
    BY <1>3 DEF P

(* The lines of a text that EOS and the 0 follow.                           *)
LinesAre(lines, body, n) ==
  /\ DOMAIN lines = 1 .. n + 2 /\ lines[n + 1] = <<"EOS">>
  /\ \A k \in 1 .. n : lines[k] = body[k]

Ending == <<"EOS", "\n", "0">>
(* Where the lines of a text end that EOS and the 0 follow.                 *)
LEMMA LinesSplit ==
  ASSUME NEW n \in Nat, NEW h, NEW body, AreLines(h, body, n), NEW t, t = h[n] \o Ending
  PROVE  LinesAre(Split(t, "\n", Len(t)), body, n)
  <1>1. PICK z, tail : z = "\n" /\ tail = Ending
    OBVIOUS
  <1>2. tail \in Seq(Symbols) /\ Len(tail) = 3 /\ tail[1] = "EOS" /\ tail[2] = z /\ tail[3] = "0"
    <2>1. \A S : \A a, b, c \in S : LET w == <<a, b, c>>
                                    IN  w \in Seq(S) /\ Len(w) = 3 /\ w[1] = a /\ w[2] = b /\ w[3] = c
      OBVIOUS
    <2>2. "EOS" \in Symbols /\ "\n" \in Symbols /\ "0" \in Symbols
      BY SymbolTexts, Zenon
    <2> QED
      BY <1>1, <2>1, <2>2, Zenon DEF Ending
  <1>3. \A k \in 0 .. n : LinesLie(h, body, k)
    BY AllLinesLie
  <1> DEFINE L == [k \in 0 .. n |-> Len(h[k])]
             x == L[n]
  <1>4. \A k \in 0 .. n : L[k] = Len(h[k]) /\ L[k] \in Nat
    BY <1>3 DEF LinesLie
  <1>5. L[0] = 0
    BY DEF AreLines
  <1> HIDE DEF L
  <1>6. ASSUME NEW k \in 1 .. n
        PROVE  /\ k \in 0 .. n /\ k - 1 \in 0 .. n /\ L[k] = L[k - 1] + Len(body[k]) + 1
               /\ Len(body[k]) \in Nat /\ L[k - 1] < L[k] /\ L[k] <= x
               /\ \A j \in 1 .. k : L[j] <= L[k]
               /\ \A i \in 1 .. Len(body[k]) : h[n][L[k - 1] + i] = body[k][i]
    <2>1. k \in 0 .. n /\ k - 1 \in 0 .. n /\ n \in 0 .. n /\ k \in 1 .. k
      OBVIOUS
    <2>2. Len(body[k]) \in Nat
      BY DEF AreLines
    <2>3. L[k] = L[k - 1] + Len(body[k]) + 1 /\ L[k] <= x
          /\ \A i \in 1 .. Len(body[k]) : h[n][L[k - 1] + i] = body[k][i]
      <3>1. LinesLie(h, body, n)
        BY <1>3, <2>1
      <3>2. /\ Len(h[k]) = Len(h[k - 1]) + Len(body[k]) + 1 /\ Len(h[k]) <= Len(h[n])
            /\ \A i \in 1 .. Len(body[k]) : h[n][Len(h[k - 1]) + i] = body[k][i]
        BY <3>1 DEF LinesLie
      <3>3. L[k] = Len(h[k]) /\ L[k - 1] = Len(h[k - 1]) /\ x = Len(h[n])
        BY <1>4, <2>1
      <3> HIDE DEF x
      <3> QED
        BY <3>2, <3>3, Zenon
    <2>4. \A j \in 1 .. k : L[j] <= L[k]
      <3>1. \A j \in 1 .. k : j \in 0 .. n
        OBVIOUS
      <3>2. LinesLie(h, body, k)
        BY <1>3, <2>1
      <3>3. \A j \in 1 .. k : Len(h[j]) <= Len(h[k])
        BY <3>2 DEF LinesLie
      <3> QED
        BY <1>4, <2>1, <3>1, <3>3
    <2>5. L[k - 1] < L[k]
      BY <1>4, <2>1, <2>2, <2>3
    <2> QED
      BY <2>1, <2>2, <2>3, <2>4, <2>5
  <1>7. ASSUME NEW j \in 1 .. n, NEW k \in 1 .. n, j < k PROVE L[j] < L[k]
    <2>1. j \in 0 .. n /\ k \in 0 .. n /\ k - 1 \in 1 .. n /\ j \in 1 .. k - 1 /\ k - 1 \in 0 .. n
      BY <1>7
    <2>2. L[j] <= L[k - 1] /\ L[k - 1] < L[k]
      BY <1>6, <2>1
    <2> QED
      BY <1>4, <2>1, <2>2
  <1>8. n <= x /\ x \in Nat
    <2> DEFINE P == {k \in 0 .. n : k <= L[k]}
    <2>1. 0 \in P
      BY <1>5
    <2>2. ASSUME NEW k \in 1 .. n, k - 1 \in P PROVE k \in P
      <3>1. k - 1 <= L[k - 1]
        BY <2>2
      <3>2. L[k - 1] < L[k] /\ k \in 0 .. n /\ L[k] \in Nat /\ L[k - 1] \in Nat
        BY <1>4, <1>6
      <3>3. k <= L[k]
        BY <3>1, <3>2
      <3> QED
        BY <3>2, <3>3
    <2> HIDE DEF P
    <2>3. 0 .. n \subseteq P
      BY <2>1, <2>2, UpTo
    <2>4. n \in P
      BY <2>3
    <2> QED
      BY <1>4, <2>4 DEF P
  <1>9. /\ t \in Seq(Symbols) /\ Len(t) = x + 3
        /\ \A i \in 1 .. x : t[i] = h[n][i]
        /\ t[x + 1] = "EOS" /\ t[x + 2] = z /\ t[x + 3] = "0"
    <2>1. PICK g : g = h[n]
      OBVIOUS
    <2>2. g \in Seq(Symbols) /\ Len(g) = x
      <3>1. n \in 0 .. n
        OBVIOUS
      <3>2. LinesLie(h, body, n)
        BY <1>3, <3>1
      <3>3. h[n] \in Seq(Symbols)
        BY <3>2 DEF LinesLie
      <3>4. x = Len(h[n])
        BY <1>4, <3>1
      <3> HIDE DEF x
      <3> QED
        BY <2>1, <3>3, <3>4
    <2>3. t = g \o tail
      BY <1>1, <2>1
    <2> HIDE DEF x
    <2>4. t \in Seq(Symbols) /\ Len(t) = Len(g) + Len(tail)
          /\ \A i \in 1 .. Len(g) + Len(tail) : t[i] = IF i <= Len(g) THEN g[i] ELSE tail[i - Len(g)]
      <3>1. g \in Seq(Symbols) /\ tail \in Seq(Symbols)
        BY <1>2, <2>2
      <3>2. /\ g \o tail \in Seq(Symbols) /\ Len(g \o tail) = Len(g) + Len(tail)
            /\ \A i \in 1 .. Len(g) + Len(tail) : (g \o tail)[i] = IF i <= Len(g) THEN g[i] ELSE tail[i - Len(g)]
        BY <3>1, ConcatProperties
      <3> QED
        BY <2>3, <3>2
    <2>5. \A i \in 1 .. x + 3 : t[i] = IF i <= x THEN g[i] ELSE tail[i - x]
      BY <1>2, <2>2, <2>4
    <2>6. \A i \in 1 .. 3 : x + i \in 1 .. x + 3 /\ ~(x + i <= x) /\ (x + i) - x = i
      BY <1>8
    <2>7. t[x + 1] = tail[1] /\ t[x + 2] = tail[2] /\ t[x + 3] = tail[3]
      <3>1. \A i \in 1 .. 3 : t[x + i] = tail[(x + i) - x]
        BY <2>5, <2>6
      <3>2. \A i \in 1 .. 3 : t[x + i] = tail[i]
        BY <2>6, <3>1
      <3>3. 1 \in 1 .. 3 /\ 2 \in 1 .. 3 /\ 3 \in 1 .. 3
        OBVIOUS
      <3> QED
        BY <3>2, <3>3
    <2>8. \A i \in 1 .. x : i \in 1 .. x + 3 /\ i <= x
      BY <1>8
    <2> QED
      BY <1>2, <2>1, <2>2, <2>4, <2>5, <2>7, <2>8
  <1> DEFINE e == [k \in 1 .. n + 2 |-> IF k <= n THEN L[k] ELSE IF k = n + 1 THEN x + 2 ELSE x + 4]
             S == {i \in DOMAIN t : t[i] = "\n"} \cup {Len(t) + 1}
  <1>10. (\A k \in 1 .. n : e[k] = L[k]) /\ e[n + 1] = x + 2 /\ e[n + 2] = x + 4
    <2> HIDE DEF x
    <2>1. \A k \in 1 .. n : k \in 1 .. n + 2 /\ k <= n
      OBVIOUS
    <2>2. n + 1 \in 1 .. n + 2 /\ n + 2 \in 1 .. n + 2 /\ ~(n + 1 <= n) /\ ~(n + 2 <= n) /\ n + 2 # n + 1
      OBVIOUS
    <2> QED
      BY <2>1, <2>2
  <1> HIDE DEF e, x
  <1>11. S = {L[k] : k \in 1 .. n} \cup {x + 2, x + 4}
    <2>1. {i \in DOMAIN h[n] : h[n][i] = z} = {L[k] : k \in 1 .. n}
      <3>1. n \in 0 .. n /\ \A k \in 1 .. n : k \in 0 .. n
        OBVIOUS
      <3>2. {i \in DOMAIN h[n] : h[n][i] = z} = {Len(h[k]) : k \in 1 .. n}
        BY <1>1, <1>3, <3>1 DEF LinesLie
      <3>3. {Len(h[k]) : k \in 1 .. n} = {L[k] : k \in 1 .. n}
        BY <1>4, <3>1
      <3> QED
        BY <3>2, <3>3
    <2>2. DOMAIN h[n] = 1 .. x
      <3>1. n \in 0 .. n
        OBVIOUS
      <3> QED
        BY <1>3, <1>4, <3>1 DEF LinesLie, x
    <2>3. DOMAIN t = 1 .. x + 3 /\ Len(t) + 1 = x + 4
      BY <1>8, <1>9
    <2>4. \A i : i \in 1 .. x + 3 <=> (i \in 1 .. x \/ i = x + 1 \/ i = x + 2 \/ i = x + 3)
      BY <1>8
    <2>5. "EOS" # z /\ "0" # z
      BY <1>1
    <2>6. {i \in DOMAIN t : t[i] = z} = {i \in DOMAIN h[n] : h[n][i] = z} \cup {x + 2}
      BY <1>9, <2>2, <2>3, <2>4, <2>5
    <2> QED
      BY <1>1, <2>1, <2>3, <2>6
  <1>12. Lists(e, n + 2, S)
    <2>1. \A k : k \in 1 .. n + 2 <=> (k \in 1 .. n \/ k = n + 1 \/ k = n + 2)
      OBVIOUS
    <2>2. \A k \in 1 .. n : k \in 0 .. n /\ L[k] \in Nat /\ L[k] <= x
      BY <1>4, <1>6
    <2>3. \A k \in 1 .. n + 2 : e[k] \in Nat
      BY <1>8, <1>10, <2>1, <2>2
    <2>4. ASSUME NEW j \in 1 .. n + 2, NEW k \in 1 .. n + 2, j < k PROVE e[j] < e[k]
      <3>1. CASE k \in 1 .. n
        <4>1. j \in 1 .. n
          BY <2>4, <3>1
        <4> QED
          BY <1>7, <1>10, <2>4, <3>1, <4>1
      <3>2. CASE k = n + 1
        <4>1. j \in 1 .. n
          BY <2>4, <3>2
        <4> QED
          BY <1>8, <1>10, <2>2, <3>2, <4>1
      <3>3. CASE k = n + 2
        <4>1. j \in 1 .. n \/ j = n + 1
          BY <2>4, <3>3
        <4> QED
          BY <1>8, <1>10, <2>2, <3>3, <4>1
      <3> QED
        BY <2>1, <3>1, <3>2, <3>3
    <2>5. S = {e[k] : k \in 1 .. n + 2}
      <3> HIDE DEF S
      <3>1. {e[k] : k \in 1 .. n + 2} = {e[k] : k \in 1 .. n} \cup {e[n + 1], e[n + 2]}
        BY <2>1
      <3>2. {e[k] : k \in 1 .. n} = {L[k] : k \in 1 .. n}
        BY <1>10
      <3> QED
        BY <1>10, <1>11, <3>1, <3>2
    <2> HIDE DEF S
    <2> QED
      BY <2>3, <2>4, <2>5 DEF Lists
  <1>13. PICK lines : lines = Split(t, "\n", Len(t))
    OBVIOUS
  <1>14. PiecesAt(lines, t, e, n + 2)
    <2>1. n + 2 \in Nat /\ Len(t) \in Nat /\ n + 2 <= Len(t)
      BY <1>8, <1>9
    <2>2. PiecesAt(Split(t, "\n", Len(t)), t, e, n + 2)
      BY <1>9, <1>12, <2>1, SplitAt, Zenon
    <2> QED
      BY <1>13, <2>2
  <1>15. ASSUME NEW k \in 1 .. n PROVE lines[k] = body[k]
    <2>1. k \in 1 .. n + 2 /\ (k # 1 => k - 1 \in 1 .. n)
      OBVIOUS
    <2>2. lines[k] = SubSeq(t, IF k = 1 THEN 1 ELSE e[k - 1] + 1, e[k] - 1)
      BY <1>14, <2>1 DEF PiecesAt
    <2>3. lines[k] = SubSeq(t, L[k - 1] + 1, L[k] - 1)
      <3>1. CASE k = 1
        <4>1. e[k] = L[k]
          BY <1>10
        <4>2. lines[k] = SubSeq(t, 1, L[k] - 1)
          BY <2>2, <3>1, <4>1
        <4>3. L[k - 1] + 1 = 1
          <5>1. k - 1 = 0
            BY <3>1
          <5> QED
            BY <1>5, <5>1
        <4> QED
          BY <4>2, <4>3
      <3>2. CASE k # 1
        BY <1>10, <2>1, <2>2, <3>2
      <3> QED
        BY <3>1, <3>2
    <2>4. PICK b, m, y : b = body[k] /\ m = Len(b) /\ y = L[k - 1]
      OBVIOUS
    <2>5. /\ b \in Seq(Symbols) /\ m \in Nat /\ y \in Nat /\ L[k] = y + m + 1 /\ L[k] <= x
          /\ \A i \in 1 .. m : h[n][y + i] = b[i]
      BY <1>4, <1>6, <2>4 DEF AreLines
    <2>6. \A i \in 1 .. m : t[(y + 1) + i - 1] = b[i]
      <3>1. \A i \in 1 .. m : y + i \in 1 .. x /\ (y + 1) + i - 1 = y + i
        BY <1>8, <2>5
      <3> QED
        BY <1>9, <2>5, <3>1
    <2>7. y + 1 \in Nat /\ y + 1 >= 1 /\ y + m \in Nat /\ y + m = (y + 1) + m - 1 /\ y + m <= Len(t)
      BY <1>8, <1>9, <2>5
    <2>8. SubSeq(t, y + 1, y + m) = b
      <3>1. \A i \in 1 .. Len(b) : t[(y + 1) + i - 1] = b[i]
        BY <2>4, <2>6
      <3>2. y + m = (y + 1) + Len(b) - 1
        BY <2>4, <2>7
      <3>3. t \in Seq(Symbols)
        BY <1>9
      <3> QED
        BY <2>5, <2>7, <3>1, <3>2, <3>3, PartIs, Zenon
    <2>9. L[k] - 1 = y + m
      BY <2>5
    <2> QED
      BY <2>3, <2>4, <2>8, <2>9
  <1>16. lines[n + 1] = <<"EOS">>
    <2>1. lines[n + 1] = SubSeq(t, IF n + 1 = 1 THEN 1 ELSE e[n] + 1, e[n + 1] - 1)
      <3>1. n + 1 \in 1 .. n + 2 /\ (n + 1) - 1 = n
        OBVIOUS
      <3> QED
        BY <1>14, <3>1 DEF PiecesAt
    <2>2. (IF n + 1 = 1 THEN 1 ELSE e[n] + 1) = x + 1
      <3>1. CASE n = 0
        BY <1>5, <3>1 DEF x
      <3>2. CASE n # 0
        <4>1. n \in 1 .. n
          BY <3>2
        <4> QED
          BY <1>10, <3>2, <4>1 DEF x
      <3> QED
        BY <3>1, <3>2
    <2>3. e[n + 1] - 1 = x + 1
      BY <1>8, <1>10
    <2>4. PICK w : w = <<"EOS">>
      OBVIOUS
    <2>5. w \in Seq(Symbols) /\ Len(w) = 1 /\ w[1] = "EOS"
      <3>1. w \in Seq(Symbols)
        BY <2>4, SymbolTexts, Zenon
      <3> QED
        BY <2>4, <3>1
    <2>6. \A i \in 1 .. Len(w) : t[(x + 1) + i - 1] = w[i]
      <3>1. \A i \in 1 .. Len(w) : i = 1 /\ (x + 1) + i - 1 = x + 1
        BY <1>8, <2>5
      <3> QED
        BY <1>9, <2>5, <3>1
    <2>7. x + 1 \in Nat /\ x + 1 >= 1 /\ x + 1 = (x + 1) + Len(w) - 1 /\ x + 1 <= Len(t)
      BY <1>8, <1>9, <2>5
    <2>8. SubSeq(t, x + 1, x + 1) = w
      BY <1>9, <2>5, <2>6, <2>7, PartIs
    <2> QED
      BY <2>1, <2>2, <2>3, <2>4, <2>8
  <1> QED
    BY <1>13, <1>14, <1>15, <1>16 DEF PiecesAt, LinesAre

(* The two parts of each line.                                              *)
AreParts(s, f, body, n) ==
  \A k \in 1 .. n : /\ s[k] \in Seq(Symbols) /\ f[k] \in Seq(Symbols) /\ s[k] # <<>>
                    /\ Clean(s[k]) /\ Clean(f[k]) /\ body[k] = Body(s[k], f[k])

(* The entries of such a text are its lines, split.                         *)
LEMMA EntriesBack ==
  ASSUME NEW n \in Nat, NEW h, NEW body, AreLines(h, body, n), NEW s, NEW f, AreParts(s, f, body, n)
  PROVE  EntriesOf(h[n] \o Ending) = [k \in 1 .. n |-> [surface |-> s[k], feature |-> f[k]]]
  <1> DEFINE t == h[n] \o Ending
             lines == Split(t, "\n", Len(t))
             stops == {i \in DOMAIN lines : lines[i] = <<"EOS">> \/ Len(Split(lines[i], "\t", 2)) < 2}
             m == IF stops = {} THEN Len(lines) ELSE (CHOOSE i \in stops : \A k \in stops : i <= k) - 1
             entry(i) == [surface |-> Split(lines[i], "\t", 2)[1], feature |-> Split(lines[i], "\t", 2)[2]]
  <1>1. EntriesOf(t) = [i \in 1 .. m |-> entry(i)]
    BY Zenon DEF EntriesOf
  <1>2. /\ DOMAIN lines = 1 .. n + 2 /\ lines[n + 1] = <<"EOS">>
        /\ \A k \in 1 .. n : lines[k] = body[k]
    <2>1. PICK u : u = h[n] \o Ending
      OBVIOUS
    <2>2. LinesAre(Split(u, "\n", Len(u)), body, n)
      BY <2>1, LinesSplit
    <2>3. LinesAre(lines, body, n)
      BY <2>1, <2>2, Zenon
    <2> QED
      BY <2>3, Zenon DEF LinesAre
  <1> HIDE DEF lines
  <1>3. ASSUME NEW k \in 1 .. n
        PROVE  /\ lines[k] # <<"EOS">> /\ ~(Len(Split(lines[k], "\t", 2)) < 2)
               /\ entry(k) = [surface |-> s[k], feature |-> f[k]]
    <2>1. PICK l : l = lines[k]
      OBVIOUS
    <2>2. PICK a, b : a = s[k] /\ b = f[k]
      OBVIOUS
    <2>3. a \in Seq(Symbols) /\ b \in Seq(Symbols) /\ a # <<>> /\ Clean(a) /\ Clean(b) /\ l = Body(a, b)
      BY <1>2, <2>1, <2>2 DEF AreParts
    <2>4. PICK p : p = Split(l, "\t", 2)
      OBVIOUS
    <2>5. Len(p) = 2 /\ p[1] = a /\ p[2] = b
      BY <2>3, <2>4, ColumnsBack
    <2>6. Len(l) = Len(a) + Len(b) + 1
      BY <2>3, BodyFacts, Zenon
    <2>7. Len(a) \in Nat /\ Len(b) \in Nat /\ Len(a) # 0
      BY <2>3, EmptySeq
    <2>8. l # <<"EOS">>
      <3>1. PICK u, v : u = Len(a) /\ v = Len(b)
        OBVIOUS
      <3>2. u + v + 1 # 1
        BY <2>7, <3>1
      <3>3. Len(<<"EOS">>) = 1
        OBVIOUS
      <3>4. Len(l) # 1
        BY <2>6, <3>1, <3>2
      <3> QED
        BY <3>3, <3>4, Zenon
    <2> QED
      BY <2>1, <2>2, <2>4, <2>5, <2>8
  <1>4. n + 1 \in stops /\ stops \subseteq 1 .. n + 2
    BY <1>2
  <1>5. \A k \in stops : n + 1 <= k
    <2>1. \A k \in stops : k \notin 1 .. n /\ k \in 1 .. n + 2
      BY <1>3, <1>4
    <2> QED
      BY <2>1
  <1> HIDE DEF stops
  <1>6. (CHOOSE i \in stops : \A k \in stops : i <= k) = n + 1
    <2>1. ASSUME NEW i \in stops, \A k \in stops : i <= k PROVE i = n + 1
      BY <1>4, <1>5, <2>1
    <2> QED
      BY <1>4, <1>5, <2>1
  <1>7. m = n
    <2>1. stops # {}
      BY <1>4
    <2> QED
      <3>1. m = (CHOOSE i \in stops : \A k \in stops : i <= k) - 1
        BY <2>1, Zenon
      <3>2. m = (n + 1) - 1
        BY <1>6, <3>1, Zenon
      <3> HIDE DEF m
      <3> QED
        BY <3>2
  <1> HIDE DEF m, entry, t
  <1>8. EntriesOf(t) = [k \in 1 .. n |-> [surface |-> s[k], feature |-> f[k]]]
    BY <1>1, <1>3, <1>7
  <1> QED
    BY <1>8 DEF t

(* One part more.                                                           *)
LEMMA OneMore ==
  ASSUME NEW S, NEW t \in Seq(S), NEW e \in S, NEW u \in Seq(S), Len(u) = Len(t) + 1,
         \A i \in 1 .. Len(t) : u[i] = t[i], u[Len(t) + 1] = e
  PROVE  Append(t, e) = u
  <1>1. PICK y, n : y = Append(t, e) /\ n = Len(t)
    OBVIOUS
  <1>2. n \in Nat /\ y \in Seq(S) /\ Len(y) = n + 1 /\ y[n + 1] = e /\ \A i \in 1 .. n : y[i] = t[i]
    BY <1>1, AppendProperties
  <1>3. \A i \in 1 .. n + 1 : i \in 1 .. n \/ i = n + 1
    BY <1>2
  <1>4. Len(u) = n + 1 /\ \A i \in 1 .. n + 1 : y[i] = u[i]
    BY <1>1, <1>2, <1>3
  <1>5. y = u
    BY <1>2, <1>4, SeqEqual
  <1> QED
    BY <1>1, <1>5

(* A tuple and one part more.                                               *)
LEMMA TupleGrows ==
  ASSUME NEW S, NEW a \in S, NEW b \in S, NEW c \in S, NEW d \in S
  PROVE  /\ Append(<<>>, a) = <<a>> /\ Append(<<a>>, b) = <<a, b>> /\ Append(<<a, b>>, c) = <<a, b, c>>
         /\ Append(<<a, b, c>>, d) = <<a, b, c, d>>
  <1>1. PICK e, t, u, v, x : e = <<>> /\ t = <<a>> /\ u = <<a, b>> /\ v = <<a, b, c>> /\ x = <<a, b, c, d>>
    OBVIOUS
  <1>2. e \in Seq(S) /\ Len(e) = 0
    BY <1>1
  <1>3. t \in Seq(S) /\ Len(t) = 1 /\ t[1] = a
    BY <1>1
  <1>4. u \in Seq(S) /\ Len(u) = 2 /\ u[1] = a /\ u[2] = b
    BY <1>1
  <1>5. v \in Seq(S) /\ Len(v) = 3 /\ v[1] = a /\ v[2] = b /\ v[3] = c
    BY <1>1
  <1>6. x \in Seq(S) /\ Len(x) = 4 /\ x[1] = a /\ x[2] = b /\ x[3] = c /\ x[4] = d
    BY <1>1
  <1>7. Append(e, a) = t
    <2>1. Len(t) = Len(e) + 1 /\ t[Len(e) + 1] = a /\ \A i \in 1 .. Len(e) : t[i] = e[i]
      BY <1>2, <1>3
    <2> QED
      BY <1>2, <1>3, <2>1, OneMore, Zenon
  <1>8. Append(t, b) = u
    <2>1. Len(u) = Len(t) + 1 /\ u[Len(t) + 1] = b /\ \A i \in 1 .. Len(t) : u[i] = t[i]
      BY <1>3, <1>4
    <2> QED
      BY <1>3, <1>4, <2>1, OneMore, Zenon
  <1>9. Append(u, c) = v
    <2>1. Len(v) = Len(u) + 1 /\ v[Len(u) + 1] = c /\ \A i \in 1 .. Len(u) : v[i] = u[i]
      BY <1>4, <1>5
    <2> QED
      BY <1>4, <1>5, <2>1, OneMore, Zenon
  <1>10. Append(v, d) = x
    <2>1. Len(x) = Len(v) + 1 /\ x[Len(v) + 1] = d /\ \A i \in 1 .. Len(v) : x[i] = v[i]
      BY <1>5, <1>6
    <2> QED
      BY <1>5, <1>6, <2>1, OneMore, Zenon
  <1> QED
    BY <1>1, <1>7, <1>8, <1>9, <1>10, Zenon

LineOf(n) == << n.surface, <<"\t">>, n.feature, <<"\n">> >>
(* The four texts of a line, one after the other.                           *)
LEMMA LineText ==
  ASSUME NEW n, n.surface \in Seq(Symbols), n.feature \in Seq(Symbols)
  PROVE  /\ LineOf(n) \in Seq(Seq(Symbols))
         /\ FlattenSeq(LineOf(n)) = Append(Body(n.surface, n.feature), "\n")
  <1>1. PICK a, b, c, d : a = n.surface /\ b = <<"\t">> /\ c = n.feature /\ d = <<"\n">>
    OBVIOUS
  <1>2. a \in Seq(Symbols) /\ b \in Seq(Symbols) /\ c \in Seq(Symbols) /\ d \in Seq(Symbols)
    <2>1. <<"\t">> \in Seq(Symbols) /\ <<"\n">> \in Seq(Symbols)
      BY SymbolTexts, Zenon
    <2> QED
      BY <1>1, <2>1
  <1>3. LineOf(n) = <<a, b, c, d>>
    BY <1>1, Zenon DEF LineOf
  <1>4. PICK X : X = Seq(Symbols)
    OBVIOUS
  <1>5. a \in X /\ b \in X /\ c \in X /\ d \in X
    BY <1>2, <1>4
  <1>6. /\ <<a>> \in Seq(X) /\ <<a, b>> \in Seq(X) /\ <<a, b, c>> \in Seq(X) /\ <<a, b, c, d>> \in Seq(X)
        /\ Append(<<a>>, b) = <<a, b>> /\ Append(<<a, b>>, c) = <<a, b, c>> /\ Append(<<a, b, c>>, d) = <<a, b, c, d>>
        /\ Append(<<>>, a) = <<a>> /\ <<>> \in Seq(X)
    <2>1. <<a>> \in Seq(X) /\ <<a, b>> \in Seq(X) /\ <<a, b, c, d>> \in Seq(X) /\ <<>> \in Seq(X)
      BY <1>5, SymbolTexts, Zenon
    <2>2. \A S : \A x, y, z \in S : <<x, y, z>> \in Seq(S)
      OBVIOUS
    <2>3. <<a, b, c>> \in Seq(X)
      BY <1>5, <2>2, Zenon
    <2> QED
      BY <1>5, <2>1, <2>3, TupleGrows
  <1>7. FlattenSeq(<<a>>) = a
    <2>1. FlattenSeq(Append(<<>>, a)) = FlattenSeq(<<>>) \o a
      BY <1>2, <1>4, <1>6, FlattenAppend
    <2>2. <<>> \o a = a
      BY <1>2
    <2> QED
      BY <1>6, <2>1, <2>2, FlattenNone
  <1>8. FlattenSeq(<<a, b>>) = a \o b
    <2>1. FlattenSeq(Append(<<a>>, b)) = FlattenSeq(<<a>>) \o b
      BY <1>2, <1>4, <1>6, FlattenAppend
    <2> QED
      BY <1>6, <1>7, <2>1
  <1>9. FlattenSeq(<<a, b, c>>) = (a \o b) \o c
    <2>1. FlattenSeq(Append(<<a, b>>, c)) = FlattenSeq(<<a, b>>) \o c
      BY <1>2, <1>4, <1>6, FlattenAppend
    <2> QED
      BY <1>6, <1>8, <2>1
  <1>10. FlattenSeq(<<a, b, c, d>>) = ((a \o b) \o c) \o d
    <2>1. FlattenSeq(Append(<<a, b, c>>, d)) = FlattenSeq(<<a, b, c>>) \o d
      BY <1>2, <1>4, <1>6, FlattenAppend
    <2> QED
      BY <1>6, <1>9, <2>1
  <1>11. PICK t : t = (a \o b) \o c
    OBVIOUS
  <1>12. t = Body(n.surface, n.feature)
    BY <1>1, <1>11, Zenon DEF Body
  <1>13. t \o d = Append(t, "\n")
    <2>1. t \in Seq(Symbols)
      BY <1>2, <1>11, ConcatProperties
    <2>2. \A z \in Symbols : Append(t, z) = t \o <<z>>
      BY <2>1, AppendIsConcat
    <2>3. "\n" \in Symbols
      BY SymbolTexts, Zenon
    <2> QED
      BY <1>1, <2>2, <2>3, Zenon
  <1> QED
    BY <1>3, <1>4, <1>6, <1>10, <1>11, <1>12, <1>13

(* A node without tabs and newlines, and the lines of such nodes.           *)
Plain(n) == /\ n.surface \in Seq(Symbols) /\ n.feature \in Seq(Symbols) /\ n.surface # <<>>
            /\ Clean(n.surface) /\ Clean(n.feature)
LinesOf(ns) == [k \in DOMAIN ns |-> LineOf(ns[k])]
(* All lines, one after the other.                                          *)
LEMMA LinesText ==
  ASSUME NEW m \in Nat, NEW ns, DOMAIN ns = 1 .. m, \A k \in 1 .. m : Plain(ns[k])
  PROVE  /\ LinesOf(ns) \in Seq(Seq(Seq(Symbols)))
         /\ \E h : /\ AreLines(h, [k \in 1 .. m |-> Body(ns[k].surface, ns[k].feature)], m)
                   /\ h[m] = FlattenSeq(FlattenSeq(LinesOf(ns)))
  <1> DEFINE body == [k \in 1 .. m |-> Body(ns[k].surface, ns[k].feature)]
             ls == LinesOf(ns)
             h == [k \in 0 .. m |-> FlattenSeq(FlattenSeq(SubSeq(ls, 1, k)))]
  <1>1. PICK X : X = Seq(Symbols)
    OBVIOUS
  <1>2. \A k \in 1 .. m : ls[k] = LineOf(ns[k]) /\ LineOf(ns[k]) \in Seq(X)
                          /\ FlattenSeq(LineOf(ns[k])) = Append(body[k], "\n")
    <2>1. ASSUME NEW k \in 1 .. m
          PROVE  /\ ls[k] = LineOf(ns[k]) /\ LineOf(ns[k]) \in Seq(Seq(Symbols))
                 /\ FlattenSeq(LineOf(ns[k])) = Append(Body(ns[k].surface, ns[k].feature), "\n")
      <3>1. ls[k] = LineOf(ns[k])
        BY DEF LinesOf
      <3>2. ns[k].surface \in Seq(Symbols) /\ ns[k].feature \in Seq(Symbols)
        BY DEF Plain
      <3> QED
        BY <3>1, <3>2, LineText
    <2> QED
      BY <1>1, <2>1
  <1>3. ls \in Seq(Seq(X)) /\ Len(ls) = m
    <2>1. ls = [k \in 1 .. m |-> LineOf(ns[k])]
      BY DEF LinesOf
    <2> HIDE DEF ls
    <2> QED
      BY <1>2, <2>1
  <1>4. ASSUME NEW k \in 1 .. m PROVE body[k] \in Seq(Symbols) /\ \A i \in DOMAIN body[k] : body[k][i] # "\n"
    <2>1. PICK s, f, t : s = ns[k].surface /\ f = ns[k].feature /\ t = body[k]
      OBVIOUS
    <2>2. s \in Seq(Symbols) /\ f \in Seq(Symbols) /\ Clean(s) /\ Clean(f) /\ t = Body(s, f)
      BY <2>1 DEF Plain
    <2>3. PICK a, b : a = Len(s) /\ b = Len(f)
      OBVIOUS
    <2>4. /\ a \in Nat /\ b \in Nat /\ t \in Seq(Symbols) /\ Len(t) = a + b + 1
          /\ \A i \in 1 .. a : t[i] = s[i]
          /\ t[a + 1] = "\t"
          /\ \A i \in 1 .. b : t[a + 1 + i] = f[i]
      <3>1. /\ Len(s) \in Nat /\ Len(f) \in Nat /\ Body(s, f) \in Seq(Symbols) /\ Len(Body(s, f)) = Len(s) + Len(f) + 1
            /\ \A i \in 1 .. Len(s) : Body(s, f)[i] = s[i]
            /\ Body(s, f)[Len(s) + 1] = "\t"
            /\ \A i \in 1 .. Len(f) : Body(s, f)[Len(s) + 1 + i] = f[i]
        BY <2>2, BodyFacts, Zenon
      <3> QED
        BY <2>2, <2>3, <3>1
    <2>5. (\A i \in 1 .. a : s[i] # "\n") /\ (\A i \in 1 .. b : f[i] # "\n")
      <3>1. DOMAIN s = 1 .. a /\ DOMAIN f = 1 .. b
        BY <2>2, <2>3
      <3> QED
        BY <2>2, <3>1 DEF Clean
    <2>6. ASSUME NEW i \in DOMAIN t PROVE t[i] # "\n"
      <3>1. i \in 1 .. a + b + 1
        BY <2>4
      <3>2. CASE i \in 1 .. a
        BY <2>4, <2>5, <3>2
      <3>3. CASE i = a + 1
        BY <2>4, <3>3
      <3>4. CASE i > a + 1
        <4>1. i - a - 1 \in 1 .. b /\ a + 1 + (i - a - 1) = i
          BY <2>4, <3>1, <3>4
        <4>2. t[i] = f[i - a - 1]
          BY <2>4, <4>1
        <4> QED
          BY <2>5, <4>1, <4>2
      <3> QED
        BY <2>4, <3>1, <3>2, <3>3, <3>4
    <2> QED
      BY <2>1, <2>4, <2>6
  <1>5. ASSUME NEW k \in 1 .. m PROVE h[k] = h[k - 1] \o Append(body[k], "\n")
    <2>1. PICK a, b, l : a = SubSeq(ls, 1, k - 1) /\ b = SubSeq(ls, 1, k) /\ l = ls[k]
      OBVIOUS
    <2>2. k \in 1 .. Len(ls) /\ k \in 0 .. m /\ k - 1 \in 0 .. m
      BY <1>3
    <2>3. b = Append(a, l) /\ a \in Seq(Seq(X)) /\ l \in Seq(X)
      <3> HIDE DEF ls
      <3> QED
        BY <1>3, <2>1, <2>2, HeadOf
    <2>4. FlattenSeq(b) = FlattenSeq(a) \o l /\ FlattenSeq(a) \in Seq(X)
      BY <2>3, FlattenAppend
    <2>5. FlattenSeq(FlattenSeq(a) \o l) = FlattenSeq(FlattenSeq(a)) \o FlattenSeq(l)
      BY <1>1, <2>3, <2>4, FlattenJoined
    <2>6. FlattenSeq(l) = Append(body[k], "\n")
      BY <1>2, <2>1
    <2>7. h[k] = FlattenSeq(FlattenSeq(b)) /\ h[k - 1] = FlattenSeq(FlattenSeq(a))
      BY <2>1, <2>2
    <2> QED
      BY <2>4, <2>5, <2>6, <2>7, Zenon
  <1>6. h[0] = <<>> /\ h[m] = FlattenSeq(FlattenSeq(ls))
    <2> HIDE DEF ls
    <2>1. SubSeq(ls, 1, 0) = <<>> /\ SubSeq(ls, 1, m) = ls
      BY <1>3
    <2>2. h[0] = FlattenSeq(FlattenSeq(SubSeq(ls, 1, 0))) /\ h[m] = FlattenSeq(FlattenSeq(SubSeq(ls, 1, m)))
      OBVIOUS
    <2> QED
      BY <2>1, <2>2, FlattenNone, Zenon
  <1>7. AreLines(h, body, m)
    <2> HIDE DEF h, body
    <2> QED
      BY <1>4, <1>5, <1>6 DEF AreLines
  <1> HIDE DEF h
  <1> QED
    BY <1>1, <1>3, <1>6, <1>7

TokensOf(p) == [i \in 1 .. Len(p) - 2 |-> [surface |-> p[i + 1].surface, feature |-> p[i + 1].feature]]
(* What the default style writes of a path is read back as its tokens.       *)
LEMMA LatticeBack ==
  ASSUME NEW w, w.write = "lattice", NEW t, NEW real, NEW Y, NEW p \in Seq(Y), Len(p) >= 2, \A i \in 2 .. Len(p) - 1 : Plain(p[i])
  PROVE  EntriesOf(FlattenSeq(Write(w, p, t, real).writes) \o <<"0">>) = TokensOf(p)
  <1> DEFINE words == SubSeq(p, 2, Len(p) - 1)
             Line(n) == << n.surface, <<"\t">>, n.feature, <<"\n">> >>
             all == FlattenSeq([i \in DOMAIN words |-> Line(words[i])])
             writes == all \o << <<"EOS", "\n">> >>
  <1>1. Write(w, p, t, real) = Written(writes)
    BY Zenon DEF Write
  <1>2. Write(w, p, t, real).writes = writes
    BY <1>1, WrittenSays, Zenon
  <1>3. all = FlattenSeq(LinesOf(words))
    BY Zenon DEF LinesOf, LineOf
  <1>4. PICK m : m = Len(p) - 2
    OBVIOUS
  <1>5. /\ m \in Nat /\ DOMAIN words = 1 .. m /\ \A k \in 1 .. m : k + 1 \in 2 .. Len(p) - 1 /\ words[k] = p[k + 1]
    <2>1. Len(p) \in Nat /\ 2 \in 1 .. Len(p) + 1 /\ Len(p) - 1 \in 2 - 1 .. Len(p)
      OBVIOUS
    <2>2. /\ words \in Seq(Y) /\ Len(words) = Len(p) - 2
          /\ \A k \in 1 .. Len(p) - 2 : words[k] = p[2 + k - 1]
      <3>1. PICK x, q : x = words /\ q = Len(p) - 1
        OBVIOUS
      <3>2. x = SubSeq(p, 2, q) /\ q \in 2 - 1 .. Len(p)
        BY <2>1, <3>1
      <3>3. q - 2 + 1 = Len(p) - 2 /\ 2 <= q + 1
        BY <2>1, <3>1
      <3>4. x \in Seq(Y) /\ Len(x) = Len(p) - 2 /\ \A k \in 1 .. Len(p) - 2 : x[k] = p[2 + k - 1]
        BY <2>1, <3>2, <3>3, SubSeqProperties
      <3> HIDE DEF words
      <3> QED
        BY <3>1, <3>4
    <2> HIDE DEF words
    <2>3. \A k \in 1 .. m : k + 1 \in 2 .. Len(p) - 1 /\ 2 + k - 1 = k + 1
      BY <1>4, <2>1
    <2>4. DOMAIN words = 1 .. m
      BY <1>4, <2>2
    <2> QED
      BY <1>4, <2>1, <2>2, <2>3, <2>4
  <1> HIDE DEF words
  <1>6. \A k \in 1 .. m : Plain(words[k])
    BY <1>5
  <1> DEFINE body == [k \in 1 .. m |-> Body(words[k].surface, words[k].feature)]
  <1>7. LinesOf(words) \in Seq(Seq(Seq(Symbols)))
    BY <1>5, <1>6, LinesText
  <1>8. PICK h : AreLines(h, body, m) /\ h[m] = FlattenSeq(FlattenSeq(LinesOf(words)))
    BY <1>5, <1>6, LinesText
  <1>9. PICK e, z : e = <<"EOS", "\n">> /\ z = <<"0">>
    BY Zenon
  <1>10. e \in Seq(Symbols) /\ z \in Seq(Symbols) /\ e \o z = Ending
    <2>1. <<"EOS", "\n">> \in Seq(Symbols) /\ <<"0">> \in Seq(Symbols)
      BY SymbolTexts, Zenon
    <2>2. "EOS" \in Symbols /\ "\n" \in Symbols /\ "0" \in Symbols
      BY SymbolTexts, Zenon
    <2>3. Append(<<"EOS", "\n">>, "0") = Ending
      BY <2>2, TupleGrows, Zenon DEF Ending
    <2>4. \A y \in Symbols : Append(e, y) = e \o <<y>>
      <3>1. e \in Seq(Symbols)
        BY <1>9, <2>1
      <3> QED
        BY <3>1, AppendIsConcat, Zenon
    <2>5. e \o z = Ending
      BY <1>9, <2>2, <2>3, <2>4, Zenon
    <2> QED
      BY <1>9, <2>1, <2>5
  <1> HIDE DEF body
  <1>11. FlattenSeq(writes) \o z = h[m] \o Ending
    <2>1. PICK a, X : a = all /\ X = Seq(Symbols)
      OBVIOUS
    <2>2. LinesOf(words) \in Seq(Seq(X))
      BY <1>7, <2>1
    <2>3. a \in Seq(X)
      <3>1. <<>> \in Seq(X)
        OBVIOUS
      <3>2. FlattenSeq(LinesOf(words)) \in Seq(X)
        BY <2>2, <3>1, FlattenAppend
      <3> QED
        BY <1>3, <2>1, <3>2, Zenon
    <2>4. <<e>> \in Seq(Seq(Symbols)) /\ a \in Seq(Seq(Symbols))
      BY <1>10, <2>1, <2>3
    <2>5. FlattenSeq(a \o <<e>>) = FlattenSeq(a) \o FlattenSeq(<<e>>)
      BY <2>4, FlattenJoined
    <2>6. FlattenSeq(<<e>>) = e
      <3>1. PICK ee : ee = <<e>>
        OBVIOUS
      <3>2. Len(ee) = 1 /\ ee[1] = e /\ ee \in Seq(Seq(Symbols))
        BY <2>4, <3>1
      <3>3. FlattenSeq(ee) = ee[1]
        BY <3>2, FlattenLong
      <3> QED
        BY <3>1, <3>2, <3>3
    <2>7. FlattenSeq(a) = h[m]
      BY <1>3, <1>8, <2>1, Zenon
    <2>8. h[m] \in Seq(Symbols)
      <3>1. <<>> \in Seq(Symbols)
        OBVIOUS
      <3>2. FlattenSeq(a) \in Seq(Symbols)
        BY <2>4, <3>1, FlattenAppend
      <3> QED
        BY <2>7, <3>2
    <2>9. writes = a \o <<e>>
      BY <1>9, <2>1, Zenon
    <2>10. FlattenSeq(writes) = h[m] \o e
      BY <2>5, <2>6, <2>7, <2>9, Zenon
    <2>11. (h[m] \o e) \o z = h[m] \o (e \o z)
      <3>1. PICK g : g = h[m]
        OBVIOUS
      <3>2. g \in Seq(Symbols)
        BY <2>8, <3>1
      <3>3. (g \o e) \o z = g \o (e \o z)
        <4>1. e \in Seq(Symbols) /\ z \in Seq(Symbols)
          BY <1>10
        <4> HIDE DEF all, writes, Line
        <4> QED
          BY <3>2, <4>1, ConcatAssociative
      <3> QED
        BY <3>1, <3>3
    <2> QED
      BY <1>10, <2>10, <2>11, Zenon
  <1> DEFINE s == [k \in 1 .. m |-> words[k].surface]
             f == [k \in 1 .. m |-> words[k].feature]
  <1>12. EntriesOf(h[m] \o Ending) = [k \in 1 .. m |-> [surface |-> s[k], feature |-> f[k]]]
    <2>1. AreParts(s, f, body, m)
      BY <1>6 DEF Plain, body, AreParts
    <2> HIDE DEF s, f
    <2> QED
      <3>1. m \in Nat /\ AreLines(h, body, m)
        BY <1>5, <1>8
      <3> HIDE DEF all, writes, Line
      <3> QED
        BY <2>1, <3>1, EntriesBack
  <1>13. [k \in 1 .. m |-> [surface |-> s[k], feature |-> f[k]]] = TokensOf(p)
    <2>1. \A k \in 1 .. m : s[k] = p[k + 1].surface /\ f[k] = p[k + 1].feature
      BY <1>5
    <2> HIDE DEF s, f
    <2>2. TokensOf(p) = [i \in 1 .. m |-> [surface |-> p[i + 1].surface, feature |-> p[i + 1].feature]]
      BY <1>4, Zenon DEF TokensOf
    <2> QED
      BY <2>1, <2>2
  <1> HIDE DEF writes, s, f
  <1> QED
    BY <1>2, <1>9, <1>11, <1>12, <1>13, Zenon

-----------------------------------------------------------------------------
(***************************************************************************)
(* A text that toString gave is read back.  A node that is filed behind    *)
(* BOS at the first position has no surface; and the text of a lattice is  *)
(* what the path it still has was written as.                              *)
(***************************************************************************)
FirstIsEmpty == end_nodes # <<>> /\ end_nodes[0] > 1 => path[end_nodes[0]].surface = <<>>
OfPath == answer.is = "text" /\ answer.of = "path" /\ answer.own /\ Style.write = "lattice"
TextOfPath ==
  OfPath => /\ job.is = "none" /\ Len(FromBos) >= 2
            /\ \E real : answer.text = FlattenSeq(Write(Style, FromBos, text, real).writes) \o <<"0">>
RInv == FirstIsEmpty /\ TextOfPath

(* What a call answers that writes into the buffer of the lattice.           *)
LEMMA RespondWrites ==
  ASSUME NEW w, Says(w), NEW of, buffer \in Nat, Respond(w, of), answer'.is = "text"
  PROVE  answer'.of = of /\ (answer'.own => w.ok /\ answer'.text = FlattenSeq(w.writes) \o <<"0">>)
  <1>1. PICK b \in {Own} \cup {Fixed(n) : n \in Sizes} :
          LET c == Into(b, w.writes)
          IN  /\ buffer' = IF b.own /\ w.ok THEN c.alloc ELSE buffer
              /\ answer' = IF ~w.ok /\ w.what = Overrun THEN OverrunAnswer
                           ELSE IF ~w.ok THEN [is |-> "null", what |-> w.what]
                           ELSE IF c.error THEN [is |-> "null", what |-> "output buffer overflow"]
                           ELSE [is |-> "text", of |-> of, own |-> b.own, text |-> c.text,
                                 whole |-> FlattenSeq(w.writes) \o <<"0">>]
    BY Zenon DEF Respond
  <1>2. PICK c : c = Into(b, w.writes)
    OBVIOUS
  <1>3. answer' = IF ~w.ok /\ w.what = Overrun THEN OverrunAnswer
                  ELSE IF ~w.ok THEN [is |-> "null", what |-> w.what]
                  ELSE IF c.error THEN [is |-> "null", what |-> "output buffer overflow"]
                  ELSE [is |-> "text", of |-> of, own |-> b.own, text |-> c.text,
                        whole |-> FlattenSeq(w.writes) \o <<"0">>]
    BY <1>1, <1>2, Zenon
  <1>4. /\ OverrunAnswer.is # "text" /\ \A x : [is |-> "null", what |-> x].is # "text"
        /\ \A own, t, x : LET a == [is |-> "text", of |-> of, own |-> own, text |-> t, whole |-> x]
                          IN  a.own = own /\ a.text = t /\ a.of = of
    BY DEF OverrunAnswer
  <1>5. w.ok /\ answer'.of = of /\ answer'.own = b.own /\ answer'.text = c.text
    BY <1>3, <1>4, Zenon
  <1>6. ASSUME b.own PROVE c.text = FlattenSeq(w.writes) \o <<"0">>
    <2>1. b = Own
      <3>1. \A n : Fixed(n).own = FALSE
        <4>1. \A y, n : [own |-> y, alloc |-> n, text |-> <<>>, error |-> FALSE].own = y
          OBVIOUS
        <4> QED
          BY <4>1, Zenon DEF Fixed
      <3> QED
        BY <1>6, <3>1
    <2>2. b \in Buffers /\ b.text = <<>>
      <3>1. PICK y, e : y = TRUE /\ e = FALSE
        OBVIOUS
      <3>2. [own |-> y, alloc |-> buffer, text |-> <<>>, error |-> e]
              \in [own : {y}, alloc : Nat, text : Seq(Symbols), error : {e}]
            /\ [own |-> y, alloc |-> buffer, text |-> <<>>, error |-> e].text = <<>>
        OBVIOUS
      <3>3. Own = [own |-> y, alloc |-> buffer, text |-> <<>>, error |-> e]
        BY <3>1, Zenon DEF Own
      <3>4. Buffers = [own : {y}, alloc : Nat, text : Seq(Symbols), error : {e}]
        BY <3>1, Zenon DEF Buffers
      <3> QED
        BY <2>1, <3>2, <3>3, <3>4
    <2>3. w.writes \in Seq(Seq(Symbols))
      BY <1>5 DEF Says
    <2> QED
      BY <1>2, <2>2, <2>3, IntoOwn, Zenon
  <1>7. answer'.own => b.own
    BY <1>5, Zenon
  <1>8. answer'.own => answer'.text = FlattenSeq(w.writes) \o <<"0">>
    BY <1>5, <1>6, <1>7, Zenon
  <1> QED
    BY <1>5, <1>8, Zenon

(* toString of a lattice answers with what the path was written as.         *)
LEMMA ToStringReads ==
  ASSUME SInv, DInv, WInv, RInv, ToStringCall PROVE RInv'
  <1>1. UNCHANGED <<writer, text, end_nodes, path, job, sentence>> /\ Calling
    BY DEF ToStringCall, KeepLattice
  <1>2. FirstIsEmpty'
    BY <1>1 DEF RInv, FirstIsEmpty
  <1>3. Style' = Style /\ FromBos' = FromBos
    BY <1>1 DEF Style, FromBos
  <1>4. ASSUME OfPath'
        PROVE  /\ job.is = "none" /\ Len(FromBos) >= 2
               /\ \E real : answer'.text = FlattenSeq(Write(Style, FromBos, text, real).writes) \o <<"0">>
    <2>1. answer'.is = "text" /\ answer'.own /\ Style.write = "lattice"
      BY <1>3, <1>4 DEF OfPath
    <2>2. ~Dies
      <3>1. Died.is # "text"
        BY DEF Died
      <3> QED
        BY <2>1, <3>1 DEF ToStringCall
    <2>3. PICK real \in Reals :
            Respond(IF Unavailable THEN Failed("") ELSE Write(Style, FromBos, text, real), "path")
      BY <2>2, Zenon DEF ToStringCall
    <2>4. ~Unavailable
      <3>1. CASE Unavailable
        <4>1. Respond(Failed(""), "path")
          BY <2>3, <3>1, Zenon
        <4>2. Says(Failed("")) /\ ~Failed("").ok
          BY WrittenSays
        <4> QED
          BY <2>1, <4>1, <4>2, RespondWrites DEF WInv
      <3> QED
        BY <3>1
    <2>5. FromBos \in Seq(AnyNode) /\ Len(FromBos) \in Nat
      BY BehindBos DEF WInv
    <2>6. Len(FromBos) >= 2
      <3>1. PICK k : k = Len(FromBos)
        OBVIOUS
      <3>2. ~(k < 2)
        BY <2>1, <2>2, <2>4, <3>1, Zenon DEF Dies
      <3> QED
        BY <2>5, <3>1, <3>2
    <2>7. Says(Write(Style, FromBos, text, real))
      <3>1. Styled(Style)
        BY StyleKnown DEF WInv
      <3>2. text \in Seq(Symbols)
        BY SymbolTexts DEF WInv
      <3> QED
        BY <2>5, <2>6, <3>1, <3>2, WriteSays
    <2>8. answer'.text = FlattenSeq(Write(Style, FromBos, text, real).writes) \o <<"0">>
      <3>1. Respond(Write(Style, FromBos, text, real), "path")
        BY <2>3, <2>4, Zenon
      <3>2. PICK w : w = Write(Style, FromBos, text, real)
        OBVIOUS
      <3>3. Says(w) /\ Respond(w, "path")
        BY <2>7, <3>1, <3>2, Zenon
      <3>4. answer'.text = FlattenSeq(w.writes) \o <<"0">>
        BY <2>1, <3>3, RespondWrites DEF WInv
      <3> QED
        BY <3>2, <3>4, Zenon
    <2>9. job.is = "none"
      <3>1. CASE job = NoJob
        BY <3>1 DEF NoJob
      <3>2. CASE job.is = "analysis"
        <4>1. path = <<>>
          BY <3>2 DEF DInv, Empty
        <4>2. end_nodes # <<>> => end_nodes[0] = 0
          BY <4>1 DEF WInv, BosInPath
        <4>3. FromBos = <<>>
          BY <4>2 DEF FromBos
        <4> QED
          BY <2>6, <4>3
      <3> QED
        BY <1>1, <3>1, <3>2 DEF Calling
    <2> QED
      BY <2>6, <2>8, <2>9
  <1>5. TextOfPath'
    BY <1>1, <1>3, <1>4 DEF TextOfPath
  <1> QED
    BY <1>2, <1>5 DEF RInv

(* An answer names the call that gave it.                                   *)
LEMMA AnswerOf ==
  ASSUME NEW w, NEW of, Respond(w, of), answer'.is = "text" PROVE answer'.of = of
  <1>1. PICK b \in {Own} \cup {Fixed(n) : n \in Sizes} :
          LET c == Into(b, w.writes)
          IN  /\ buffer' = IF b.own /\ w.ok THEN c.alloc ELSE buffer
              /\ answer' = IF ~w.ok /\ w.what = Overrun THEN OverrunAnswer
                           ELSE IF ~w.ok THEN [is |-> "null", what |-> w.what]
                           ELSE IF c.error THEN [is |-> "null", what |-> "output buffer overflow"]
                           ELSE [is |-> "text", of |-> of, own |-> b.own, text |-> c.text,
                                 whole |-> FlattenSeq(w.writes) \o <<"0">>]
    BY Zenon DEF Respond
  <1>2. PICK c : c = Into(b, w.writes)
    OBVIOUS
  <1>3. answer' = IF ~w.ok /\ w.what = Overrun THEN OverrunAnswer
                  ELSE IF ~w.ok THEN [is |-> "null", what |-> w.what]
                  ELSE IF c.error THEN [is |-> "null", what |-> "output buffer overflow"]
                  ELSE [is |-> "text", of |-> of, own |-> b.own, text |-> c.text,
                        whole |-> FlattenSeq(w.writes) \o <<"0">>]
    BY <1>1, <1>2, Zenon
  <1>4. /\ OverrunAnswer.is # "text" /\ \A x : [is |-> "null", what |-> x].is # "text"
        /\ \A own, t, x : LET a == [is |-> "text", of |-> of, own |-> own, text |-> t, whole |-> x]
                          IN  a.own = own /\ a.text = t /\ a.of = of
    BY DEF OverrunAnswer
  <1> QED
    BY <1>3, <1>4, Zenon

(* The other output calls answer with another text.                         *)
LEMMA OthersRead ==
  ASSUME SInv, DInv, WInv, RInv, ToStringNode \/ \E n \in 0 .. NBEST_MAX + 1 : EnumNBestAsString(n)
  PROVE  RInv'
  <1>1. UNCHANGED end_nodes
    BY DEF ToStringNode, EnumNBestAsString, KeepLattice
  <1>2. \E w : Respond(w, "node") \/ Respond(w, "list")
    <2>1. CASE ToStringNode
      BY <2>1, Zenon DEF ToStringNode
    <2>2. CASE \E n \in 0 .. NBEST_MAX + 1 : EnumNBestAsString(n)
      BY <2>2, EnumTakes
    <2> QED
      BY <2>1, <2>2
  <1>3. ~OfPath'
    <2>1. PICK w : Respond(w, "node") \/ Respond(w, "list")
      BY <1>2
    <2>2. answer'.is = "text" => answer'.of \in {"node", "list"}
      BY <2>1, AnswerOf
    <2> QED
      BY <2>2 DEF OfPath
  <1>4. FirstIsEmpty'
    <2>1. CASE path' = path
      BY <1>1, <2>1 DEF RInv, FirstIsEmpty
    <2>2. CASE path' # path
      <3>1. ~ToStringNode
        BY <2>2 DEF ToStringNode, KeepLattice
      <3>2. PICK n \in 0 .. NBEST_MAX + 1 : EnumNBestAsString(n)
        BY <3>1
      <3>3. job.is # "result" /\ \E t \in 1 .. Len(results) : path' = results[t]
        BY <2>2, <3>2, EnumTakes
      <3>4. results # <<>>
        <4>1. PICK t \in 1 .. Len(results) : TRUE
          BY <3>3
        <4> QED
          BY <4>1
      <3>5. end_nodes[0] = 1
        BY <3>3, <3>4 DEF DInv, Empty, Found
      <3> QED
        BY <1>1, <3>5 DEF FirstIsEmpty
    <2> QED
      BY <2>1, <2>2
  <1> QED
    BY <1>3, <1>4 DEF RInv, TextOfPath

(* What fills a lattice leaves its text only where there is nothing to do.  *)
LEMMA AnswerLeft ==
  ASSUME SInv, DInv, WInv, RInv,
         (\E a \in Analyses : SetSentence(a)) \/ (\E r \in Results : SetResult(r)) \/ CopySentence \/ SetOwnSentence
         \/ CopyIn \/ Analyze \/ ResultBos \/ ResultEos \/ NextEntry \/ EntryTooLong \/ LinkEos \/ Read \/ UNCHANGED vars
  PROVE  TextOfPath'
  <1>1. CASE (\E a \in Analyses : SetSentence(a)) \/ (\E r \in Results : SetResult(r)) \/ Read
    <2>1. answer' = NoAnswer
      BY <1>1 DEF SetSentence, SetResult, Read
    <2>2. NoAnswer.is # "text"
      BY DEF NoAnswer
    <2> QED
      BY <2>1, <2>2 DEF TextOfPath, OfPath
  <1>2. CASE CopySentence \/ SetOwnSentence \/ CopyIn \/ Analyze \/ ResultBos \/ ResultEos \/ NextEntry \/ LinkEos
    <2>1. UNCHANGED <<answer, writer>> /\ job.is # "none"
      BY <1>2 DEF CopySentence, SetOwnSentence, CopyIn, Analyze, ResultBos, ResultEos, NextEntry, LinkEos, Stage, KeepOutput
    <2>2. ~OfPath
      BY <2>1 DEF RInv, TextOfPath
    <2> QED
      BY <2>1, <2>2 DEF TextOfPath, OfPath, Style
  <1>4. CASE EntryTooLong
    <2>1. answer' = Threw
      BY <1>4, TooLongFacts
    <2>2. Threw.is # "text"
      BY DEF Threw
    <2> QED
      BY <2>1, <2>2 DEF TextOfPath, OfPath
  <1>3. CASE UNCHANGED vars
    <2>1. UNCHANGED <<answer, writer, path, end_nodes, text, job>>
      BY <1>3 DEF vars, latticeVars
    <2>2. Style' = Style /\ FromBos' = FromBos
      BY <2>1 DEF Style, FromBos
    <2> QED
      BY <2>1, <2>2 DEF RInv, TextOfPath, OfPath
  <1> QED
    BY <1>1, <1>2, <1>3, <1>4

(* A node is filed at the first position behind BOS if it has no surface.   *)
LEMMA EntryIsEmpty ==
  ASSUME SInv, DInv, WInv, FirstIsEmpty, NextEntry PROVE FirstIsEmpty'
  <1> DEFINE i == Len(path)
             x == job.entries[i]
             n == [BosNode EXCEPT !.stat = "NOR", !.surface = x.surface, !.feature = x.feature]
             to == Len(Spelled(SubSeq(job.entries, 1, i)))
  <1>1. /\ Stage("entries") /\ i <= Len(job.entries) /\ path' = Append(path, n)
        /\ end_nodes' = [end_nodes EXCEPT ![to] = i + 1]
    BY DEF NextEntry
  <1>2. job \in ResultJobs /\ job.is = "result" /\ job.stage = "entries"
    BY <1>1, JobFacts DEF SInv, Stage, Runs
  <1>3. path \in Seq(AnyNode) /\ i \in Nat /\ i \in 1 .. Len(job.entries) + 1
    BY <1>2 DEF SInv, Held, Walked, DInv
  <1>4. job.entries \in Seq(Entries) /\ i \in 1 .. Len(job.entries)
    BY <1>1, <1>2, <1>3 DEF ResultJobs
  <1>5. Partial
    BY <1>2 DEF DInv
  <1>6. x \in Entries
    BY <1>4
  <1>7. n \in AnyNode
    <2> HIDE DEF x
    <2> QED
      BY <1>6, NodesMade
  <1>8. n.surface = x.surface
    <2> HIDE DEF x
    <2>1. \A su, fe, li : LET b == [stat |-> "BOS", surface |-> <<>>, space |-> <<>>, feature |-> <<"B">>, paths |-> <<>>, likely |-> li]
                          IN  [b EXCEPT !.stat = "NOR", !.surface = su, !.feature = fe].surface = su
      OBVIOUS
    <2> QED
      BY <2>1, Zenon DEF BosNode
  <1>9. to = 0 => x.surface = <<>>
    <2>1. PICK e : e = SubSeq(job.entries, 1, i)
      OBVIOUS
    <2>2. e \in Seq(Entries) /\ Len(e) = i /\ e[i] = x /\ i # 0
      <3>1. \A k \in 1 .. i : job.entries[k] \in Entries
        BY <1>4
      <3>2. i \in Nat /\ 1 <= i
        BY <1>4
      <3> HIDE DEF i
      <3>3. e \in Seq(Entries) /\ Len(e) = i /\ e[i] = job.entries[i]
        BY <2>1, <3>1, <3>2, SubSeqProperties
      <3> QED
        BY <3>2, <3>3
    <2> HIDE DEF x, i
    <2> DEFINE f == [k \in DOMAIN e |-> e[k].surface]
    <2>3. Spelled(e) = FlattenSeq(f)
      BY Zenon DEF Spelled
    <2>4. f \in Seq(Seq(STRING)) /\ Len(f) = i /\ f[i] = x.surface
      <3>1. i \in Nat
        BY <1>3
      <3>2. DOMAIN e = 1 .. i /\ i \in 1 .. i
        BY <2>2, <3>1
      <3>3. \A k \in 1 .. i : e[k].surface \in Seq(STRING)
        <4>1. \A k \in 1 .. i : e[k] \in Entries
          BY <2>2, <3>2
        <4> QED
          BY <4>1 DEF Entries
      <3> QED
        BY <2>2, <3>1, <3>2, <3>3
    <2> HIDE DEF f
    <2>5. Len(x.surface) <= Len(FlattenSeq(f)) /\ FlattenSeq(f) \in Seq(STRING)
      <3>1. FlattenSeq(f) \in Seq(STRING) /\ Len(f[Len(f)]) <= Len(FlattenSeq(f))
        BY <2>2, <2>4, FlattenLong
      <3> QED
        BY <2>4, <3>1
    <2>6. to = Len(FlattenSeq(f))
      BY <2>1, <2>3, Zenon
    <2>7. x.surface \in Seq(STRING)
      BY <1>6 DEF Entries
    <2> HIDE DEF to
    <2> QED
      BY <2>5, <2>6, <2>7, EmptySeq
  <1> HIDE DEF n, to, x
  <1>10. path' \in Seq(AnyNode) /\ path'[i + 1] = n /\ \A k \in 1 .. i : path'[k] = path[k]
    BY <1>1, <1>3, <1>7
  <1> HIDE DEF i
  <1>11. Positions /\ end_nodes[0] \in 1 .. i /\ end_nodes # <<>>
    <2>1. 0 \in DOMAIN end_nodes /\ end_nodes[0] \in 1 .. i /\ Positions
      BY <1>5 DEF Partial, Positions, i
    <2>2. DOMAIN <<>> = {}
      OBVIOUS
    <2> QED
      BY <2>1, <2>2
  <1>12. CASE to = 0
    <2>1. end_nodes'[0] = i + 1
      BY <1>1, <1>11, <1>12 DEF Positions
    <2>2. path'[i + 1].surface = <<>>
      BY <1>8, <1>9, <1>10, <1>12
    <2> QED
      BY <2>1, <2>2 DEF FirstIsEmpty
  <1>13. CASE to # 0
    <2>1. end_nodes'[0] = end_nodes[0]
      BY <1>1, <1>11, <1>13 DEF Positions
    <2>2. end_nodes[0] > 1 => path[end_nodes[0]].surface = <<>>
      BY <1>11 DEF FirstIsEmpty
    <2>3. path'[end_nodes[0]] = path[end_nodes[0]]
      BY <1>10, <1>11
    <2> QED
      BY <2>1, <2>2, <2>3 DEF FirstIsEmpty
  <1> QED
    BY <1>12, <1>13

(* The other steps file BOS at the first position, or nothing.              *)
LEMMA FirstKept ==
  ASSUME SInv, DInv, WInv, FirstIsEmpty,
         (\E a \in Analyses : SetSentence(a)) \/ (\E r \in Results : SetResult(r)) \/ CopySentence \/ SetOwnSentence
         \/ CopyIn \/ Analyze \/ ResultBos \/ ResultEos \/ NextEntry \/ EntryTooLong \/ LinkEos \/ Read \/ UNCHANGED vars
  PROVE  FirstIsEmpty'
  <1>0. ASSUME NEW m \in Nat, end_nodes' = [p \in 0 .. m + 3 |-> 0] PROVE FirstIsEmpty'
    <2>1. end_nodes'[0] = 0
      BY <1>0, SMT
    <2> QED
      BY <2>1 DEF FirstIsEmpty
  <1>1. CASE \E a \in Analyses : SetSentence(a)
    <2>1. PICK a \in Analyses : SetSentence(a)
      BY <1>1
    <2>2. a.text \in Seq(STRING) /\ end_nodes' = [p \in 0 .. Len(a.text) + 3 |-> 0]
      BY <2>1, InputsAssumption DEF SetSentence, Cleared
    <2>3. Len(a.text) \in Nat
      BY <2>2
    <2> QED
      BY <1>0, <2>2, <2>3
  <1>2. CASE SetOwnSentence
    <2> DEFINE t == Spelled(job.entries)
    <2>1. end_nodes' = [p \in 0 .. Len(t) + 3 |-> 0]
      BY <1>2 DEF SetOwnSentence, Cleared
    <2>2. job \in ResultJobs
      BY <1>2, JobFacts DEF SInv, SetOwnSentence, Stage
    <2>3. t \in Seq(STRING)
      BY <2>2, SpelledText DEF ResultJobs
    <2>4. Len(t) \in Nat
      BY <2>3
    <2> QED
      BY <1>0, <2>1, <2>4
  <1>3. CASE Analyze
    <2>1. path' = IF job.paths = <<>> THEN <<BosNode>> ELSE Head(job.paths)
      BY <1>3 DEF Analyze
    <2>2. end_nodes' = EndsOf(path') /\ job.is = "analysis"
      BY <1>3 DEF Analyze
    <2>3. job.paths \in Seq(Paths) /\ 0 \in DOMAIN end_nodes
      BY <2>2, JobFacts DEF SInv, AnalysisJobs, DInv, Empty, Positions
    <2>4. CASE job.paths = <<>>
      <3>1. PICK p : p = <<BosNode>>
        OBVIOUS
      <3>2. p \in Seq(AnyNode) /\ Len(p) = 1
        BY <3>1, OnlyBos, Zenon
      <3>3. EndsOf(p)[0] \in 0 .. 1
        BY <2>3, <3>2, EndsInside
      <3> QED
        BY <2>1, <2>2, <2>4, <3>1, <3>3 DEF FirstIsEmpty
    <2>5. CASE job.paths # <<>>
      <3>1. PICK p : p = path'
        OBVIOUS
      <3>2. p \in Paths
        BY <2>1, <2>3, <2>5, <3>1
      <3>3. EndsOf(p)[0] = 1
        BY <2>3, <3>2, BosFiled
      <3> QED
        BY <2>2, <3>1, <3>3 DEF FirstIsEmpty
    <2> QED
      BY <2>4, <2>5
  <1>4. CASE ResultBos
    <2>1. end_nodes' = [end_nodes EXCEPT ![0] = 1] /\ job.is = "result" /\ job.stage = "ready"
      BY <1>4 DEF ResultBos, Stage
    <2>2. Positions
      BY <2>1 DEF DInv, Empty
    <2>3. end_nodes'[0] = 1
      BY <2>1, <2>2 DEF Positions
    <2> QED
      BY <2>3 DEF FirstIsEmpty
  <1>5. CASE LinkEos
    <2>1. end_nodes' = end_nodes /\ path' = Append(path, EosNode)
      BY <1>5 DEF LinkEos
    <2>2. path \in Seq(AnyNode) /\ EosNode \in AnyNode
      BY Zenon DEF AnyNode, DInv
    <2>3. \A k \in 1 .. Len(path) : path'[k] = path[k]
      BY <2>1, <2>2
    <2>4. end_nodes # <<>> /\ end_nodes[0] > 1 => end_nodes[0] \in 1 .. Len(path)
      <3>1. end_nodes # <<>> => end_nodes[0] \in 0 .. Len(path)
        BY DEF WInv, BosInPath
      <3> QED
        BY <3>1
    <2> QED
      BY <2>1, <2>3, <2>4 DEF FirstIsEmpty
  <1>6. CASE (\E r \in Results : SetResult(r)) \/ CopySentence \/ CopyIn \/ ResultEos \/ Read \/ UNCHANGED vars
    <2>1. UNCHANGED <<path, end_nodes>>
      BY <1>6 DEF SetResult, CopySentence, CopyIn, ResultEos, Read, vars, latticeVars
    <2> QED
      BY <2>1 DEF FirstIsEmpty
  <1>7. CASE NextEntry
    BY <1>7, EntryIsEmpty
  <1>8. CASE EntryTooLong
    <2>1. end_nodes' = end_nodes /\ \A k \in 1 .. Len(path) : path'[k] = path[k]
      BY <1>8, TooLongFacts
    <2>2. end_nodes # <<>> /\ end_nodes[0] > 1 => end_nodes[0] \in 1 .. Len(path)
      <3>1. end_nodes # <<>> => end_nodes[0] \in 0 .. Len(path)
        BY DEF WInv, BosInPath
      <3> QED
        BY <3>1
    <2> QED
      BY <2>1, <2>2 DEF FirstIsEmpty
  <1> QED
    BY <1>1, <1>2, <1>3, <1>4, <1>5, <1>6, <1>7, <1>8

(* A text whose tokens all have a surface was written from BOS on.          *)
LEMMA TextReadsBack ==
  ASSUME DInv, WInv, RInv PROVE ReadsBack
  <1> SUFFICES ASSUME OfPath,
                      \A i \in DOMAIN Tokens :
                        Tokens[i].surface # <<>> /\ Clean(Tokens[i].surface) /\ Clean(Tokens[i].feature)
               PROVE  EntriesOf(answer.text) = Tokens
    BY DEF ReadsBack, OfPath
  <1>1. PICK real :
          Len(FromBos) >= 2 /\ answer.text = FlattenSeq(Write(Style, FromBos, text, real).writes) \o <<"0">>
    BY DEF RInv, TextOfPath
  <1>2. PICK b, n : b = end_nodes[0] /\ n = Len(path)
    OBVIOUS
  <1>3. path \in Seq(AnyNode) /\ n \in Nat
    BY <1>2 DEF DInv
  <1>4. end_nodes # <<>> /\ b \in 1 .. n /\ FromBos = SubSeq(path, b, n)
    <2>1. CASE end_nodes = <<>> \/ end_nodes[0] = 0
      <3>1. Len(FromBos) = 0
        BY <2>1 DEF FromBos
      <3> QED
        BY <1>1, <3>1
    <2>2. CASE ~(end_nodes = <<>> \/ end_nodes[0] = 0)
      <3>1. b \in 0 .. n /\ b # 0
        BY <1>2, <2>2 DEF WInv, BosInPath
      <3>2. FromBos = SubSeq(path, b, n)
        BY <1>2, <2>2 DEF FromBos
      <3> QED
        BY <1>3, <2>2, <3>1, <3>2
    <2> QED
      BY <2>1, <2>2
  <1>5. b <= n - 1
    <2>1. Len(FromBos) = n - b + 1
      BY <1>2, <1>3, <1>4, SubSeqProperties
    <2> QED
      BY <1>1, <1>3, <1>4, <2>1
  <1>6. /\ DOMAIN Tokens = 1 .. n - 2
        /\ \A i \in 1 .. n - 2 : Tokens[i].surface = path[i + 1].surface /\ Tokens[i].feature = path[i + 1].feature
    <2>1. Tokens = [i \in 1 .. n - 2 |-> [surface |-> path[i + 1].surface, feature |-> path[i + 1].feature]]
      BY <1>2, Zenon DEF Tokens
    <2> QED
      BY <2>1
  <1>7. b = 1
    <2>1. ASSUME b > 1 PROVE FALSE
      <3>1. path[b].surface = <<>>
        BY <1>2, <1>4, <2>1 DEF RInv, FirstIsEmpty
      <3>2. b - 1 \in 1 .. n - 2 /\ (b - 1) + 1 = b
        BY <1>3, <1>4, <1>5, <2>1
      <3>3. Tokens[b - 1].surface = path[b].surface /\ b - 1 \in DOMAIN Tokens
        BY <1>6, <3>2
      <3> QED
        BY <3>1, <3>3
    <2> QED
      BY <1>4, <2>1
  <1>8. FromBos = path
    BY <1>2, <1>3, <1>4, <1>7, SubSeqFull
  <1>9. \A i \in 2 .. n - 1 : Plain(path[i])
    <2>1. ASSUME NEW i \in 2 .. n - 1 PROVE Plain(path[i])
      <3>1. i - 1 \in 1 .. n - 2 /\ (i - 1) + 1 = i /\ i \in 1 .. n
        BY <1>3
      <3>2. Tokens[i - 1].surface = path[i].surface /\ Tokens[i - 1].feature = path[i].feature /\ i - 1 \in DOMAIN Tokens
        BY <1>6, <3>1
      <3>3. path[i].surface # <<>> /\ Clean(path[i].surface) /\ Clean(path[i].feature)
        BY <3>2
      <3>4. path[i] \in AnyNode
        BY <1>2, <1>3, <3>1
      <3>5. path[i].surface \in Seq(Symbols) /\ path[i].feature \in Seq(Symbols)
        BY <3>4, AnyWritable DEF Writable
      <3> QED
        BY <3>3, <3>5 DEF Plain
    <2> QED
      BY <2>1
  <1>10. EntriesOf(FlattenSeq(Write(Style, path, text, real).writes) \o <<"0">>) = TokensOf(path)
    <2>1. Style.write = "lattice" /\ Len(path) >= 2 /\ \A i \in 2 .. Len(path) - 1 : Plain(path[i])
      BY <1>1, <1>2, <1>8, <1>9 DEF OfPath
    <2> QED
      BY <1>3, <2>1, LatticeBack
  <1>11. Tokens = TokensOf(path)
    BY Zenon DEF Tokens, TokensOf
  <1> QED
    BY <1>1, <1>8, <1>10, <1>11, Zenon

(* set_result understands what toString writes, for any analyses, results   *)
(* and formats and any number of calls: the text of the default style gives *)
(* the tokens of the path again.                                            *)
THEOREM ResultsReadBack == Spec => []ReadsBack
  <1>1. Init => SInv /\ DInv /\ WInv /\ RInv
    <2>1. Init => end_nodes = <<>> /\ answer.is # "text"
      BY DEF Init, NoAnswer
    <2>2. Init => RInv
      BY <2>1 DEF RInv, FirstIsEmpty, TextOfPath, OfPath
    <2> QED
      BY <2>2, SInvStart, DInvStart, WInvStart
  <1>2. SInv /\ DInv /\ WInv /\ RInv /\ [Next]_vars => (SInv /\ DInv /\ WInv /\ RInv)'
    <2> SUFFICES ASSUME SInv, DInv, WInv, RInv, [Next]_vars PROVE (SInv /\ DInv /\ WInv /\ RInv)'
      OBVIOUS
    <2>1. SInv' /\ DInv' /\ WInv'
      BY SInvStep, DInvStep, WInvStep
    <2>2. CASE ToStringCall
      BY <2>1, <2>2, ToStringReads
    <2>3. CASE ToStringNode \/ \E n \in 0 .. NBEST_MAX + 1 : EnumNBestAsString(n)
      BY <2>1, <2>3, OthersRead
    <2>4. CASE (\E a \in Analyses : SetSentence(a)) \/ (\E r \in Results : SetResult(r)) \/ CopySentence
               \/ SetOwnSentence \/ CopyIn \/ Analyze \/ ResultBos \/ ResultEos \/ NextEntry \/ EntryTooLong \/ LinkEos \/ Read
               \/ UNCHANGED vars
      <3>1. TextOfPath'
        BY <2>4, AnswerLeft
      <3>2. FirstIsEmpty'
        BY <2>4, FirstKept DEF RInv
      <3> QED
        BY <2>1, <3>1, <3>2 DEF RInv
    <2> QED
      BY <2>2, <2>3, <2>4 DEF Next
  <1>3. DInv /\ WInv /\ RInv => ReadsBack
    BY TextReadsBack
  <1> QED
    BY <1>1, <1>2, <1>3, PTL DEF Spec
=============================================================================

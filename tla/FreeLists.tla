------------------------------ MODULE FreeLists ------------------------------
(* The memory of a lattice (freelist.h, Allocator in tokenizer.h): nodes    *)
(* come out of arrays of one size, texts out of chunks of any size.  free   *)
(* gives nothing back: both lists start again at their first array, and    *)
(* what was handed out before stays readable until it is handed out again. *)
EXTENDS Integers, Sequences

CONSTANTS
  NodeArray,  \* NODE_FREELIST_SIZE, 512
  ChunkMin    \* BUF_SIZE, 8192

ASSUME SizeAssumption == NodeArray \in Nat \ {0} /\ ChunkMin \in Nat \ {0}

VARIABLES
  chunks,  \* freelist_ of char_freelist_: the sizes of its chunks
  at,      \* li_ and pi_ of char_freelist_
  nodes,   \* node_freelist_: how many arrays, li_ and pi_
  given,   \* the texts handed out since the last free, in order
  stale,   \* older ones of which no cell has been handed out again
  cells    \* the nodes handed out since the last free, in order

memoryVars == <<chunks, at, nodes, given, stale, cells>>

MemoryInit ==
  /\ chunks = <<>> /\ at = [li |-> 0, pi |-> 0]
  /\ nodes = [arrays |-> 0, li |-> 0, pi |-> 0]
  /\ given = <<>> /\ stale = {} /\ cells = <<>>

Apart(x, y) == x.chunk # y.chunk \/ x.to <= y.from \/ y.to <= x.from

(* ChunkFreeList::alloc goes on to the first chunk with more than req cells *)
(* left, and adds one when there is none.  A chunk is never quite filled.   *)
From(i) == IF i = at.li THEN at.pi ELSE 0
FittingAnywhere(req) ==  \* a fault: chunks in front of li_ taken again
  {i \in 0 .. Len(chunks) - 1 : From(i) + req < chunks[i + 1]}
Fitting(req) == {i \in at.li .. Len(chunks) - 1 : From(i) + req < chunks[i + 1]}
Block(i, from, req) == [chunk |-> i, from |-> from, to |-> from + req]
NextBlock(req) ==
  IF Fitting(req) = {} THEN Block(Len(chunks), 0, req)
  ELSE LET i == CHOOSE j \in Fitting(req) : \A k \in Fitting(req) : j <= k
       IN  Block(i, From(i), req)

AllocText(req) ==
  LET b == NextBlock(req)
  IN  /\ req \in Nat  \* a size_t
      /\ chunks' = IF Fitting(req) # {} THEN chunks
                   ELSE Append(chunks, IF req > ChunkMin THEN req ELSE ChunkMin)
      /\ at' = [li |-> b.chunk, pi |-> b.to]
      /\ given' = Append(given, b)
      /\ stale' = {x \in stale : Apart(x, b)}

(* FreeList::alloc as newNode calls it: the next cell of the array, or the  *)
(* first one of the next array.                                            *)
NextCellLate ==  \* a fault: one cell too many of each array
  IF nodes.pi > NodeArray THEN [li |-> nodes.li + 1, pi |-> 0]
  ELSE [li |-> nodes.li, pi |-> nodes.pi]
NextCell ==
  IF nodes.pi = NodeArray THEN [li |-> nodes.li + 1, pi |-> 0]
  ELSE [li |-> nodes.li, pi |-> nodes.pi]
NewNode ==
  /\ nodes' = [li |-> NextCell.li, pi |-> NextCell.pi + 1,
               arrays |-> IF NextCell.li = nodes.arrays THEN nodes.arrays + 1 ELSE nodes.arrays]
  /\ cells' = Append(cells, NextCell)

(* Allocator::free.                                                          *)
FreeAll ==
  /\ at' = [li |-> 0, pi |-> 0] /\ nodes' = [nodes EXCEPT !.li = 0, !.pi = 0]
  /\ stale' = stale \cup {given[i] : i \in DOMAIN given}
  /\ given' = <<>> /\ cells' = <<>>
  /\ UNCHANGED chunks

(* Any calls of the allocator, in any order.                                 *)
MemoryNext ==
  \/ \E req \in Nat : AllocText(req) /\ (NewNode \/ UNCHANGED <<nodes, cells>>)
  \/ NewNode /\ UNCHANGED <<chunks, at, given, stale>>
  \/ FreeAll
MemorySpec == MemoryInit /\ [][MemoryNext]_memoryVars
-----------------------------------------------------------------------------
(* No cell is handed out twice between two frees (freelist.h:28, 61).        *)
NoCellTwice ==
  /\ \A i, j \in DOMAIN given : i < j => Apart(given[i], given[j])
  /\ \A i, j \in DOMAIN cells : i < j => cells[i] # cells[j]

(* Every text lies in its chunk, every node in its array.                    *)
InsideChunks ==
  /\ \A i \in DOMAIN given : given[i].chunk < Len(chunks)
                             /\ given[i].to <= chunks[given[i].chunk + 1]
  /\ \A i \in DOMAIN cells : cells[i].li < nodes.arrays /\ cells[i].pi < NodeArray
=============================================================================

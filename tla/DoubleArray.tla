----------------------------- MODULE DoubleArray -----------------------------
(* The double-array trie behind every dictionary (darts.h): build places   *)
(* the children of one node after the other into one array of [base,       *)
(* check] cells, commonPrefixSearch and exactMatchSearch walk it.  The     *)
(* child with code c of the node with base b is the cell b + c, which is   *)
(* the node's child if and only if its check is b.                         *)
(*                                                                         *)
(* The recursion of insert is the stack; one iteration of its search for a *)
(* place, one child and one return are a step each.                        *)
EXTENDS Integers, Sequences, FiniteSets

CONSTANTS
  MaxByte,       \* the largest byte (255)
  InitialAlloc,  \* the cells of the first allocation (8192)
  GrowPercent    \* the least growth of one allocation, in percent (105)

(* One growth makes room for every code: insert grows once, not until it fits. *)
ASSUME ArrayConstants ==
  /\ MaxByte \in Nat \ {0} /\ InitialAlloc \in Nat /\ GrowPercent \in Nat
  /\ InitialAlloc * GrowPercent >= 100 * (InitialAlloc + MaxByte + 2)

VARIABLES
  keys,            \* key_ : the keys in ascending order, bytes 1 .. MaxByte
  values,          \* value_ : a value per key
  array,           \* array_ : cells 0 .. alloc_size_ - 1
  used,            \* used_ : the bases given to nodes
  size,            \* size_
  next_check_pos,  \* next_check_pos_
  progress,        \* progress_ : leaves written
  stack,           \* the calls of insert, innermost first
  phase            \* "idle", "insert", "built" or "failed"

arrayVars ==
  <<keys, values, array, used, size, next_check_pos, progress, stack, phase>>

Cell == [base : Int, check : Nat]
Empty == [base |-> 0, check |-> 0]
Larger(a, b) == IF a > b THEN a ELSE b
alloc == Cardinality(DOMAIN array)
CellAt(p) == IF p < alloc THEN array[p] ELSE Empty
Codes == 0 .. MaxByte + 1
-----------------------------------------------------------------------------
(* fetch: the children of the keys left .. right - 1 at a depth, by their   *)
(* next code; code 0 ends a key.                                           *)
CodeOf(ks, i, depth) == IF Len(ks[i]) = depth THEN 0 ELSE ks[i][depth + 1] + 1
Held(ks, left, right, depth) == {i \in left .. right - 1 : Len(ks[i]) >= depth}
ChildCodes(ks, node) ==
  {CodeOf(ks, i, node.depth) : i \in Held(ks, node.left, node.right, node.depth)}
Sorted(ks, node) ==
  \A i, j \in Held(ks, node.left, node.right, node.depth) :
    i < j => CodeOf(ks, i, node.depth) <= CodeOf(ks, j, node.depth)
(* The range of a child reaches to the first key of the next child.         *)
Child(ks, node, code) ==
  LET held == Held(ks, node.left, node.right, node.depth)
      First(P(_)) == CHOOSE i \in held : P(i) /\ \A j \in held : P(j) => i <= j
      Is(i) == CodeOf(ks, i, node.depth) = code
      Behind(i) == CodeOf(ks, i, node.depth) > code
  IN  [depth |-> node.depth + 1, left |-> First(Is),
       right |-> IF \E i \in held : Behind(i) THEN First(Behind) ELSE node.right]
Children(ks, node) == [code \in ChildCodes(ks, node) |-> Child(ks, node, code)]

(* The call insert(siblings), about to probe behind pos.                     *)
Call(siblings, n) ==
  LET low == CHOOSE c \in DOMAIN siblings : \A d \in DOMAIN siblings : c <= d
  IN  [siblings |-> siblings, low |-> low, pos |-> Larger(low + 1, n) - 1,
       nonzero_num |-> 0, first |-> TRUE, begin |-> 0, done |-> {}]
High(f) == CHOOSE c \in DOMAIN f.siblings : \A d \in DOMAIN f.siblings : d <= c

(* resize: the cells keep their content, the new ones are zero.              *)
ResizeUncopied(a, n) ==  \* a fault: the old cells are lost
  [p \in 0 .. n - 1 |-> Empty]
Resize(a, n) == [p \in 0 .. n - 1 |-> IF p \in DOMAIN a THEN a[p] ELSE Empty]
Grown(n) ==
  (n * Larger(GrowPercent * progress, 100 * Len(keys))) \div (100 * progress)
-----------------------------------------------------------------------------
ArrayInit ==
  /\ keys = <<>> /\ values = <<>> /\ array = <<>> /\ used = {} /\ size = 0
  /\ next_check_pos = 0 /\ progress = 0 /\ stack = <<>> /\ phase = "idle"

(* build: without keys nothing is built and nothing is an error.             *)
Build(ks, vs) ==
  LET root == [depth |-> 0, left |-> 1, right |-> Len(ks) + 1]
  IN  /\ phase # "insert"
      /\ keys' = ks /\ values' = vs /\ used' = {} /\ size' = 0
      /\ next_check_pos' = 0 /\ progress' = 0
      /\ IF ks = <<>>
         THEN array' = <<>> /\ stack' = <<>> /\ phase' = "built"
         ELSE /\ array' = [Resize(<<>>, InitialAlloc) EXCEPT ![0].base = 1]
              /\ IF Sorted(ks, root)
                 THEN stack' = <<Call(Children(ks, root), 0)>> /\ phase' = "insert"
                 ELSE stack' = <<>> /\ phase' = "failed"

(* Whether the children of f may be placed behind begin.                     *)
FreeCells(f, begin) ==  \* a fault: a base may be given twice
  \A c \in DOMAIN f.siblings : CellAt(begin + c).check = 0
Free(f, begin) ==
  begin \notin used /\ \A c \in DOMAIN f.siblings : CellAt(begin + c).check = 0

(* One turn of the loop of insert: the next position, the array grown if    *)
(* the children would not fit, and the children marked if all are free.     *)
RoomAt(f) == Larger(alloc, f.pos + 2)
Grows(f) == CellAt(f.pos + 1).check = 0 /\ f.pos + 1 - f.low + High(f) >= RoomAt(f)
Probe ==
  LET f == Head(stack)
      pos == f.pos + 1
      free == CellAt(pos).check = 0
      begin == pos - f.low
      n == IF Grows(f) THEN Grown(RoomAt(f)) ELSE RoomAt(f)
      fits == free /\ Free(f, begin)
      start == IF free /\ f.first THEN pos ELSE next_check_pos
  IN  /\ phase = "insert" /\ f.begin = 0
      /\ Grows(f) => progress > 0
      /\ IF fits
         THEN /\ array' = [p \in 0 .. n - 1 |->
                             IF p - begin \in DOMAIN f.siblings
                             THEN [CellAt(p) EXCEPT !.check = begin] ELSE CellAt(p)]
              /\ used' = used \cup {begin}
              /\ size' = Larger(size, begin + High(f) + 1)
              /\ next_check_pos' =
                   IF 100 * f.nonzero_num >= 95 * (pos - start + 1) THEN pos ELSE start
         ELSE /\ array' = Resize(array, n)
              /\ next_check_pos' = start
              /\ UNCHANGED <<used, size>>
      /\ stack' = <<[f EXCEPT !.pos = pos, !.begin = IF fits THEN begin ELSE 0,
                              !.first = f.first /\ ~free,
                              !.nonzero_num = IF free THEN f.nonzero_num ELSE f.nonzero_num + 1]>>
                    \o Tail(stack)
      /\ UNCHANGED <<keys, values, progress, phase>>

(* To grow in front of the first leaf divides by the leaves written, none:  *)
(* the new size is converted from infinity and is none an array can have.   *)
GrowsBeforeLeaf ==
  phase = "insert" /\ Head(stack).begin = 0 /\ Grows(Head(stack)) /\ progress = 0

(* The children in ascending order: a key that ends here gets its value,    *)
(* the others a call of insert of their own.                               *)
NextChild(f) ==
  CHOOSE c \in DOMAIN f.siblings \ f.done : \A d \in DOMAIN f.siblings \ f.done : c <= d

Leaf ==
  LET f == Head(stack)
      c == NextChild(f)
      node == f.siblings[c]
  IN  /\ phase = "insert" /\ f.begin > 0 /\ f.done # DOMAIN f.siblings
      /\ ChildCodes(keys, node) = {}
      /\ array' = [array EXCEPT ![f.begin + c].base = - values[node.left] - 1]
      /\ IF values[node.left] < 0
         THEN phase' = "failed" /\ stack' = <<>> /\ UNCHANGED progress
         ELSE /\ progress' = progress + 1
              /\ stack' = <<[f EXCEPT !.done = @ \cup {c}]>> \o Tail(stack)
              /\ UNCHANGED phase
      /\ UNCHANGED <<keys, values, used, size, next_check_pos>>

Enter ==
  LET f == Head(stack)
      node == f.siblings[NextChild(f)]
  IN  /\ phase = "insert" /\ f.begin > 0 /\ f.done # DOMAIN f.siblings
      /\ ChildCodes(keys, node) # {}
      /\ IF Sorted(keys, node)
         THEN /\ stack' = <<Call(Children(keys, node), next_check_pos)>> \o stack
              /\ UNCHANGED phase
         ELSE phase' = "failed" /\ stack' = <<>>
      /\ UNCHANGED <<keys, values, array, used, size, next_check_pos, progress>>

(* insert returns: its base goes to the cell of the child it was called for;*)
(* the outermost return ends build, which adds a margin for the walks.      *)
Return ==
  LET f == Head(stack)
      g == stack[2]
      c == NextChild(g)
  IN  /\ phase = "insert" /\ f.begin > 0 /\ f.done = DOMAIN f.siblings
      /\ IF Len(stack) > 1
         THEN /\ array' = [array EXCEPT ![g.begin + c].base = f.begin]
              /\ stack' = <<[g EXCEPT !.done = @ \cup {c}]>> \o SubSeq(stack, 3, Len(stack))
              /\ UNCHANGED <<size, used, phase>>
         ELSE /\ size' = size + MaxByte + 2
              /\ array' = Resize(array, Larger(alloc, size'))
              /\ used' = {} /\ stack' = <<>> /\ phase' = "built"
      /\ UNCHANGED <<keys, values, next_check_pos, progress>>

(* The array is gone with its owner: clear.                                 *)
ArrayClear ==
  /\ keys' = <<>> /\ values' = <<>> /\ array' = <<>> /\ used' = {} /\ size' = 0
  /\ next_check_pos' = 0 /\ progress' = 0 /\ stack' = <<>> /\ phase' = "idle"

ArrayStep == Probe \/ Leaf \/ Enter \/ Return
-----------------------------------------------------------------------------
(* The walk: the base after i bytes of the text, 0 when there is no child.   *)
Bases(cells, text) ==
  LET b[i \in 0 .. Len(text)] ==
        IF i = 0 THEN cells[0].base
        ELSE LET p == b[i - 1] + text[i] + 1
             IN  IF b[i - 1] > 0 /\ cells[p].check = b[i - 1] THEN cells[p].base ELSE 0
  IN  b
EndsKey(cells, b) == b > 0 /\ cells[b].check = b /\ cells[b].base < 0

(* commonPrefixSearch: the value and the length of every key that is a      *)
(* prefix of the text.  The caller gives room for as many as there are.     *)
CommonPrefixSearch(cells, text) ==
  LET b == Bases(cells, text)
  IN  {[value |-> - cells[b[i]].base - 1, length |-> i] :
         i \in {j \in 0 .. Len(text) : EndsKey(cells, b[j])}}

(* exactMatchSearch: the value of a key, -1 for any other text.              *)
ExactMatchSearch(cells, text) ==
  LET b == Bases(cells, text)[Len(text)]
  IN  IF EndsKey(cells, b) THEN - cells[b].base - 1 ELSE -1
=============================================================================

------------------------------ MODULE CharTable ------------------------------
(* The two plain tables of a dictionary: the character classes             *)
(* (char_property.cpp, char.def and unk.def into char.bin) and the costs   *)
(* between context ids (connector.cpp, matrix.def into matrix.bin).         *)
EXTENDS Rewriter

CONSTANTS
  MaxChar,       \* the table has entries 0 .. MaxChar - 1 (0xffff)
  Default,       \* the name DEFAULT
  SpaceName,     \* the name SPACE
  MaxCategories, \* 18
  NameMax        \* the bytes of a name char.bin keeps (31)

(* What an absent char.def, unk.def and matrix.def stand for; SpaceChar is  *)
(* the character 0x20.                                                     *)
CONSTANT SpaceChar
CharDefDefault ==
  <<[key |-> Default, invoke |-> TRUE, group |-> FALSE, length |-> 0],
    [key |-> SpaceName, invoke |-> FALSE, group |-> TRUE, length |-> 0],
    [low |-> SpaceChar, high |-> SpaceChar, categories |-> <<SpaceName>>]>>
MatrixDefDefault == [lsize |-> 1, rsize |-> 1, lines |-> <<[l |-> 0, r |-> 0, cost |-> 0]>>]
-----------------------------------------------------------------------------
IsRange(line) == "low" \in DOMAIN line
CategoryLines(def) == SelectSeq(def, LAMBDA line : ~IsRange(line))
DefinedBefore(def, i) == {def[j].key : j \in {k \in 1 .. i - 1 : ~IsRange(def[k])}}

(* The CHECK_DIEs of CharProperty::compile: ranges inside the table and of  *)
(* categories defined above them, no category twice, neither too many nor   *)
(* without DEFAULT and SPACE, and unk.def has exactly the same categories.  *)
CharDefFails(def, unk_keys) ==
  LET names == {CategoryLines(def)[i].key : i \in DOMAIN CategoryLines(def)}
  IN  \/ \E i \in DOMAIN def :
           IF IsRange(def[i])
           THEN \/ ~(0 <= def[i].low /\ def[i].low <= def[i].high /\ def[i].high < MaxChar)
                \/ ~(Range(def[i].categories) \subseteq DefinedBefore(def, i))
                \/ def[i].categories = <<>>
           ELSE def[i].key \in DefinedBefore(def, i)
      \/ Cardinality(names) >= MaxCategories
      \/ ~({Default, SpaceName} \subseteq names)
      \/ unk_keys # names

(* encode: the attributes of the first category; each listed category adds  *)
(* its bit, as a sum.                                                      *)
Encode(def, categories) ==
  LET lines == CategoryLines(def)
      Id(c) == (CHOOSE i \in DOMAIN lines : lines[i].key = c) - 1
      Info(c) == lines[Id(c) + 1]
  IN  [type |-> FoldLeft(LAMBDA sum, c : sum + 2 ^ Id(c), 0, categories),
       default_type |-> Id(categories[1]), invoke |-> Info(categories[1]).invoke,
       group |-> Info(categories[1]).group, length |-> Info(categories[1]).length % 16]

(* The table of compile: every character DEFAULT, then the ranges in file   *)
(* order, the last one that has a character decides.  Names are cut.        *)
CompileChar(def, unk_keys) ==
  LET InfoOf(ch) ==
        LET at == {i \in DOMAIN def : IsRange(def[i]) /\ ch \in def[i].low .. def[i].high}
        IN  IF at = {} THEN Encode(def, <<Default>>)
            ELSE Encode(def, def[CHOOSE i \in at : \A j \in at : j <= i].categories)
      lines == CategoryLines(def)
  IN  IF CharDefFails(def, unk_keys) THEN Dead
      ELSE Done([names |-> [i \in DOMAIN lines |->
                              SubSeq(lines[i].key, 1, IF Len(lines[i].key) < NameMax
                                                      THEN Len(lines[i].key) ELSE NameMax)],
                 map |-> [ch \in 0 .. MaxChar - 1 |-> InfoOf(ch)]])
-----------------------------------------------------------------------------
(* The first line of matrix.def has two columns, the others three; a line   *)
(* that has fewer is fatal for Connector::compile, the first one also for   *)
(* openText.                                                               *)
HeadReadable(def) == "lsize" \in DOMAIN def
LineReadable(line) == "cost" \in DOMAIN line

(* Connector::compile: sizes and costs are cut to 16 bits, cells start at 0, *)
(* each line inside the sizes sets one, the last line of a cell counts, a   *)
(* line outside is fatal.  The cell of (l, r) is l + lsize * r.             *)
CompileMatrix(def) ==
  LET lsize == Word16(def.lsize)
      rsize == Word16(def.rsize)
      LinesFor(cell) == {i \in DOMAIN def.lines : def.lines[i].l + lsize * def.lines[i].r = cell}
      CostOf(cell) ==
        IF LinesFor(cell) = {} THEN 0
        ELSE Wrap16(def.lines[CHOOSE i \in LinesFor(cell) : \A j \in LinesFor(cell) : j <= i].cost)
      Sets(line) == LineReadable(line) /\ line.l \in 0 .. lsize - 1 /\ line.r \in 0 .. rsize - 1
  IN  IF ~HeadReadable(def) \/ \E i \in DOMAIN def.lines : ~Sets(def.lines[i])
      THEN Dead
      ELSE Done([lsize |-> lsize, rsize |-> rsize,
                 cells |-> [cell \in 0 .. lsize * rsize - 1 |-> CostOf(cell)]])

(* is_valid and cost: the left attribute of the word on the right is        *)
(* bounded by the second size, the right attribute of the left word by the  *)
(* first.                                                                  *)
IsValid(m, lid, rid) == lid \in 0 .. m.rsize - 1 /\ rid \in 0 .. m.lsize - 1
CostCell(m, rcAttr, lcAttr) == rcAttr + m.lsize * lcAttr
=============================================================================

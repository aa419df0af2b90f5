-------------------------------- MODULE Writer --------------------------------
(* Writing a lattice (writer.cpp): the style that the options choose and    *)
(* what each style writes, as a sequence of writes to a StringBuffer, each *)
(* a sequence of bytes.  A byte is a symbol, a feature the sequence of its  *)
(* columns, its commas left out, and every whole number the symbol "#", as  *)
(* are those of dump in front of the feature and of the reals.             *)
EXTENDS Options, Integers, TLC, SequencesExt

CONSTANT Leftovers  \* what memory may hold in front of a space

Text(t) == [is |-> "text", text |-> t]
Macro(m) == [is |-> m]
NodeDefault == <<Macro("m"), Text("\t"), Macro("H"), Text("\n")>>
EosDefault == <<Text("EOS"), Text("\n")>>

(* The defaults of the options of the tagger: an option is a name and the   *)
(* output format type it is for.                                           *)
WriterDefaults == <<"eos-format", "">> :> EosDefault
Styles == {"wakati", "none", "dump", "em"}

(* Writer::open.  The formats of a style other than the four built-in ones  *)
(* have its name in theirs.                                                *)
OpenWriter(conf) ==
  LET Format(name, style) == Get(conf, <<name, style>>, <<>>)
      style == IF Format("node-format", "") = <<>> THEN Get(conf, <<"output-format-type", "">>, "") ELSE ""
      node == Format("node-format", style)
      unk == Format("unk-format", style)
      nodes_as == IF node = <<>> THEN NodeDefault ELSE node
      formats == [NOR |-> nodes_as, UNK |-> IF unk \in {<<>>, NodeDefault} THEN nodes_as ELSE unk,
                  BOS |-> Format("bos-format", style), EOS |-> Format("eos-format", style),
                  EON |-> Format("eon-format", style)]
      none == [s \in {"NOR", "UNK", "BOS", "EOS", "EON"} |-> <<>>]
  IN  IF style \in Styles THEN Conf([write |-> style, formats |-> none], <<>>)
      ELSE IF style # "" /\ node = <<>> THEN Refused
      ELSE IF /\ node = NodeDefault /\ unk = NodeDefault
              /\ formats.BOS = <<>> /\ formats.EOS = EosDefault
      THEN Conf([write |-> "lattice", formats |-> none], <<>>)
      ELSE Conf([write |-> "user", formats |-> formats], <<>>)
-----------------------------------------------------------------------------
Written(ws) == [ok |-> TRUE, writes |-> ws, what |-> ""]
Failed(why) == [ok |-> FALSE, writes |-> <<>>, what |-> why]
Number == Written(<< <<"#">> >>)

(* %f: the columns named, those that are "*" left out; a separator stands   *)
(* between two columns only if nothing was left out between them.          *)
Columns(columns, feature, separator) ==
  LET Shown(i) == feature[columns[i] + 1] # "*"
      One(i) == IF ~Shown(i) THEN <<>>
                ELSE IF i > 1 /\ Shown(i - 1) THEN << <<separator>>, <<feature[columns[i] + 1]>> >>
                ELSE << <<feature[columns[i] + 1]>> >>
  IN  IF feature = <<>> THEN Failed("no feature information available")
      ELSE IF \E i \in DOMAIN columns : columns[i] >= Len(feature)
      THEN Failed("given index is out of range")
      ELSE Written(FlattenSeq([i \in DOMAIN columns |-> One(i)]))

(* dtoa: the sprintf is a comment, so a real number is what the memory of   *)
(* its buffer held in front of a space, and without a space there the code  *)
(* reads and writes beyond it.  All the numbers of one call find the same.  *)
Overrun == "dtoa"
Reals == {Written(<<t>>) : t \in Leftovers} \cup {Failed(Overrun)}

(* One element of a format.  %M is the morpheme with the space before it;   *)
(* %P, %pP, %pA, %pB and %ppP are real numbers.                             *)
Element(e, node, sentence, real) ==
  CASE e.is = "text" -> Written(<< <<e.text>> >>)
    [] e.is = "S" -> Written(<<sentence>>)
    [] e.is = "m" -> Written(<<node.surface>>)
    [] e.is = "M" -> Written(<<node.space \o node.surface>>)
    [] e.is = "pS" -> Written(<<node.space>>)
    [] e.is = "H" -> Written(<<node.feature>>)
    [] e.is = "f" -> Columns(e.columns, node.feature, e.separator)
    [] e.is = "pp" -> IF node.paths = <<>> THEN Failed("no path information is available")
                      ELSE IF e.real /\ ~real.ok THEN real
                      ELSE Written([i \in 1 .. 2 * Len(node.paths) - 1 |->
                                      IF i % 2 = 0 THEN <<e.separator>>
                                      ELSE IF e.real THEN real.writes[1] ELSE <<"#">>])
    [] e.is = "number" -> Number
    [] e.is = "real" -> real
    [] OTHER -> Failed("unknown meta char")

(* In order, the first that fails ends the whole call.                       *)
AllOf(parts) ==
  LET failed == {i \in DOMAIN parts : ~parts[i].ok}
  IN  IF failed = {} THEN Written(FlattenSeq([i \in DOMAIN parts |-> parts[i].writes]))
      ELSE parts[CHOOSE i \in failed : \A j \in failed : i <= j]

WriteNode(writer, node, sentence, real) ==
  LET format == writer.formats[node.stat]
  IN  AllOf([i \in DOMAIN format |-> Element(format[i], node, sentence, real)])

(* write: a path is the nodes from BOS to EOS.  dump ends with alpha, beta   *)
(* and prob of a node, its cost, and a cost and a prob for each link to it; *)
(* em has a line for the node and for each of the links that is likely.     *)
Name(node) == IF node.stat \in {"BOS", "EOS"} THEN <<node.stat>> ELSE node.surface
DumpOf(node, real) ==
  LET links == [i \in 1 .. 2 * Len(node.paths) |-> IF i % 2 = 1 THEN Number ELSE real]
  IN  AllOf(<<Number, Written(<< Name(node), node.feature >>), Number, real, real, real, Number>>
              \o links \o <<Written(<< <<"\n">> >>)>>)
ProbLine(kind, first, second, real) ==
  AllOf(<<Written(<< <<kind>>, first, second >>), real, Written(<< <<"\n">> >>)>>)
EMOf(node, real) ==
  LET Link(l) == IF l.likely THEN ProbLine("B", l.feature, node.feature, real) ELSE Written(<<>>)
      own == IF node.likely THEN ProbLine("U", Name(node), node.feature, real) ELSE Written(<<>>)
  IN  AllOf(<<own>> \o [i \in DOMAIN node.paths |-> Link(node.paths[i])])
Write(writer, path, sentence, real) ==
  LET words == SubSeq(path, 2, Len(path) - 1)
      As(i) == IF i = 1 THEN "BOS" ELSE IF i = Len(path) THEN "EOS" ELSE path[i].stat
      Each(nodes, Of(_)) == FlattenSeq([i \in DOMAIN nodes |-> Of(nodes[i])])
      Line(n) == << n.surface, <<"\t">>, n.feature, <<"\n">> >>
      Spaced(n) == << n.surface, <<" ">> >>
  IN  CASE writer.write = "lattice" -> Written(Each(words, Line) \o << <<"EOS", "\n">> >>)
        [] writer.write = "wakati" -> Written(Append(Each(words, Spaced), <<"\n">>))
        [] writer.write = "none" -> Written(<<>>)
        [] writer.write = "em" -> AllOf(Append([i \in DOMAIN path |-> EMOf(path[i], real)], Written(<< <<"EOS", "\n">> >>)))
        [] writer.write = "dump" -> AllOf([i \in DOMAIN path |-> DumpOf(path[i], real)])
        [] OTHER -> AllOf([i \in DOMAIN path |-> WriteNode(writer, [path[i] EXCEPT !.stat = As(i)], sentence, real)])
-----------------------------------------------------------------------------
(* StringBuffer: a buffer of its own doubles until the write fits; one of   *)
(* the caller takes a write whole or not at all, and its error flag says    *)
(* how the last write went.                                                *)
Doubled(alloc, need, start) ==
  LET a == IF alloc = 0 THEN start ELSE alloc
      f[n \in Nat] == IF need < n THEN n ELSE f[2 * n]
  IN  IF need < alloc THEN alloc ELSE f[2 * a]
Put(b, w, start) ==
  LET fits == Len(b.text) + Len(w) < b.alloc
  IN  IF b.own THEN [b EXCEPT !.alloc = Doubled(b.alloc, Len(b.text) + Len(w), start), !.text = @ \o w]
      ELSE IF fits THEN [b EXCEPT !.text = @ \o w, !.error = FALSE]
      ELSE [b EXCEPT !.error = TRUE]
=============================================================================

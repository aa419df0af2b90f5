------------------------------- MODULE MCOutput -------------------------------
(* Small instances of Output: chunks of eight bytes, arrays of two nodes.   *)
EXTENDS Output

Link(feature, likely) == [feature |-> feature, likely |-> likely]
Node(stat, surface, space, feature) ==
  [stat |-> stat, surface |-> surface, space |-> space, feature |-> feature,
   paths |-> <<Link(<<"B">>, TRUE), Link(<<"V">>, FALSE)>>, likely |-> stat = "NOR"]
Path(words) ==
  <<[BosNode EXCEPT !.likely = TRUE]>> \o words
    \o <<[EosNode EXCEPT !.paths = <<Link(<<"N">>, FALSE), Link(<<"U">>, TRUE)>>]>>
A == Node("NOR", <<"a">>, <<>>, <<"N", "*", "x">>)
AB == Node("NOR", <<"a", "b">>, <<>>, <<"V">>)
AAB == Node("NOR", <<"a", "a", "b">>, <<>>, <<"N", "\t", "x">>)
B == Node("UNK", <<"b">>, <<" ">>, <<"U", "y">>)
MCAnalyses ==
  {[text |-> <<"a", " ", "b">>, paths |-> <<Path(<<A, B>>), Path(<<Node("NOR", <<"a">>, <<>>, <<>>), B>>)>>],
   [text |-> <<"a", "b">>, paths |-> <<Path(<<AB>>)>>],
   [text |-> <<"a", "a", "b">>, paths |-> <<Path(<<A, A, [B EXCEPT !.space = <<>>]>>), Path(<<AAB>>)>>],
   [text |-> <<>>, paths |-> <<Path(<<>>)>>], [text |-> <<"b">>, paths |-> <<>>]}

Entry(s, f) == s \o <<"\t">> \o f \o <<"\n">>
Wide == <<"N", "x", "y", "z", "w", "v", "u">>
MCResults ==
  {<<>>, <<"\n", "\n">>, <<"a", "\n">>, Entry(<<"a">>, <<"N">>), Entry(<<"a">>, Wide) \o <<"EOS">>,
   Entry(<<"a">>, <<>>) \o Entry(<<"b">>, Wide) \o Entry(<<"a", "b">>, <<"N">>) \o <<"EOS", "\n">>,
   Entry(<<>>, <<"N">>) \o Entry(<<>>, <<"V">>) \o Entry(<<"EOS">>, <<>>),
   Entry(<<"b">>, <<"N">>) \o Entry(<<"a", "a", "b">>, <<"N">>),
   Entry(<<"a">>, <<"N", "\t", "x">>) \o <<"b", "\n">> \o Entry(<<"b">>, <<>>)}

Option(name, v) == <<name, "">> :> v
Csv == <<Macro("m"), [is |-> "f", columns |-> <<0, 2, 1>>, separator |-> ","], Macro("pS"), Macro("M")>>
MCConfs ==
  {c @@ WriterDefaults :
     c \in {<<>>, Option("node-format", NodeDefault) @@ Option("unk-format", NodeDefault),
            Option("node-format", Csv) @@ Option("eon-format", <<Text("!")>>) @@
               Option("bos-format", <<Macro("S")>>),
            Option("unk-format", <<[is |-> "pp", separator |-> " ", real |-> FALSE], Macro("number")>>),
            Option("unk-format", <<Macro("real"), [is |-> "pp", separator |-> " ", real |-> TRUE]>>),
            Option("bos-format", <<[is |-> "pp", separator |-> " ", real |-> FALSE]>>), Option("eos-format", <<Macro("?")>>),
            Option("output-format-type", "csv"),
            Option("output-format-type", "csv") @@ (<<"node-format", "csv">> :> <<Macro("m")>>)}
           \cup {Option("output-format-type", s) : s \in Styles}}
MCLeftovers == {<<>>, <<"?", "\t">>}
MCSizes == {0, 1, 4, 12}
=============================================================================

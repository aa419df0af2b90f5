----------------------------- MODULE MCDictIndex -----------------------------
(* Small instances of DictIndex.  Bytes are 0 .. 3, a word is a sequence of *)
(* them; the categories are DEFAULT = <<1>>, SPACE = <<2>> and one with a   *)
(* long name.                                                              *)
EXTENDS DictIndex

MCDefault == <<1>>
MCSpaceName == <<2>>
LongName == <<3, 3, 3>>

Line(w, l, r, c, f) ==
  [kind |-> "entry", word |-> w, lid |-> l, rid |-> r, cost |-> c, feature |-> f, converts |-> TRUE]
Plain(w) == Line(w, 0, 0, 5, <<"N">>)
Rc(k, v) == [key |-> k, value |-> v]
MCDicrc == <<Rc("cost-factor", 2), Rc("bos-feature", "BOS"), Rc("cost-factor", 0)>>
Category3(key, invoke) == [key |-> key, invoke |-> invoke, group |-> TRUE, length |-> 2]
Chars(low, high, names) == [low |-> low, high |-> high, categories |-> names]

CharDef ==
  <<Category3(MCDefault, TRUE), Category3(MCSpaceName, FALSE), Chars(1, 1, <<MCSpaceName>>),
    Chars(1, 2, <<MCSpaceName, MCDefault>>)>>
UnkDef1 == <<Plain(MCDefault), Plain(MCSpaceName)>>

(* Two by three: left and right ids must not be confused.                   *)
Matrix(l, r) == [lsize |-> l, rsize |-> r, lines |-> <<[l |-> l - 1, r |-> r - 1, cost |-> 3]>>]
Rules ==
  <<[heading |-> "unigram"], [src |-> <<{"*"}>>, dst |-> <<[ref |-> 1]>>], [heading |-> "left"],
    [src |-> <<{"N", "V"}>>, dst |-> <<[ref |-> 1]>>], [heading |-> "right"],
    [src |-> <<{"N"}>>, dst |-> <<[text |-> "n"]>>], [src |-> <<{"*"}, {"x"}>>, dst |-> <<[ref |-> 3]>>]>>
Id(n, f) == [id |-> n, feature |-> <<f>>]
Model == [charset |-> "utf8", lines |-> <<[alpha |-> 30, key |-> <<"N">>], [alpha |-> -1, key |-> <<"N">>]>>]
Piece(n, undef) == [is |-> "F", index |-> n, undef |-> undef]

Base ==
  [dicrc |-> MCDicrc, char_def |-> CharDef, unk_def |-> UnkDef1,
   csv |-> << <<Plain(<<1>>)>> >>, user_csv |-> <<Plain(<<2>>)>>, matrix_def |-> Matrix(2, 3),
   left_id |-> <<Id(0, "N"), Id(1, "V")>>, right_id |-> <<Id(0, "n"), Id(1, "m"), Id(2, "o")>>,
   rewrite_def |-> Rules, pos_id |-> <<[src |-> <<{"N"}>>, dst |-> <<[text |-> 4]>>]>>,
   feature_def |-> << <<Piece(0, FALSE)>>, <<Piece(1, TRUE)>> >>, model |-> Model, charset |-> "utf8",
   apart |-> FALSE, matrix_bin |-> Missing]

(* Every choice of up to three words over two bytes, some of them twice.    *)
Words == UNION {[1 .. n -> {1, 3}] : n \in {1, 3}}
Above(v, w) == Below(w, v)
KeySources ==
  {[Base EXCEPT !.csv = <<[i \in DOMAIN order |-> Line(order[i], i % 3, i % 2, i, <<"N">>)]>>] :
     order \in {InOrder(S, Above) \o InOrder({w \in S : Len(w) = d}, Below) :
                  S \in {T \in SUBSET Words : Cardinality(T) \in 1 .. 3}, d \in {0, 3}}}

(* Two long words that part at their last byte: a branch behind a long stem. *)
Stem == [i \in 1 .. 9 |-> 1]
StemSources == {[Base EXCEPT !.csv = << <<Plain(Stem), Plain([Stem EXCEPT ![9] = 3])>> >>]}

(* The ways a source directory can be wrong, missing or different.           *)
Bad == [Plain(<<1>>) EXCEPT !.kind = "bad"]
Long == [Plain(<<1>>) EXCEPT !.kind = "long"]
Broken == [Plain(<<3>>) EXCEPT !.converts = FALSE]
Sys(lines) == [Base EXCEPT !.csv = <<lines, <<Plain(<<1, 3>>)>> >>]
LineSources ==
  {Sys(<<l, Plain(<<3>>)>>) :
     l \in {Bad, Long, Broken, Plain(<<>>), Line(<<1>>, 3, 0, 5, <<"N">>), Line(<<1>>, 2, 1, 5, <<"N">>),
            Line(<<1>>, 0, 2, 5, <<"N">>), Line(<<1>>, IntMax, 0, 5, <<"N">>),
            Line(<<1>>, -1, 0, 300, <<"V", "x">>),
            Line(<<1>>, -1, 0, 5, <<"V">>), Line(<<1>>, 0, IntMax, 40, <<"V", "x", "m">>),
            Line(<<1>>, 0, 0, IntMax, <<"N">>)}}
DirSources ==
  {[Base EXCEPT !.dicrc = Missing], [Base EXCEPT !.dicrc = <<Rc("bos-feature", "BOS")>>],
   [Base EXCEPT !.csv = <<>>], [Base EXCEPT !.csv = << <<>> >>],
   [Base EXCEPT !.dicrc = Append(@, Rc("wakati", TRUE))], [Base EXCEPT !.pos_id = Missing],
   [Base EXCEPT !.char_def = @ \o <<Category3(LongName, TRUE), Chars(3, 3, <<LongName>>)>>,
                !.unk_def = Append(@, Plain(LongName))],
   [Base EXCEPT !.char_def = Append(@, Category3(MCDefault, TRUE))],
   [Base EXCEPT !.char_def = Append(@, Chars(0, 4, <<MCDefault>>))],
   [Base EXCEPT !.char_def = Append(@, Chars(0, 3, <<MCDefault, LongName>>))],
   [Base EXCEPT !.unk_def = <<Plain(MCDefault)>>],
   [Base EXCEPT !.unk_def = @ \o @ \o <<Plain(MCDefault)>>],
   [Base EXCEPT !.dicrc = Append(@, [text |-> "wakati"])],
   [Base EXCEPT !.matrix_def = [lines |-> <<>>]],
   [Base EXCEPT !.matrix_def.lines = Append(@, [l |-> 0, r |-> 0])],
   [Base EXCEPT !.matrix_def = [Matrix(258, 3) EXCEPT !.lines = <<[l |-> 1, r |-> 2, cost |-> 300]>>]],
   [Base EXCEPT !.matrix_def = Missing, !.apart = TRUE, !.matrix_bin = Matrix(2, 3)],
   [Base EXCEPT !.matrix_def.lines = <<[l |-> 2, r |-> 0, cost |-> 1]>>]}

(* User dictionaries: the first entry may decide what happens to the second.*)
UserSources ==
  {[Base EXCEPT !.user_csv = <<l>> \o m] :
     l \in {Line(<<1>>, IntMax, IntMax, 3, <<"N">>), Line(<<1>>, 0, 0, IntMax, <<"N">>)},
     m \in {<<>>, <<Line(<<3>>, 0, 0, IntMax, <<"V", "*">>)>>,
            <<Line(<<3>>, IntMax, IntMax, IntMax, <<"N">>)>>}}
    \cup {[Base EXCEPT !.user_csv = <<Line(<<1>>, 0, 0, IntMax, <<"N">>)>>, !.model = m] :
             m \in {Missing, [Model EXCEPT !.charset = "euc-jp"]}}
    \cup {[Base EXCEPT !.user_csv = Missing],
          [Base EXCEPT !.feature_def = Missing, !.user_csv = <<Line(<<1>>, 0, 0, IntMax, <<"N">>)>>]}

(* Sources that are built after one another, in any order.                  *)
RepeatSources ==
  {Base, [Base EXCEPT !.matrix_def = Matrix(3, 3), !.csv = << <<Line(<<3>>, 2, 2, 1, <<"V">>)>> >>,
                      !.user_csv = <<Line(<<2>>, 2, 2, 1, <<"V">>)>>],
   [Base EXCEPT !.matrix_def = Matrix(3, 3),
                !.unk_def = <<Line(MCDefault, 2, 2, 1, <<"S">>), Plain(MCSpaceName)>>,
                !.csv = << <<Bad>> >>],
   [Base EXCEPT !.matrix_def = Missing, !.char_def = Missing, !.unk_def = Missing, !.apart = TRUE]}

AllSources == KeySources \cup StemSources \cup LineSources \cup DirSources \cup UserSources \cup RepeatSources
=============================================================================

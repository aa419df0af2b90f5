------------------------------- MODULE MCViterbi -------------------------------
(* Small instances of ViterbiLattice: an alphabet with one character of    *)
(* each behaviour, two dictionaries that overlap, all short texts.         *)
EXTENDS ViterbiLattice

Class(types, default, len, grp, inv) ==
  [type |-> types, default |-> default, length |-> len, group |-> grp, invoke |-> inv]

(* "K" starts a character of two bytes, "W" a space of three (U+3000), "F" *)
(* one of four bytes, outside UCS-2.                                       *)
MCWidth == [nul |-> 1, sp |-> 1, a |-> 1, b |-> 1, K |-> 2, W |-> 3, F |-> 4, k |-> 0]

MCCharMap ==
  [nul |-> Class({"DEFAULT"}, "DEFAULT", 0, TRUE, FALSE),
   F  |-> Class({"DEFAULT"}, "DEFAULT", 0, TRUE, FALSE),
   sp |-> Class({"SPACE"}, "SPACE", 0, TRUE, FALSE),
   W  |-> Class({"SPACE"}, "SPACE", 0, TRUE, FALSE),
   a  |-> Class({"ALPHA"}, "ALPHA", 0, TRUE, TRUE),
   b  |-> Class({"HIRA", "ALPHA"}, "HIRA", 2, TRUE, FALSE),
   K  |-> Class({"KANJI"}, "KANJI", 2, FALSE, FALSE)]

Tok(l, r, c, f) == [lc |-> l, rc |-> r, wcost |-> c, feature |-> f]

SystemDic ==
  (<<"a", "b">> :> <<Tok(0, 1, 4, <<"N">>), Tok(1, 0, 5, <<"V">>)>>) @@
  (<<"K", "k">> :> <<Tok(0, 0, 3, <<"N", "x">>)>>) @@
  (<<"b", "K", "k">> :> <<Tok(1, 1, 3, <<"V">>)>>)
UserDic == (<<"b">> :> <<Tok(0, 0, 1, <<"U">>)>>) @@ (<<"a", "b", "b">> :> <<Tok(0, 1, 3, <<"U">>)>>)
MCDics == <<SystemDic, UserDic>>

MCUnkTokens ==
  [DEFAULT |-> <<Tok(0, 0, 4, <<"S">>)>>, SPACE |-> <<Tok(0, 0, 5, <<"S">>)>>,
   ALPHA |-> <<Tok(1, 0, 4, <<"N">>)>>, HIRA |-> <<Tok(0, 1, 5, <<"N">>)>>,
   KANJI |-> <<Tok(1, 1, 4, <<"N">>), Tok(0, 0, 6, <<"V">>)>>]

Attributes == {0, 1} \X {0, 1}
(* The first makes some words cost more than the limit of 1000. *)
MCMatrices == {[x \in Attributes |-> IF x = <<0, 1>> THEN 990 ELSE 0],
               [x \in Attributes |-> IF x[1] = x[2] THEN 3 ELSE 0],
               [x \in Attributes |-> IF x[1] = x[2] THEN -2 ELSE 2]}

Chars == {<<"sp">>, <<"a">>, <<"b">>, <<"K", "k">>, <<"W", "k", "k">>}
TextsOver(chars, n) ==
  {FlattenSeq(t) : t \in UNION {[1 .. m -> chars] : m \in 0 .. n}}

(* Runs without constraints: all texts of up to four characters, and some  *)
(* with a character of four bytes, whole or cut short.                     *)
WideTexts ==
  TextsOver({<<"F", "k", "k", "k">>, <<"F", "k">>, <<"a">>, <<"W", "k", "k">>}, 3)
PlainInputs ==
  [partial : {FALSE}, sentence : TextsOver(Chars, 4) \cup WideTexts, calls : {<<>>},
   all_morphs : BOOLEAN]

(* Texts longer than LengthMax, that is than a lookup sees, with fewer     *)
(* spaces on end than fill its window.  Of one with as many the code loses *)
(* the words behind them: TokensTile fails there.                          *)
Spaces(n) == [i \in 1 .. n |-> "sp"]
LongTexts ==
  {Spaces(i) \o w \o <<"sp", "b">> :
     i \in {LengthMax - 2, LengthMax - 1}, w \in {<<"a">>, <<"K", "k">>}}
LongInputs == [partial : {FALSE}, sentence : LongTexts, calls : {<<>>}, all_morphs : {FALSE}]

(* Partial parsing: up to three fragments, none of which ends with a space.*)
CleanTexts == {<<>>, <<"a">>, <<"a", "b">>, <<"b", "K", "k">>, <<"sp", "a">>, <<"K", "k", "a">>}
Features == {NoFeature, <<"N">>, <<"*">>, <<"X">>}
Fragments(texts, features) == [surface : texts, feature : features]
PartialInputs(fragments, n) ==
  [partial : {TRUE}, fragments : UNION {[1 .. m -> fragments] : m \in 0 .. n}, all_morphs : {FALSE}]
CleanPartialInputs ==
  PartialInputs(Fragments(CleanTexts, Features), 2)
    \cup PartialInputs(Fragments({<<"a">>, <<"b">>, <<"sp", "b">>}, {NoFeature, <<"X">>}), 3)

(* A fragment may end with a space, or be one, and the space may be wide. *)
SpacedPartialInputs ==
  PartialInputs(Fragments({<<"a">>, <<"a", "sp">>, <<"b">>, <<"K", "k">>}, {NoFeature, <<"X">>}), 3)
    \cup PartialInputs(Fragments({<<"sp">>, <<"W", "k", "k">>, <<"a">>, <<"b", "b">>},
                                 {NoFeature, <<"X">>}), 3)
    \cup PartialInputs(Fragments({<<"F", "k", "k", "k">>, <<"sp">>, <<"W", "k", "k">>},
                                 {NoFeature, <<"X">>}), 2)

(* Constraints set by the caller: boundaries anywhere, one demanded feature.*)
Calls(n) ==
  [op : {"boundary"}, at : 1 .. n, type : {TokenBoundary, InsideToken}]
    \cup [op : {"feature"}, at : 0 .. n - 1, to : 1 .. n + 1, feature : {<<"N">>, <<"X">>}]
UserInputs ==
  UNION {[partial : {FALSE}, sentence : {s}, all_morphs : {FALSE},
          calls : UNION {[1 .. m -> Calls(Len(s))] : m \in 0 .. 2}] :
            s \in {<<"a", "b">>, <<"a", "b", "a">>, <<"b", "K", "k">>, <<"a", "sp", "b", "b">>}}

ConstrainedInputs == CleanPartialInputs \cup SpacedPartialInputs \cup UserInputs
AllInputs == PlainInputs \cup LongInputs \cup ConstrainedInputs

(* What the theorems suppose holds of these classes, and of all inputs but *)
(* the long ones.                                                          *)
ASSUME SpaceAssumption == NulIsNoSpace
ASSUME ShortAssumption ==
  \A in \in PlainInputs \cup ConstrainedInputs : Len(InitPartial(in).sentence) + 3 <= LengthMax
=============================================================================

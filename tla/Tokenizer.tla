------------------------------ MODULE Tokenizer ------------------------------
(***************************************************************************)
(* Candidate words at a position of a sentence: Tokenizer::lookup of       *)
(* src/src/tokenizer.cpp with the character classes of char_property.h,    *)
(* the prefix search of the dictionaries and the boundary and feature      *)
(* constraints of a lattice.                                               *)
(*                                                                         *)
(* A sentence is a sequence of bytes; offsets count from 0 as pointers do. *)
(* A character is named by its first byte, whose Width says how many bytes *)
(* UTF-8 gives it (0 for a continuation byte).                             *)
(***************************************************************************)
EXTENDS Integers, Sequences, FiniteSets, SequencesExt

CONSTANTS
  Width,        \* byte -> length of the character it starts, 0 if none
  CharMap,      \* byte -> CharInfo of char.bin: the map_ of CharProperty
  Nul,          \* the byte at the end of a C string; its class is DEFAULT
  Space,        \* the byte 0x20, whose class open() stores in space_
  Dics,         \* sequence of dictionaries: surface -> sequence of tokens
  UnkTokens,    \* category -> sequence of tokens of unk.dic
  MaxGroupingSize, \* option max-grouping-size
  LengthMax     \* the largest unsigned short, 65535: the window of a lookup too

Bytes == DOMAIN Width

ASSUME TablesAssumption ==
  /\ Width \in [Bytes -> Nat]
  /\ {Nul, Space} \subseteq Bytes /\ Width[Nul] = 1 /\ Width[Space] = 1
  /\ \A b \in Bytes : Width[b] > 0 => b \in DOMAIN CharMap
  /\ \A b \in Bytes : Width[b] > 3 => CharMap[b] = CharMap[Nul]  \* outside UCS-2
  /\ \A b \in DOMAIN CharMap :           \* Tokenizer::open finds each category
       /\ CharMap[b].default \in CharMap[b].type
       /\ CharMap[b].default \in DOMAIN UnkTokens
       /\ CharMap[b].length \in Nat
  /\ MaxGroupingSize \in Nat \ {0} /\ LengthMax \in Nat \ {0}

(* The tokens of all dictionaries, in the lists they are in.               *)
DicTokens ==
  UNION {UNION {ToSet(Dics[d][w]) : w \in DOMAIN Dics[d]} : d \in DOMAIN Dics}
    \cup UNION {ToSet(UnkTokens[c]) : c \in DOMAIN UnkTokens}

ASSUME DictionaryAssumption ==
  /\ Dics \in Seq(ToSet(Dics))
  /\ \A d \in DOMAIN Dics : \A w \in DOMAIN Dics[d] : Dics[d][w] \in Seq(DicTokens)
  /\ \A c \in DOMAIN UnkTokens : UnkTokens[c] \in Seq(DicTokens) /\ UnkTokens[c] # <<>>
  /\ \A t \in DicTokens : t.wcost \in Int

AnyBoundary   == "any"    \* MECAB_ANY_BOUNDARY
TokenBoundary == "token"  \* MECAB_TOKEN_BOUNDARY
InsideToken   == "inside"  \* MECAB_INSIDE_TOKEN
NoFeature == <<>>   \* a null feature pointer

(* A lattice as lookup reads it: the sentence, whether it has constraints, *)
(* and the two constraint vectors, of size() + 4 entries from 0.           *)
OffsetsOneSpare(s) == 0 .. Len(s) + 1   \* a fault: vectors that are too short
Offsets(s) == 0 .. Len(s) + 3

ByteAt(s, p) == IF p < Len(s) THEN s[p + 1] ELSE Nul

(* CharProperty::getCharInfo and utf8_to_ucs2.  The bytes left, end - p,   *)
(* are unsigned: past end there seems to be room for every character.      *)
CharAt(s, p, end) ==
  LET b == ByteAt(s, p)
  IN  IF Width[b] = 1 \/ (Width[b] > 1 /\ (p > end \/ end - p >= Width[b]))
      THEN [info |-> CharMap[b], mblen |-> Width[b]]
      ELSE [info |-> CharMap[Nul], mblen |-> 1]

IsKindOf(c, d) == c.type \cap d.type # {}

(* What is skipped as a space never comes to the class of NUL, not even by *)
(* way of characters that have two categories.  The code relies on it at   *)
(* the end of a text, and char.def decides it.                             *)
NulIsNoSpace ==
  LET classes == {CharMap[b] : b \in DOMAIN CharMap}
  IN  \E spaces \in SUBSET classes :
        /\ CharMap[Space] \in spaces /\ CharMap[Nul] \notin spaces
        /\ \A c \in spaces, d \in classes : IsKindOf(c, d) => d \in spaces

(* CharProperty::seekToOtherType: skip characters as long as each is of a  *)
(* kind with the one before.  It stops AT end only: a start behind end     *)
(* runs on to the first character of another kind.                         *)
SeekStep(w, x, end) ==
  IF ~w.more \/ w.p = end THEN [w EXCEPT !.more = FALSE]
  ELSE IF ~IsKindOf(w.c, x.info) THEN [w EXCEPT !.more = FALSE, !.c = x.info, !.mblen = x.mblen]
  ELSE [p |-> w.p + x.mblen, c |-> x.info, mblen |-> x.mblen, clen |-> w.clen + 1, more |-> TRUE]

SeekToOtherType(s, begin, end, c) ==
  LET walk[k \in 0 .. Len(s) + 1] ==
        IF k = 0 THEN [p |-> begin, c |-> c, mblen |-> 0, clen |-> 0, more |-> TRUE]
        ELSE SeekStep(walk[k - 1], CharAt(s, walk[k - 1].p, end), end)
  IN  walk[Len(s) + 1]

(* Dictionary::commonPrefixSearch: the entries that start the text at p,   *)
(* shortest first; none is empty, the compiler enters no such word.        *)
(* Length 0 makes the double array fall back to strlen.                    *)
CommonPrefixSearch(dic, s, p, len) ==
  LET most == IF len = 0 \/ len > Len(s) - p THEN Len(s) - p ELSE len
      first(k) == SubSeq(s, p + 1, p + k)
  IN  FlattenSeq([k \in 1 .. most |-> IF first(k) \in DOMAIN dic THEN <<first(k)>> ELSE <<>>])

(* partial_match: "*" alone matches all, otherwise the columns both have   *)
(* must agree.                                                             *)
PartialMatch(f1, f2) ==
  \/ f1 = <<"*">>
  \/ \A i \in DOMAIN f1 \cap DOMAIN f2 : f1[i] \in {"*", f2[i]}

(* A fault of is_valid_node: the feature not compared. *)
IsValidNodeAnyFeature(lat, node) ==
  LET end_pos == node.surface + node.length
  IN  lat.boundary[end_pos] # InsideToken

(* is_valid_node: no node ends inside a token, and one that begins where a *)
(* feature is demanded spans strong boundaries and matches it.             *)
IsValidNode(lat, node) ==
  LET end_pos   == node.surface + node.length
      begin_pos == end_pos - node.rlength
      feature   == lat.feature[begin_pos]
  IN  /\ lat.boundary[end_pos] # InsideToken
      /\ \/ feature = NoFeature
         \/ /\ lat.boundary[begin_pos] = TokenBoundary
            /\ lat.boundary[end_pos] = TokenBoundary
            /\ PartialMatch(feature, node.feature)

(* A new node is all zeros; connect fills in the last three fields.  Both  *)
(* lengths of a node are unsigned shorts (mecab.h:151, 156).               *)
Cut(n) == n % (LengthMax + 1)

NodeOf(token, surface, length, rlength, stat, type) ==
  [surface |-> surface, length |-> Cut(length), rlength |-> Cut(rlength), stat |-> stat,
   type |-> type, lc |-> token.lc, rc |-> token.rc, wcost |-> token.wcost,
   feature |-> token.feature, cost |-> 0, prev |-> 0, lpath |-> {}]

(* Nodes are pushed on the front of the list `result`; with constraints    *)
(* the invalid ones are dropped.                                           *)
Push(lat, nodes, result) ==
  LET kept == FlattenSeq([i \in DOMAIN nodes |->
                            IF lat.constrained /\ ~IsValidNode(lat, nodes[i])
                            THEN <<>> ELSE <<nodes[i]>>])
  IN  Reverse(kept) \o result

(* What lookup knows of the position it works at: where the search began,  *)
(* where a word must end by, the first character after the skipped spaces, *)
(* its class, and the position behind it.                                  *)
Place(begin, end, seek) ==
  [begin |-> begin, end |-> end, begin2 |-> seek.p, cinfo |-> seek.c,
   begin3 |-> seek.p + seek.mblen]

(* The macro ADDUNKNWON: one node per token of the category.               *)
AddUnknown(lat, at, begin3, cinfo, result) ==
  LET tokens == UnkTokens[cinfo.default]
  IN  Push(lat,
           [k \in DOMAIN tokens |->
              NodeOf(tokens[k], at.begin2, begin3 - at.begin2, begin3 - at.begin,
                     "unk", cinfo.default)],
           result)

(* The words of all dictionaries at begin2.  The length of a word is cast  *)
(* by CAST_OR_DIE: one too long for it ends lookup by an exception.        *)
Hits(lat, at, dic) == CommonPrefixSearch(dic, lat.sentence, at.begin2, at.end - at.begin2)
WordTooLong(lat, at) ==
  \E d \in DOMAIN Dics : \E w \in ToSet(Hits(lat, at, Dics[d])) :
     Len(w) > LengthMax /\ Dics[d][w] # <<>>

DictionaryNodes(lat, at) ==
  LET nodesOf(tokens, len) ==
        [j \in DOMAIN tokens |->
           NodeOf(tokens[j], at.begin2, len, at.begin2 - at.begin + len, "nor", at.cinfo.default)]
      ofDic(dic, found) ==
        FlattenSeq([i \in DOMAIN found |-> nodesOf(dic[found[i]], Len(found[i]))])
  IN  Push(lat, FlattenSeq([d \in DOMAIN Dics |-> ofDic(Dics[d], Hits(lat, at, Dics[d]))]), <<>>)

(* The loop that adds unknown words of 1, 2, .. cinfo.length characters;   *)
(* the length the grouped word had is left out.                            *)
LengthStep(lat, at, group, w, x) ==
  IF ~w.more \/ w.begin3 > at.end THEN [w EXCEPT !.more = FALSE]
  ELSE IF w.begin3 = group THEN w
  ELSE [result |-> AddUnknown(lat, at, w.begin3, at.cinfo, w.result),
        more   |-> IsKindOf(at.cinfo, x.info),
        begin3 |-> w.begin3 + IF IsKindOf(at.cinfo, x.info) THEN x.mblen ELSE 0]

UnknownByLength(lat, at, group, found) ==
  LET step[i \in 0 .. at.cinfo.length] ==
        IF i = 0 THEN [begin3 |-> at.begin3, result |-> found, more |-> TRUE]
        ELSE LengthStep(lat, at, group, step[i - 1],
                        CharAt(lat.sentence, step[i - 1].begin3, at.end))
  IN  step[at.cinfo.length]

(* When no class gave a word: one of the character last reached.           *)
NoFallback(lat, at, begin3, found) == found  \* a fault

Fallback(lat, at, begin3, found) ==
  IF found # <<>> THEN found ELSE AddUnknown(lat, at, begin3, at.cinfo, <<>>)

(* The next position after begin2 that a token may end at, and the class   *)
(* of the character before it.                                             *)
BoundaryStep(lat, at, w, x) ==
  LET next == w.begin3 + x.mblen
  IN  IF ~w.more THEN w
      ELSE [begin3 |-> next, c |-> x.info,
            more |-> ~(next > at.end \/ lat.boundary[next] # InsideToken)]

UpToBoundary(lat, at) ==
  LET walk[k \in 0 .. Len(lat.sentence) + 1] ==
        IF k = 0 THEN [begin3 |-> at.begin2, c |-> CharMap[Nul], more |-> TRUE]
        ELSE BoundaryStep(lat, at, walk[k - 1],
                          CharAt(lat.sentence, walk[k - 1].begin3, at.end))
  IN  walk[Len(lat.sentence) + 1]

Found(result) == [nodes |-> result, died |-> FALSE]
Died == [nodes |-> <<>>, died |-> TRUE]

(* The last resort under constraints: one unknown word up to there, else a *)
(* node made of the demanded feature itself; with none demanded CHECK_DIE  *)
(* throws.                                                                 *)
ForcedUnknownOnly(lat, at, last, unknown) ==  \* a fault
  IF unknown # <<>> THEN Found(unknown) ELSE Died

ForcedNode(lat, at, last, unknown) ==
  LET token == [lc |-> 0, rc |-> 0, wcost |-> 0, feature |-> lat.feature[at.begin]]
  IN  IF unknown # <<>> THEN Found(unknown)
      ELSE IF token.feature # NoFeature
      THEN Found(<<NodeOf(token, at.begin2, last.begin3 - at.begin2, last.begin3 - at.begin,
                          "unk", last.c.default)>>)
      ELSE Died

Forced(lat, at, last) ==
  ForcedNode(lat, at, last, AddUnknown(lat, at, last.begin3, last.c, <<>>))

(* Under constraints a word must end by the next strong boundary, however  *)
(* far that is.                                                            *)
NextBoundary(lat, begin, end) ==
  LET strong == {n \in begin + 1 .. Len(lat.sentence) - 1 : lat.boundary[n] = TokenBoundary}
  IN  IF lat.constrained /\ strong # {}
      THEN CHOOSE n \in strong : \A m \in strong : n <= m
      ELSE end

(* Else a lookup sees the next LengthMax bytes.  A fault: all the text.     *)
FragmentEndOfText(lat, begin) == NextBoundary(lat, begin, Len(lat.sentence))
FragmentEnd(lat, begin) ==
  NextBoundary(lat, begin, IF begin + LengthMax < Len(lat.sentence)
                           THEN begin + LengthMax ELSE Len(lat.sentence))

(* Tokenizer::lookup, in its order: the words of the dictionaries, enough  *)
(* if the class does not always invoke unknown words; a character that     *)
(* reaches behind the end; the run of the class as one word; words by      *)
(* length; the fallback; under constraints the forced node.  The value is  *)
(* the node list for position begin, head first, or Died when an exception *)
(* leaves the function.                                                    *)
LastResort(lat, at, found) ==
  IF found # <<>> \/ ~lat.constrained THEN Found(found)
  ELSE Forced(lat, at, UpToBoundary(lat, at))

ByLength(lat, at, w) == LastResort(lat, at, Fallback(lat, at, w.begin3, w.result))

Grouped(lat, at, found, run) ==
  ByLength(lat, at,
    UnknownByLength(lat, at, IF at.cinfo.group THEN run.p ELSE -1,
                    IF at.cinfo.group /\ run.clen <= MaxGroupingSize
                    THEN AddUnknown(lat, at, run.p, at.cinfo, found) ELSE found))

Beyond(lat, at, found) ==
  IF at.begin3 > at.end /\ found # <<>> THEN Found(found)
  ELSE Grouped(lat, at, found, SeekToOtherType(lat.sentence, at.begin3, at.end, at.cinfo))

Words(lat, at, words) ==
  IF words # <<>> /\ ~at.cinfo.invoke THEN Found(words)
  ELSE Beyond(lat, at, IF at.begin3 > at.end
                       THEN AddUnknown(lat, at, at.begin3, at.cinfo, words) ELSE words)

LookupAt(lat, at) ==
  IF WordTooLong(lat, at) THEN Died ELSE Words(lat, at, DictionaryNodes(lat, at))

LookupUpTo(lat, begin, end) ==
  LookupAt(lat, Place(begin, end, SeekToOtherType(lat.sentence, begin, end, CharMap[Space])))

Lookup(lat, begin) == LookupUpTo(lat, begin, FragmentEnd(lat, begin))
=============================================================================

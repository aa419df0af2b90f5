------------------------------- MODULE Lexicon -------------------------------
(* Dictionary::compile (dictionary.cpp): the lines of CSV files become      *)
(* tokens sorted by word, and a double array over the words whose values    *)
(* say where the tokens of a word are.  The loop over the lines is the      *)
(* action ReadLine; DictIndex starts the job and writes its result.        *)
EXTENDS DoubleArray, FeatureIndex, CharTable

CONSTANT PackWidth   \* 256: the low byte of a value counts the tokens
ASSUME PackAssumption == PackWidth \in Nat

VARIABLES
  source,   \* the directory of source files, and whether the built ones go to another one
  job       \* the compilation under way, or NoJob

lexiconVars == <<source, job>>

IntMax == 2147483647   \* toInt of an empty field
NoJob == [type |-> "none"]

(* dicdir: the directory of the sources; for a user dictionary that of the  *)
(* system dictionary, which has the definitions only if it is the same one. *)
SourceFile(type, file) ==
  IF type = "user" /\ source.apart THEN Missing ELSE source[file]
Unopened == [is |-> "unopened"]

(* tokens and features are filled line by line: a token keeps where in      *)
(* features its feature is, and in wakati mode there are no features.       *)
Job(type, files, sizes, rules, wakati, factor) ==
  [type |-> type, files |-> files, lsize |-> sizes.lsize, rsize |-> sizes.rsize,
   posid |-> rules, wakati |-> wakati, factor |-> factor, rewrite |-> Unopened,
   fi |-> Unopened, cid |-> Unopened, dic |-> <<>>, features |-> <<>>, failed |-> "",
   built |-> FALSE]

Fail(j, why) == [j EXCEPT !.failed = why]
Ids(m) == Cardinality(DOMAIN m)
NeedsIds(line) == line.lid < 0 \/ line.rid < 0 \/ line.lid = IntMax \/ line.rid = IntMax

(* A line without a cost is allowed in a user dictionary only.  The model   *)
(* is opened when the rewrite rules are not open yet.                       *)
OpenForCost(j, char) ==
  LET rewrite == OpenRewriter(SourceFile(j.type, "rewrite_def"))
      fi == OpenFeatureIndex(SourceFile(j.type, "model"), source.charset,
                             SourceFile(j.type, "feature_def"), SourceFile(j.type, "rewrite_def"))
  IN  IF j.type # "user" THEN Fail(j, "cost field should not be empty")
      ELSE IF j.rewrite # Unopened THEN j
      ELSE IF rewrite = Dead \/ fi = Dead \/ char = Missing THEN Fail(j, "cannot open feature index")
      ELSE [j EXCEPT !.rewrite = rewrite, !.fi = fi]

(* calcCost asserts its index, takes the class of the first character and   *)
(* goes on with an empty feature when no rule matches.                     *)
CalcCost(j, line, char) ==
  LET first == IF line.word = <<>> THEN 0 ELSE line.word[1]
      r == RewriteFeature(j.rewrite.value, line.feature)
      u == IF r.is = "done" THEN r.value["unigram"] ELSE <<>>
  IN  ToCost(UnigramCost(j.fi.value, u, char.map[first].default_type), j.factor)
AfterCost(j, line, char) ==
  LET k == OpenForCost(j, char)
  IN  IF line.cost # IntMax \/ k.failed # "" THEN k
      ELSE IF k.fi = Unopened THEN Fail(k, "CHECK_DIE(fi)")
      ELSE IF RewriteFeature(k.rewrite.value, line.feature) = Dead THEN Fail(k, "rewrite failed")
      ELSE k

(* A line without ids gets those of its rewritten feature.  The context id  *)
(* files must have as many ids as the matrix.                               *)
OpenForIds(j) ==
  LET rewrite == IF j.rewrite = Unopened THEN OpenRewriter(SourceFile(j.type, "rewrite_def")) ELSE j.rewrite
      cid == IF j.cid = Unopened
             THEN OpenContextId(SourceFile(j.type, "left_id"), SourceFile(j.type, "right_id")) ELSE j.cid
  IN  IF rewrite = Dead \/ cid = Dead THEN Fail(j, "cannot open context ids")
      ELSE IF Ids(cid.value.left) # j.lsize \/ Ids(cid.value.right) # j.rsize
      THEN Fail(j, "context id files may be broken")
      ELSE [j EXCEPT !.rewrite = rewrite, !.cid = cid]
AfterIds(j, line) ==
  LET k == OpenForIds(j)
      r == RewriteFeature(k.rewrite.value, line.feature)
  IN  IF ~NeedsIds(line) \/ k.failed # "" THEN k
      ELSE IF r.is # "done" THEN Fail(k, "rewrite failed")
      ELSE IF r.value["left"] \notin DOMAIN k.cid.value.left \/ r.value["right"] \notin DOMAIN k.cid.value.right
      THEN Fail(k, "cannot find id") ELSE k
LineIds(j, line) ==
  IF NeedsIds(line)
  THEN LET r == RewriteFeature(j.rewrite.value, line.feature).value
       IN  [lid |-> j.cid.value.left[r["left"]], rid |-> j.cid.value.right[r["right"]]]
  ELSE [lid |-> line.lid, rid |-> line.rid]

(* The token of a line, unless the word is empty or does not convert.        *)
EnteredUnchecked(j, line, ids, cost) ==  \* a fault: the ids not compared with the matrix
  LET token == [lc |-> ids.lid, rc |-> ids.rid, posid |-> Word16(PosId(j.posid, line.feature).value),
                wcost |-> Wrap16(cost), at |-> IF j.wakati THEN 0 ELSE Len(j.features)]
  IN  IF line.word = <<>> \/ ~line.converts THEN j
      ELSE [j EXCEPT !.dic = Append(@, [word |-> line.word, token |-> token, feature |-> line.feature]),
                     !.features = IF j.wakati THEN @ ELSE Append(@, line.feature)]
Entered(j, line, ids, cost) ==
  LET token == [lc |-> ids.lid, rc |-> ids.rid, posid |-> Word16(PosId(j.posid, line.feature).value),
                wcost |-> Wrap16(cost), at |-> IF j.wakati THEN 0 ELSE Len(j.features)]
  IN  IF ~IsValid(j, ids.lid, ids.rid) THEN Fail(j, "invalid ids are found")
      ELSE IF line.word = <<>> \/ ~line.converts THEN j
      ELSE [j EXCEPT !.dic = Append(@, [word |-> line.word, token |-> token, feature |-> line.feature]),
                     !.features = IF j.wakati THEN @ ELSE Append(@, line.feature)]

(* One line: the cost, the ids, the entry; each stops at a failed check.     *)
AfterLine(j, line, char) ==
  LET k == IF line.cost = IntMax THEN AfterCost(j, line, char) ELSE j
      n == IF k.failed = "" /\ NeedsIds(line) THEN AfterIds(k, line) ELSE k
  IN  IF line.kind = "bad" THEN Fail(j, "format error")
      ELSE IF PosId(j.posid, line.feature) = Dead THEN Fail(j, "posid")
      ELSE IF n.failed # "" THEN n
      ELSE Entered(n, line, LineIds(n, line),
                   IF line.cost = IntMax THEN CalcCost(n, line, char) ELSE line.cost)

(* getline: a line longer than the buffer ends the reading of its file.      *)
Unread(file) ==
  LET long == {i \in DOMAIN file : file[i].kind = "long"}
  IN  IF long = {} THEN file ELSE SubSeq(file, 1, (CHOOSE i \in long : \A k \in long : i <= k) - 1)
LinesOf(files) == FlattenSeq([i \in DOMAIN files |-> Unread(files[i])])

ReadLine(char) ==
  /\ job # NoJob /\ job.failed = "" /\ job.files # <<>>
  /\ LET line == Head(job.files)
         j == AfterLine(job, line, char)
     IN  job' = [j EXCEPT !.files = Tail(@)]
  /\ UNCHANGED <<source, arrayVars>>
-----------------------------------------------------------------------------
(* The order of the words: byte by byte, the shorter of two first.           *)
Below(v, w) ==
  \/ Len(v) < Len(w) /\ SubSeq(w, 1, Len(v)) = v
  \/ \E i \in DOMAIN v \cap DOMAIN w :
       v[i] < w[i] /\ SubSeq(v, 1, i - 1) = SubSeq(w, 1, i - 1)

(* stable_sort, then a key and a value for each run of equal words: how     *)
(* many tokens it has and the index of the first.                          *)
SortedDic(dic) ==
  LET Before(i, k) == Below(dic[i].word, dic[k].word) \/ (dic[i].word = dic[k].word /\ i < k)
      order == InOrder(DOMAIN dic, Before)
  IN  [i \in DOMAIN order |-> dic[order[i]]]
WordsOf(dic) == InOrder({dic[i].word : i \in DOMAIN dic}, Below)
ValueOf(sorted, w) ==
  LET run == {i \in DOMAIN sorted : sorted[i].word = w}
      idx == (CHOOSE i \in run : \A k \in run : i <= k) - 1
  IN  Cardinality(run) + idx * PackWidth
ValuesOf(dic) ==
  LET sorted == SortedDic(dic) words == WordsOf(dic)
  IN  [i \in DOMAIN words |-> ValueOf(sorted, words[i])]

(* The end of the lines: the double array is built over the words.           *)
EndOfLines ==
  /\ job # NoJob /\ job.failed = "" /\ job.files = <<>> /\ ~job.built
  /\ Build(WordsOf(job.dic), ValuesOf(job.dic))
  /\ job' = [job EXCEPT !.built = TRUE]
  /\ UNCHANGED source

(* The file compile writes: sizes, array, tokens in sorted order, features.  *)
Binary ==
  LET sorted == SortedDic(job.dic)
  IN  [type |-> job.type, lsize |-> job.lsize, rsize |-> job.rsize,
       cells |-> [p \in 0 .. size - 1 |-> array[p]],
       tokens |-> [i \in DOMAIN sorted |-> sorted[i].token],
       features |-> IF job.wakati THEN << <<>> >> ELSE job.features]
-----------------------------------------------------------------------------
(* What an opened dictionary says of a value: its tokens with their features.*)
TokensAt(bin, value) ==
  [i \in 1 .. value % PackWidth |->
     LET t == bin.tokens[(value \div PackWidth) + i]
     IN  [lc |-> t.lc, rc |-> t.rc, posid |-> t.posid, wcost |-> t.wcost,
          feature |-> bin.features[t.at + 1]]]

(* commonPrefixSearch as the tokenizer uses it: tokens by word.             *)
Found(bin, text) ==
  {[word |-> SubSeq(text, 1, r.length), tokens |-> TokensAt(bin, r.value)] :
     r \in CommonPrefixSearch(bin.cells, text)}
=============================================================================

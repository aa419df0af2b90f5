------------------------------ MODULE TokenTable ------------------------------
(***************************************************************************)
(* tokenize() of src/R/tokenize.R around one call of posParallelRcpp: the  *)
(* texts that go in and the table or list that comes out.  A document is a *)
(* row of the input with its id and its text, which split = TRUE takes     *)
(* apart into any number of sentences.                                     *)
(***************************************************************************)
EXTENDS TextParser, SequencesExt

CONSTANTS Ids,      \* document ids
          Inputs,   \* sequences of documents, [doc_id, sentences]
          NA

ASSUME InputsAssumption == Inputs \subseteq Seq([doc_id : Ids, sentences : Seq(Texts)])

VARIABLES x,       \* the argument
          split,   \* TRUE: a document may have other than one sentence
          answer   \* what tokenize returns for a character vector or anything else

tableVars == <<x, split, answer>>

Sizes(docs) == [d \in DOMAIN docs |-> Len(docs[d].sentences)]
Repeated(id, n) == [j \in 1 .. n |-> id]
DocNames(docs) == FlattenSeq([d \in DOMAIN docs |-> Repeated(docs[d].doc_id, Len(docs[d].sentences))])

TableInit ==
  /\ x \in Inputs
  /\ split \in BOOLEAN
  /\ split \/ \A d \in DOMAIN x : Len(x[d].sentences) = 1
  /\ text = FlattenSeq([d \in DOMAIN x |-> x[d].sentences])
  /\ Start
  /\ answer = [mode |-> "none"]
-----------------------------------------------------------------------------
(* The rows posParallelRcpp makes of the results, with the document names  *)
(* joined to them by the number of the sentence.                           *)
Row(name, s, t, token) == [doc_id |-> name, sentence_id |-> s, token_id |-> t, token |-> token]

Gathered(names) ==
  FlattenSeq([k \in Places |->
                [t \in DOMAIN results[k] |-> Row(names[k], k, t, results[k][t])]])

(* consecutive_id(sentence_id) by document counts the changes of the       *)
(* number from row to row; as the numbers only rise, the numbers so far.   *)
RowsOf(rows, name) == SelectSeq(rows, LAMBDA r : r.doc_id = name)

SentencesUpTo(rows, r, Same(_)) == {rows[q].sentence_id : q \in {q \in 1 .. r : Same(rows[q])}}

RenumberedOverall(rows) ==  \* a fault: .by missing
  [r \in DOMAIN rows |-> [rows[r] EXCEPT !.sentence_id =
      Cardinality(SentencesUpTo(rows, r, LAMBDA row : TRUE))]]

Renumbered(rows) ==
  [r \in DOMAIN rows |-> [rows[r] EXCEPT !.sentence_id =
      Cardinality(SentencesUpTo(rows, r, LAMBDA row : row.doc_id = rows[r].doc_id))]]

TaggerImpl ==
  LET rows == Gathered(DocNames(x)) IN IF split THEN Renumbered(rows) ELSE rows

(* tokenize.default: each document joined with the rows of its id, a row   *)
(* of NA if there are none.                                                *)
JoinedRows(name, rows) ==
  IF rows = <<>> THEN <<Row(name, NA, NA, NA)>> ELSE rows

LeftJoined(rows) ==
  FlattenSeq([d \in DOMAIN x |-> JoinedRows(x[d].doc_id, RowsOf(rows, x[d].doc_id))])

(* as_tokens: the tokens by document, in the order of levels; the names    *)
(* are set by place and must be as many, but a single name is recycled to  *)
(* the length of the list (rlang::set_names), be it empty.                 *)
TokensOf(rows, name) == [r \in DOMAIN RowsOf(rows, name) |-> RowsOf(rows, name)[r].token]

AsTokens(of, rows, levels, nm) ==
  IF Len(nm) \notin {1, Len(levels)} THEN [mode |-> "error", of |-> of]
  ELSE [mode |-> "wakati", of |-> of,
        names |-> IF Len(nm) = 1 THEN Repeated(nm[1], Len(levels)) ELSE nm,
        tokens |-> [l \in DOMAIN levels |-> TokensOf(rows, levels[l])]]

Unique(s) == FoldLeft(LAMBDA found, e : IF Contains(found, e) THEN found ELSE Append(found, e), <<>>, s)

DocIds(rows) == [r \in DOMAIN rows |-> rows[r].doc_id]

Return ==
  /\ AllDone
  /\ answer.mode = "none"
  /\ LET rows == TaggerImpl
         joined == LeftJoined(rows)
     IN  answer' \in {[mode |-> "character", rows |-> rows],
                      [mode |-> "default", rows |-> joined],
                      AsTokens("character", rows, Unique(DocIds(rows)), DocIds(x)),
                      AsTokens("default", joined, Unique(DocIds(x)), Unique(DocIds(x)))}
  /\ UNCHANGED <<vars, x, split>>

TableNext == (Next /\ UNCHANGED tableVars) \/ Return

TableSpec == TableInit /\ [][TableNext]_<<vars, tableVars>> /\ Fairness
-----------------------------------------------------------------------------
DistinctIds == \A d, e \in DOMAIN x : x[d].doc_id = x[e].doc_id => d = e

(* What the documents of an id hold, by themselves. *)
Content(id) ==
  FlattenSeq([d \in DOMAIN x |->
    IF x[d].doc_id # id THEN <<>>
    ELSE FlattenSeq([s \in DOMAIN x[d].sentences |-> Map!Alone(x[d].sentences[s])])])
OrNA(s) == IF s = <<>> THEN <<NA>> ELSE s

(* A table holds for each document exactly the tokens its text has by      *)
(* itself, in their order; a document without any keeps a row in the table *)
(* made of a data frame.  There, ids must be distinct: the join repeats    *)
(* the rows of documents that share one.                                   *)
TokensOfDocuments ==
  \A d \in DOMAIN x :
    /\ answer.mode = "character" => TokensOf(answer.rows, x[d].doc_id) = Content(x[d].doc_id)
    /\ answer.mode = "default" /\ DistinctIds =>
         TokensOf(answer.rows, x[d].doc_id) = OrNA(Content(x[d].doc_id))

Follows(s, t, row) == \/ row.sentence_id = s /\ row.token_id = t + 1
                      \/ row.sentence_id = s + 1 /\ row.token_id = 1

(* Tokens are numbered within their sentence, and the sentences of a       *)
(* document taken apart in order, both from 1 without a gap.               *)
NumberedWithoutGap ==
  answer.mode = "character" /\ split => \A d \in DOMAIN x :
    LET rows == RowsOf(answer.rows, x[d].doc_id)
    IN  \A r \in DOMAIN rows :
          IF r = 1 THEN Follows(0, 0, rows[r])
          ELSE Follows(rows[r - 1].sentence_id, rows[r - 1].token_id, rows[r])

(* The list of mode "wakati" gives every name its own tokens, although     *)
(* names are set by place; an error is possible only for several texts some *)
(* of which have no tokens or share their name.  A single text without      *)
(* tokens given as a character vector leaves a list without its name.       *)
LeftOut == answer.of = "character" /\ Len(x) = 1 /\ Content(x[1].doc_id) = <<>>

WakatiByName ==
  /\ answer.mode = "wakati" /\ DistinctIds =>
       /\ answer.names = IF LeftOut THEN <<>> ELSE DocIds(x)
       /\ Len(answer.tokens) = Len(answer.names)
       /\ \A l \in DOMAIN answer.names :
            answer.tokens[l] = IF answer.of = "default" THEN OrNA(Content(answer.names[l]))
                                                        ELSE Content(answer.names[l])
  /\ answer.mode = "error" =>
       /\ answer.of = "character" /\ Len(x) > 1
       /\ DistinctIds => \E d \in DOMAIN x : Content(x[d].doc_id) = <<>>

(* What tokenize() returns is about the text it was given: rows joined by  *)
(* id, numbers per sentence and names set by place must agree although     *)
(* texts without tokens leave no row (tokenize.R:81-174, utils.R:24-48).    *)
TablesFaithful == TokensOfDocuments /\ NumberedWithoutGap /\ WakatiByName
=============================================================================

------------------------------- MODULE Rewriter -------------------------------
(* Rewriting of features (dictionary_rewriter.cpp) and the context ids that *)
(* the rewritten features stand for (context_id.cpp).                      *)
(*                                                                         *)
(* A feature is the sequence of its columns.  A column of a pattern is the *)
(* set of the alternatives it names, with "*" for any; a column of a       *)
(* target is a text or the number of a column to copy.  A CHECK_DIE throws *)
(* and ends the whole run of the compiler: the result is Dead.             *)
EXTENDS Integers, Sequences, SequencesExt, Ordered

CONSTANTS
  Missing,   \* stands for a file that cannot be opened
  CostMax    \* the largest cost of 16 bits, 32767

(* What a number becomes in a short and in an unsigned short.                *)
Wrap16(n) == ((n + CostMax + 1) % (2 * CostMax + 2)) - CostMax - 1
Word16(n) == n % (2 * CostMax + 2)

Dead == [is |-> "dead"]       \* a CHECK_DIE
NoMatch == [is |-> "none"]    \* rewrite returned false
Done(x) == [is |-> "done", value |-> x]

(* RewritePattern::rewrite: the pattern may be shorter than the feature.     *)
Matches(rule, columns) ==
  /\ Len(rule.src) <= Len(columns)
  /\ \A i \in DOMAIN rule.src : "*" \in rule.src[i] \/ columns[i] \in rule.src[i]

Apply(rule, columns) ==
  IF \E i \in DOMAIN rule.dst : "ref" \in DOMAIN rule.dst[i] /\ rule.dst[i].ref \notin DOMAIN columns
  THEN Dead
  ELSE Done([i \in DOMAIN rule.dst |-> IF "ref" \in DOMAIN rule.dst[i]
                                       THEN columns[rule.dst[i].ref] ELSE rule.dst[i].text])

(* RewriteRules::rewrite: the first rule that matches.                       *)
Rewrite(rules, columns) ==
  LET hits == SelectSeq(rules, LAMBDA r : Matches(r, columns))
  IN  IF hits = <<>> THEN NoMatch ELSE Apply(hits[1], columns)

(* DictionaryRewriter::open: the rules under each heading, in file order; a *)
(* rule above the first heading or no file at all is fatal.                *)
Headings == {"unigram", "left", "right"}
OpenRules(file) ==
  LET HeadingOf(i) == LET above == {j \in 1 .. i : "heading" \in DOMAIN file[j]}
                      IN  IF above = {} THEN "none"
                          ELSE file[CHOOSE j \in above : \A k \in above : k <= j].heading
      RulesAt == {i \in DOMAIN file : "src" \in DOMAIN file[i]}
  IN  IF \E i \in RulesAt : HeadingOf(i) = "none" THEN Dead
      ELSE Done([h \in Headings |->
                   LET at == InOrder({i \in RulesAt : HeadingOf(i) = h}, <)
                   IN  [k \in DOMAIN at |-> file[at[k]]]])

OpenRewriter(file) == IF file = Missing THEN Dead ELSE OpenRules(file)

(* DictionaryRewriter::rewrite: unigram, left and right, the first that     *)
(* does not succeed decides.                                               *)
RewriteFeature(rewriter, columns) ==
  LET u == Rewrite(rewriter["unigram"], columns)
      l == Rewrite(rewriter["left"], columns)
      r == Rewrite(rewriter["right"], columns)
  IN  IF u.is # "done" THEN u ELSE IF l.is # "done" THEN l ELSE IF r.is # "done" THEN r
      ELSE Done([unigram |-> u.value, left |-> l.value, right |-> r.value])

(* POSIDGenerator: no file gives every feature the id 1, no match -1, which *)
(* the token stores in 16 bits.                                            *)
PosIdRules(file) ==
  IF file = Missing THEN <<[src |-> <<{"*"}>>, dst |-> <<[text |-> 1]>>]>> ELSE file
PosId(rules, columns) ==
  LET r == Rewrite(rules, columns)
  IN  IF r.is = "done" THEN Done(r.value[1]) ELSE IF r.is = "none" THEN Done(-1) ELSE Dead

(* ContextID: each line is an id and a feature; the first line of a feature *)
(* counts, its id is looked up, and a feature without one is fatal.        *)
OpenMap(file) ==
  [f \in {file[i].feature : i \in DOMAIN file} |->
     file[CHOOSE i \in DOMAIN file :
            file[i].feature = f /\ \A j \in DOMAIN file : file[j].feature = f => i <= j].id]
OpenContextId(left, right) ==
  IF left = Missing \/ right = Missing THEN Dead
  ELSE Done([left |-> OpenMap(left), right |-> OpenMap(right)])
=============================================================================

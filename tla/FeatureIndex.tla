----------------------------- MODULE FeatureIndex -----------------------------
(* The cost of a word from a trained model (feature_index.cpp): templates   *)
(* turn a rewritten feature into keys, the model has a weight per key.      *)
EXTENDS Rewriter

(* getIndex: the column of %F[n], counted from 0; none when the feature is  *)
(* shorter or, for %F?[n], when the column is undefined.                    *)
GetIndex(piece, columns) ==
  IF piece.index >= Len(columns) \/ (piece.undef /\ columns[piece.index + 1] \in {"*", ""})
  THEN NoMatch ELSE Done(columns[piece.index + 1])

(* buildUnigramFeature: the key a template makes, none when a column is     *)
(* missing.  %w reads the surface of a node that calcCost leaves without    *)
(* one; no template with %w is modelled.                                   *)
TemplateKey(template, columns, char_type) ==
  LET Piece(p) == CASE p.is = "F" -> GetIndex(p, columns)
                    [] p.is = "t" -> Done(char_type)
                    [] p.is = "u" -> Done(columns)
                    [] OTHER -> Done(p.text)
      pieces == [i \in DOMAIN template |-> Piece(template[i])]
  IN  IF \E i \in DOMAIN pieces : pieces[i].is # "done" THEN NoMatch
      ELSE Done([i \in DOMAIN pieces |-> pieces[i].value])

(* convert: the text model as the table of its weights.  The keys are       *)
(* sorted with their weights and searched for the first not below: of       *)
(* several lines with one key the least weight counts.                     *)
Weights(lines) ==
  [k \in {lines[i].key : i \in DOMAIN lines} |->
     LET alphas == {lines[i].alpha : i \in {j \in DOMAIN lines : lines[j].key = k}}
     IN  CHOOSE a \in alphas : \A b \in alphas : a <= b]

(* DecoderFeatureIndex::open: the model, whose charset must be that of the  *)
(* dictionary, then the templates and the rewrite rules.                   *)
OpenFeatureIndex(model, charset, feature_def, rewrite_def) ==
  IF model = Missing \/ feature_def = Missing THEN Dead
  ELSE IF model.charset # charset THEN Dead
  ELSE IF OpenRewriter(rewrite_def).is = "dead" THEN Dead
  ELSE Done([alpha |-> Weights(model.lines), unigram_templs |-> feature_def])

(* calcCost and tocost: the weights of the keys the model knows, scaled and *)
(* cut to 16 bits.                                                         *)
UnigramCost(fi, columns, char_type) ==
  LET keys == [i \in DOMAIN fi.unigram_templs |-> TemplateKey(fi.unigram_templs[i], columns, char_type)]
      Weight(k) == IF k.is = "done" /\ k.value \in DOMAIN fi.alpha THEN fi.alpha[k.value] ELSE 0
  IN  FoldLeft(LAMBDA sum, k : sum + Weight(k), 0, keys)

ToCost(d, factor) ==
  LET c == - factor * d
  IN  IF c > CostMax THEN CostMax ELSE IF c < - CostMax THEN - CostMax ELSE c
=============================================================================

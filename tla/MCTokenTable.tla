----------------------------- MODULE MCTokenTable -----------------------------
(* TokenTable over texts of one and of two tokens, one that parse refuses    *)
(* and one that makes it throw, in documents of up to three sentences.       *)
EXTENDS TokenTable

MCTexts == {"one", "two", "refused", "throws"}
MCKind == [t \in MCTexts |-> IF t = "refused" THEN "false" ELSE IF t = "throws" THEN "throws" ELSE "true"]
MCTokens == [t \in MCTexts |-> IF t = "two" THEN <<"v", "w">> ELSE <<"u">>]

MCDocuments ==
  [doc_id : Ids,
   sentences : {<<>>, <<"two">>, <<"refused">>, <<"throws">>, <<"one", "two">>, <<"throws", "two">>}]
MCInputs == {<<>>} \cup {<<d>> : d \in MCDocuments} \cup {<<d, e>> : d, e \in MCDocuments}
=============================================================================

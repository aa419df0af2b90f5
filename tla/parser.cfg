CONSTANTS
  Workers = {w1, w2, w3}
  Texts <- MCTexts
  Token = {"u", "v", "w"}
  Kind <- MCKind
  Tokens <- MCTokens
  grain_size = 1
  Ids = {"p", "q"}
  Inputs <- MCInputs
  NA = "NA"
SPECIFICATION TableSpec
INVARIANTS EachWarnedOnce TablesFaithful
PROPERTIES ImplementsTextMap Returns
CHECK_DEADLOCK FALSE

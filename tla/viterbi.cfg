CONSTANTS
  Width <- MCWidth
  CharMap <- MCCharMap
  Nul = "nul"
  Space = "sp"
  Dics <- MCDics
  UnkTokens <- MCUnkTokens
  MaxGroupingSize = 2
  Inputs <- AllInputs
  Matrices <- MCMatrices
  CostLimit = 1000
  LengthMax = 15
SPECIFICATION Spec
INVARIANTS TypeOK BestIsOptimal TokensTile NoDeadEnd FailureJustified YieldsLattice AllMorphsOrdered ConstraintsKept ThrowsOnlyBeforeMorpheme
CHECK_DEADLOCK FALSE

CONSTANTS
  Node <- MCNode
  BOS = 1
  EOS = 4
  None = null
  Lattices <- MCLattices
SPECIFICATION FairSpec
INVARIANTS CostsNonDecreasing NoDuplicates AllFound LinksReadResult
PROPERTY CallsReturn

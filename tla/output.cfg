CONSTANTS
  NodeArray = 2
  ChunkMin = 8
  MaxCalls = 2
  NBEST_MAX = 2
  LengthMax = 2
  Leftovers <- MCLeftovers
  Confs <- MCConfs
  Analyses <- MCAnalyses
  Results <- MCResults
  Sizes <- MCSizes
SPECIFICATION Spec
INVARIANTS TypeOK NoCellTwice SentenceKept ReadsBack DiesWithoutResult
CHECK_DEADLOCK FALSE

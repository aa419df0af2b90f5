CONSTANTS
  Parsers = {p1, p2}
  Swappers = {w1}
  Objects = {v0, v1, v2}
  First = v0
SPECIFICATION Spec
INVARIANTS AnalysesLive DeletedOnce
CHECK_DEADLOCK FALSE

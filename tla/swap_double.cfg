CONSTANTS
  Parsers = {p1}
  Swappers = {w1, w2}
  Objects = {v0, v1, v2}
  First = v0
SPECIFICATION Spec
INVARIANT DeletedOnce
CHECK_DEADLOCK FALSE

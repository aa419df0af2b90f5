CONSTANTS
  Readers = {r1, r2}
  Writers = {w1}
  Backend = "cxx11"
SPECIFICATION Spec
INVARIANT MutualExclusion

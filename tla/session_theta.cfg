CONSTANTS
  Texts = {"t1", "t3", "bad"}
  Ways <- MCWays
  Thetas = {1, 2}
  kDefaultTheta = 1
  Types = {"nbest", "partial", "marginal", "all_morphs"}
  NBEST_MAX = 3
  NoText = "none"
  Junk = "junk"
SPECIFICATION Spec
INVARIANT ThetaHonoured

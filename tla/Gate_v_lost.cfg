SPECIFICATION Spec
CONSTANTS
  f = f
  g = g
  k1 = k1
  k2 = k2
  p1 = p1
  bad = bad
  Trees <- MCTrees
  Contents <- MCContents
  Callers = {c1}
  Cids = {k1, k2}
  Paths = {p1, bad}
  Malformed = {bad}
  MaxKeys = 2
CHECK_DEADLOCK FALSE
INVARIANT NoFileLost

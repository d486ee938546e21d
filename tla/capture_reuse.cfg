SPECIFICATION Spec
CONSTANTS
  Captures = {c1, c2}
  Requests = {r1, r2, r3, r4}
  Workers = {w1}
  Ops = {"create", "complete", "retry", "cleanup"}
  None = None
  MaxReady = 2
  MaxPuts = 1
  MaxFaults = 0
PROPERTIES
  ReuseHasObject
SYMMETRY RequestSymmetry
CHECK_DEADLOCK FALSE

SPECIFICATION Spec
CONSTANTS
  Captures = {c1}
  Requests = {r1, r2}
  Workers = {w1}
  Ops = {"create", "complete", "reconcile"}
  None = None
  MaxReady = 1
  MaxPuts = 1
  MaxFaults = 0
PROPERTIES
  ExpiredOnlyFromPending

SPECIFICATION FairSpec
CONSTANTS
  Captures = {c1}
  Requests = {r1, r2}
  Workers = {w1, w2}
  Ops = {"create", "complete", "reconcile"}
  None = None
  MaxReady = 2
  MaxPuts = 1
  MaxFaults = 1
INVARIANTS
  
  AnalyzedWasPublished
PROPERTIES
  OutcomeOfNewestAttempt
  

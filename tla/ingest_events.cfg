SPECIFICATION FairSpec
CONSTANTS
  Events <- AllEvents
  Subjects = {"review", "capture"}
  Workers = {w1, w2}
  Invalid = Invalid
  NoReview = NoReview
  MaxLog = 3
  MaxFaults = 2
INVARIANTS
  NothingSkipped
PROPERTIES
  ImplementsStore
  
CHECK_DEADLOCK FALSE

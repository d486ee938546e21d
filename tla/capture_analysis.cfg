SPECIFICATION FairSpec
CHECK_DEADLOCK FALSE
CONSTANTS
    Null = Null
    Junk = Junk
    TicksPerSecond = 2
    MaxRows = 4
    PipeSize = 1
    Jobs <- MCJobs
INVARIANTS
    ReportIsWhole
    NothingLeftBehind
    FlowsAreConversations
    StallsAsObserved
    OrderIndependent
PROPERTY
    Answers

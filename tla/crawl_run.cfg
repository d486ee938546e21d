\* Two applications crawled concurrently, with database errors,
\* crashes and deployments at any moment.
SPECIFICATION Spec
CONSTANTS
    a1 = a1
    a2 = a2
    r1 = r1
    r2 = r2
    Apps <- TwoApps
    Runs <- OneRun
    MaxWorkers = 2
    MaxAttempts = 2
    FaultKinds = {"database", "crash", "deploy"}
    MaxFaults = 2
SYMMETRY Symmetry
INVARIANTS
    SucceededIsPublished
    OutcomeAgrees
    
PROPERTY
    NoLateResult
CHECK_DEADLOCK FALSE

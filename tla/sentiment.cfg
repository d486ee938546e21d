SPECIFICATION FairSpec
CONSTANTS
    Observations <- ThreeObservations
    Language <- LanguageOf
    Labels = {"positive", "negative"}
    Workers = {w1, w2}
    Watching = {w1}
    NoWorker = NoWorker
    BatchSize = 2
    ModelBatchSize = 1
    MaxAttempts = 2
    MaxFaults = 1
INVARIANTS
    OneResultPerText
    ResultFitsText
    OneAttemptPerDrain
    CountsAddUp
PROPERTY
    EventuallyDecided

SPECIFICATION FairSpec
CONSTANTS
    Threads = {1, 2}
    NoThread = 0
    Programs <- CrawlerOrAnalyzer
    QueueSize = 2
    MaxRetries = 1
    MaxFaults = 1
    Admins = {"crawler", "admin"}
    Names <- TopicNames
    Topology <- OtherTopology
    Found <- Topologies
    MaxErrors = 1
    Provisioner = "crawler"
INVARIANTS
    
    NothingForgotten
    EnsuredMeansReady
PROPERTIES
    CallsReturn
    
CHECK_DEADLOCK FALSE

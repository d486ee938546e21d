SPECIFICATION FairSpec
CONSTANTS
    Application <- Apps
    Observability <- Observers
    Hosts <- KnownHosts
    MaxWrites = 1
    MaxFaults = 2
    MaxReleases = 2
INVARIANTS
    
    ManifestMeansComplete
    CodeMatchesSchema
    ThawsWhatItFroze
    OneInstallation

    
CHECK_DEADLOCK FALSE

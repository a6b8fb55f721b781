SPECIFICATION Spec
CONSTANTS
    Sessions = {1, 2}
    NumWorkers = 2
    Homes <- TogetherOrApart
    EvictInUse = TRUE
    KeepSnapshots = 1
    MaxEdits = 2
    MaxCompactions = 2
    MaxEvictions = 1
    MaxFaults = 1
INVARIANTS
    OnlyStoredContent
PROPERTIES
    LatestNeverRegresses

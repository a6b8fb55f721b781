SPECIFICATION Spec
CONSTANTS
    Sessions = {1, 2}
    NumWorkers = 1
    Homes <- Together
    EvictInUse = FALSE
    KeepSnapshots = 1
    MaxEdits = 3
    MaxCompactions = 1
    MaxEvictions = 1
    MaxFaults = 1
INVARIANTS
    TypeOK
    SnapshotsCapture
    
    ColdLoadIsComplete

SPECIFICATION RestoreSpec
CONSTANTS
    Sessions = {1, 2}
    NumWorkers = 1
    Homes <- Together
    EvictInUse = FALSE
    KeepSnapshots = 1
    MaxEdits = 2
    MaxCompactions = 1
    MaxEvictions = 0
    MaxFaults = 1
    MaxRestores = 2
    Straddling = FALSE
INVARIANTS
    RestoreTypeOK
    RestoreHolds
    

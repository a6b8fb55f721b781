SPECIFICATION Spec
CONSTANTS
    Clients = {1, 2}
    Workers = {1, 2}
    Homes <- SharedOrApart
    SiteOf <- OwnBrowser
    MaxEdits = 3
    MaxFaults = 0
INVARIANTS
    TypeOK
    LogIsCausal
    UidsUnique
    ClientsSeeNoGap
    QuietMeansConverged

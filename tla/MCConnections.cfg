SPECIFICATION FairSpec
CONSTANTS
    Conns = {1, 2}
    Members = {1}
    MaxPendingAuth = 1
    JoinTimeout = 1
    HeartbeatInterval = 3
    IdleLimit = 2
    PresenceTTL = 6
    MaxEarly = 2
INVARIANTS
    ConnTypeOK
    GateIsExact
    
    SilentPeerIsCut
PROPERTIES
    RecordsFade
    

SPECIFICATION Spec
CONSTANTS
    Replicas = {1, 2, 3}
    Sites = {1, 2}
    MaxClock = 2
INVARIANTS
    TypeOK
    OrderAgreement
    Convergence
    ListIsTreeWalk
PROPERTIES
    TypedAtCursor

SPECIFICATION Spec
CONSTANTS
    Histories <- CausalHistories
    HistoryLength = 4
    MaxClock = 2
    Sites = {1, 2}
    MaxBufferSize = 3
INVARIANTS
    TypeOK
    OnlyGapsWait
    NothingDroppedSilently
    DocumentIsHistory

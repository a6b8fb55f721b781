SPECIFICATION Spec
CONSTANTS
    Clients = {1, 2}
    PayloadLimit = 0
    ReloadQueued = FALSE
    MaxEdits = 2
    Roaming = {2}
    MaxDrops = 1
    MaxIncidents = 1
INVARIANTS
    TypeOK
    StoredOnce
    QueuedMeansStored
    JoinerIsCurrent
PROPERTIES
    AcknowledgedMeansStored

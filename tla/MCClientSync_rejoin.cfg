SPECIFICATION Spec
CONSTANTS
    Clients = {1, 2}
    PayloadLimit = 1
    ReloadQueued = FALSE
    MaxEdits = 2
    Roaming = {2}
    MaxDrops = 1
    MaxIncidents = 0
INVARIANTS
    RejoinerIsCurrent

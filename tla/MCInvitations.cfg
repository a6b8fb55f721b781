SPECIFICATION Spec
CONSTANTS
    Users = {1, 2, 3}
    Creator = 1
    Limit = 2
    MaxRequests = 4
    Offers = {"editor"}
    MaxFaults = 0
    MaxLapses = 0
INVARIANTS
    CollaboratorLimit

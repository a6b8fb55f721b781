SPECIFICATION Spec
CONSTANTS
    Clients = {1, 2}
    Workers = {1, 2}
    Homes <- SharedOrApart
    SiteOf <- OwnBrowser
    MaxEdits = 2
    MaxFaults = 1
INVARIANTS
    StoredInTypingOrder
PROPERTIES
    ImplementsDocument
    QueueDrains
    EventuallyConverged

\* Two instances, both connected to a Redis that is never out of reach.
SPECIFICATION ConnectedSpec
CONSTANTS
    Instances = {i1, i2}
    Commands = {}
    MaxRetries = 1
    MaxRetriesPerRequest = 1
    Outages = FALSE
    Clients = {c1}
    MaxRequests = 2
    WindowMs = 2
    MaxHits = 3
    MaxTime = 2
    Shared = Shared
INVARIANTS
    SharedBound
CHECK_DEADLOCK FALSE

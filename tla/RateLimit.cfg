\* Two instances, one client, limit 2, windows of 2 in 5 instants; Redis may go and return
\* and an instance may be replaced.
SPECIFICATION Spec
CONSTANTS
    Instances = {i1, i2}
    Commands = {}
    MaxRetries = 1
    MaxRetriesPerRequest = 1
    Outages = TRUE
    Clients = {c1}
    MaxRequests = 2
    WindowMs = 2
    MaxHits = 3
    MaxTime = 4
    Shared = Shared
INVARIANTS
    IndInv
    ProcessBound
PROPERTIES
    RefusedOnlyAtLimit
CHECK_DEADLOCK FALSE

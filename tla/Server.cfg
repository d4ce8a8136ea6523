\* One process, two causes of a shutdown, a client's connection beside the prober's; the
\* database, tried twice, and Redis, reconnected once, come and go.
SPECIFICATION FairSpec
CONSTANTS
    Instances = {i1}
    Self = i1
    Commands = {ping}
    Ping = ping
    MaxRetries = 1
    MaxRetriesPerRequest = 1
    Outages = TRUE
    Connections = {c1, prober}
    Prober = prober
    Causes = {sigterm, sigint}
    DbMaxRetries = 2
INVARIANTS
    IndInv
    CleanExit
    ServedConnected
    AnswerTruthful
PROPERTIES
    StartSettles
    SignalStops
    ProbeAnswered
    ImplementsLifecycle
CHECK_DEADLOCK FALSE

\* Three callbacks of one login, on any number of instances, with lost connections and
\* lost Redis entries.
SPECIFICATION FairSpec
CONSTANTS
    States = {s1}
    Callbacks = {c1, c2, c3}
    Ttl = 2
    MaxRetriesPerRequest = 1
    MaxTime = 4
    None = None
INVARIANTS
    IndInv
    ValidatedOnce
    SomeoneWins
PROPERTIES
    CallbackAnswered
    ImplementsOneTimeState
CHECK_DEADLOCK FALSE

\* Two checks beside two recordings of one of two keys, and a service, until the first due
\* date has passed.
SPECIFICATION Spec
CONSTANTS
    LastKey = 2
    Services = {s1}
    Kinds = {"scriptAll", "process"}
    Checks = {c1, c2}
    Recorders = {r1, r2}
    Recordable = {2}
    Day = 1
    DefaultInterval = 1
    Options = {}
    ServiceInterval = 1
    Retirable = {2}
    RecordSpan = 1
    MaxTime = 2
    None = None
SYMMETRY Symmetry
INVARIANTS
    IndInv
    AckedRotationKept
PROPERTY NothingMissed
CHECK_DEADLOCK FALSE

\* A request and two operators on one identifier, which may be deleted and registered
\* again.
SPECIFICATION Spec
CONSTANTS
    Identifiers = {s1}
    Ids = {i1, i2}
    Keys = {k1, k2, k3}
    Requests = {r1}
    Operators = {o1, o2}
    None = None
SYMMETRY Symmetry
INVARIANTS
    IndInv
    BarredNeverAuthenticated
    AuthenticatedWhileValid
    PrintedKeyStored
    StoredKeyKnown
CHECK_DEADLOCK FALSE

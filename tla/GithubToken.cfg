\* Two requests, a login, the administrator and failing calls over three grants; a grant is
\* first fresh, then within the refresh threshold, then at its expiry.
SPECIFICATION Spec
CONSTANTS
    Requests = {r1, r2}
    Logins = {l1}
    Grants = {g1, g2, g3}
    AccessLifetime = 3
    Threshold = 2
    RequestSpan = 1
    MaxTime = 3
    AdminSettings = {"absent", "whitelisted"}
    Rotations = {TRUE}
    Faults = TRUE
    None = None
SYMMETRY Symmetry
INVARIANTS
    IndInv
PROPERTIES
    ServedTokenUnexpired
    ImplementsTokenHandout
CHECK_DEADLOCK FALSE

\* One request at a time and one user, of any status: GET /api/token beside a login.
SPECIFICATION Spec
CONSTANTS
    Users = {u1}
    Tokens = {t1, t2}
    Requests = {r1}
    Operations = {"issue", "callback", "refresh"}
    Lifetime = 1
    ClockTolerance = 0
    Retention = 1
    RequestSpan = 1
    MaxTime = 3
    None = None
SYMMETRY Symmetry
INVARIANT TokensOnlyForListed
CHECK_DEADLOCK FALSE

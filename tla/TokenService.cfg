\* Two concurrent requests, two jtis, and the life of a token until its
\* revocation row is past the retention, with database errors.
SPECIFICATION Spec
CONSTANTS
    Users = {u1}
    Tokens = {t1, t2}
    Requests = {r1, r2}
    Operations = {"protect", "refresh", "revoke",
                  "issue", "callback", "delist", "status"}
    Lifetime = 1
    ClockTolerance = 0
    Retention = 1
    RequestSpan = 1
    MaxTime = 3
    None = None
SYMMETRY Symmetry
INVARIANTS
    IndInv
    AckedNeverAccepted
    ListedDuringRequest
    NeverStuck
PROPERTIES
    StatusAgreesWithRevocation
    CleanupKeepsNeededRows
    RequestsAdvance
    ImplementsRevocableTokens
CHECK_DEADLOCK FALSE

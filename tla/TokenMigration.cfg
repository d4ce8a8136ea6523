\* One run of the script beside a request, a login, the deletion of the user and calls that
\* fail; a token is fresh, expires and is past its expiry within three instants.
SPECIFICATION FairMigrationSpec
CONSTANTS
    Requests = {r1}
    Logins = {l1}
    Migrations = {m1}
    Grants = {g1, g2, g3}
    AccessLifetime = 1
    Threshold = 0
    RequestSpan = 0
    MigrationSpan = 1
    MaxTime = 2
    AdminSettings = {"absent"}
    Rotations = {TRUE}
    Faults = TRUE
    None = None
INVARIANTS
    MigrationInv
    SuccessMeansEncrypted
    StoredRefreshTokenUsable
PROPERTIES
    DegradedTokenRecent
    AllEnds
CHECK_DEADLOCK FALSE

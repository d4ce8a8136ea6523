\* A run of the migration beside one login.
SPECIFICATION MigrationSpec
CONSTANTS
    Requests = {}
    Logins = {l1}
    Migrations = {m1}
    Grants = {g1, g2}
    AccessLifetime = 1
    Threshold = 0
    RequestSpan = 0
    MigrationSpan = 1
    MaxTime = 2
    AdminSettings = {}
    Rotations = {TRUE}
    Faults = FALSE
    None = None
PROPERTIES
    MigrationKeepsTokens
CHECK_DEADLOCK FALSE

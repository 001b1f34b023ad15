SPECIFICATION Spec
CONSTANTS
    InitialRows <- ColdRows
    Creds = {1, 2, 3}
    Strategies = {"round_robin"}
    DefaultCooldown = 2
    RateLimitCooldown = 2
    DecryptCooldown = 2
    BackoffUnit = 1
    Expiries = {0}
    Edits = {}
    MaxTime = 0
    Requests = {r1, r2}
    Streams = {r2}
    MaxAttempts = 2
    AuthResults = {"ok", "reject"}
    Faults <- AllFaults
    NoRequest = NoRequest
INVARIANTS TypeOK RecordTellsOutcome ScanAgrees RotationServesAll
PROPERTIES ErrorIsInformative FollowsProtocol
CHECK_DEADLOCK FALSE

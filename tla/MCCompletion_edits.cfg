SPECIFICATION Spec
CONSTANTS
    InitialRows <- UsedRows
    Creds = {1}
    Strategies = {"round_robin"}
    DefaultCooldown = 2
    RateLimitCooldown = 2
    DecryptCooldown = 2
    BackoffUnit = 1
    Expiries = {0, 2}
    Edits = {"enable", "secret", "clear", "delete", "create"}
    MaxTime = 2
    Requests = {r1, r2}
    Streams = {r2}
    MaxAttempts = 1
    AuthResults = {"ok", "rotate", "reject"}
    Faults <- SlowFaults
    NoRequest = NoRequest
INVARIANTS LeaseLedger HealthTellsEligible
PROPERTIES RestingIsLeftAlone FailureRests
CHECK_DEADLOCK FALSE

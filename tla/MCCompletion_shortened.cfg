SPECIFICATION Spec
CONSTANTS
    InitialRows <- FreshRows
    Creds = {1}
    Strategies = {"round_robin"}
    DefaultCooldown = 2
    RateLimitCooldown = 2
    DecryptCooldown = 2
    BackoffUnit = 1
    Expiries = {0}
    Edits = {}
    MaxTime = 0
    Requests = {r1, r2}
    Streams = {}
    MaxAttempts = 2
    AuthResults = {"ok", "reject"}
    Faults <- SlowFaults
    NoRequest = NoRequest
PROPERTIES RetryAfterIsHonoured
CHECK_DEADLOCK FALSE

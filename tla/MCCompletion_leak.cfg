SPECIFICATION Spec
CONSTANTS
    InitialRows <- FreshRows
    Creds = {1}
    Strategies = {"round_robin"}
    DefaultCooldown = 2
    RateLimitCooldown = 2
    DecryptCooldown = 2
    BackoffUnit = 1
    Expiries = {0}
    Edits = {}
    MaxTime = 0
    Requests = {r1}
    Streams = {r1}
    MaxAttempts = 2
    AuthResults = {"ok", "reject"}
    Faults <- OneFault
    NoRequest = NoRequest
INVARIANTS LeasesExact
CHECK_DEADLOCK FALSE

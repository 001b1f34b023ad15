SPECIFICATION FairSpec
CONSTANTS
    InitialRows <- ColdRows
    Creds = {1, 2}
    Strategies = {"round_robin", "least_recently_used"}
    DefaultCooldown = 2
    RateLimitCooldown = 2
    DecryptCooldown = 2
    BackoffUnit = 1
    Expiries = {0}
    Edits = {"delete"}
    MaxTime = 0
    Requests = {r1, r2}
    Streams = {r2}
    MaxAttempts = 2
    AuthResults = {"ok", "reject"}
    Faults <- OneFault
    NoRequest = NoRequest
PROPERTIES Termination
CHECK_DEADLOCK FALSE

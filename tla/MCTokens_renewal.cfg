SPECIFICATION Spec
CONSTANTS
    InitialRows <- OldRows
    Creds = {1}
    Strategies = {}
    DefaultCooldown = 1
    RateLimitCooldown = 1
    DecryptCooldown = 1
    BackoffUnit = 1
    Expiries = {}
    Edits = {"secret", "refresh"}
    MaxTime = 2
    Requests = {r1, r2}
    Failures = {"rate_limit"}
    InitialVaults <- OldVaults
    Replies = {"rotates", "keeps"}
    Readable = {TRUE}
    Lifetime = 2
    RefreshWindow = 1
    NaiveDates = TRUE
    MaxGrants = 3
    MaxFailures = 1
INVARIANTS TypeOK RefreshTokenIsKept ExpiryIsNotPromised
PROPERTIES ProbeMendsWhatItSaw
CHECK_DEADLOCK FALSE
SYMMETRY Symmetric

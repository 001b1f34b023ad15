SPECIFICATION Spec
CONSTANTS
    a = a
    b = b
    Buckets = {a, b}
    Limits <- OneEach
    Window = 1
    MaxBuckets = 1
    MaxClears = 1
    MaxTime = 2
    Requests = {r1, r2}
    Streams = {r2}
    Keys = {1}
    Lifetimes = {0, 1}
    Databases = {"sqlite", "postgresql"}
    Retention = 1
    MaxEntries = 1
    NoWriter = NoWriter
INVARIANTS TypeOK RateHolds CountersFollowLog RevocationIsFinal StreamsAreCounted RefusalIsDeserved
CHECK_DEADLOCK FALSE

SPECIFICATION Spec
CONSTANTS
    Bytes = {"CR", "LF", "data", "json", "odd", "done", "lead", "cont"}
    MaxChunk = 2
    MaxBody = 6
    Modes = {"web", "portal"}
    Statuses = {200, 400, 401, 403, 404, 408, 418, 429, 498, 500, 503, 504}
    Headers <- AllHeaders
    Losses <- AllLosses
    Breaks = {"RemoteProtocolError"}
INVARIANTS CutsDoNotMatter FramesAreThoseOfTheFormat BrokenBodyIsWhole EmptyIsMalformed FailureIsUpstreams
CHECK_DEADLOCK FALSE

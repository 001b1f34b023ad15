SPECIFICATION ChatSpec
CONSTANTS
    Calls <- SomeCalls
    Plain = {"usage", "metadata"}
    MaxEvents = 5
    Reasons = {"stop", "length", "tool_calls"}
    ExposeReasoning = TRUE
    IncludeUsage = TRUE
INVARIANTS StreamedIsComplete BodyIsFramed CompleteImpliesStreamed
CHECK_DEADLOCK FALSE

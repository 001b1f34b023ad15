SPECIFICATION Spec
CONSTANTS
    Responses <- TornResponses
    MaxHoldback = 2
    Deltas <- NativeCalls
    Reasons = {"end_turn", "tool_use", "weird"}
    Others = {"usage"}
INVARIANTS NothingLeaks
CHECK_DEADLOCK FALSE

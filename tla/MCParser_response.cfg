SPECIFICATION Spec
CONSTANTS
    Responses <- AllResponses
    MaxHoldback = 2
    Deltas <- NativeCalls
    Reasons = {"end_turn", "tool_use", "weird"}
    Others = {"usage"}
INVARIANTS AnswerIsWhole NothingLeaks OrderIsKept OnlyUnfinishedWaits ThoughtsOnce CallsAreReassembled EndsOnce
CHECK_DEADLOCK FALSE

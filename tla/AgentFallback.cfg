CONSTANTS
    Questions = {q1}
    MaxCalls = 2
    MaxTurns = 2
SPECIFICATION Spec
CHECK_DEADLOCK FALSE
INVARIANT FallbackFailureIsRecorded

CONSTANTS
    Questions = {q1, q2}
    MaxCalls = 2
    MaxTurns = 2
SPECIFICATION FairSpec
CHECK_DEADLOCK FALSE
INVARIANTS ShownAnswerIsRecorded HistoryOfOneAttempt StoringFailureIsRecorded
PROPERTIES RowsFollowLifecycle QuestionsConclude

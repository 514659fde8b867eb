\* One wrap of millis(); the first half of its range has room for an attempt
\* that times out, its retry, a lost link and the retry after that.
CONSTANTS
    Word = 16
    ConnectionTimeout = 2
    RetryInterval = 2
    DisplayInterval = 1
    LongestLoop = 2
    MaxUptime = 18
    MaxRetryCount = 3
    InitialInterval = 2
    MaxInterval = 5
    JitterPart = 2
    RetryAfters = {0, 6}
    LongestSend = 1
SPECIFICATION SendingSpec
CHECK_DEADLOCK FALSE
INVARIANTS AttemptsEnd RetriesInTimeAtFirst WaitsInTimeAtFirst
PROPERTIES SendsAreSpaced

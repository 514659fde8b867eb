\* A device running for longer than the range of millis(), 49.7 days.
CONSTANTS
    Word = 12
    RetryInterval = 2
    ResyncInterval = 3
    Validity = 5
    DisplayInterval = 1
    Second = 2
    Skew = 1
    LongestLoop = 2
    MaxUptime = 14
SPECIFICATION Spec
CHECK_DEADLOCK FALSE
INVARIANT ValidMeansRecent

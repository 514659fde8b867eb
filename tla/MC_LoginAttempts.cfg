CONSTANTS
    Addresses = {a1, a2}
    Users = {u1, u2}
    Window = 2
    MaxAttempts = 2
    LockTime = 2
    MaxKeys = 3
    MaxClock = 4
    MaxTries = 4
SPECIFICATION LimiterSpec
SYMMETRY Symmetry
CHECK_DEADLOCK FALSE
INVARIANTS LockedWhenExhausted FailuresAreRare
PROPERTY DroppedForNewer

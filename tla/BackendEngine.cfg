SPECIFICATION FairSpec
CONSTANTS
    Calls = {k1, k2}
    Streaming = TRUE
    MaxEpoch = 3
    MaxWait = 2
    ShortWait = 1
    Failures = TRUE
INVARIANTS Recovers NoLostWaiter
PROPERTY EveryCallEnds
CHECK_DEADLOCK FALSE

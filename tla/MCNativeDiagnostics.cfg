SPECIFICATION Spec
CONSTANTS
    Writers = {w1, w2}
    Main = main
    Capacity = 1
    Retries = 2
    Limits = {2}
    Samplings <- MCSamplings
    MarkerEvery = 2
    MaxSequence = 2
    MaxAttempts = 2
    MaxCalls = 2
CHECK_DEADLOCK FALSE
INVARIANTS
    RingTrue
PROPERTIES
    CallsComplete

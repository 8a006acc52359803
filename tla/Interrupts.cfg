SPECIFICATION Spec
CONSTANTS
    Lines <- MCLines
    Naps  <- MCNaps
    EarlyKeys = FALSE
    TIMER_HZ  = 1
    HALF      = 2
    MaxTicks  = 2
    MaxKeys   = 2
    MaxNoise  = 2
INVARIANTS
    ServiceEnds
    SleepsEnough
PROPERTIES
    SleepReturns
    KeysRead

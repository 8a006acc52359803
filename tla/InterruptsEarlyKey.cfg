SPECIFICATION Spec
CONSTANTS
    Lines <- MCLines
    Naps  <- MCNaps
    EarlyKeys = TRUE
    TIMER_HZ  = 1
    HALF      = 2
    MaxTicks  = 0
    MaxKeys   = 2
    MaxNoise  = 0
PROPERTIES
    KeysRead

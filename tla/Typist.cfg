SPECIFICATION TypistSpec
CONSTANTS
    BUF_SIZE   = 8
    map_lower <- MCLower
    map_upper <- MCUpper
    Plain      = {30, 2}
    Extended   = {72, 80, 71}
    ShiftKeys  = {42}
    MaxStrokes = 5
    WIRE_MAX   = 4
INVARIANTS
    TypedAsMeant

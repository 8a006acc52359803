SPECIFICATION Spec
CONSTANTS
    BUF_SIZE  = 4
    map_lower <- MCLower
    map_upper <- MCUpper
    Scancodes <- MCKeys
    Bytes     <- MCBytes
    FIFO_SIZE = 2
    MaxBytes  = 4
    MaxInput  = 5
INVARIANTS
    SerialDecoded
PROPERTIES
    KeysInOrder
    KeysDelivered
    SerialDrained

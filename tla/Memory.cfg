SPECIFICATION Spec
CONSTANTS
    Loaders <- MCLoaders
    KERNEL_END = 1276
    HEAP_SIZE = 4096
    MAX_FRAMES = 262144
    Window = 256
    Word = 16777216
    MaxHeld = 5
INVARIANTS
    CounterExact
    FramesExclusive
    AllMapped
    FreeHonest

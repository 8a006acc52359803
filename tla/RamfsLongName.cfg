SPECIFICATION Spec
CONSTANTS
    NULL = NULL
    root = root
    Ptrs = {root, p1, p2, p3, p4}
    Names = {"a", "b"}
    Long = {"bb"}
    Spelled <- MCSpelledLong
    RAMFS_NAME_MAX = 2
    RAMFS_PATH_MAX = 16
    Paths <- MCLongPaths
    PreDirs <- MCPreDirs
    Texts <- MCTexts
    FirstCapacity = 2
    MaxAlloc = 4
    CAPTURE_MAX = 3
    CHAIN_MAX = 32
SYMMETRY MCSymmetry
INVARIANTS
    UniqueNames

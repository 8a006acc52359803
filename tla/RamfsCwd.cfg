SPECIFICATION Spec
CONSTANTS
    NULL = NULL
    root = root
    Ptrs = {root, p1, p2, p3, p4}
    Names = {"a", "b"}
    Long = {}
    Spelled <- MCSpelled
    RAMFS_NAME_MAX = 4
    RAMFS_PATH_MAX = 16
    Paths <- MCNested
    PreDirs <- MCPreDirs
    Texts <- MCTexts
    FirstCapacity = 2
    MaxAlloc = 4
    CAPTURE_MAX = 3
    CHAIN_MAX = 32
SYMMETRY MCSymmetry
INVARIANTS
    CwdLive

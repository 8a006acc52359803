SPECIFICATION Spec
CONSTANTS
    NULL = NULL
    root = root
    Ptrs = {root, p1, p2, p3, p4}
    Names = {"a", "ab"}
    Long = {}
    Spelled <- MCSpelledTwo
    RAMFS_NAME_MAX = 4
    RAMFS_PATH_MAX = 5
    Paths <- MCPaths
    PreDirs <- MCPreDirs
    Texts <- MCTexts
    FirstCapacity = 2
    MaxAlloc = 4
    CAPTURE_MAX = 3
    CHAIN_MAX = 2
SYMMETRY MCSymmetry
INVARIANTS
    TypeOK
    TreeOK
    Owned
    PathResolves
PROPERTIES
    WriteExact
    FileTreeHolds

SPECIFICATION CmdSpec
CONSTANTS
    SHELL_LINE_MAX = 4
    SHELL_ARGV_MAX = 5
    CAPTURE_MAX = 6
    DUMP_ROW = 2
    Code <- MCCode
    FileNames <- MCFileNames
    Typed <- MCTyped
    RawLines <- MCRawLines
    Files <- MCFiles
    Calls <- MCCalls
INVARIANTS
    PointersOK
    WordsAsTyped
    
    PanicSeen
    
    FieldsExact

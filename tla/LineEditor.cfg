SPECIFICATION Spec
CONSTANTS
    VGA_ROWS = 2
    VGA_COLS = 4
    SHELL_LINE_MAX = 3
    SHELL_HISTORY_MAX = 2
    Chars = {"x", "y"}
    Prompt <- MCPrompt
    Outputs <- MCOutputs
    MaxLines = 4
INVARIANTS
    TypeOK
    HistoryExact
    ScreenShowsLine

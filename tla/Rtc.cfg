SPECIFICATION Spec
CONSTANTS
    Settings <- MCSettings
    MaxUpdates = 3
INVARIANT DateShown
PROPERTY ReadEnds

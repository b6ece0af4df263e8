SPECIFICATION Spec
CONSTANTS
    None = None
    Directories <- MCDirectories
    Defaults <- MCDefaults
INVARIANTS
    GraphRead
    ChecksTellTheTruth
CHECK_DEADLOCK FALSE

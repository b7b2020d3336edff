SPECIFICATION Spec
CONSTANTS
    Rows <- MCRows
    InitialDirs <- MCLiveDirs
    MaxChanges = 1
    MaxAge = 1
PROPERTIES
    Converges
    Shutdown
CHECK_DEADLOCK FALSE

SPECIFICATION Spec
CONSTANTS
    Rows <- MCRows
    InitialDirs <- MCInitialDirs
    MaxChanges = 2
    MaxAge = 2
INVARIANTS
    TypeOK
    CacheConsistent
    CacheFresh
    SyncSignal
    StalenessReported
PROPERTIES
    ReadersSpec
CHECK_DEADLOCK FALSE

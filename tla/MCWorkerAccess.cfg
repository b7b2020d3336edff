SPECIFICATION AccessSpec
CONSTANTS
    Rows <- MCRows
    InitialDirs <- MCDirs
    MaxChanges = 1
    MaxAge = 2
    Workers = {x1}
    Keys = {"r1", "default", "other", "none"}
    DefaultKey = "default"
    Prefixed = {"r1"}
    NoKey = "none"
INVARIANTS
    AccessTypeOK
    ActsForOwnCluster
PROPERTIES
    RevocationLag
    RevokedIsLockedOut
    RegisteredIsAdmitted

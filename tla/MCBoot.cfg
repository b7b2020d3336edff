SPECIFICATION Spec
CONSTANTS
    Configs <- MCConfigs
    MaxRPCs <- MCMaxRPCs
INVARIANTS
    TypeOK
    ServesOnlySynced
    SignalDrains
    TickerNeverPanics
PROPERTIES
    SignalEndsProcess
    FailureEndsProcess
    SharedPortEndsProcess
CHECK_DEADLOCK FALSE

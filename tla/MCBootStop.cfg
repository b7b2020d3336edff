SPECIFICATION Spec
CONSTANTS
    Configs <- MCConfigs
    MaxRPCs <- MCMaxRPCs
INVARIANTS
    GracefulStopIsGraceful
CHECK_DEADLOCK FALSE

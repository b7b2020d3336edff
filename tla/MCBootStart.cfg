SPECIFICATION Spec
CONSTANTS
    Configs <- MCConfigs
    MaxRPCs <- MCMaxRPCs
PROPERTIES
    StartsWithoutUpstream
CHECK_DEADLOCK FALSE

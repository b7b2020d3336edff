SPECIFICATION Spec
CONSTANTS
    None = None
    ClusterIds = {"c1", "c2", "c3"}
    Namespaces = {"n1", "n2"}
    Inputs <- MCInputs
INVARIANTS
    TypeOK
    ResultCorrect
    NoDuplicates
CHECK_DEADLOCK FALSE

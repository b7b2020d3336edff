SPECIFICATION Spec
CONSTANTS
    None = None
    Nil = Nil
    Handlers = {h1}
    Snapshots <- MCCallSnapshots
    EmptyStore <- NewStore
    Requests = {}
    WorkerTokens = {}
    Introspections <- MCIntrospections
    Normalize <- MCNormalize
    RoleScopes <- MCRoleScopes
    OrganizationSegments = {"organizations"}
    Configs <- MCConfigs
    ExcludeMethods <- MCExclude
    Calls <- MCCalls
    InnerMethods <- MCInner
    MaxHops = 2
INVARIANTS
    CallTypeOK
    HandledOnEvidence
    ActsForClient
    NoPanic
PROPERTIES
    CallsReturn

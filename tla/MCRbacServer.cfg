SPECIFICATION ServerSpec
CONSTANTS
    None = None
    Nil = Nil
    Handlers = {h1}
    Snapshots <- MCSnapshots
    EmptyStore <- NewStore
    Requests <- MCRequests
    WorkerTokens <- MCWorkerTokens
    Introspections <- MCIntrospections
    Normalize <- MCNormalize
    RoleScopes <- MCRoleScopes
    OrganizationSegments = {"organizations"}
INVARIANTS
    UntornIsAtomic
    EvidencedGrant
    TenantCoherent
    RequestedHonoured

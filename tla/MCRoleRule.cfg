SPECIFICATION ServerSpec
CONSTANTS
    None = None
    Nil = Nil
    Handlers = {h1}
    Snapshots <- MCProjectRoleOnly
    EmptyStore <- NewStore
    Requests <- MCProjectRequests
    WorkerTokens = {}
    Introspections <- MCActive
    Normalize <- MCNormalize
    RoleScopes <- MCRoleScopes
    OrganizationSegments = {"organizations"}
INVARIANTS
    ProjectRoleSuffices

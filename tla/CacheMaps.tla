----------------------------- MODULE CacheMaps -----------------------------
(***************************************************************************)
(* The data of the cache: the six upstream tables, the nine maps that      *)
(* updateCache derives from them (server/internal/cache/cache.go), and     *)
(* what it means for the maps to agree with each other.                    *)
(*                                                                         *)
(* A Go slice that holds a list of rows is modelled as the set of its      *)
(* elements: the order of the rows is the upstream service's.  A Go map is *)
(* a function whose domain is the set of keys that are present.            *)
(*                                                                         *)
(* Rows keep the fields that the RBAC server decides on; titles, display   *)
(* names, internal IDs and the rate limiting flag are passed through       *)
(* unread and are left out.                                                *)
(***************************************************************************)

Tables == {"apiKeys", "clusters", "orgs", "orgUsers", "projects", "projectUsers"}

(***************************************************************************)
(* The fields that identify a row of table t.                              *)
(***************************************************************************)
KeyFields ==
    [apiKeys  |-> {"secret"},      clusters |-> {"registrationKey"}, orgs         |-> {"id"},
     orgUsers |-> {"user", "org"}, projects |-> {"id"},              projectUsers |-> {"user", "project"}]

SameKey(t, r, s) == \A f \in KeyFields[t] : r[f] = s[f]

UniqueKeys(t, rows) == \A r, s \in rows : SameKey(t, r, s) => r = s

----------------------------------------------------------------------------
(* The maps that updateCache derives from the answers m.                   *)

APIKeysBySecret(m) ==
    [s \in {k.secret : k \in m.apiKeys} |-> CHOOSE k \in m.apiKeys : k.secret = s]

ClustersByRegistrationKey(m) ==
    [s \in {c.registrationKey : c \in m.clusters} |->
        CHOOSE c \in m.clusters : c.registrationKey = s]

ClustersByTenantID(m) ==
    [t \in {c.tenant : c \in m.clusters} |-> {c \in m.clusters : c.tenant = t}]

OrgsByID(m) ==
    [i \in {o.id : o \in m.orgs} |-> CHOOSE o \in m.orgs : o.id = i]

OrgsByUserID(m) ==
    [u \in {r.user : r \in m.orgUsers} |->
        {[org |-> r.org, role |-> r.role] : r \in {x \in m.orgUsers : x.user = u}}]

ProjectsByID(m) ==
    [i \in {p.id : p \in m.projects} |-> CHOOSE p \in m.projects : p.id = i]

ProjectsByOrganizationID(m) ==
    [o \in {p.org : p \in m.projects} |-> {p \in m.projects : p.org = o}]

ProjectsByUserID(m) ==
    [u \in {r.user : r \in m.projectUsers} |->
        {[project |-> ProjectsByID(m)[r.project], org |-> r.org, role |-> r.role] :
            r \in {x \in m.projectUsers : x.user = u}}]

UsersByID(m) ==
    [u \in {r.user : r \in m.orgUsers} |->
        [id |-> u, tenant |-> OrgsByID(m)[(CHOOSE r \in m.orgUsers : r.user = u).org].tenant]]

(***************************************************************************)
(* The errors updateCache returns once all List calls have succeeded.      *)
(***************************************************************************)
ProjectNotFound(m) ==
    \E r \in m.projectUsers : r.project \notin DOMAIN ProjectsByID(m)

OrganizationNotFound(m) ==
    \E r \in m.orgUsers : r.org \notin DOMAIN OrgsByID(m)

\* Faulty variant: the check for multiple tenant IDs is missing.
TenantIDsUnchecked(m) == FALSE

MultipleTenantIDs(m) ==
    \E r, s \in m.orgUsers :
        /\ r.user = s.user
        /\ {r.org, s.org} \subseteq DOMAIN OrgsByID(m)
        /\ OrgsByID(m)[r.org].tenant # OrgsByID(m)[s.org].tenant

BuildError(m) == ProjectNotFound(m) \/ OrganizationNotFound(m) \/ MultipleTenantIDs(m)

Build(m) ==
    [apiKeysBySecret           |-> APIKeysBySecret(m),
     clustersByRegistrationKey |-> ClustersByRegistrationKey(m),
     clustersByTenantID        |-> ClustersByTenantID(m),
     orgsByID                  |-> OrgsByID(m),
     orgsByUserID              |-> OrgsByUserID(m),
     projectsByID              |-> ProjectsByID(m),
     projectsByOrganizationID  |-> ProjectsByOrganizationID(m),
     projectsByUserID          |-> ProjectsByUserID(m),
     usersByID                 |-> UsersByID(m)]

NoRows == [t \in Tables |-> {}]

(***************************************************************************)
(* NewStore makes every map empty (usersByID stays nil, which reads as     *)
(* empty): the maps that no rows at all would give.                        *)
(***************************************************************************)
NewStore == Build(NoRows)

----------------------------------------------------------------------------
(***************************************************************************)
(* The nine maps that request handlers read agree with each other, even    *)
(* though the six lists they come from were read at different moments: the *)
(* project in a user's role is the project found under its ID, a user has  *)
(* an entry in usersByID exactly when it has a role in an organization,    *)
(* every such organization exists and has the user's tenant, and the       *)
(* projects by organization are the projects by ID.                        *)
(***************************************************************************)
RolesHaveProjects(c) ==
    \A u \in DOMAIN c.projectsByUserID : \A x \in c.projectsByUserID[u] :
        /\ x.project.id \in DOMAIN c.projectsByID
        /\ c.projectsByID[x.project.id] = x.project

UsersHaveOneTenant(c) ==
    /\ DOMAIN c.usersByID = DOMAIN c.orgsByUserID
    /\ \A u \in DOMAIN c.usersByID : \A x \in c.orgsByUserID[u] :
          /\ x.org \in DOMAIN c.orgsByID
          /\ c.orgsByID[x.org].tenant = c.usersByID[u].tenant

ProjectMapsAgree(c) ==
    /\ \A o \in DOMAIN c.projectsByOrganizationID : \A p \in c.projectsByOrganizationID[o] :
          p.org = o /\ p.id \in DOMAIN c.projectsByID /\ c.projectsByID[p.id] = p
    /\ \A i \in DOMAIN c.projectsByID :
          LET p == c.projectsByID[i]
          IN  /\ p.id = i
              /\ p.org \in DOMAIN c.projectsByOrganizationID
              /\ p \in c.projectsByOrganizationID[p.org]

Consistent(c) == RolesHaveProjects(c) /\ UsersHaveOneTenant(c) /\ ProjectMapsAgree(c)

(***************************************************************************)
(* Users and clusters are filed under their own keys.                      *)
(***************************************************************************)
FiledUnderOwnKeys(c) ==
    /\ \A u \in DOMAIN c.usersByID : c.usersByID[u].id = u
    /\ \A t \in DOMAIN c.clustersByTenantID : \A cl \in c.clustersByTenantID[t] : cl.tenant = t
=============================================================================

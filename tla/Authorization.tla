--------------------------- MODULE Authorization ---------------------------
(***************************************************************************)
(* The decisions of server/internal/server/authorization.go that need no   *)
(* state: which scopes a pair of roles opens, which project a request is   *)
(* about, which roles a user has for it and in which Kubernetes            *)
(* namespaces the project lives.                                           *)
(*                                                                         *)
(* An access resource and a capability are sequences of the segments that  *)
(* the dots of the Go strings separate; the empty string is <<>>.  Any     *)
(* other empty string is None, a nil message is Nil.                       *)
(***************************************************************************)
EXTENDS Integers, Sequences

CONSTANTS
    None,                  \* the empty string
    Nil,                   \* a message that is not set
    RoleScopes,            \* Server.roleScopesMapper: scopes by role name
    OrganizationSegments   \* the segments that begin with "organizations"

ASSUME AuthorizationAssumption == None \notin DOMAIN RoleScopes

OrgRoles     == {"unspecified", "owner", "reader", "tenantSystem"}
ProjectRoles == {"unspecified", "owner", "member"}

(***************************************************************************)
(* A slice found in a map is empty when the key is missing.                *)
(***************************************************************************)
Lookup(map, key) == IF key \in DOMAIN map THEN map[key] ELSE {}

(***************************************************************************)
(* toScope: the resource and the capability joined by a dot.               *)
(***************************************************************************)
toScope(req) == req.resource \o req.capability

(***************************************************************************)
(* strings.HasPrefix(req.AccessResource, "api.organizations").             *)
(***************************************************************************)
OrganizationResource(req) ==
    /\ Len(req.resource) >= 2
    /\ req.resource[1] = "api"
    /\ req.resource[2] \in OrganizationSegments

(***************************************************************************)
(* The role that the role-to-scopes configuration is asked for.            *)
(***************************************************************************)
EffectiveRole(orgRole, projectRole) ==
    CASE orgRole = "owner"                              -> "organizationOwner"
      [] orgRole = "tenantSystem"                       -> "tenantSystem"
      [] orgRole = "reader" /\ projectRole = "owner"    -> "projectOwner"
      [] orgRole = "reader" /\ projectRole = "member"   -> "projectMember"
      [] OTHER                                          -> None

authorized(scope, orgRole, projectRole) ==
    LET role == EffectiveRole(orgRole, projectRole)
    IN  role \in DOMAIN RoleScopes /\ scope \in RoleScopes[role]

(***************************************************************************)
(* pickProject on the user's own projects followed by the projects of some *)
(* organizations: the first default project, or else the first project.    *)
(* The order within each part is upstream's, so this is the set of         *)
(* projects that some order makes the choice.                              *)
(***************************************************************************)
pickProject(own, others) ==
    LET Defaults(ps) == {p \in ps : p.isDefault}
    IN  IF Defaults(own) # {} THEN Defaults(own)
        ELSE IF Defaults(others) # {} THEN Defaults(others)
        ELSE IF own # {} THEN own ELSE others

(***************************************************************************)
(* The user's projects that findAssociatedProject considers, and the       *)
(* organizations all projects of which it considers, when the request      *)
(* names no project.                                                       *)
(***************************************************************************)
OwnProjects(req, userProjects) ==
    {x.project : x \in {y \in userProjects : req.org = None \/ y.org = req.org}}

OrgsToSearch(req, userOrgs) ==
    IF req.org = None THEN {o.org : o \in userOrgs} ELSE {req.org}

(***************************************************************************)
(* The user's roles for project p, "unspecified" when there is none.       *)
(***************************************************************************)
ProjectRole(userProjects, p) ==
    LET mine == {x \in userProjects : x.project.id = p.id}
    IN  IF mine = {} THEN "unspecified" ELSE (CHOOSE x \in mine : TRUE).role

\* Faulty variant: everybody is a reader of every organization.
OrgRoleReader(userOrgs, p) ==
    LET mine == {x \in userOrgs : x.org = p.org}
    IN  IF mine = {} THEN "reader" ELSE (CHOOSE x \in mine : TRUE).role

\* Faulty variant: a missing role is the empty string.
OrgRoleNone(userOrgs, p) ==
    LET mine == {x \in userOrgs : x.org = p.org}
    IN  IF mine = {} THEN None ELSE (CHOOSE x \in mine : TRUE).role

OrgRole(userOrgs, p) ==
    LET mine == {x \in userOrgs : x.org = p.org}
    IN  IF mine = {} THEN "unspecified" ELSE (CHOOSE x \in mine : TRUE).role

(***************************************************************************)
(* assignedKubernetesEnvsInternal: the namespaces of a project on each of  *)
(* the clusters.  The last assignment that names a cluster counts; a       *)
(* namespace for all clusters is added unless it equals the one found for  *)
(* the cluster, which is the empty string when none was found.             *)
(***************************************************************************)
assignedKubernetesEnvs(p, clusters) ==
    LET Naming(c) == {i \in DOMAIN p.assignments : p.assignments[i].cluster = c}
        ForAll == ({p.namespace} \ {None})
                      \cup {p.assignments[i].namespace : i \in Naming(None)}
        Last(is) == CHOOSE i \in is : \A j \in is : j <= i
        Namespaces(c) == IF Naming(c) = {} THEN ForAll \ {None}
                         ELSE ForAll \cup {p.assignments[Last(Naming(c))].namespace}
    IN  UNION {{[cluster |-> c.id, namespace |-> n] : n \in Namespaces(c.id)} : c \in clusters}

----------------------------------------------------------------------------
(* The answers of Authorize and AuthorizeWorker.                           *)

Answer(ok, user, org, project, envs, tenant, apiKey) ==
    [status |-> "OK", authorized |-> ok, user |-> user, org |-> org, project |-> project,
     envs |-> envs, tenant |-> tenant, apiKey |-> apiKey, cluster |-> Nil]

Denied == Answer(FALSE, Nil, Nil, Nil, {}, None, None)

Error(code) == [Denied EXCEPT !.status = code]

WorkerGrant(c) == [Denied EXCEPT !.authorized = TRUE, !.cluster = c.id, !.tenant = c.tenant]

KeyAnswer(req, key, project, clusters) ==
    Answer(authorized(toScope(req), key.orgRole, key.projectRole), key.user, key.org,
           key.project, assignedKubernetesEnvs(project, clusters), key.tenant, key.id)

\* Faulty variant: the messages of organization and project are left out.
OrganizationAnswerBare(user) == Answer(TRUE, user.id, Nil, Nil, {}, user.tenant, None)

OrganizationAnswer(user) == Answer(TRUE, user.id, None, None, {}, user.tenant, None)

UserAnswer(req, user, project, orgRole, projectRole, clusters) ==
    Answer(authorized(toScope(req), orgRole, projectRole), user.id, project.org, project.id,
           assignedKubernetesEnvs(project, clusters), user.tenant, None)
=============================================================================

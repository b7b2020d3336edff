----------------------------- MODULE RbacServer ----------------------------
(***************************************************************************)
(* The request handlers of the RBAC server                                 *)
(* (server/internal/server/authorization.go, authorization_worker.go) over *)
(* a cache that is replaced while they run.  gRPC serves every request in  *)
(* a goroutine of its own.  Each getter of cache.go takes and releases the *)
(* read lock, so between two reads of one request the Sync goroutine may   *)
(* publish any number of new snapshots: one action per read.               *)
(*                                                                         *)
(* The server is started after WaitForSync returned, so requests come only *)
(* once the cache is synced.                                               *)
(***************************************************************************)
EXTENDS SnapshotStore, CacheMaps, Authorization

CONSTANTS
    Handlers,        \* the goroutines that serve requests
    Requests,        \* the Authorize requests that clients may send
    WorkerTokens,    \* the tokens of AuthorizeWorker requests
    Introspections,  \* what TokenIntrospect may return for a token
    Normalize        \* userid.Normalize: the user ID of an email address

(***************************************************************************)
(* Maps and rows of a snapshot fit together as updateCache makes them, API *)
(* keys have IDs and roles are values of the upstream enums.               *)
(***************************************************************************)
RolesKnown(c) ==
    /\ \A u \in DOMAIN c.orgsByUserID : \A o \in c.orgsByUserID[u] : o.role \in OrgRoles
    /\ \A u \in DOMAIN c.projectsByUserID : \A p \in c.projectsByUserID[u] : p.role \in ProjectRoles

WellFormed(c) ==
    /\ RolesHaveProjects(c) /\ ProjectMapsAgree(c) /\ FiledUnderOwnKeys(c)
    /\ \A s \in DOMAIN c.apiKeysBySecret : c.apiKeysBySecret[s].id # None
    /\ RolesKnown(c)

ASSUME SnapshotsAssumption == \A c \in Snapshots : WellFormed(c)

VARIABLES
    h,               \* h[x]: program counter and locals of handler x
    seen             \* history: the snapshots current since x got its request

serverVars == <<snapshotVars, h, seen>>

Idle ==
    [pc |-> "idle", req |-> Nil, key |-> Nil, user |-> Nil, userProjects |-> {},
     userOrgs |-> {}, left |-> {}, pool |-> {}, project |-> Nil, orgRole |-> "unspecified",
     projectRole |-> "unspecified", resp |-> Nil]

ServerInit ==
    /\ SnapshotInit
    /\ h = [x \in Handlers |-> Idle]
    /\ seen = [x \in Handlers |-> {}]

Reply(x, r) ==
    h' = [h EXCEPT ![x] = [Idle EXCEPT !.pc = "replied", !.req = h[x].req, !.resp = r]]

----------------------------------------------------------------------------
(* Authorize *)

Invalid(req) == req.token = None \/ req.resource = <<>> \/ req.capability = <<>>

Receive(x, req) ==
    /\ h[x].pc = "idle"
    /\ synced
    /\ h' = [h EXCEPT ![x] = IF Invalid(req)
                             THEN [Idle EXCEPT !.pc = "replied", !.req = req,
                                               !.resp = Error("InvalidArgument")]
                             ELSE [Idle EXCEPT !.pc = "key", !.req = req]]
    /\ seen' = [seen EXCEPT ![x] = {cache}]
    /\ UNCHANGED snapshotVars

GetAPIKeyBySecret(x) ==
    /\ h[x].pc = "key"
    /\ LET secret == h[x].req.token
       IN  h' = IF secret \in DOMAIN cache.apiKeysBySecret
                THEN [h EXCEPT ![x].pc = "keyProject",
                               ![x].key = cache.apiKeysBySecret[secret]]
                ELSE [h EXCEPT ![x].pc = "introspect"]
    /\ UNCHANGED <<snapshotVars, seen>>

(* The token is an API key: the key says it all. *)

KeyGetProjectByID(x) ==
    /\ h[x].pc = "keyProject"
    /\ LET i == h[x].key.project
       IN  IF i \in DOMAIN cache.projectsByID
           THEN h' = [h EXCEPT ![x].pc = "keyOrg", ![x].project = cache.projectsByID[i]]
           ELSE Reply(x, Denied)
    /\ UNCHANGED <<snapshotVars, seen>>

KeyGetOrganizationByID(x) ==
    /\ h[x].pc = "keyOrg"
    /\ IF h[x].key.org \in DOMAIN cache.orgsByID
       THEN h' = [h EXCEPT ![x].pc = "keyClusters"]
       ELSE Reply(x, Denied)
    /\ UNCHANGED <<snapshotVars, seen>>

KeyGetClustersByTenantID(x) ==
    /\ h[x].pc = "keyClusters"
    /\ Reply(x, KeyAnswer(h[x].req, h[x].key, h[x].project,
                          Lookup(cache.clustersByTenantID, h[x].key.tenant)))
    /\ UNCHANGED <<snapshotVars, seen>>

(* The token is a JWT of a user. *)

(***************************************************************************)
(* No cache access here, so the validator's answer and the lookup of the   *)
(* user it names are one step.                                             *)
(***************************************************************************)
GetUserByID(x, is) ==
    /\ h[x].pc = "introspect"
    /\ LET u == Normalize[is.email]
       IN  IF is.err THEN Reply(x, Error("Internal"))
           ELSE IF ~is.active \/ u \notin DOMAIN cache.usersByID THEN Reply(x, Denied)
           ELSE IF OrganizationResource(h[x].req)
                THEN Reply(x, OrganizationAnswer(cache.usersByID[u]))
           ELSE h' = [h EXCEPT ![x].pc = "userProjects", ![x].user = cache.usersByID[u]]
    /\ UNCHANGED <<snapshotVars, seen>>

GetProjectsByUserID(x) ==
    /\ h[x].pc = "userProjects"
    /\ h' = [h EXCEPT ![x].pc = "userOrgs",
                      ![x].userProjects = Lookup(cache.projectsByUserID, h[x].user.id)]
    /\ UNCHANGED <<snapshotVars, seen>>

GetOrganizationsByUserID(x) ==
    /\ h[x].pc = "userOrgs"
    /\ LET req == h[x].req
           orgs == Lookup(cache.orgsByUserID, h[x].user.id)
       IN  h' = [h EXCEPT ![x].userOrgs = orgs,
                          ![x].left = OrgsToSearch(req, orgs),
                          ![x].pc = IF req.project # None THEN "requestedProject"
                                    ELSE IF req.org # None THEN "requestedOrg"
                                    ELSE "orgProjects"]
    /\ UNCHANGED <<snapshotVars, seen>>

(***************************************************************************)
(* findAssociatedProject has decided on project p: take the user's roles   *)
(* for it.                                                                 *)
(***************************************************************************)
Associate(x, p) ==
    LET role == OrgRole(h[x].userOrgs, p)
    IN  IF role = "unspecified"
        THEN Reply(x, Denied)
        ELSE h' = [h EXCEPT ![x].pc = "org", ![x].project = p, ![x].orgRole = role,
                            ![x].projectRole = ProjectRole(h[x].userProjects, p)]

\* Faulty variant: the requested organization is not compared with the project's.
GetAnyRequestedProject(x) ==
    /\ h[x].pc = "requestedProject"
    /\ LET i == h[x].req.project
       IN  IF i \in DOMAIN cache.projectsByID
           THEN Associate(x, cache.projectsByID[i])
           ELSE Reply(x, Denied)
    /\ UNCHANGED <<snapshotVars, seen>>

GetRequestedProject(x) ==
    /\ h[x].pc = "requestedProject"
    /\ LET req == h[x].req
       IN  IF /\ req.project \in DOMAIN cache.projectsByID
              /\ req.org \in {None, cache.projectsByID[req.project].org}
           THEN Associate(x, cache.projectsByID[req.project])
           ELSE Reply(x, Denied)
    /\ UNCHANGED <<snapshotVars, seen>>

GetRequestedOrg(x) ==
    /\ h[x].pc = "requestedOrg"
    /\ IF h[x].req.org \in DOMAIN cache.orgsByID
       THEN h' = [h EXCEPT ![x].pc = "orgProjects"]
       ELSE Reply(x, Denied)
    /\ UNCHANGED <<snapshotVars, seen>>

(***************************************************************************)
(* One round of the loop that gathers the projects of the organizations.   *)
(***************************************************************************)
GetProjectsByOrganizationID(x, o) ==
    /\ h[x].pc = "orgProjects"
    /\ o \in h[x].left
    /\ h' = [h EXCEPT ![x].left = @ \ {o},
                      ![x].pool = @ \cup Lookup(cache.projectsByOrganizationID, o)]
    /\ UNCHANGED <<snapshotVars, seen>>

PickProject(x) ==
    /\ h[x].pc = "orgProjects"
    /\ h[x].left = {}
    /\ LET picks == pickProject(OwnProjects(h[x].req, h[x].userProjects), h[x].pool)
       IN  IF picks = {} THEN Reply(x, Denied)
           ELSE \E p \in picks : Associate(x, p)
    /\ UNCHANGED <<snapshotVars, seen>>

GetOrganizationByID(x) ==
    /\ h[x].pc = "org"
    /\ IF h[x].project.org \in DOMAIN cache.orgsByID
       THEN h' = [h EXCEPT ![x].pc = "clusters"]
       ELSE Reply(x, Denied)
    /\ UNCHANGED <<snapshotVars, seen>>

GetClustersByTenantID(x) ==
    /\ h[x].pc = "clusters"
    /\ Reply(x, UserAnswer(h[x].req, h[x].user, h[x].project, h[x].orgRole, h[x].projectRole,
                           Lookup(cache.clustersByTenantID, h[x].user.tenant)))
    /\ UNCHANGED <<snapshotVars, seen>>

----------------------------------------------------------------------------
(* AuthorizeWorker *)

WorkerRequest(token) ==
    [token |-> token, resource |-> <<>>, capability |-> <<>>, org |-> None, project |-> None]

ReceiveWorker(x, token) ==
    /\ h[x].pc = "idle"
    /\ synced
    /\ h' = [h EXCEPT ![x] = IF token = None
                             THEN [Idle EXCEPT !.pc = "replied", !.req = WorkerRequest(token),
                                               !.resp = Error("InvalidArgument")]
                             ELSE [Idle EXCEPT !.pc = "worker", !.req = WorkerRequest(token)]]
    /\ seen' = [seen EXCEPT ![x] = {cache}]
    /\ UNCHANGED snapshotVars

GetClusterByRegistrationKey(x) ==
    /\ h[x].pc = "worker"
    /\ LET key == h[x].req.token
       IN  Reply(x, IF key \in DOMAIN cache.clustersByRegistrationKey
                    THEN WorkerGrant(cache.clustersByRegistrationKey[key])
                    ELSE Denied)
    /\ UNCHANGED <<snapshotVars, seen>>

----------------------------------------------------------------------------
Done(x) ==
    /\ h[x].pc = "replied"
    /\ h' = [h EXCEPT ![x] = Idle]
    /\ seen' = [seen EXCEPT ![x] = {}]
    /\ UNCHANGED snapshotVars

Serve(x) ==
    \/ GetAPIKeyBySecret(x)
    \/ KeyGetProjectByID(x)
    \/ KeyGetOrganizationByID(x)
    \/ KeyGetClustersByTenantID(x)
    \/ h[x].pc = "introspect" /\ \E is \in Introspections[h[x].req.token] : GetUserByID(x, is)
    \/ GetProjectsByUserID(x)
    \/ GetOrganizationsByUserID(x)
    \/ GetRequestedProject(x)
    \/ GetRequestedOrg(x)
    \/ \E o \in h[x].left : GetProjectsByOrganizationID(x, o)
    \/ PickProject(x)
    \/ GetOrganizationByID(x)
    \/ GetClustersByTenantID(x)
    \/ GetClusterByRegistrationKey(x)

Step(x) == Serve(x) \/ Done(x)

(***************************************************************************)
(* Sync publishes a snapshot under the write lock.                         *)
(***************************************************************************)
Publish ==
    /\ Refresh
    /\ seen' = [x \in Handlers |-> IF h[x].pc \in {"idle", "replied"} THEN seen[x]
                                   ELSE seen[x] \cup {cache'}]
    /\ UNCHANGED h

ServerNext ==
    \/ Publish
    \/ \E x \in Handlers :
          \/ \E req \in Requests : Receive(x, req)
          \/ \E token \in WorkerTokens : ReceiveWorker(x, token)
          \/ Step(x)

(***************************************************************************)
(* A goroutine that serves a request goes on until it has replied.         *)
(***************************************************************************)
ServerFairness == \A x \in Handlers : WF_serverVars(Step(x))

ServerSpec == ServerInit /\ [][ServerNext]_serverVars /\ ServerFairness

----------------------------------------------------------------------------
(* Properties.                                                             *)

ServerTypeOK ==
    /\ cache \in Snapshots \cup {EmptyStore}
    /\ synced \in BOOLEAN
    /\ seen \in [Handlers -> SUBSET Snapshots]
    /\ \A x \in Handlers :
          /\ DOMAIN h[x] = DOMAIN Idle
          /\ h[x].pc \in {"idle", "key", "keyProject", "keyOrg", "keyClusters", "introspect",
                          "userProjects", "userOrgs", "requestedProject", "requestedOrg",
                          "orgProjects", "org", "clusters", "worker", "replied"}
          /\ h[x].orgRole \in OrgRoles /\ h[x].projectRole \in ProjectRoles

(***************************************************************************)
(* The answers that Authorize may give when all its reads hit the one      *)
(* snapshot c.                                                             *)
(***************************************************************************)
Candidates(c, req, u) ==
    IF req.project # None
    THEN {c.projectsByID[i] : i \in {j \in DOMAIN c.projectsByID :
             j = req.project /\ req.org \in {None, c.projectsByID[j].org}}}
    ELSE IF req.org \notin DOMAIN c.orgsByID \cup {None} THEN {}
    ELSE pickProject(OwnProjects(req, Lookup(c.projectsByUserID, u)),
                     UNION {Lookup(c.projectsByOrganizationID, o) :
                            o \in OrgsToSearch(req, Lookup(c.orgsByUserID, u))})

UserAnswers(c, req, u) ==
    LET orgs == Lookup(c.orgsByUserID, u)
        Usable(p) == OrgRole(orgs, p) # "unspecified" /\ p.org \in DOMAIN c.orgsByID
        user == c.usersByID[u]
        ps == Candidates(c, req, u)
    IN  IF u \notin DOMAIN c.usersByID THEN {Denied}
        ELSE IF OrganizationResource(req) THEN {OrganizationAnswer(user)}
        ELSE {UserAnswer(req, user, p, OrgRole(orgs, p),
                         ProjectRole(Lookup(c.projectsByUserID, u), p),
                         Lookup(c.clustersByTenantID, user.tenant)) :
                p \in {q \in ps : Usable(q)}}
             \cup (IF ps # {} /\ \A p \in ps : Usable(p) THEN {} ELSE {Denied})

KeyAnswers(c, req) ==
    LET key == c.apiKeysBySecret[req.token]
    IN  IF key.project \in DOMAIN c.projectsByID /\ key.org \in DOMAIN c.orgsByID
        THEN {KeyAnswer(req, key, c.projectsByID[key.project],
                        Lookup(c.clustersByTenantID, key.tenant))}
        ELSE {Denied}

AtomicAnswers(c, req) ==
    IF Invalid(req) THEN {Error("InvalidArgument")}
    ELSE IF req.token \in DOMAIN c.apiKeysBySecret THEN KeyAnswers(c, req)
    ELSE UNION {IF is.err THEN {Error("Internal")}
                ELSE IF is.active THEN UserAnswers(c, req, Normalize[is.email])
                ELSE {Denied} : is \in Introspections[req.token]}

(***************************************************************************)
(* A request during which no new snapshot was published is answered as if  *)
(* Authorize had run in one step, although it reads the cache up to eight  *)
(* times.                                                                  *)
(***************************************************************************)
IsWorker(x) == h[x].req \in {WorkerRequest(token) : token \in WorkerTokens}

UntornIsAtomic ==
    \A x \in Handlers : \A c \in seen[x] :
        h[x].pc = "replied" /\ seen[x] = {c} /\ ~IsWorker(x) =>
            h[x].resp \in AtomicAnswers(c, h[x].req)

(***************************************************************************)
(* However the reads of a request fall between publications, whatever a    *)
(* grant rests on was in a snapshot that was current while the request was *)
(* being served: the cluster, the API key with its roles, project and      *)
(* organization, or the user that the token names with its organization    *)
(* role and project role and the project with its organization.            *)
(* In particular nothing revoked in the snapshot that was current when the *)
(* request came, and not granted again since, is used.                     *)
(***************************************************************************)
Granted(x) == h[x].pc = "replied" /\ h[x].resp.authorized

WorkerEvidence(S, req, r) ==
    \E c \in S : /\ req.token \in DOMAIN c.clustersByRegistrationKey
                 /\ r = WorkerGrant(c.clustersByRegistrationKey[req.token])

KeyEvidence(S, req, r) ==
    /\ \E c \in S :
         /\ req.token \in DOMAIN c.apiKeysBySecret
         /\ LET key == c.apiKeysBySecret[req.token]
            IN  /\ <<r.apiKey, r.user, r.org, r.project, r.tenant>> =
                      <<key.id, key.user, key.org, key.project, key.tenant>>
                /\ authorized(toScope(req), key.orgRole, key.projectRole)
    /\ \E c \in S : r.project \in DOMAIN c.projectsByID
    /\ \E c \in S : r.org \in DOMAIN c.orgsByID

UserEvidence(S, req, r) ==
    LET ProjectRolesIn(c) ==
            {p.role : p \in {q \in Lookup(c.projectsByUserID, r.user) : q.project.id = r.project}}
    IN  /\ \E is \in Introspections[req.token] : is.active /\ r.user = Normalize[is.email]
        /\ \E c \in S : r.user \in DOMAIN c.usersByID /\ c.usersByID[r.user].tenant = r.tenant
        /\ IF OrganizationResource(req) THEN r.org = None /\ r.project = None
           ELSE /\ \E c \in S : r.project \in DOMAIN c.projectsByID
                                /\ c.projectsByID[r.project].org = r.org
                /\ \E c, d \in S : \E o \in Lookup(c.orgsByUserID, r.user) :
                      /\ o.org = r.org
                      /\ \E role \in ProjectRolesIn(d) \cup {"unspecified"} :
                            authorized(toScope(req), o.role, role)

Evidence(S, req, r) ==
    IF r.apiKey # None THEN KeyEvidence(S, req, r) ELSE UserEvidence(S, req, r)

EvidencedGrant ==
    \A x \in Handlers : Granted(x) =>
        IF IsWorker(x) THEN WorkerEvidence(seen[x], h[x].req, h[x].resp)
        ELSE Evidence(seen[x], h[x].req, h[x].resp)

(***************************************************************************)
(* A user is only ever granted access within its own tenant.  The handlers *)
(* do not check that a requested organization or project belongs to the    *)
(* user's tenant (three TODOs say so); they need an organization role, and *)
(* updateCache rejects a user with roles in two tenants.  So as long as    *)
(* the user itself has not moved to another tenant while the request was   *)
(* served, the tenant of the answer is the tenant of its organization, and *)
(* every Kubernetes environment lies on a cluster of that tenant.          *)
(***************************************************************************)
UserStable(x) ==
    \A c, d \in seen[x] : h[x].resp.user \in DOMAIN c.usersByID \cap DOMAIN d.usersByID =>
        c.usersByID[h[x].resp.user] = d.usersByID[h[x].resp.user]

TenantCoherent ==
    \A x \in Handlers : Granted(x) /\ ~IsWorker(x) =>
        LET r == h[x].resp
        IN  /\ \E c \in seen[x] : \A e \in r.envs :
                 \E cl \in Lookup(c.clustersByTenantID, r.tenant) :
                    cl.id = e.cluster /\ cl.tenant = r.tenant
            /\ r.apiKey = None /\ r.org # None /\ UserStable(x) =>
                 \E c \in seen[x] : r.org \in DOMAIN c.orgsByID
                                   /\ c.orgsByID[r.org].tenant = r.tenant

(***************************************************************************)
(* A grant to a user is for what the request asked for.  A requested       *)
(* project always is the project of the answer.  A requested organization  *)
(* is the organization of the answer provided that the directory never     *)
(* lists a project role under another organization than the project's:     *)
(* findAssociatedProject selects by the former, the answer has the latter. *)
(***************************************************************************)
RolesMatchProjects(c) ==
    \A u \in DOMAIN c.projectsByUserID : \A r \in c.projectsByUserID[u] : r.org = r.project.org

RequestedHonoured ==
    \A x \in Handlers :
        LET req == h[x].req
            r == h[x].resp
        IN  Granted(x) /\ ~IsWorker(x) /\ r.apiKey = None /\ r.project # None =>
                /\ req.project # None => r.project = req.project
                /\ req.org # None /\ (\A c \in seen[x] : RolesMatchProjects(c)) =>
                       r.org = req.org

(***************************************************************************)
(* What a comment in authorized says of inference on a project P: "A user  *)
(* with one of the following roles can perform inference on P: [...]       *)
(* - A user that has the "owner" role for P.                               *)
(* - A user that has the "member" role for P."                             *)
(* So a user of which the one snapshot that the request met lists such a   *)
(* role for the requested project is authorized for the scopes of it.      *)
(***************************************************************************)
ProjectRoleSuffices ==
    \A x \in Handlers : \A c \in seen[x] :
        LET req == h[x].req
        IN  h[x].pc = "replied" /\ seen[x] = {c} /\ ~IsWorker(x)
              /\ req.token \notin DOMAIN c.apiKeysBySecret =>
                \A is \in Introspections[req.token] :
                \A r \in Lookup(c.projectsByUserID, Normalize[is.email]) :
                    /\ Introspections[req.token] = {is} /\ is.active
                    /\ req.org = None /\ req.project = r.project.id
                    /\ authorized(toScope(req), "reader", r.role)
                    => h[x].resp.authorized
=============================================================================

-------------------------- MODULE RbacServerProofs --------------------------
(***************************************************************************)
(* Proofs about the request handlers (RbacServer) for every number of      *)
(* them, all requests and all snapshots that are WellFormed.               *)
(*                                                                         *)
(* Everything a handler remembers of its earlier reads it has from some    *)
(* snapshot that was current since its request came.  The inductive        *)
(* invariant says that of each local variable; a publication only adds to  *)
(* those snapshots, and a read adds one fact from the current one.  As     *)
(* long as there has been one snapshot only, the locals are what           *)
(* Authorize would compute from it in one step.                            *)
(***************************************************************************)
EXTENDS RbacServer, TLAPS

Fields ==
    {"pc", "req", "key", "user", "userProjects", "userOrgs", "left", "pool", "project",
     "orgRole", "projectRole", "resp"}

LEMMA IdleFields == DOMAIN Idle = Fields
BY DEF Idle, Fields

KeyPcs  == {"keyProject", "keyOrg", "keyClusters"}
LatePcs == {"org", "clusters"}
PickPcs == {"requestedProject", "requestedOrg", "orgProjects"}
UserPcs == {"userProjects", "userOrgs"} \cup PickPcs \cup LatePcs

AllPcs  == {"idle", "key", "introspect", "worker", "replied"} \cup KeyPcs \cup UserPcs

Busy(r) == r.pc \notin {"idle", "replied"}

----------------------------------------------------------------------------
(* What a handler with locals r knows of the snapshots S.                  *)

(***************************************************************************)
(* An API key, and that its project and organization exist.                *)
(***************************************************************************)
HasKey(r, S) ==
    /\ r.pc \in KeyPcs =>
          \E c \in S : /\ r.req.token \in DOMAIN c.apiKeysBySecret
                       /\ r.key = c.apiKeysBySecret[r.req.token]
    /\ r.pc \in {"keyOrg", "keyClusters"} => \E c \in S : r.key.project \in DOMAIN c.projectsByID
    /\ r.pc = "keyClusters" => \E c \in S : r.key.org \in DOMAIN c.orgsByID

(***************************************************************************)
(* A user with its projects and organizations.                             *)
(***************************************************************************)
HasUser(r, S) ==
    /\ r.pc \in UserPcs =>
          \E c \in S : r.user.id \in DOMAIN c.usersByID /\ r.user = c.usersByID[r.user.id]
    /\ r.pc \in UserPcs \ {"userProjects"} =>
          \E c \in S : r.userProjects = Lookup(c.projectsByUserID, r.user.id)
    /\ r.pc \in PickPcs \cup LatePcs =>
          \E c \in S : r.userOrgs = Lookup(c.orgsByUserID, r.user.id)

(***************************************************************************)
(* The user is the one that the token names.                               *)
(***************************************************************************)
Named(r) ==
    r.pc \in UserPcs =>
        /\ ~OrganizationResource(r.req)
        /\ \E is \in Introspections[r.req.token] :
              ~is.err /\ is.active /\ r.user.id = Normalize[is.email]

(***************************************************************************)
(* The projects collected exist, and those collected for a requested       *)
(* organization belong to it.                                              *)
(***************************************************************************)
Known(p, S) == \E c \in S : p.id \in DOMAIN c.projectsByID /\ c.projectsByID[p.id] = p

Searching(r, S) ==
    /\ r.pc \in {"key", "introspect", "userProjects", "userOrgs"} => r.pool = {}
    /\ r.pc = "requestedProject" => r.req.project # None
    /\ r.pc \in {"requestedOrg", "orgProjects"} =>
          /\ r.req.project = None
          /\ r.req.org # None => r.left \subseteq {r.req.org} /\ \A p \in r.pool : p.org = r.req.org
          /\ \A p \in r.pool : Known(p, S)

(***************************************************************************)
(* The project p is one that the request asked for.                        *)
(***************************************************************************)
Requested(req, p, S) ==
    /\ req.project # None => p.id = req.project
    /\ req.org # None /\ (\A c \in S : RolesMatchProjects(c)) => p.org = req.org

(***************************************************************************)
(* The project and the roles for it.                                       *)
(***************************************************************************)
Associated(r, S) ==
    r.pc \in LatePcs =>
        /\ Requested(r.req, r.project, S)
        /\ Known(r.project, S)
        /\ r.orgRole # "unspecified"
        /\ r.orgRole = OrgRole(r.userOrgs, r.project)
        /\ r.projectRole = ProjectRole(r.userProjects, r.project)

(***************************************************************************)
(* Authorize works on valid requests.                                      *)
(***************************************************************************)
WorkerRequests == {WorkerRequest(token) : token \in WorkerTokens}

Served(r) ==
    /\ r.pc = "worker" => r.req \in WorkerRequests
    /\ Busy(r) /\ r.pc # "worker" => ~Invalid(r.req)

(***************************************************************************)
(* The properties of a grant.                                              *)
(***************************************************************************)
Evidenced(r, S) ==
    IF r.req \in WorkerRequests THEN WorkerEvidence(S, r.req, r.resp) ELSE Evidence(S, r.req, r.resp)

Stable(u, S) ==
    \A c, d \in S : u \in DOMAIN c.usersByID \cap DOMAIN d.usersByID => c.usersByID[u] = d.usersByID[u]

OneTenant == \A c \in Snapshots : UsersHaveOneTenant(c)

OwnTenant(r, S) ==
    r.req \notin WorkerRequests =>
        /\ \E c \in S : \A e \in r.resp.envs : \E cl \in Lookup(c.clustersByTenantID, r.resp.tenant) :
              cl.id = e.cluster /\ cl.tenant = r.resp.tenant
        /\ OneTenant /\ r.resp.apiKey = None /\ r.resp.org # None /\ Stable(r.resp.user, S) =>
              \E c \in S : r.resp.org \in DOMAIN c.orgsByID
                           /\ c.orgsByID[r.resp.org].tenant = r.resp.tenant

Honoured(r, S) ==
    r.req \notin WorkerRequests /\ r.resp.apiKey = None /\ r.resp.project # None =>
        /\ r.req.project # None => r.resp.project = r.req.project
        /\ r.req.org # None /\ (\A c \in S : RolesMatchProjects(c)) => r.resp.org = r.req.org

Replied(r, S) ==
    r.pc = "replied" /\ r.resp.authorized => Evidenced(r, S) /\ OwnTenant(r, S) /\ Honoured(r, S)

(***************************************************************************)
(* What a handler with locals r knows if all its reads hit the snapshot c. *)
(***************************************************************************)
OnlyKey(r, c) ==
    r.pc \in KeyPcs =>
        /\ r.req.token \in DOMAIN c.apiKeysBySecret
        /\ r.key = c.apiKeysBySecret[r.req.token]
        /\ r.pc \in {"keyOrg", "keyClusters"} =>
              r.key.project \in DOMAIN c.projectsByID /\ r.project = c.projectsByID[r.key.project]
        /\ r.pc = "keyClusters" => r.key.org \in DOMAIN c.orgsByID

OnlyUser(r, c) ==
    /\ r.pc \in {"introspect"} \cup UserPcs => r.req.token \notin DOMAIN c.apiKeysBySecret
    /\ r.pc \in UserPcs => r.user.id \in DOMAIN c.usersByID /\ r.user = c.usersByID[r.user.id]
    /\ r.pc \in UserPcs \ {"userProjects"} => r.userProjects = Lookup(c.projectsByUserID, r.user.id)
    /\ r.pc \in PickPcs \cup LatePcs => r.userOrgs = Lookup(c.orgsByUserID, r.user.id)

Gathered(c, orgs) == UNION {Lookup(c.projectsByOrganizationID, o) : o \in orgs}

OnlySearch(r, c) ==
    /\ r.pc \in {"requestedOrg", "orgProjects"} =>
          LET orgs == OrgsToSearch(r.req, r.userOrgs)
          IN  r.left \subseteq orgs /\ r.pool = Gathered(c, orgs \ r.left)
    /\ r.pc = "requestedOrg" => r.req.org # None
    /\ r.pc = "orgProjects" => r.req.org \in DOMAIN c.orgsByID \cup {None}
    /\ r.pc \in LatePcs => r.project \in Candidates(c, r.req, r.user.id)
    /\ r.pc = "clusters" => r.project.org \in DOMAIN c.orgsByID

Atomic(req, resp, S) ==
    \A c \in S : S = {c} /\ req \notin WorkerRequests => resp \in AtomicAnswers(c, req)

Untorn(r, S) ==
    /\ \A c \in S : S = {c} => OnlyKey(r, c) /\ OnlyUser(r, c) /\ OnlySearch(r, c)
    /\ r.pc = "replied" => Atomic(r.req, r.resp, S)

Typed(r) == r.orgRole \in OrgRoles /\ r.projectRole \in ProjectRoles

HandlerInv(r, S) ==
    /\ r.pc \in AllPcs
    /\ Typed(r)
    /\ HasKey(r, S)
    /\ HasUser(r, S)
    /\ Named(r)
    /\ Searching(r, S)
    /\ Associated(r, S)
    /\ Served(r)
    /\ Replied(r, S)
    /\ Untorn(r, S)

(***************************************************************************)
(* The inductive invariant.                                                *)
(***************************************************************************)
Shape ==
    /\ h = [x \in Handlers |-> h[x]]
    /\ \A x \in Handlers : h[x] = [f \in Fields |-> h[x][f]]
    /\ seen \in [Handlers -> SUBSET Snapshots]
    /\ synced \in BOOLEAN
    /\ IF synced THEN cache \in Snapshots ELSE cache = EmptyStore

CacheSeen == \A x \in Handlers : Busy(h[x]) => cache \in seen[x]

ServerInv ==
    Shape /\ CacheSeen /\ \A x \in Handlers : HandlerInv(h[x], seen[x])

----------------------------------------------------------------------------
LEMMA SeenGrows ==
    ASSUME NEW r, NEW S, NEW T, S \subseteq T, S # {}, r.pc # "replied", HandlerInv(r, S)
    PROVE  HandlerInv(r, T)
<1>1. HasKey(r, T)
  BY DEF HandlerInv, HasKey
<1>2. HasUser(r, T)
  BY DEF HandlerInv, HasUser
<1>3. \A p : Known(p, S) => Known(p, T)
  BY DEF Known
<1>4. Searching(r, T) /\ Served(r)
  BY <1>3 DEF HandlerInv, Searching
<1>5. Associated(r, T)
  BY <1>3 DEF HandlerInv, Associated, Requested
<1>6. Replied(r, T)
  BY DEF Replied
<1>7. Untorn(r, T)
  <2>1. ASSUME NEW c \in T, T = {c} PROVE c \in S /\ S = {c}
    BY <2>1
  <2> QED
    BY <2>1 DEF HandlerInv, Untorn
<1> QED
  BY <1>1, <1>2, <1>4, <1>5, <1>6, <1>7 DEF HandlerInv

(***************************************************************************)
(* A step of handler x keeps the invariant if the new locals fit.          *)
(***************************************************************************)
LEMMA HandlerStep ==
    ASSUME ServerInv, NEW x \in Handlers, NEW r,
           r = [f \in Fields |-> r[f]],
           h' = [h EXCEPT ![x] = r],
           UNCHANGED <<snapshotVars, seen>>,
           Busy(h[x]),
           HandlerInv(r, seen[x])
    PROVE  ServerInv'
<1>1. h'[x] = r /\ \A y \in Handlers : y # x => h'[y] = h[y]
  BY DEF ServerInv, Shape
<1>2. Shape'
  BY <1>1 DEF ServerInv, Shape, snapshotVars
<1>3. CacheSeen'
  BY <1>1 DEF ServerInv, CacheSeen, snapshotVars
<1>4. ASSUME NEW y \in Handlers PROVE HandlerInv(h[y], seen[y])'
  <2>1. CASE y = x
    BY <1>1, <2>1
  <2>2. CASE y # x
    <3>1. h'[y] = h[y] /\ seen'[y] = seen[y] /\ HandlerInv(h[y], seen[y])
      BY <1>1, <2>2 DEF ServerInv
    <3> QED
      BY <3>1
  <2> QED
    BY <2>1, <2>2
<1> QED
  BY <1>2, <1>3, <1>4 DEF ServerInv

LEMMA ReplyStep ==
    ASSUME ServerInv, NEW x \in Handlers, NEW resp,
           Reply(x, resp),
           UNCHANGED <<snapshotVars, seen>>,
           Busy(h[x]),
           Atomic(h[x].req, resp, seen[x]),
           resp.authorized => LET r == [pc |-> "replied", req |-> h[x].req, resp |-> resp]
                              IN  Evidenced(r, seen[x]) /\ OwnTenant(r, seen[x]) /\ Honoured(r, seen[x])
    PROVE  ServerInv'
<1> DEFINE r == [Idle EXCEPT !.pc = "replied", !.req = h[x].req, !.resp = resp]
<1>1. r = [f \in Fields |-> r[f]] /\ r.pc = "replied" /\ r.req = h[x].req /\ r.resp = resp
  BY DEF Idle, Fields
<1>2. Typed(r)
  BY DEF Typed, Idle, OrgRoles, ProjectRoles
<1>3. h' = [h EXCEPT ![x] = r]
  BY DEF Reply
<1>4. Replied(r, seen[x])
  BY <1>1 DEF Replied, Evidenced, OwnTenant, Honoured
<1> HIDE DEF r
<1>5. Untorn(r, seen[x])
  BY <1>1 DEF Untorn, OnlyKey, OnlyUser, OnlySearch, KeyPcs, LatePcs, PickPcs, UserPcs
<1>6. HandlerInv(r, seen[x])
  BY <1>1, <1>2, <1>4, <1>5 DEF HandlerInv, HasKey, HasUser, Named, Searching, Associated, Served,
                                Busy, AllPcs, KeyPcs, LatePcs, PickPcs, UserPcs
<1> QED
  BY <1>1, <1>3, <1>6, HandlerStep

LEMMA RejectStep ==
    ASSUME ServerInv, NEW x \in Handlers, NEW resp,
           Reply(x, resp),
           UNCHANGED <<snapshotVars, seen>>,
           Busy(h[x]),
           Atomic(h[x].req, resp, seen[x]),
           resp = Denied \/ \E code : resp = Error(code)
    PROVE  ServerInv'
<1>1. ~resp.authorized
  BY DEF Denied, Error, Answer
<1> QED
  BY <1>1, ReplyStep

(***************************************************************************)
(* The parts of the invariant that concern a handler in a phase.           *)
(***************************************************************************)
LEMMA InKeyPhase ==
    ASSUME NEW r, NEW S, r.pc \in KeyPcs, Typed(r), ~Invalid(r.req), HasKey(r, S),
           \A c \in S : S = {c} => OnlyKey(r, c)
    PROVE  HandlerInv(r, S)
<1>1. Untorn(r, S)
  BY DEF Untorn, OnlyUser, OnlySearch, KeyPcs, LatePcs, PickPcs, UserPcs
<1> QED
  BY <1>1 DEF HandlerInv, HasUser, Named, Searching, Associated, Served, Replied, Busy,
              AllPcs, KeyPcs, LatePcs, PickPcs, UserPcs

LEMMA InUserPhase ==
    ASSUME NEW r, NEW S, r.pc \in UserPcs, Typed(r), ~Invalid(r.req),
           HasUser(r, S), Named(r), Searching(r, S), Associated(r, S),
           \A c \in S : S = {c} => OnlyUser(r, c) /\ OnlySearch(r, c)
    PROVE  HandlerInv(r, S)
<1>1. Untorn(r, S)
  BY DEF Untorn, OnlyKey, KeyPcs, LatePcs, PickPcs, UserPcs
<1> QED
  BY <1>1 DEF HandlerInv, HasKey, Served, Replied, Busy, AllPcs, KeyPcs, LatePcs, PickPcs, UserPcs

LEMMA InFirstPhase ==
    ASSUME NEW r, NEW S, Typed(r),
           \/ r.pc = "key" /\ ~Invalid(r.req) /\ r.pool = {}
           \/ /\ r.pc = "introspect" /\ ~Invalid(r.req) /\ r.pool = {}
              /\ \A c \in S : S = {c} => r.req.token \notin DOMAIN c.apiKeysBySecret
           \/ r.pc = "worker" /\ r.req \in WorkerRequests
           \/ r.pc = "idle"
           \/ r.pc = "replied" /\ ~r.resp.authorized /\ Atomic(r.req, r.resp, S)
    PROVE  HandlerInv(r, S)
<1>1. Untorn(r, S)
  BY DEF Untorn, OnlyKey, OnlyUser, OnlySearch, KeyPcs, LatePcs, PickPcs, UserPcs
<1> QED
  BY <1>1 DEF HandlerInv, HasKey, HasUser, Named, Searching, Associated, Served, Replied, Busy,
              AllPcs, KeyPcs, LatePcs, PickPcs, UserPcs

(***************************************************************************)
(* What holds of a handler that is about to read the cache.                *)
(***************************************************************************)
LEMMA Reading ==
    ASSUME ServerInv, NEW x \in Handlers, Busy(h[x])
    PROVE  /\ h[x].pc # "worker" => ~Invalid(h[x].req)
           /\ Typed(h[x])
           /\ HasKey(h[x], seen[x]) /\ HasUser(h[x], seen[x]) /\ Named(h[x])
           /\ Searching(h[x], seen[x]) /\ Associated(h[x], seen[x])
           /\ cache \in seen[x]
           /\ \A c \in seen[x] : c \in Snapshots /\ WellFormed(c)
BY SnapshotsAssumption DEF ServerInv, Shape, CacheSeen, HandlerInv, Served

(***************************************************************************)
(* If there was one snapshot only, it is the current one.                  *)
(***************************************************************************)
LEMMA OneSnapshot ==
    ASSUME ServerInv, NEW x \in Handlers, Busy(h[x]), NEW c \in seen[x], seen[x] = {c}
    PROVE  c = cache /\ OnlyKey(h[x], c) /\ OnlyUser(h[x], c) /\ OnlySearch(h[x], c)
BY Reading DEF ServerInv, HandlerInv, Untorn

LEMMA Locals ==
    ASSUME ServerInv, NEW x \in Handlers
    PROVE  h = [y \in Handlers |-> h[y]] /\ h[x] = [f \in Fields |-> h[x][f]]
BY DEF ServerInv, Shape

(***************************************************************************)
(* What Authorize answers in one step, by the case that it meets.          *)
(***************************************************************************)
LEMMA AnswerToKey ==
    ASSUME NEW c, NEW req, ~Invalid(req), req.token \in DOMAIN c.apiKeysBySecret,
           NEW ans \in KeyAnswers(c, req)
    PROVE  ans \in AtomicAnswers(c, req)
BY DEF AtomicAnswers

LEMMA AnswerToToken ==
    ASSUME NEW c, NEW req, ~Invalid(req), req.token \notin DOMAIN c.apiKeysBySecret,
           NEW is \in Introspections[req.token], NEW ans,
           IF is.err THEN ans = Error("Internal")
           ELSE IF is.active THEN ans \in UserAnswers(c, req, Normalize[is.email])
           ELSE ans = Denied
    PROVE  ans \in AtomicAnswers(c, req)
<1> DEFINE Answers(j) == IF j.err THEN {Error("Internal")}
                         ELSE IF j.active THEN UserAnswers(c, req, Normalize[j.email])
                         ELSE {Denied}
<1>1. AtomicAnswers(c, req) = UNION {Answers(j) : j \in Introspections[req.token]}
  BY DEF AtomicAnswers
<1>2. ans \in Answers(is)
  OBVIOUS
<1> QED
  BY <1>1, <1>2

----------------------------------------------------------------------------
(* The token is an API key.                                                *)

LEMMA StepGetAPIKeyBySecret ==
    ASSUME ServerInv, NEW x \in Handlers, GetAPIKeyBySecret(x) PROVE ServerInv'
<1> DEFINE secret == h[x].req.token
<1>1. Busy(h[x]) /\ h[x].pc = "key" /\ UNCHANGED <<snapshotVars, seen>>
  BY DEF GetAPIKeyBySecret, Busy
<1>2. CASE secret \in DOMAIN cache.apiKeysBySecret
  <2> DEFINE r == [h[x] EXCEPT !.pc = "keyProject", !.key = cache.apiKeysBySecret[secret]]
  <2>1. h' = [h EXCEPT ![x] = r]
    BY <1>2, Locals DEF GetAPIKeyBySecret
  <2>2. /\ r = [f \in Fields |-> r[f]]
        /\ r.pc = "keyProject" /\ r.req = h[x].req /\ r.key = cache.apiKeysBySecret[secret]
        /\ r.orgRole = h[x].orgRole /\ r.projectRole = h[x].projectRole
    BY Locals DEF Fields
  <2> HIDE DEF r
  <2>3. HasKey(r, seen[x]) /\ Typed(r)
    BY <1>1, <1>2, <2>2, Reading DEF HasKey, Typed
  <2>4. \A c \in seen[x] : seen[x] = {c} => OnlyKey(r, c)
    BY <1>1, <1>2, <2>2, OneSnapshot DEF OnlyKey
  <2>5. HandlerInv(r, seen[x])
    BY <1>1, <2>2, <2>3, <2>4, Reading, InKeyPhase DEF KeyPcs
  <2> QED
    BY <1>1, <2>1, <2>2, <2>5, HandlerStep
<1>3. CASE secret \notin DOMAIN cache.apiKeysBySecret
  <2> DEFINE r == [h[x] EXCEPT !.pc = "introspect"]
  <2>1. h' = [h EXCEPT ![x] = r]
    BY <1>3, Locals DEF GetAPIKeyBySecret
  <2>2. /\ r = [f \in Fields |-> r[f]]
        /\ r.pc = "introspect" /\ r.req = h[x].req /\ r.pool = h[x].pool
        /\ r.orgRole = h[x].orgRole /\ r.projectRole = h[x].projectRole
    BY Locals DEF Fields
  <2> HIDE DEF r
  <2>3. \A c \in seen[x] : seen[x] = {c} => r.req.token \notin DOMAIN c.apiKeysBySecret
    BY <1>1, <1>3, <2>2, OneSnapshot
  <2>4. HandlerInv(r, seen[x])
    BY <1>1, <2>2, <2>3, Reading, InFirstPhase DEF Searching, Typed
  <2> QED
    BY <1>1, <2>1, <2>2, <2>4, HandlerStep
<1> QED
  BY <1>2, <1>3

(***************************************************************************)
(* A key is of no use without its project and its organization.            *)
(***************************************************************************)
LEMMA KeyRejected ==
    ASSUME ServerInv, NEW x \in Handlers, h[x].pc \in KeyPcs, Busy(h[x]),
           \/ h[x].key.project \notin DOMAIN cache.projectsByID
           \/ h[x].key.org \notin DOMAIN cache.orgsByID,
           Reply(x, Denied), UNCHANGED <<snapshotVars, seen>>
    PROVE  ServerInv'
<1>1. Atomic(h[x].req, Denied, seen[x])
  <2> SUFFICES ASSUME NEW c \in seen[x], seen[x] = {c} PROVE Denied \in AtomicAnswers(c, h[x].req)
    BY DEF Atomic
  <2>1. c = cache /\ h[x].req.token \in DOMAIN c.apiKeysBySecret
        /\ h[x].key = c.apiKeysBySecret[h[x].req.token]
    BY OneSnapshot DEF OnlyKey
  <2>2. Denied \in KeyAnswers(c, h[x].req)
    BY <2>1 DEF KeyAnswers
  <2>3. ~Invalid(h[x].req)
    BY Reading DEF KeyPcs
  <2> QED
    BY <2>1, <2>2, <2>3, AnswerToKey
<1> QED
  BY <1>1, RejectStep

LEMMA StepKeyGetProjectByID ==
    ASSUME ServerInv, NEW x \in Handlers, KeyGetProjectByID(x) PROVE ServerInv'
<1> DEFINE i == h[x].key.project
<1>1. Busy(h[x]) /\ h[x].pc = "keyProject" /\ UNCHANGED <<snapshotVars, seen>>
  BY DEF KeyGetProjectByID, Busy
<1>2. CASE i \in DOMAIN cache.projectsByID
  <2> DEFINE r == [h[x] EXCEPT !.pc = "keyOrg", !.project = cache.projectsByID[i]]
  <2>1. h' = [h EXCEPT ![x] = r]
    BY <1>2, Locals DEF KeyGetProjectByID
  <2>2. /\ r = [f \in Fields |-> r[f]] /\ r.pc = "keyOrg" /\ r.req = h[x].req /\ r.key = h[x].key
        /\ r.project = cache.projectsByID[i]
        /\ r.orgRole = h[x].orgRole /\ r.projectRole = h[x].projectRole
    BY Locals DEF Fields
  <2> HIDE DEF r
  <2>3. HasKey(r, seen[x]) /\ Typed(r)
    BY <1>1, <1>2, <2>2, Reading DEF HasKey, Typed, KeyPcs
  <2>4. \A c \in seen[x] : seen[x] = {c} => OnlyKey(r, c)
    BY <1>1, <1>2, <2>2, OneSnapshot DEF OnlyKey, KeyPcs
  <2>5. HandlerInv(r, seen[x])
    BY <1>1, <2>2, <2>3, <2>4, Reading, InKeyPhase DEF KeyPcs
  <2> QED
    BY <1>1, <2>1, <2>2, <2>5, HandlerStep
<1>3. CASE i \notin DOMAIN cache.projectsByID
  BY <1>1, <1>3, KeyRejected DEF KeyGetProjectByID, KeyPcs
<1> QED
  BY <1>2, <1>3

LEMMA StepKeyGetOrganizationByID ==
    ASSUME ServerInv, NEW x \in Handlers, KeyGetOrganizationByID(x) PROVE ServerInv'
<1> DEFINE i == h[x].key.org
<1>1. Busy(h[x]) /\ h[x].pc = "keyOrg" /\ UNCHANGED <<snapshotVars, seen>>
  BY DEF KeyGetOrganizationByID, Busy
<1>2. CASE i \in DOMAIN cache.orgsByID
  <2> DEFINE r == [h[x] EXCEPT !.pc = "keyClusters"]
  <2>1. h' = [h EXCEPT ![x] = r]
    BY <1>2, Locals DEF KeyGetOrganizationByID
  <2>2. /\ r = [f \in Fields |-> r[f]] /\ r.pc = "keyClusters" /\ r.req = h[x].req
        /\ r.key = h[x].key /\ r.project = h[x].project
        /\ r.orgRole = h[x].orgRole /\ r.projectRole = h[x].projectRole
    BY Locals DEF Fields
  <2> HIDE DEF r
  <2>3. HasKey(r, seen[x]) /\ Typed(r)
    BY <1>1, <1>2, <2>2, Reading DEF HasKey, Typed, KeyPcs
  <2>4. \A c \in seen[x] : seen[x] = {c} => OnlyKey(r, c)
    BY <1>1, <1>2, <2>2, OneSnapshot DEF OnlyKey, KeyPcs
  <2>5. HandlerInv(r, seen[x])
    BY <1>1, <2>2, <2>3, <2>4, Reading, InKeyPhase DEF KeyPcs
  <2> QED
    BY <1>1, <2>1, <2>2, <2>5, HandlerStep
<1>3. CASE i \notin DOMAIN cache.orgsByID
  BY <1>1, <1>3, KeyRejected DEF KeyGetOrganizationByID, KeyPcs
<1> QED
  BY <1>2, <1>3

(***************************************************************************)
(* Environments lie on the clusters that are passed, and those of a tenant *)
(* in a snapshot belong to the tenant.                                     *)
(***************************************************************************)
LEMMA EnvsOnClusters ==
    ASSUME NEW p, NEW clusters, NEW e \in assignedKubernetesEnvs(p, clusters)
    PROVE  \E cl \in clusters : cl.id = e.cluster
<1> DEFINE Naming(c) == {i \in DOMAIN p.assignments : p.assignments[i].cluster = c}
           ForAll == ({p.namespace} \ {None})
                         \cup {p.assignments[i].namespace : i \in Naming(None)}
           Last(is) == CHOOSE i \in is : \A j \in is : j <= i
           Namespaces(c) == IF Naming(c) = {} THEN ForAll \ {None}
                            ELSE ForAll \cup {p.assignments[Last(Naming(c))].namespace}
<1>1. e \in UNION {{[cluster |-> c.id, namespace |-> n] : n \in Namespaces(c.id)} : c \in clusters}
  BY Zenon DEF assignedKubernetesEnvs
<1> HIDE DEF Naming, ForAll, Last, Namespaces
<1>2. PICK c \in clusters : e \in {[cluster |-> c.id, namespace |-> n] : n \in Namespaces(c.id)}
  BY <1>1
<1>3. PICK n \in Namespaces(c.id) : e = [cluster |-> c.id, namespace |-> n]
  BY <1>2
<1> QED
  BY <1>3

LEMMA ClustersOfTenant ==
    ASSUME NEW c, WellFormed(c), NEW t, NEW cl \in Lookup(c.clustersByTenantID, t)
    PROVE  cl.tenant = t
BY DEF WellFormed, FiledUnderOwnKeys, Lookup

LEMMA ValidIsNoWorker ==
    ASSUME NEW req, ~Invalid(req) PROVE req \notin WorkerRequests
BY DEF Invalid, WorkerRequests, WorkerRequest

LEMMA StepKeyGetClustersByTenantID ==
    ASSUME ServerInv, NEW x \in Handlers, KeyGetClustersByTenantID(x) PROVE ServerInv'
<1> DEFINE key == h[x].key
           req == h[x].req
           S == seen[x]
           clusters == Lookup(cache.clustersByTenantID, key.tenant)
           resp == KeyAnswer(req, key, h[x].project, clusters)
           r == [pc |-> "replied", req |-> req, resp |-> resp]
<1>1. Busy(h[x]) /\ h[x].pc = "keyClusters" /\ UNCHANGED <<snapshotVars, seen>> /\ Reply(x, resp)
  BY DEF KeyGetClustersByTenantID, Busy
<1>2. cache \in S /\ \A c \in S : c \in Snapshots /\ WellFormed(c)
  BY <1>1, Reading
<1>3. PICK c \in S : req.token \in DOMAIN c.apiKeysBySecret /\ key = c.apiKeysBySecret[req.token]
  BY <1>1, Reading DEF HasKey, KeyPcs
<1>4. (\E d \in S : key.project \in DOMAIN d.projectsByID) /\ (\E d \in S : key.org \in DOMAIN d.orgsByID)
  BY <1>1, Reading DEF HasKey
<1>5. key.id # None
  BY <1>2, <1>3 DEF WellFormed
<1>6. req \notin WorkerRequests
  BY <1>1, Reading, ValidIsNoWorker
<1>7. /\ resp.authorized = authorized(toScope(req), key.orgRole, key.projectRole)
      /\ resp.apiKey = key.id /\ resp.user = key.user /\ resp.org = key.org
      /\ resp.project = key.project /\ resp.tenant = key.tenant
      /\ resp.envs = assignedKubernetesEnvs(h[x].project, clusters)
  BY DEF KeyAnswer, Answer
<1>8. r.req = req /\ r.resp = resp
  OBVIOUS
<1>9. Atomic(req, resp, S)
  <2> SUFFICES ASSUME NEW d \in S, S = {d} PROVE resp \in AtomicAnswers(d, req)
    BY DEF Atomic
  <2>1. /\ d = cache /\ req.token \in DOMAIN d.apiKeysBySecret
        /\ key = d.apiKeysBySecret[req.token]
        /\ key.project \in DOMAIN d.projectsByID /\ h[x].project = d.projectsByID[key.project]
        /\ key.org \in DOMAIN d.orgsByID
    BY <1>1, OneSnapshot DEF OnlyKey, KeyPcs
  <2>2. resp \in KeyAnswers(d, req)
    BY <2>1 DEF KeyAnswers
  <2>3. ~Invalid(req)
    BY <1>1, Reading
  <2> HIDE DEF resp
  <2> QED
    BY <2>1, <2>2, <2>3, AnswerToKey
<1> HIDE DEF r, resp
<1>10. ASSUME resp.authorized PROVE Evidenced(r, S)
  <2>1. <<resp.apiKey, resp.user, resp.org, resp.project, resp.tenant>> =
            <<key.id, key.user, key.org, key.project, key.tenant>>
    BY <1>7
  <2>2. authorized(toScope(req), key.orgRole, key.projectRole)
    BY <1>7, <1>10
  <2>3. KeyEvidence(S, req, resp)
    BY <1>3, <1>4, <1>7, <2>1, <2>2, ZenonT(60) DEF KeyEvidence
  <2> QED
    BY <1>5, <1>6, <1>7, <1>8, <2>3 DEF Evidenced, Evidence
<1>11. OwnTenant(r, S)
  <2>1. \A e \in resp.envs : \E cl \in clusters : cl.id = e.cluster /\ cl.tenant = key.tenant
    <3> SUFFICES ASSUME NEW e \in assignedKubernetesEnvs(h[x].project, clusters)
                 PROVE  \E cl \in clusters : cl.id = e.cluster /\ cl.tenant = key.tenant
      BY <1>7
    <3>1. PICK cl \in clusters : cl.id = e.cluster
      BY EnvsOnClusters
    <3> QED
      BY <1>2, <3>1, ClustersOfTenant
  <2> QED
    BY <1>2, <1>5, <1>7, <1>8, <2>1 DEF OwnTenant
<1>12. Honoured(r, S)
  BY <1>5, <1>7, <1>8 DEF Honoured
<1> QED
  BY <1>1, <1>9, <1>10, <1>11, <1>12, ReplyStep DEF r

----------------------------------------------------------------------------
(* The token is that of a user.                                            *)

LEMMA StepGetUserByID ==
    ASSUME ServerInv, NEW x \in Handlers, NEW is \in Introspections[h[x].req.token],
           GetUserByID(x, is)
    PROVE  ServerInv'
<1> DEFINE req == h[x].req
           S == seen[x]
           u == Normalize[is.email]
           user == cache.usersByID[u]
<1>1. Busy(h[x]) /\ h[x].pc = "introspect" /\ UNCHANGED <<snapshotVars, seen>>
  BY DEF GetUserByID, Busy
<1>2. ASSUME NEW c \in S, S = {c}, NEW ans,
             IF is.err THEN ans = Error("Internal")
             ELSE IF is.active THEN ans \in UserAnswers(c, req, u)
             ELSE ans = Denied
      PROVE  ans \in AtomicAnswers(c, req)
  <2>1. ~Invalid(req) /\ req.token \notin DOMAIN c.apiKeysBySecret
    BY <1>1, <1>2, Reading, OneSnapshot DEF OnlyUser
  <2> QED
    BY <1>2, <2>1, AnswerToToken
<1>3. CASE is.err
  <2>1. Reply(x, Error("Internal"))
    BY <1>3 DEF GetUserByID
  <2>2. Atomic(req, Error("Internal"), S)
    BY <1>2, <1>3 DEF Atomic
  <2> QED
    BY <1>1, <2>1, <2>2, RejectStep
<1>4. CASE ~is.err /\ (~is.active \/ u \notin DOMAIN cache.usersByID)
  <2>1. Reply(x, Denied)
    BY <1>4 DEF GetUserByID
  <2>2. ASSUME NEW c \in S, S = {c} PROVE Denied \in AtomicAnswers(c, req)
    <3>1. u \notin DOMAIN c.usersByID => Denied \in UserAnswers(c, req, u)
      BY DEF UserAnswers
    <3>2. c = cache
      BY <1>1, <2>2, OneSnapshot
    <3> QED
      BY <1>2, <1>4, <2>2, <3>1, <3>2
  <2>3. Atomic(req, Denied, S)
    BY <2>2 DEF Atomic
  <2> QED
    BY <1>1, <2>1, <2>3, RejectStep
<1>5. CASE ~is.err /\ is.active /\ u \in DOMAIN cache.usersByID
  <2>1. user.id = u /\ cache \in S
    BY <1>1, <1>5, Reading DEF WellFormed, FiledUnderOwnKeys
  <2>2. CASE OrganizationResource(req)
    <3> DEFINE resp == OrganizationAnswer(user)
               r == [pc |-> "replied", req |-> req, resp |-> resp]
    <3>1. Reply(x, resp)
      BY <1>5, <2>2 DEF GetUserByID
    <3>2. /\ resp.user = u /\ resp.tenant = user.tenant /\ resp.apiKey = None
          /\ resp.org = None /\ resp.project = None /\ resp.envs = {}
      BY <2>1 DEF OrganizationAnswer, Answer
    <3>3. r.req = req /\ r.resp = resp
      OBVIOUS
    <3>4. ASSUME NEW c \in S, S = {c} PROVE resp \in AtomicAnswers(c, req)
      <4>1. c = cache
        BY <1>1, <3>4, OneSnapshot
      <4>2. resp \in UserAnswers(c, req, u)
        BY <1>5, <2>2, <4>1 DEF UserAnswers
      <4> HIDE DEF resp
      <4> QED
        BY <1>2, <1>5, <3>4, <4>2
    <3> HIDE DEF r, resp
    <3>5. Atomic(req, resp, S)
      BY <3>4 DEF Atomic
    <3>6. req \notin WorkerRequests
      BY <1>1, Reading, ValidIsNoWorker
    <3>7. UserEvidence(S, req, resp)
      BY <1>5, <2>1, <2>2, <3>2 DEF UserEvidence
    <3>8. Evidenced(r, S)
      BY <3>2, <3>3, <3>6, <3>7 DEF Evidenced, Evidence
    <3>9. OwnTenant(r, S) /\ Honoured(r, S)
      BY <2>1, <3>2, <3>3 DEF OwnTenant, Honoured
    <3> QED
      BY <1>1, <3>1, <3>5, <3>8, <3>9, ReplyStep DEF r
  <2>3. CASE ~OrganizationResource(req)
    <3> DEFINE r == [h[x] EXCEPT !.pc = "userProjects", !.user = user]
    <3>1. h' = [h EXCEPT ![x] = r]
      BY <1>5, <2>3, Locals DEF GetUserByID
    <3>2. /\ r = [f \in Fields |-> r[f]]
          /\ r.pc = "userProjects" /\ r.req = req /\ r.user = user /\ r.pool = h[x].pool
          /\ r.orgRole = h[x].orgRole /\ r.projectRole = h[x].projectRole
      BY Locals DEF Fields
    <3> HIDE DEF r
    <3>3. HasUser(r, S) /\ Typed(r)
      BY <1>1, <1>5, <2>1, <3>2, Reading DEF HasUser, Typed, PickPcs, LatePcs
    <3>4. Searching(r, S)
      BY <1>1, <3>2, Reading DEF Searching
    <3>5. Associated(r, S)
      BY <3>2 DEF Associated, LatePcs
    <3>6. Named(r)
      BY <1>5, <2>1, <2>3, <3>2 DEF Named
    <3>7. ASSUME NEW c \in S, S = {c} PROVE OnlyUser(r, c) /\ OnlySearch(r, c)
      <4>1. c = cache /\ req.token \notin DOMAIN c.apiKeysBySecret
        BY <1>1, <3>7, OneSnapshot DEF OnlyUser
      <4> QED
        BY <1>5, <2>1, <3>2, <4>1 DEF OnlyUser, OnlySearch, PickPcs, LatePcs
    <3>8. HandlerInv(r, S)
      BY <1>1, <3>2, <3>3, <3>4, <3>5, <3>6, <3>7, Reading, InUserPhase DEF UserPcs
    <3> QED
      BY <1>1, <3>1, <3>2, <3>8, HandlerStep
  <2> QED
    BY <2>2, <2>3
<1> QED
  BY <1>3, <1>4, <1>5

LEMMA StepGetProjectsByUserID ==
    ASSUME ServerInv, NEW x \in Handlers, GetProjectsByUserID(x) PROVE ServerInv'
<1> DEFINE projects == Lookup(cache.projectsByUserID, h[x].user.id)
           r == [h[x] EXCEPT !.pc = "userOrgs", !.userProjects = projects]
<1>1. Busy(h[x]) /\ h[x].pc = "userProjects" /\ UNCHANGED <<snapshotVars, seen>>
  BY DEF GetProjectsByUserID, Busy
<1>2. h' = [h EXCEPT ![x] = r]
  BY Locals DEF GetProjectsByUserID
<1>3. /\ r = [f \in Fields |-> r[f]] /\ r.pc = "userOrgs" /\ r.req = h[x].req
      /\ r.user = h[x].user /\ r.userProjects = projects /\ r.pool = h[x].pool
      /\ r.orgRole = h[x].orgRole /\ r.projectRole = h[x].projectRole
  BY Locals DEF Fields
<1> HIDE DEF r
<1>4. HasUser(r, seen[x]) /\ Typed(r) /\ Named(r)
  <2>1. cache \in seen[x] /\ r.userProjects = Lookup(cache.projectsByUserID, r.user.id)
    BY <1>1, <1>3, Reading
  <2>2. \E c \in seen[x] : r.user.id \in DOMAIN c.usersByID /\ r.user = c.usersByID[r.user.id]
    BY <1>1, <1>3, Reading DEF HasUser, UserPcs
  <2>3. HasUser(r, seen[x])
    BY <1>3, <2>1, <2>2 DEF HasUser, PickPcs, LatePcs
  <2>4. Typed(r)
    BY <1>1, <1>3, Reading DEF Typed
  <2>5. Named(h[x]) /\ h[x].pc \in UserPcs
    BY <1>1, Reading DEF UserPcs
  <2>6. Named(r)
    BY <1>3, <2>5 DEF Named
  <2> QED
    BY <2>3, <2>4, <2>6
<1>5. Searching(r, seen[x])
  BY <1>1, <1>3, Reading DEF Searching
<1>6. Associated(r, seen[x])
  BY <1>3 DEF Associated, LatePcs
<1>7. ASSUME NEW c \in seen[x], seen[x] = {c} PROVE OnlyUser(r, c) /\ OnlySearch(r, c)
  <2>1. c = cache /\ OnlyUser(h[x], c)
    BY <1>1, <1>7, OneSnapshot
  <2> QED
    BY <1>1, <1>3, <2>1 DEF OnlyUser, OnlySearch, UserPcs, PickPcs, LatePcs
<1>8. HandlerInv(r, seen[x])
  BY <1>1, <1>3, <1>4, <1>5, <1>6, <1>7, Reading, InUserPhase DEF UserPcs
<1> QED
  BY <1>1, <1>2, <1>3, <1>8, HandlerStep

LEMMA StepGetOrganizationsByUserID ==
    ASSUME ServerInv, NEW x \in Handlers, GetOrganizationsByUserID(x) PROVE ServerInv'
<1> DEFINE req == h[x].req
           orgs == Lookup(cache.orgsByUserID, h[x].user.id)
           left == OrgsToSearch(req, orgs)
           pc == IF req.project # None THEN "requestedProject"
                 ELSE IF req.org # None THEN "requestedOrg" ELSE "orgProjects"
           r == [h[x] EXCEPT !.userOrgs = orgs, !.left = left, !.pc = pc]
<1>1. Busy(h[x]) /\ h[x].pc = "userOrgs" /\ UNCHANGED <<snapshotVars, seen>>
  BY DEF GetOrganizationsByUserID, Busy
<1>2. h' = [h EXCEPT ![x] = r]
  BY Locals DEF GetOrganizationsByUserID
<1> HIDE DEF pc, left, orgs
<1>3. /\ r = [f \in Fields |-> r[f]] /\ r.req = req /\ r.user = h[x].user
      /\ r.userProjects = h[x].userProjects /\ r.userOrgs = orgs
      /\ r.left = left /\ r.pool = h[x].pool /\ r.pc = pc
      /\ r.orgRole = h[x].orgRole /\ r.projectRole = h[x].projectRole
  BY Locals DEF Fields
<1> HIDE DEF r
<1>4. /\ \/ pc = "requestedProject" /\ req.project # None
         \/ pc = "requestedOrg" /\ req.project = None /\ req.org # None
         \/ pc = "orgProjects" /\ req.project = None /\ req.org = None
      /\ req.org # None => left = {req.org}
  BY DEF pc, left, OrgsToSearch
<1>5. HasUser(r, seen[x])
  BY <1>1, <1>3, <1>4, Reading DEF HasUser, UserPcs, PickPcs, LatePcs, orgs
<1>6. Named(r) /\ Typed(r)
  BY <1>1, <1>3, Reading DEF Named, Typed, UserPcs
<1>7. h[x].pool = {}
  BY <1>1, Reading DEF Searching
<1>8. Searching(r, seen[x])
  BY <1>3, <1>4, <1>7 DEF Searching
<1>9. Associated(r, seen[x])
  BY <1>3, <1>4 DEF Associated, LatePcs
<1>10. ASSUME NEW c \in seen[x], seen[x] = {c} PROVE OnlyUser(r, c) /\ OnlySearch(r, c)
  <2>1. c = cache /\ OnlyUser(h[x], c)
    BY <1>1, <1>10, OneSnapshot
  <2>2. OnlyUser(r, c)
    BY <1>1, <1>3, <1>4, <2>1 DEF OnlyUser, UserPcs, PickPcs, LatePcs, orgs
  <2>3. Gathered(c, left \ left) = {}
    BY DEF Gathered
  <2>4. r.pc \notin LatePcs
    BY <1>3, <1>4 DEF LatePcs
  <2>5. OrgsToSearch(r.req, r.userOrgs) = left
    BY <1>3 DEF left
  <2>6. OnlySearch(r, c)
    BY <1>3, <1>4, <1>7, <2>3, <2>4, <2>5 DEF OnlySearch
  <2> QED
    BY <2>2, <2>6
<1>11. HandlerInv(r, seen[x])
  BY <1>1, <1>3, <1>4, <1>5, <1>6, <1>8, <1>9, <1>10, Reading, InUserPhase DEF UserPcs, PickPcs
<1> QED
  BY <1>1, <1>2, <1>3, <1>11, HandlerStep

(***************************************************************************)
(* Where one snapshot alone leads Authorize to deny a known user.          *)
(***************************************************************************)
Unusable(c, req, u) ==
    LET ps == Candidates(c, req, u)
    IN  \/ ps = {}
        \/ \E p \in ps : \/ OrgRole(Lookup(c.orgsByUserID, u), p) = "unspecified"
                        \/ p.org \notin DOMAIN c.orgsByID

LEMMA AnswerToUser ==
    ASSUME NEW c, NEW req, NEW u \in DOMAIN c.usersByID, ~OrganizationResource(req)
    PROVE  LET orgs == Lookup(c.orgsByUserID, u)
               user == c.usersByID[u]
               answer(p) == UserAnswer(req, user, p, OrgRole(orgs, p),
                                       ProjectRole(Lookup(c.projectsByUserID, u), p),
                                       Lookup(c.clustersByTenantID, user.tenant))
           IN  /\ Unusable(c, req, u) => Denied \in UserAnswers(c, req, u)
               /\ \A p \in Candidates(c, req, u) :
                     OrgRole(orgs, p) # "unspecified" /\ p.org \in DOMAIN c.orgsByID =>
                         answer(p) \in UserAnswers(c, req, u)
<1> DEFINE orgs == Lookup(c.orgsByUserID, u)
           ps == Candidates(c, req, u)
           user == c.usersByID[u]
           Usable(p) == OrgRole(orgs, p) # "unspecified" /\ p.org \in DOMAIN c.orgsByID
           answer(p) == UserAnswer(req, user, p, OrgRole(orgs, p),
                                   ProjectRole(Lookup(c.projectsByUserID, u), p),
                                   Lookup(c.clustersByTenantID, user.tenant))
<1>1. UserAnswers(c, req, u) =
          {answer(p) : p \in {q \in ps : Usable(q)}}
              \cup (IF ps # {} /\ \A p \in ps : Usable(p) THEN {} ELSE {Denied})
  BY Zenon DEF UserAnswers
<1> HIDE DEF answer
<1>2. Unusable(c, req, u) => ~(ps # {} /\ \A p \in ps : Usable(p))
  BY DEF Unusable
<1>3. Unusable(c, req, u) => Denied \in UserAnswers(c, req, u)
  <2> HIDE DEF Usable, ps
  <2> QED BY <1>1, <1>2
<1>4. \A p \in ps : Usable(p) => answer(p) \in UserAnswers(c, req, u)
  <2> HIDE DEF Usable, ps
  <2> QED BY <1>1
<1> QED
  BY <1>3, <1>4 DEF answer

(***************************************************************************)
(* A handler that has found a user is left with one snapshot's answers.    *)
(***************************************************************************)
LEMMA UserAlone ==
    ASSUME ServerInv, NEW x \in Handlers, Busy(h[x]), h[x].pc \in UserPcs,
           NEW c \in seen[x], seen[x] = {c},
           NEW ans \in UserAnswers(c, h[x].req, h[x].user.id)
    PROVE  ans \in AtomicAnswers(c, h[x].req)
<1> DEFINE req == h[x].req
<1>1. ~Invalid(req) /\ Named(h[x])
  BY Reading DEF UserPcs, PickPcs, LatePcs
<1>2. PICK is \in Introspections[req.token] :
         ~is.err /\ is.active /\ h[x].user.id = Normalize[is.email]
  BY <1>1 DEF Named
<1>3. req.token \notin DOMAIN c.apiKeysBySecret
  BY OneSnapshot DEF OnlyUser
<1>4. ans \in UserAnswers(c, req, Normalize[is.email])
  BY <1>2
<1> QED
  BY <1>1, <1>2, <1>3, <1>4, AnswerToToken

LEMMA KnownUser ==
    ASSUME ServerInv, NEW x \in Handlers, Busy(h[x]), h[x].pc \in UserPcs,
           NEW c \in seen[x], seen[x] = {c}
    PROVE  h[x].user.id \in DOMAIN c.usersByID /\ ~OrganizationResource(h[x].req)
BY Reading, OneSnapshot DEF OnlyUser, Named

LEMMA UserRejected ==
    ASSUME ServerInv, NEW x \in Handlers, Busy(h[x]), h[x].pc \in UserPcs,
           Reply(x, Denied), UNCHANGED <<snapshotVars, seen>>,
           \A c \in seen[x] : seen[x] = {c} => Unusable(c, h[x].req, h[x].user.id)
    PROVE  ServerInv'
<1>1. ASSUME NEW c \in seen[x], seen[x] = {c} PROVE Denied \in AtomicAnswers(c, h[x].req)
  <2>1. Denied \in UserAnswers(c, h[x].req, h[x].user.id)
    BY <1>1, KnownUser, AnswerToUser
  <2> QED
    BY <1>1, <2>1, UserAlone
<1>2. Atomic(h[x].req, Denied, seen[x])
  BY <1>1 DEF Atomic
<1> QED
  BY <1>2, RejectStep

(***************************************************************************)
(* findAssociatedProject has decided on a project that was asked for.      *)
(***************************************************************************)
LEMMA StepAssociate ==
    ASSUME ServerInv, NEW x \in Handlers, NEW p, Associate(x, p), h[x].pc \in PickPcs,
           Requested(h[x].req, p, seen[x]), Known(p, seen[x]),
           \A c \in seen[x] : seen[x] = {c} => p \in Candidates(c, h[x].req, h[x].user.id),
           UNCHANGED <<snapshotVars, seen>>
    PROVE  ServerInv'
<1> DEFINE role == OrgRole(h[x].userOrgs, p)
           projectRole == ProjectRole(h[x].userProjects, p)
           r == [h[x] EXCEPT !.pc = "org", !.project = p, !.orgRole = role,
                             !.projectRole = projectRole]
<1>1. Busy(h[x]) /\ h[x].pc \in UserPcs
  BY DEF PickPcs, UserPcs, Busy
<1>2. CASE role = "unspecified"
  <2>1. ASSUME NEW c \in seen[x], seen[x] = {c}
        PROVE  Unusable(c, h[x].req, h[x].user.id)
    <3>1. h[x].userOrgs = Lookup(c.orgsByUserID, h[x].user.id)
      BY <1>1, <2>1, OneSnapshot DEF OnlyUser
    <3> QED
      BY <1>2, <2>1, <3>1 DEF Unusable
  <2> QED
    BY <1>1, <1>2, <2>1, UserRejected DEF Associate
<1>3. CASE role # "unspecified"
  <2>1. h' = [h EXCEPT ![x] = r]
    BY <1>3, Locals DEF Associate
  <2>2. /\ r = [f \in Fields |-> r[f]] /\ r.pc = "org" /\ r.req = h[x].req /\ r.user = h[x].user
        /\ r.userProjects = h[x].userProjects /\ r.userOrgs = h[x].userOrgs
        /\ r.project = p /\ r.orgRole = role /\ r.projectRole = projectRole
    BY Locals DEF Fields
  <2> HIDE DEF r
  <2>3. HasUser(r, seen[x]) /\ Named(r)
    <3>1. HasUser(h[x], seen[x]) /\ Named(h[x])
      BY <1>1, Reading
    <3>2. HasUser(r, seen[x])
      BY <2>2, <3>1 DEF HasUser, UserPcs, PickPcs, LatePcs
    <3>3. Named(r)
      BY <1>1, <2>2, <3>1 DEF Named
    <3> QED
      BY <3>2, <3>3
  <2>4. Searching(r, seen[x]) /\ Associated(r, seen[x])
    BY <1>3, <2>2 DEF Searching, Associated
  <2>5. Typed(r)
    <3>1. PICK d \in seen[x] : h[x].userProjects = Lookup(d.projectsByUserID, h[x].user.id)
      BY <1>1, Reading DEF HasUser, PickPcs
    <3>2. PICK g \in seen[x] : h[x].userOrgs = Lookup(g.orgsByUserID, h[x].user.id)
      BY <1>1, Reading DEF HasUser
    <3>3. RolesKnown(d) /\ RolesKnown(g)
      BY <1>1, Reading DEF WellFormed
    <3>4. \A o \in h[x].userOrgs : o.role \in OrgRoles
      BY <3>2, <3>3 DEF RolesKnown, Lookup
    <3>5. \A q \in h[x].userProjects : q.role \in ProjectRoles
      BY <3>1, <3>3 DEF RolesKnown, Lookup
    <3>6. role \in OrgRoles
      BY <3>4 DEF OrgRole, OrgRoles
    <3>7. projectRole \in ProjectRoles
      BY <3>5 DEF ProjectRole, ProjectRoles
    <3> QED
      BY <2>2, <3>6, <3>7 DEF Typed
  <2>6. ASSUME NEW c \in seen[x], seen[x] = {c} PROVE OnlyUser(r, c) /\ OnlySearch(r, c)
    <3>1. OnlyUser(h[x], c)
      BY <1>1, <2>6, OneSnapshot
    <3>2. OnlyUser(r, c)
      BY <2>2, <3>1 DEF OnlyUser, UserPcs, PickPcs, LatePcs
    <3>3. OnlySearch(r, c)
      BY <2>2, <2>6 DEF OnlySearch
    <3> QED
      BY <3>2, <3>3
  <2>7. HandlerInv(r, seen[x])
    BY <1>1, <2>2, <2>3, <2>4, <2>5, <2>6, Reading, InUserPhase DEF UserPcs, LatePcs, PickPcs
  <2> QED
    BY <1>1, <2>1, <2>2, <2>7, HandlerStep
<1> QED
  BY <1>2, <1>3

LEMMA StepGetRequestedProject ==
    ASSUME ServerInv, NEW x \in Handlers, GetRequestedProject(x) PROVE ServerInv'
<1> DEFINE req == h[x].req
           p == cache.projectsByID[req.project]
           Fits == req.project \in DOMAIN cache.projectsByID /\ req.org \in {None, p.org}
<1>1. Busy(h[x]) /\ h[x].pc = "requestedProject" /\ UNCHANGED <<snapshotVars, seen>>
  BY DEF GetRequestedProject, Busy
<1>2. req.project # None /\ cache \in seen[x] /\ WellFormed(cache)
  BY <1>1, Reading DEF Searching
<1>3. ASSUME NEW u PROVE Candidates(cache, req, u) = IF Fits THEN {p} ELSE {}
  <2>1. Candidates(cache, req, u) =
            {cache.projectsByID[i] : i \in {j \in DOMAIN cache.projectsByID :
                j = req.project /\ req.org \in {None, cache.projectsByID[j].org}}}
    BY <1>2 DEF Candidates
  <2> QED
    BY <2>1
<1>4. CASE Fits
  <2>1. Associate(x, p)
    BY <1>4 DEF GetRequestedProject
  <2>2. p.id = req.project
    BY <1>2, <1>4 DEF WellFormed, ProjectMapsAgree
  <2>3. Requested(req, p, seen[x]) /\ Known(p, seen[x])
    BY <1>2, <1>4, <2>2 DEF Requested, Known
  <2>4. \A c \in seen[x] : seen[x] = {c} => p \in Candidates(c, req, h[x].user.id)
    <3> HIDE DEF p, Fits
    <3> QED BY <1>1, <1>3, <1>4, OneSnapshot
  <2> QED
    BY <1>1, <2>1, <2>3, <2>4, StepAssociate DEF PickPcs
<1>5. CASE ~Fits
  <2>1. Reply(x, Denied)
    BY <1>5 DEF GetRequestedProject
  <2>2. \A c \in seen[x] : seen[x] = {c} => Unusable(c, req, h[x].user.id)
    <3> HIDE DEF p, Fits
    <3> QED BY <1>1, <1>3, <1>5, OneSnapshot DEF Unusable
  <2> QED
    BY <1>1, <2>1, <2>2, UserRejected DEF UserPcs, PickPcs
<1> QED
  BY <1>4, <1>5

LEMMA StepGetRequestedOrg ==
    ASSUME ServerInv, NEW x \in Handlers, GetRequestedOrg(x) PROVE ServerInv'
<1> DEFINE r == [h[x] EXCEPT !.pc = "orgProjects"]
<1>1. Busy(h[x]) /\ h[x].pc = "requestedOrg" /\ UNCHANGED <<snapshotVars, seen>>
  BY DEF GetRequestedOrg, Busy
<1>2. CASE h[x].req.org \in DOMAIN cache.orgsByID
  <2>1. h' = [h EXCEPT ![x] = r]
    BY <1>2, Locals DEF GetRequestedOrg
  <2>2. /\ r = [f \in Fields |-> r[f]] /\ r.pc = "orgProjects" /\ r.req = h[x].req
        /\ r.user = h[x].user /\ r.userProjects = h[x].userProjects
        /\ r.userOrgs = h[x].userOrgs /\ r.left = h[x].left /\ r.pool = h[x].pool
        /\ r.orgRole = h[x].orgRole /\ r.projectRole = h[x].projectRole
    BY Locals DEF Fields
  <2> HIDE DEF r
  <2>3. HasUser(r, seen[x]) /\ Named(r) /\ Typed(r)
    <3>1. HasUser(h[x], seen[x]) /\ Named(h[x]) /\ Typed(h[x])
      BY <1>1, Reading
    <3>2. HasUser(r, seen[x])
      BY <1>1, <2>2, <3>1 DEF HasUser, UserPcs, PickPcs, LatePcs
    <3>3. Named(r) /\ Typed(r)
      BY <1>1, <2>2, <3>1 DEF Named, Typed, UserPcs, PickPcs, LatePcs
    <3> QED
      BY <3>2, <3>3
  <2>4. Searching(r, seen[x])
    BY <1>1, <2>2, Reading DEF Searching
  <2>5. Associated(r, seen[x])
    BY <2>2 DEF Associated, LatePcs
  <2>6. ASSUME NEW c \in seen[x], seen[x] = {c} PROVE OnlyUser(r, c) /\ OnlySearch(r, c)
    <3>1. c = cache /\ OnlyUser(h[x], c) /\ OnlySearch(h[x], c)
      BY <1>1, <2>6, OneSnapshot
    <3>2. OnlyUser(r, c)
      BY <1>1, <2>2, <3>1 DEF OnlyUser, UserPcs, PickPcs, LatePcs
    <3>3. OnlySearch(r, c)
      BY <1>1, <1>2, <2>2, <3>1 DEF OnlySearch, LatePcs
    <3> QED
      BY <3>2, <3>3
  <2>7. HandlerInv(r, seen[x])
    BY <1>1, <2>2, <2>3, <2>4, <2>5, <2>6, Reading, InUserPhase DEF UserPcs, PickPcs
  <2> QED
    BY <1>1, <2>1, <2>2, <2>7, HandlerStep
<1>3. CASE h[x].req.org \notin DOMAIN cache.orgsByID
  <2>1. ASSUME NEW c \in seen[x], seen[x] = {c}
        PROVE  Unusable(c, h[x].req, h[x].user.id)
    <3>1. c = cache /\ h[x].req.org # None /\ h[x].req.project = None
      BY <1>1, <2>1, OneSnapshot, Reading DEF OnlySearch, Searching
    <3> QED
      BY <1>3, <3>1 DEF Unusable, Candidates
  <2> QED
    BY <1>1, <1>3, <2>1, UserRejected DEF GetRequestedOrg, UserPcs, PickPcs
<1> QED
  BY <1>2, <1>3

LEMMA GatherOne ==
    ASSUME NEW c, NEW done, NEW o
    PROVE  Gathered(c, done \cup {o}) = Gathered(c, done) \cup Lookup(c.projectsByOrganizationID, o)
BY DEF Gathered

LEMMA StepGetProjectsByOrganizationID ==
    ASSUME ServerInv, NEW x \in Handlers, NEW o, GetProjectsByOrganizationID(x, o) PROVE ServerInv'
<1> DEFINE found == Lookup(cache.projectsByOrganizationID, o)
           r == [h[x] EXCEPT !.left = h[x].left \ {o}, !.pool = h[x].pool \cup found]
<1>1. /\ Busy(h[x]) /\ h[x].pc = "orgProjects" /\ o \in h[x].left
      /\ UNCHANGED <<snapshotVars, seen>>
  BY DEF GetProjectsByOrganizationID, Busy
<1>2. h' = [h EXCEPT ![x] = r]
  BY Locals DEF GetProjectsByOrganizationID, Fields
<1>3. /\ r = [f \in Fields |-> r[f]] /\ r.pc = "orgProjects" /\ r.req = h[x].req
      /\ r.user = h[x].user /\ r.userProjects = h[x].userProjects
      /\ r.userOrgs = h[x].userOrgs
      /\ r.left = h[x].left \ {o} /\ r.pool = h[x].pool \cup found
      /\ r.orgRole = h[x].orgRole /\ r.projectRole = h[x].projectRole
  BY <1>1, Locals DEF Fields
<1> HIDE DEF r, found
<1>4. HasUser(r, seen[x]) /\ Named(r) /\ Typed(r)
  <2>1. HasUser(h[x], seen[x]) /\ Named(h[x]) /\ Typed(h[x]) /\ h[x].pc = r.pc
    BY <1>1, <1>3, Reading
  <2>2. r.user = h[x].user /\ r.userProjects = h[x].userProjects /\ r.userOrgs = h[x].userOrgs
        /\ r.req = h[x].req
    BY <1>3
  <2> QED
    BY <1>3, <2>1, <2>2 DEF HasUser, Named, Typed
<1>5. \A p \in found : p.org = o /\ Known(p, seen[x])
  <2>1. cache \in seen[x] /\ ProjectMapsAgree(cache)
    BY <1>1, Reading DEF WellFormed
  <2> QED
    BY <2>1 DEF ProjectMapsAgree, Known, Lookup, found
<1>6. Searching(r, seen[x])
  BY <1>1, <1>3, <1>5, Reading DEF Searching
<1>7. Associated(r, seen[x])
  BY <1>1, <1>3 DEF Associated, LatePcs
<1>8. ASSUME NEW c \in seen[x], seen[x] = {c} PROVE OnlyUser(r, c) /\ OnlySearch(r, c)
  <2>1. c = cache /\ OnlyUser(h[x], c) /\ OnlySearch(h[x], c)
    BY <1>1, <1>8, OneSnapshot
  <2>2. OnlyUser(r, c)
    BY <1>1, <1>3, <2>1 DEF OnlyUser, UserPcs, PickPcs, LatePcs
  <2> DEFINE orgs == OrgsToSearch(h[x].req, h[x].userOrgs)
  <2>3. h[x].left \subseteq orgs /\ h[x].pool = Gathered(c, orgs \ h[x].left)
        /\ h[x].req.org \in DOMAIN c.orgsByID \cup {None}
    <3>1. h[x].pc \in {"requestedOrg", "orgProjects"} /\ OnlySearch(h[x], c)
      BY <1>1, <2>1
    <3>2. h[x].left \subseteq orgs /\ h[x].pool = Gathered(c, orgs \ h[x].left)
      BY <3>1, Zenon DEF OnlySearch
    <3>3. h[x].req.org \in DOMAIN c.orgsByID \cup {None}
      BY <1>1, <3>1 DEF OnlySearch
    <3> QED
      BY <3>2, <3>3
  <2> HIDE DEF orgs
  <2>4. r.pool = Gathered(c, orgs \ r.left)
    <3>1. Gathered(c, orgs \ (h[x].left \ {o})) =
              Gathered(c, orgs \ h[x].left) \cup Lookup(c.projectsByOrganizationID, o)
      <4>1. orgs \ (h[x].left \ {o}) = (orgs \ h[x].left) \cup {o}
        BY <1>1, <2>3
      <4>2. Gathered(c, (orgs \ h[x].left) \cup {o}) =
                Gathered(c, orgs \ h[x].left) \cup Lookup(c.projectsByOrganizationID, o)
        BY GatherOne
      <4> QED
        BY <4>1, <4>2
    <3>2. r.left = h[x].left \ {o} /\ r.pool = h[x].pool \cup found
      BY <1>3
    <3>3. found = Lookup(c.projectsByOrganizationID, o)
      BY <2>1 DEF found
    <3> QED
      BY <2>3, <3>1, <3>2, <3>3
  <2>5. r.left \subseteq orgs /\ orgs = OrgsToSearch(r.req, r.userOrgs)
    BY <1>3, <2>3 DEF orgs
  <2>6. OnlySearch(r, c)
    BY <1>3, <2>3, <2>4, <2>5 DEF OnlySearch, LatePcs
  <2> QED
    BY <2>2, <2>6
<1>9. HandlerInv(r, seen[x])
  BY <1>1, <1>3, <1>4, <1>6, <1>7, <1>8, Reading, InUserPhase DEF UserPcs, PickPcs
<1> QED
  BY <1>1, <1>2, <1>3, <1>9, HandlerStep

LEMMA StepPickProject ==
    ASSUME ServerInv, NEW x \in Handlers, PickProject(x) PROVE ServerInv'
<1> DEFINE req == h[x].req
           own == OwnProjects(req, h[x].userProjects)
           picks == pickProject(own, h[x].pool)
<1>1. /\ Busy(h[x]) /\ h[x].pc = "orgProjects" /\ h[x].left = {}
      /\ UNCHANGED <<snapshotVars, seen>>
  BY DEF PickProject, Busy
<1>2. req.project = None /\ (req.org # None => \A q \in h[x].pool : q.org = req.org)
      /\ \A q \in h[x].pool : Known(q, seen[x])
  BY <1>1, Reading DEF Searching
<1>3. ASSUME NEW c \in seen[x], seen[x] = {c} PROVE picks = Candidates(c, req, h[x].user.id)
  <2>1. c = cache /\ OnlyUser(h[x], c) /\ OnlySearch(h[x], c)
    BY <1>1, <1>3, OneSnapshot
  <2>2. /\ h[x].userProjects = Lookup(c.projectsByUserID, h[x].user.id)
        /\ h[x].userOrgs = Lookup(c.orgsByUserID, h[x].user.id)
    BY <1>1, <2>1 DEF OnlyUser, UserPcs, PickPcs
  <2> DEFINE orgs == OrgsToSearch(req, h[x].userOrgs)
  <2>3. h[x].pool = Gathered(c, orgs) /\ req.org \in DOMAIN c.orgsByID \cup {None}
    <3>1. h[x].pool = Gathered(c, orgs \ h[x].left) /\ req.org \in DOMAIN c.orgsByID \cup {None}
      BY <1>1, <2>1 DEF OnlySearch
    <3>2. orgs \ h[x].left = orgs
      BY <1>1
    <3> QED
      BY <3>1, <3>2
  <2> QED
    BY <1>2, <2>2, <2>3, Zenon DEF Candidates, Gathered
<1>4. CASE picks = {}
  <2>1. \A c \in seen[x] : seen[x] = {c} => Unusable(c, req, h[x].user.id)
    BY <1>3, <1>4 DEF Unusable
  <2> QED
    BY <1>1, <1>4, <2>1, UserRejected DEF PickProject, UserPcs, PickPcs
<1>5. CASE picks # {}
  <2>1. PICK p \in picks : Associate(x, p)
    BY <1>5 DEF PickProject
  <2>2. p \in own \cup h[x].pool
    BY <2>1 DEF pickProject
  <2>3. PICK c \in seen[x] : h[x].userProjects = Lookup(c.projectsByUserID, h[x].user.id)
    BY <1>1, Reading DEF HasUser, UserPcs, PickPcs
  <2>4. \A y \in h[x].userProjects : Known(y.project, seen[x])
    <3>1. RolesHaveProjects(c)
      BY <1>1, Reading DEF WellFormed
    <3> QED
      BY <2>3, <3>1 DEF RolesHaveProjects, Known, Lookup
  <2>5. Known(p, seen[x])
    BY <1>2, <2>2, <2>4 DEF OwnProjects
  <2>6. ASSUME req.org # None, \A d \in seen[x] : RolesMatchProjects(d) PROVE p.org = req.org
    <3>1. CASE p \in own
      <4>1. PICK y \in h[x].userProjects : y.org = req.org /\ p = y.project
        BY <2>6, <3>1 DEF OwnProjects
      <4> QED
        BY <2>3, <2>6, <4>1 DEF RolesMatchProjects, Lookup
    <3>2. CASE p \in h[x].pool
      BY <1>2, <2>6, <3>2
    <3> QED
      BY <2>2, <3>1, <3>2
  <2>7. Requested(req, p, seen[x])
    BY <1>2, <2>6 DEF Requested
  <2>8. \A d \in seen[x] : seen[x] = {d} => p \in Candidates(d, req, h[x].user.id)
    BY <1>3, <2>1
  <2> QED
    BY <1>1, <2>1, <2>5, <2>7, <2>8, StepAssociate DEF PickPcs
<1> QED
  BY <1>4, <1>5

LEMMA StepGetOrganizationByID ==
    ASSUME ServerInv, NEW x \in Handlers, GetOrganizationByID(x) PROVE ServerInv'
<1> DEFINE r == [h[x] EXCEPT !.pc = "clusters"]
<1>1. Busy(h[x]) /\ h[x].pc = "org" /\ UNCHANGED <<snapshotVars, seen>>
  BY DEF GetOrganizationByID, Busy
<1>2. CASE h[x].project.org \in DOMAIN cache.orgsByID
  <2>1. h' = [h EXCEPT ![x] = r]
    BY <1>2, Locals DEF GetOrganizationByID
  <2>2. /\ r = [f \in Fields |-> r[f]] /\ r.pc = "clusters" /\ r.req = h[x].req
        /\ r.user = h[x].user /\ r.userProjects = h[x].userProjects
        /\ r.userOrgs = h[x].userOrgs /\ r.project = h[x].project
        /\ r.orgRole = h[x].orgRole /\ r.projectRole = h[x].projectRole
    BY Locals DEF Fields
  <2> HIDE DEF r
  <2>3. HasUser(r, seen[x]) /\ Named(r) /\ Typed(r)
    <3>1. HasUser(h[x], seen[x]) /\ Named(h[x]) /\ Typed(h[x])
      BY <1>1, Reading
    <3>2. HasUser(r, seen[x])
      BY <1>1, <2>2, <3>1 DEF HasUser, UserPcs, PickPcs, LatePcs
    <3>3. Named(r) /\ Typed(r)
      BY <1>1, <2>2, <3>1 DEF Named, Typed, UserPcs, PickPcs, LatePcs
    <3> QED
      BY <3>2, <3>3
  <2>4. Searching(r, seen[x])
    BY <2>2 DEF Searching
  <2>5. Associated(r, seen[x])
    BY <1>1, <2>2, Reading DEF Associated, LatePcs
  <2>6. ASSUME NEW c \in seen[x], seen[x] = {c} PROVE OnlyUser(r, c) /\ OnlySearch(r, c)
    <3>1. c = cache /\ OnlyUser(h[x], c) /\ OnlySearch(h[x], c)
      BY <1>1, <2>6, OneSnapshot
    <3>2. OnlyUser(r, c)
      BY <1>1, <2>2, <3>1 DEF OnlyUser, UserPcs, PickPcs, LatePcs
    <3>3. OnlySearch(r, c)
      BY <1>1, <1>2, <2>2, <3>1 DEF OnlySearch, LatePcs
    <3> QED
      BY <3>2, <3>3
  <2>7. HandlerInv(r, seen[x])
    BY <1>1, <2>2, <2>3, <2>4, <2>5, <2>6, Reading, InUserPhase DEF UserPcs, LatePcs
  <2> QED
    BY <1>1, <2>1, <2>2, <2>7, HandlerStep
<1>3. CASE h[x].project.org \notin DOMAIN cache.orgsByID
  <2>1. ASSUME NEW c \in seen[x], seen[x] = {c}
        PROVE  Unusable(c, h[x].req, h[x].user.id)
    <3>1. c = cache /\ h[x].project \in Candidates(c, h[x].req, h[x].user.id)
      BY <1>1, <2>1, OneSnapshot DEF OnlySearch, LatePcs
    <3> QED
      BY <1>3, <3>1 DEF Unusable
  <2> QED
    BY <1>1, <1>3, <2>1, UserRejected DEF GetOrganizationByID, UserPcs, LatePcs
<1> QED
  BY <1>2, <1>3

(***************************************************************************)
(* Roles that findAssociatedProjectAndRoles found are those of entries.    *)
(***************************************************************************)
LEMMA OrgRoleFound ==
    ASSUME NEW orgs, NEW p, OrgRole(orgs, p) # "unspecified"
    PROVE  \E o \in orgs : o.org = p.org /\ o.role = OrgRole(orgs, p)
BY DEF OrgRole

LEMMA ProjectRoleFound ==
    ASSUME NEW projects, NEW p
    PROVE  ProjectRole(projects, p) \in
              {q.role : q \in {y \in projects : y.project.id = p.id}} \cup {"unspecified"}
BY DEF ProjectRole

LEMMA StepGetClustersByTenantID ==
    ASSUME ServerInv, NEW x \in Handlers, GetClustersByTenantID(x) PROVE ServerInv'
<1> DEFINE req == h[x].req
           S == seen[x]
           user == h[x].user
           p == h[x].project
           clusters == Lookup(cache.clustersByTenantID, user.tenant)
           resp == UserAnswer(req, user, p, h[x].orgRole, h[x].projectRole, clusters)
           r == [pc |-> "replied", req |-> req, resp |-> resp]
<1>1. Busy(h[x]) /\ h[x].pc = "clusters" /\ UNCHANGED <<snapshotVars, seen>> /\ Reply(x, resp)
  BY DEF GetClustersByTenantID, Busy
<1>2. cache \in S /\ \A c \in S : c \in Snapshots /\ WellFormed(c)
  BY <1>1, Reading
<1>3. req \notin WorkerRequests
  BY <1>1, Reading, ValidIsNoWorker
<1>4. PICK c \in S : user.id \in DOMAIN c.usersByID /\ user = c.usersByID[user.id]
  BY <1>1, Reading DEF HasUser, UserPcs, LatePcs
<1>5. PICK d \in S : h[x].userProjects = Lookup(d.projectsByUserID, user.id)
  BY <1>1, Reading DEF HasUser, UserPcs, LatePcs
<1>6. PICK g \in S : h[x].userOrgs = Lookup(g.orgsByUserID, user.id)
  BY <1>1, Reading DEF HasUser, LatePcs
<1>7. /\ Requested(req, p, S)
      /\ h[x].orgRole # "unspecified"
      /\ h[x].orgRole = OrgRole(h[x].userOrgs, p)
      /\ h[x].projectRole = ProjectRole(h[x].userProjects, p)
  BY <1>1, Reading DEF Associated, LatePcs
<1>8. PICK o \in Lookup(g.orgsByUserID, user.id) : o.org = p.org /\ o.role = h[x].orgRole
  BY <1>6, <1>7, OrgRoleFound
<1>9. /\ resp.authorized = authorized(toScope(req), h[x].orgRole, h[x].projectRole)
      /\ resp.user = user.id /\ resp.tenant = user.tenant /\ resp.apiKey = None
      /\ resp.org = p.org /\ resp.project = p.id
      /\ resp.envs = assignedKubernetesEnvs(p, clusters)
  BY DEF UserAnswer, Answer
<1>10. r.req = req /\ r.resp = resp
  OBVIOUS
<1>11. Atomic(req, resp, S)
  <2> SUFFICES ASSUME NEW e \in S, S = {e} PROVE resp \in AtomicAnswers(e, req)
    BY DEF Atomic
  <2>1. e = cache /\ OnlyUser(h[x], e) /\ OnlySearch(h[x], e)
    BY <1>1, OneSnapshot
  <2>2. /\ user.id \in DOMAIN e.usersByID /\ user = e.usersByID[user.id]
        /\ h[x].userProjects = Lookup(e.projectsByUserID, user.id)
        /\ h[x].userOrgs = Lookup(e.orgsByUserID, user.id)
        /\ p \in Candidates(e, req, user.id) /\ p.org \in DOMAIN e.orgsByID
    BY <1>1, <2>1 DEF OnlyUser, OnlySearch, UserPcs, LatePcs
  <2>3. ~OrganizationResource(req)
    BY <1>1, KnownUser DEF UserPcs, LatePcs
  <2> DEFINE u == user.id
             orgs == Lookup(e.orgsByUserID, u)
             answer == UserAnswer(req, e.usersByID[u], p, OrgRole(orgs, p),
                                  ProjectRole(Lookup(e.projectsByUserID, u), p),
                                  Lookup(e.clustersByTenantID, e.usersByID[u].tenant))
  <2>4. answer \in UserAnswers(e, req, u)
    BY <1>7, <2>2, <2>3, AnswerToUser
  <2>5. resp = answer
    BY <1>7, <2>1, <2>2
  <2> HIDE DEF resp, answer
  <2>6. resp \in UserAnswers(e, req, h[x].user.id)
    BY <2>4, <2>5
  <2> QED
    BY <1>1, <2>6, UserAlone DEF UserPcs, LatePcs
<1> HIDE DEF r, resp
<1>12. ASSUME resp.authorized PROVE Evidenced(r, S)
  <2> DEFINE ProjectRolesIn(e) ==
                 {q.role : q \in {y \in Lookup(e.projectsByUserID, resp.user) : y.project.id = resp.project}}
  <2>1. h[x].projectRole \in ProjectRolesIn(d) \cup {"unspecified"}
    BY <1>5, <1>7, <1>9, ProjectRoleFound
  <2>2. authorized(toScope(req), o.role, h[x].projectRole)
    BY <1>8, <1>9, <1>12
  <2>3. \E e \in S : resp.user \in DOMAIN e.usersByID /\ e.usersByID[resp.user].tenant = resp.tenant
    BY <1>4, <1>9
  <2>4. o \in Lookup(g.orgsByUserID, resp.user) /\ o.org = resp.org
    BY <1>8, <1>9
  <2> HIDE DEF ProjectRolesIn
  <2>5. \E e, f \in S : \E q \in Lookup(e.orgsByUserID, resp.user) :
           /\ q.org = resp.org
           /\ \E role \in ProjectRolesIn(f) \cup {"unspecified"} : authorized(toScope(req), q.role, role)
    BY <2>1, <2>2, <2>4
  <2>6. /\ ~OrganizationResource(req)
        /\ \E is \in Introspections[req.token] : is.active /\ resp.user = Normalize[is.email]
    BY <1>1, <1>9, Reading DEF Named, UserPcs, LatePcs
  <2>7. \E e \in S : resp.project \in DOMAIN e.projectsByID
                    /\ e.projectsByID[resp.project].org = resp.org
    BY <1>1, <1>9, Reading DEF Associated, Known, LatePcs
  <2>8. UserEvidence(S, req, resp)
    BY <2>3, <2>5, <2>6, <2>7 DEF UserEvidence, ProjectRolesIn
  <2> QED
    BY <1>3, <1>9, <1>10, <2>8 DEF Evidenced, Evidence
<1>13. OwnTenant(r, S)
  <2>1. \A e \in resp.envs : \E cl \in clusters : cl.id = e.cluster /\ cl.tenant = user.tenant
    <3> SUFFICES ASSUME NEW e \in assignedKubernetesEnvs(p, clusters)
                 PROVE  \E cl \in clusters : cl.id = e.cluster /\ cl.tenant = user.tenant
      BY <1>9
    <3>1. PICK cl \in clusters : cl.id = e.cluster
      BY EnvsOnClusters
    <3> QED
      BY <1>2, <3>1, ClustersOfTenant
  <2>2. ASSUME OneTenant, Stable(user.id, S)
        PROVE  p.org \in DOMAIN g.orgsByID /\ g.orgsByID[p.org].tenant = user.tenant
    <3>1. user.id \in DOMAIN g.orgsByUserID /\ o \in g.orgsByUserID[user.id]
      BY <1>8 DEF Lookup
    <3>2. UsersHaveOneTenant(g)
      BY <1>2, <2>2 DEF OneTenant
    <3>3. user.id \in DOMAIN g.usersByID /\ p.org \in DOMAIN g.orgsByID
          /\ g.orgsByID[p.org].tenant = g.usersByID[user.id].tenant
      BY <1>8, <3>1, <3>2 DEF UsersHaveOneTenant
    <3>4. g.usersByID[user.id] = user
      BY <1>4, <2>2, <3>3 DEF Stable
    <3> QED
      BY <3>3, <3>4
  <2>3. \E e \in S : \A env \in resp.envs : \E cl \in Lookup(e.clustersByTenantID, resp.tenant) :
           cl.id = env.cluster /\ cl.tenant = resp.tenant
    BY <1>2, <1>9, <2>1
  <2> QED
    BY <1>9, <1>10, <2>2, <2>3 DEF OwnTenant
<1>14. Honoured(r, S)
  BY <1>7, <1>9, <1>10 DEF Honoured, Requested
<1> QED
  BY <1>1, <1>12, <1>13, <1>14, <1>11, ReplyStep DEF r

----------------------------------------------------------------------------
(* AuthorizeWorker.                                                        *)

LEMMA StepGetClusterByRegistrationKey ==
    ASSUME ServerInv, NEW x \in Handlers, GetClusterByRegistrationKey(x) PROVE ServerInv'
<1> DEFINE req == h[x].req
           map == cache.clustersByRegistrationKey
           resp == WorkerGrant(map[req.token])
           r == [pc |-> "replied", req |-> req, resp |-> resp]
<1>1. Busy(h[x]) /\ h[x].pc = "worker" /\ UNCHANGED <<snapshotVars, seen>>
  BY DEF GetClusterByRegistrationKey, Busy
<1>2. req \in WorkerRequests /\ \A a : Atomic(req, a, seen[x])
  BY <1>1 DEF ServerInv, HandlerInv, Served, Atomic
<1>3. CASE req.token \in DOMAIN map
  <2>1. Reply(x, resp)
    BY <1>3 DEF GetClusterByRegistrationKey
  <2>2. r.req = req /\ r.resp = resp
    OBVIOUS
  <2>3. WorkerEvidence(seen[x], req, resp)
    BY <1>1, <1>3, Reading DEF WorkerEvidence
  <2> HIDE DEF r, resp
  <2>4. Evidenced(r, seen[x]) /\ OwnTenant(r, seen[x]) /\ Honoured(r, seen[x])
    BY <1>2, <2>2, <2>3 DEF Evidenced, OwnTenant, Honoured
  <2> QED
    BY <1>1, <1>2, <2>1, <2>4, ReplyStep DEF r
<1>4. CASE req.token \notin DOMAIN map
  BY <1>1, <1>4, <1>2, RejectStep DEF GetClusterByRegistrationKey
<1> QED
  BY <1>3, <1>4

----------------------------------------------------------------------------
(* Requests come and go, snapshots are published.                          *)

LEMMA RequestStep ==
    ASSUME ServerInv, NEW x \in Handlers, NEW r, NEW T,
           r = [f \in Fields |-> r[f]],
           h' = [h EXCEPT ![x] = r],
           T \subseteq Snapshots,
           seen' = [seen EXCEPT ![x] = T],
           Busy(r) => cache \in T,
           UNCHANGED snapshotVars,
           HandlerInv(r, T)
    PROVE  ServerInv'
<1>1. /\ h'[x] = r /\ seen'[x] = T
      /\ \A y \in Handlers : y # x => h'[y] = h[y] /\ seen'[y] = seen[y]
  BY DEF ServerInv, Shape
<1>2. Shape'
  BY <1>1 DEF ServerInv, Shape, snapshotVars
<1>3. CacheSeen'
  BY <1>1 DEF ServerInv, CacheSeen, snapshotVars
<1>4. ASSUME NEW y \in Handlers PROVE HandlerInv(h[y], seen[y])'
  <2>1. CASE y = x
    BY <1>1, <2>1
  <2>2. CASE y # x
    <3>1. h'[y] = h[y] /\ seen'[y] = seen[y] /\ HandlerInv(h[y], seen[y])
      BY <1>1, <2>2 DEF ServerInv
    <3> QED
      BY <3>1
  <2> QED
    BY <2>1, <2>2
<1> QED
  BY <1>2, <1>3, <1>4 DEF ServerInv

LEMMA Refused ==
    ASSUME NEW req, NEW code
    PROVE  LET r == [Idle EXCEPT !.pc = "replied", !.req = req, !.resp = Error(code)]
           IN  /\ r = [f \in Fields |-> r[f]] /\ Typed(r)
               /\ r.pc = "replied" /\ r.req = req /\ r.resp = Error(code)
               /\ ~r.resp.authorized
<1>1. ~Error(code).authorized
  BY DEF Error, Denied, Answer
<1> QED
  BY <1>1 DEF Idle, Fields, Typed, OrgRoles, ProjectRoles

LEMMA Taken ==
    ASSUME NEW req, NEW pc
    PROVE  LET r == [Idle EXCEPT !.pc = pc, !.req = req]
           IN  /\ r = [f \in Fields |-> r[f]] /\ Typed(r)
               /\ r.pc = pc /\ r.req = req /\ r.pool = {}
BY DEF Idle, Fields, Typed, OrgRoles, ProjectRoles

LEMMA StepReceive ==
    ASSUME ServerInv, NEW x \in Handlers, NEW req, Receive(x, req) PROVE ServerInv'
<1>1. /\ seen' = [seen EXCEPT ![x] = {cache}] /\ UNCHANGED snapshotVars
      /\ {cache} \subseteq Snapshots
  BY DEF Receive, ServerInv, Shape
<1>2. CASE Invalid(req)
  <2> DEFINE r == [Idle EXCEPT !.pc = "replied", !.req = req, !.resp = Error("InvalidArgument")]
  <2>1. h' = [h EXCEPT ![x] = r]
    BY <1>2 DEF Receive
  <2>2. /\ r = [f \in Fields |-> r[f]] /\ Typed(r)
        /\ r.pc = "replied" /\ r.req = req /\ r.resp = Error("InvalidArgument")
        /\ ~r.resp.authorized
    BY Refused
  <2> HIDE DEF r
  <2>3. HandlerInv(r, {cache})
    <3>1. Atomic(r.req, r.resp, {cache})
      BY <1>2, <2>2 DEF Atomic, AtomicAnswers
    <3> QED
      BY <2>2, <3>1, InFirstPhase
  <2> QED
    BY <1>1, <2>1, <2>2, <2>3, RequestStep
<1>3. CASE ~Invalid(req)
  <2> DEFINE r == [Idle EXCEPT !.pc = "key", !.req = req]
  <2>1. h' = [h EXCEPT ![x] = r]
    BY <1>3 DEF Receive
  <2>2. r = [f \in Fields |-> r[f]] /\ Typed(r) /\ r.pc = "key" /\ r.req = req /\ r.pool = {}
    BY Taken
  <2> HIDE DEF r
  <2>3. HandlerInv(r, {cache})
    BY <1>3, <2>2, InFirstPhase
  <2> QED
    BY <1>1, <2>1, <2>2, <2>3, RequestStep
<1> QED
  BY <1>2, <1>3

LEMMA StepReceiveWorker ==
    ASSUME ServerInv, NEW x \in Handlers, NEW token \in WorkerTokens, ReceiveWorker(x, token)
    PROVE  ServerInv'
<1> DEFINE req == WorkerRequest(token)
<1>1. /\ seen' = [seen EXCEPT ![x] = {cache}] /\ UNCHANGED snapshotVars
      /\ {cache} \subseteq Snapshots
  BY DEF ReceiveWorker, ServerInv, Shape
<1>2. CASE token = None
  <2> DEFINE r == [Idle EXCEPT !.pc = "replied", !.req = req, !.resp = Error("InvalidArgument")]
  <2>1. h' = [h EXCEPT ![x] = r]
    BY <1>2 DEF ReceiveWorker
  <2>2. /\ r = [f \in Fields |-> r[f]] /\ Typed(r)
        /\ r.pc = "replied" /\ r.req = req /\ r.resp = Error("InvalidArgument")
        /\ ~r.resp.authorized
    BY Refused
  <2> HIDE DEF r
  <2>3. HandlerInv(r, {cache})
    <3>1. Atomic(r.req, r.resp, {cache})
      BY <2>2 DEF Atomic, WorkerRequests
    <3> QED
      BY <2>2, <3>1, InFirstPhase
  <2> QED
    BY <1>1, <2>1, <2>2, <2>3, RequestStep
<1>3. CASE token # None
  <2> DEFINE r == [Idle EXCEPT !.pc = "worker", !.req = req]
  <2>1. h' = [h EXCEPT ![x] = r]
    BY <1>3 DEF ReceiveWorker
  <2>2. r = [f \in Fields |-> r[f]] /\ Typed(r) /\ r.pc = "worker" /\ r.req = req
    BY Taken
  <2>3. req \in WorkerRequests
    BY DEF WorkerRequests
  <2> HIDE DEF r
  <2>4. HandlerInv(r, {cache})
    BY <2>2, <2>3, InFirstPhase
  <2> QED
    BY <1>1, <2>1, <2>2, <2>4, RequestStep
<1> QED
  BY <1>2, <1>3

LEMMA IdleHandler ==
    Idle = [f \in Fields |-> Idle[f]] /\ Idle.pc = "idle" /\ \A S : HandlerInv(Idle, S)
<1>1. Idle = [f \in Fields |-> Idle[f]] /\ Idle.pc = "idle" /\ Typed(Idle)
  BY DEF Idle, Fields, Typed, OrgRoles, ProjectRoles
<1> QED
  BY <1>1, InFirstPhase

LEMMA StepDone ==
    ASSUME ServerInv, NEW x \in Handlers, Done(x) PROVE ServerInv'
<1>1. h' = [h EXCEPT ![x] = Idle] /\ seen' = [seen EXCEPT ![x] = {}] /\ UNCHANGED snapshotVars
  BY DEF Done
<1>2. ~Busy(Idle)
  BY IdleHandler DEF Busy
<1> QED
  BY <1>1, <1>2, IdleHandler, RequestStep

LEMMA StepPublish ==
    ASSUME ServerInv, Publish PROVE ServerInv'
<1>1. /\ cache' \in Snapshots /\ synced' = TRUE /\ h' = h
      /\ seen' = [x \in Handlers |-> IF h[x].pc \in {"idle", "replied"} THEN seen[x]
                                     ELSE seen[x] \cup {cache'}]
  BY DEF Publish, Refresh
<1>2. Shape'
  BY <1>1 DEF ServerInv, Shape
<1>3. CacheSeen'
  BY <1>1 DEF ServerInv, CacheSeen, Busy
<1>4. ASSUME NEW x \in Handlers PROVE HandlerInv(h[x], seen[x])'
  <2>1. HandlerInv(h[x], seen[x])
    BY DEF ServerInv
  <2>2. CASE h[x].pc \in {"idle", "replied"}
    <3>1. h'[x] = h[x] /\ seen'[x] = seen[x]
      BY <1>1, <2>2
    <3> QED
      BY <2>1, <3>1
  <2>3. CASE h[x].pc \notin {"idle", "replied"}
    <3>1. h'[x] = h[x] /\ seen[x] \subseteq seen'[x] /\ seen[x] # {}
      BY <1>1, <2>3 DEF ServerInv, CacheSeen, Busy
    <3>2. HandlerInv(h[x], seen'[x])
      BY <2>1, <2>3, <3>1, SeenGrows
    <3> QED
      BY <3>1, <3>2
  <2> QED
    BY <2>2, <2>3
<1> QED
  BY <1>2, <1>3, <1>4 DEF ServerInv

----------------------------------------------------------------------------
LEMMA InitServer == ServerInit => ServerInv
<1> SUFFICES ASSUME ServerInit PROVE ServerInv
  OBVIOUS
<1>1. \A x \in Handlers : h[x] = Idle /\ seen[x] = {}
  BY DEF ServerInit
<1>2. Shape
  BY <1>1, IdleHandler DEF ServerInit, SnapshotInit, Shape
<1>3. CacheSeen
  BY <1>1, IdleHandler DEF CacheSeen, Busy
<1> QED
  BY <1>1, <1>2, <1>3, IdleHandler DEF ServerInv

LEMMA ServeStep ==
    ASSUME ServerInv, NEW x \in Handlers, Serve(x) PROVE ServerInv'
<1>1. CASE GetAPIKeyBySecret(x)
  BY <1>1, StepGetAPIKeyBySecret
<1>2. CASE KeyGetProjectByID(x)
  BY <1>2, StepKeyGetProjectByID
<1>3. CASE KeyGetOrganizationByID(x)
  BY <1>3, StepKeyGetOrganizationByID
<1>4. CASE KeyGetClustersByTenantID(x)
  BY <1>4, StepKeyGetClustersByTenantID
<1>5. CASE \E is \in Introspections[h[x].req.token] : GetUserByID(x, is)
  BY <1>5, StepGetUserByID
<1>6. CASE GetProjectsByUserID(x)
  BY <1>6, StepGetProjectsByUserID
<1>7. CASE GetOrganizationsByUserID(x)
  BY <1>7, StepGetOrganizationsByUserID
<1>8. CASE GetRequestedProject(x)
  BY <1>8, StepGetRequestedProject
<1>9. CASE GetRequestedOrg(x)
  BY <1>9, StepGetRequestedOrg
<1>10. CASE \E o \in h[x].left : GetProjectsByOrganizationID(x, o)
  BY <1>10, StepGetProjectsByOrganizationID
<1>11. CASE PickProject(x)
  BY <1>11, StepPickProject
<1>12. CASE GetOrganizationByID(x)
  BY <1>12, StepGetOrganizationByID
<1>13. CASE GetClustersByTenantID(x)
  BY <1>13, StepGetClustersByTenantID
<1>14. CASE GetClusterByRegistrationKey(x)
  BY <1>14, StepGetClusterByRegistrationKey
<1> QED
  BY <1>1, <1>2, <1>3, <1>4, <1>5, <1>6, <1>7, <1>8, <1>9, <1>10, <1>11, <1>12, <1>13, <1>14
  DEF Serve

LEMMA NextServer == ServerInv /\ [ServerNext]_serverVars => ServerInv'
<1> SUFFICES ASSUME ServerInv, [ServerNext]_serverVars PROVE ServerInv'
  OBVIOUS
<1>1. CASE Publish
  BY <1>1, StepPublish
<1>2. ASSUME NEW x \in Handlers, NEW req \in Requests, Receive(x, req) PROVE ServerInv'
  BY <1>2, StepReceive
<1>3. ASSUME NEW x \in Handlers, NEW token \in WorkerTokens, ReceiveWorker(x, token)
      PROVE  ServerInv'
  BY <1>3, StepReceiveWorker
<1>4. ASSUME NEW x \in Handlers, Step(x) PROVE ServerInv'
  BY <1>4, ServeStep, StepDone DEF Step
<1>5. CASE UNCHANGED serverVars
  BY <1>5 DEF serverVars, snapshotVars, ServerInv, Shape, CacheSeen
<1> QED
  BY <1>1, <1>2, <1>3, <1>4, <1>5 DEF ServerNext

(***************************************************************************)
(* Whatever a handler remembers comes from snapshots it has seen.          *)
(***************************************************************************)
THEOREM ServerInvariant == ServerSpec => []ServerInv
BY InitServer, NextServer, PTL DEF ServerSpec

LEMMA ServerTyped == ServerInv => ServerTypeOK
<1> SUFFICES ASSUME ServerInv PROVE ServerTypeOK
  OBVIOUS
<1>1. /\ cache \in Snapshots \cup {EmptyStore} /\ synced \in BOOLEAN
      /\ seen \in [Handlers -> SUBSET Snapshots]
  BY DEF ServerInv, Shape
<1>2. ASSUME NEW x \in Handlers
      PROVE  /\ DOMAIN h[x] = DOMAIN Idle /\ h[x].pc \in AllPcs
             /\ h[x].orgRole \in OrgRoles /\ h[x].projectRole \in ProjectRoles
  BY IdleFields DEF ServerInv, Shape, HandlerInv, Typed
<1> QED
  BY <1>1, <1>2 DEF ServerTypeOK, AllPcs, KeyPcs, UserPcs, PickPcs, LatePcs

(***************************************************************************)
(* The state of the server has the type that RbacServer states.            *)
(***************************************************************************)
THEOREM ServerTypeCorrect == ServerSpec => []ServerTypeOK
BY ServerTyped, ServerInvariant, PTL

(***************************************************************************)
(* Authorize reads the cache up to eight times, each under a lock of its   *)
(* own.  A request that met one snapshot only is nonetheless answered as   *)
(* if it had run in one step.                                              *)
(***************************************************************************)
THEOREM AnswersAreAtomic == ServerSpec => []UntornIsAtomic
<1>1. ServerInv => UntornIsAtomic
  BY DEF ServerInv, HandlerInv, Untorn, Atomic, UntornIsAtomic, IsWorker, WorkerRequests
<1> QED
  BY <1>1, ServerInvariant, PTL

(***************************************************************************)
(* A grant by Authorize or AuthorizeWorker rests on snapshots that were    *)
(* current while the request was served, however its up to eight reads     *)
(* fall between any number of publications.                                *)
(***************************************************************************)
THEOREM GrantsHaveEvidence == ServerSpec => []EvidencedGrant
<1>1. ServerInv => EvidencedGrant
  BY DEF ServerInv, HandlerInv, Replied, Evidenced, EvidencedGrant, Granted, IsWorker, WorkerRequests
<1> QED
  BY <1>1, ServerInvariant, PTL

(***************************************************************************)
(* A grant stays within the tenant of the user, provided that a user of a  *)
(* snapshot has organizations of one tenant only, which updateCache checks *)
(* before it publishes; Authorize itself compares no tenants.              *)
(***************************************************************************)
THEOREM GrantsStayInTenant ==
    ASSUME OneTenant PROVE ServerSpec => []TenantCoherent
<1>1. ServerInv => TenantCoherent
  BY DEF ServerInv, HandlerInv, Replied, OwnTenant, Stable, TenantCoherent, Granted, IsWorker,
         WorkerRequests, UserStable
<1> QED
  BY <1>1, ServerInvariant, PTL

(***************************************************************************)
(* A grant to a user is for the project and, with the proviso of           *)
(* RequestedHonoured, for the organization that the request named.         *)
(***************************************************************************)
THEOREM GrantsAreAsRequested == ServerSpec => []RequestedHonoured
<1>1. ServerInv => RequestedHonoured
  BY DEF ServerInv, HandlerInv, Replied, Honoured, RequestedHonoured, Granted, IsWorker,
         WorkerRequests
<1> QED
  BY <1>1, ServerInvariant, PTL
=============================================================================

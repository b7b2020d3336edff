---------------------------- MODULE ServiceCall ----------------------------
(***************************************************************************)
(* A call of a client to a service of LLMariner that is guarded by the     *)
(* interceptor of pkg/auth, and the calls to other services that its       *)
(* handler makes in turn with the same metadata.  Each interceptor asks    *)
(* the RBAC server, whose handlers (RbacServer) run concurrently with the  *)
(* publication of new snapshots.  The RPC to the RBAC server may fail or   *)
(* time out at any moment, also while the server is still at work.         *)
(*                                                                         *)
(* A call comes by gRPC, through grpc-gateway or to an HTTP server.  Its   *)
(* method is [name, verb]: the verb is the HTTP method, or what the last   *)
(* segment of a full gRPC method name begins with.  A header is the        *)
(* sequence of its values; a token stands for itself, with or without      *)
(* "Bearer " in front.                                                     *)
(***************************************************************************)
EXTENDS RbacServer, SequencesExt

CONSTANTS
    Configs,          \* configurations of the interceptor: [static, grpc, http]
    ExcludeMethods,   \* names of gRPC methods that Unary lets pass
    Calls,            \* the calls that clients may make: [kind, method, headers]
    InnerMethods,     \* the gRPC methods that handlers may call
    MaxHops           \* bound: the length of a chain of calls

VARIABLES
    icept,            \* the configuration of the interceptors
    hops              \* the chain of calls, each made by the handler of the one before

callVars == <<icept, hops>>
allVars  == <<serverVars, callVars>>

Headers == {"authorization", "org", "project"}

(***************************************************************************)
(* Nothing that exists is nil, and the verbs of HTTP ("GET") differ from   *)
(* the beginnings of gRPC method names ("Get", "List").                    *)
(***************************************************************************)
NothingIsNil(c) ==
    /\ Nil \notin DOMAIN c.usersByID \cup DOMAIN c.orgsByID
    /\ Nil \notin DOMAIN c.projectsByID \cup DOMAIN c.projectsByOrganizationID
    /\ \A s \in DOMAIN c.apiKeysBySecret : c.apiKeysBySecret[s].user # Nil

ASSUME CallAssumption ==
    /\ MaxHops \in Nat \ {0}
    /\ None # Nil /\ \A c \in Snapshots : NothingIsNil(c)
    /\ \A c \in Calls : /\ Headers \subseteq DOMAIN c.headers
                        /\ \A k \in Headers : c.headers[k] \in Seq(Range(c.headers[k]))
                        /\ c.method.verb \notin (IF c.kind = "http" THEN {"Get", "List"} ELSE {"GET"})
    /\ \A m \in InnerMethods : m.verb # "GET"

----------------------------------------------------------------------------
(* Requests and answers.                                                   *)

First(values) == IF values = <<>> THEN None ELSE Head(values)

OnlyFirst(values) == IF values = <<>> THEN <<>> ELSE <<Head(values)>>

(***************************************************************************)
(* NewInterceptor rejects a configuration without any resource.            *)
(***************************************************************************)
ConfigError(c) == c.static = Nil /\ c.grpc = Nil /\ c.http = Nil

(***************************************************************************)
(* The resource function for a call; Nil is a nil function.                *)
(***************************************************************************)
ResourceFunction(kind) == IF kind = "http" THEN icept.http ELSE icept.grpc

NilFunction(kind) == icept.static = Nil /\ ResourceFunction(kind) = Nil

Resource(hop) ==
    IF icept.static # Nil THEN icept.static ELSE ResourceFunction(hop.kind)[hop.method.name]

\* Faulty variant: every method only reads.
AlwaysRead(hop) == <<"read">>

Capability(hop) ==
    LET reading == IF hop.kind = "http" THEN {"GET"} ELSE {"Get", "List"}
    IN  IF hop.method.verb \in reading THEN <<"read">> ELSE <<"write">>

AuthorizeRequest(hop) ==
    [token |-> First(hop.headers.authorization), resource |-> Resource(hop),
     capability |-> Capability(hop), org |-> First(hop.headers.org),
     project |-> First(hop.headers.project)]

(***************************************************************************)
(* newUserInfoFromAuthorizeResponse reads the user, the organization and   *)
(* the project of the answer and dereferences all of them.                 *)
(***************************************************************************)
NilMessage(r) == Nil \in {r.user, r.org, r.project}

UserInfo(r) ==
    [user |-> r.user, org |-> r.org, project |-> r.project, envs |-> r.envs,
     tenant |-> r.tenant, apiKey |-> r.apiKey]

(***************************************************************************)
(* The headers that grpc-gateway makes metadata of.                        *)
(***************************************************************************)
HeaderMatcher(key) == key \in {"org", "project", "authorization"}

Received(c) ==
    IF c.kind = "gateway"
    THEN [k \in DOMAIN c.headers |-> IF HeaderMatcher(k) THEN c.headers[k] ELSE <<>>]
    ELSE c.headers

\* Faulty variant: the project is forgotten.
CarryNoProject(headers) ==
    [k \in DOMAIN headers |-> IF k = "project" THEN <<>> ELSE OnlyFirst(headers[k])]

\* Faulty variant: the last value of a header goes on.
CarryLast(headers) ==
    [k \in DOMAIN headers |-> IF headers[k] = <<>> THEN <<>> ELSE <<Last(headers[k])>>]

(***************************************************************************)
(* CarryMetadata and CarryMetadataFromHTTPHeader: the first value of each  *)
(* of the three headers goes on to the next service.                       *)
(***************************************************************************)
CarryMetadata(headers) == [k \in DOMAIN headers |-> OnlyFirst(headers[k])]

----------------------------------------------------------------------------
Hop(kind, method, headers) ==
    [pc |-> "arrived", kind |-> kind, method |-> method, headers |-> headers, asked |-> Nil,
     info |-> Nil, called |-> FALSE, seen |-> {}]

Active(pc) == hops # <<>> /\ Last(hops).pc = pc

Top == Last(hops)

SetTop(hop) == hops' = Front(hops) \o <<hop>>

Reject(code) == SetTop([Top EXCEPT !.pc = code])

(***************************************************************************)
(* The interceptor of the last hop waits for the answer of handler x.      *)
(***************************************************************************)
Awaits(x) == Active("asking") /\ Top.asked = x

(***************************************************************************)
(* HTTP knows one code for a missing token and a denied request.           *)
(***************************************************************************)
DeniedCode(kind) == IF kind = "http" THEN "unauthenticated" ELSE "permissionDenied"

Init ==
    /\ ServerInit
    /\ icept \in {c \in Configs : ~ConfigError(c)}
    /\ hops = <<>>

(* The interceptor: Unary and InterceptHTTPRequest.                        *)

Arrive(c) ==
    /\ hops = <<>>
    /\ hops' = <<Hop(c.kind, c.method, Received(c))>>
    /\ UNCHANGED <<serverVars, icept>>

Excluded(hop) == hop.kind # "http" /\ hop.method.name \in ExcludeMethods

PassExcluded ==
    /\ Active("arrived")
    /\ Excluded(Top)
    /\ SetTop([Top EXCEPT !.pc = "handling"])
    /\ UNCHANGED <<serverVars, icept>>

RejectUnauthenticated ==
    /\ Active("arrived")
    /\ ~Excluded(Top)
    /\ Top.headers.authorization = <<>>
    /\ Reject("unauthenticated")
    /\ UNCHANGED <<serverVars, icept>>

HasToken == Active("arrived") /\ ~Excluded(Top) /\ Top.headers.authorization # <<>>

CallNilFunction ==
    /\ HasToken
    /\ NilFunction(Top.kind)
    /\ Reject("panicked")
    /\ UNCHANGED <<serverVars, icept>>

Ask(x) ==
    /\ HasToken
    /\ ~NilFunction(Top.kind)
    /\ Receive(x, AuthorizeRequest(Top))
    /\ SetTop([Top EXCEPT !.pc = "asking", !.asked = x])
    /\ UNCHANGED icept

(***************************************************************************)
(* The RBAC server does not listen before its first sync.                  *)
(***************************************************************************)
Unreachable ==
    /\ HasToken
    /\ ~NilFunction(Top.kind)
    /\ ~synced
    /\ Reject("internal")
    /\ UNCHANGED <<serverVars, icept>>

(***************************************************************************)
(* The RPC to the RBAC server ends with an error, for example because the  *)
(* deadline of the call passes while the server is at work.                *)
(***************************************************************************)
CallFails ==
    /\ Active("asking")
    /\ Reject("internal")
    /\ UNCHANGED <<serverVars, icept>>

(***************************************************************************)
(* The answer of the RBAC server arrives.  What a handler gets besides the *)
(* user info, the field seen, is history.                                  *)
(***************************************************************************)
TakeAnswer(x) ==
    /\ Awaits(x)
    /\ Done(x)
    /\ LET r == h[x].resp
       IN  IF r.status # "OK" THEN Reject("internal")
           ELSE IF ~r.authorized THEN Reject(DeniedCode(Top.kind))
           ELSE IF NilMessage(r) THEN Reject("panicked")
           ELSE SetTop([Top EXCEPT !.pc = "handling", !.info = UserInfo(r), !.seen = seen[x]])
    /\ UNCHANGED icept

(***************************************************************************)
(* gRPC drops the answer to a call that has ended.                         *)
(***************************************************************************)
DropAnswer(x) ==
    /\ ~Awaits(x)
    /\ Done(x)
    /\ UNCHANGED callVars

(* The handler behind the interceptor.                                     *)

(***************************************************************************)
(* A handler calls another service, with the metadata it was called with.  *)
(***************************************************************************)
CallOn(m) ==
    /\ Active("handling")
    /\ ~Top.called
    /\ Len(hops) < MaxHops
    /\ hops' = Front(hops) \o <<[Top EXCEPT !.called = TRUE],
                                Hop("grpc", m, CarryMetadata(Top.headers))>>
    /\ UNCHANGED <<serverVars, icept>>

\* Faulty variant: a rejection is not sent back.
ReturnHandled ==
    /\ hops # <<>>
    /\ Top.pc = "handling"
    /\ hops' = Front(hops)
    /\ UNCHANGED <<serverVars, icept>>

(***************************************************************************)
(* A call returns, with an answer or an error; of a panic the client sees  *)
(* that the connection is closed.                                          *)
(***************************************************************************)
Return ==
    /\ hops # <<>>
    /\ Top.pc \notin {"arrived", "asking"}
    /\ hops' = Front(hops)
    /\ UNCHANGED <<serverVars, icept>>

Server(x) == Serve(x) /\ UNCHANGED callVars

Interceptor(x) ==
    \/ PassExcluded
    \/ RejectUnauthenticated
    \/ CallNilFunction
    \/ Ask(x)
    \/ Unreachable
    \/ TakeAnswer(x)
    \/ DropAnswer(x)

Next ==
    \/ \E c \in Calls : Arrive(c)
    \/ \E x \in Handlers : Interceptor(x) \/ Server(x)
    \/ CallFails
    \/ \E m \in InnerMethods : CallOn(m)
    \/ Return
    \/ Publish /\ UNCHANGED callVars

(***************************************************************************)
(* The RBAC server serves, answers arrive, handlers return.                *)
(***************************************************************************)
Fairness ==
    /\ \A x \in Handlers : WF_allVars(Server(x)) /\ WF_allVars(Interceptor(x))
    /\ WF_allVars(Return)

Spec == Init /\ [][Next]_allVars /\ Fairness

----------------------------------------------------------------------------
(* Properties.                                                             *)

CallTypeOK ==
    /\ ServerTypeOK
    /\ icept \in Configs
    /\ Len(hops) <= MaxHops
    /\ \A i \in DOMAIN hops :
          /\ hops[i].pc \in {"arrived", "asking", "handling", "unauthenticated",
                             "permissionDenied", "internal", "panicked"}
          /\ hops[i].seen \subseteq Snapshots
          /\ i < Len(hops) => hops[i].pc = "handling" /\ hops[i].called

Guarded(hop) == hop.pc = "handling" /\ ~Excluded(hop)

(***************************************************************************)
(* A handler that is not excluded only ever runs on evidence that was in a *)
(* snapshot current while its interceptor was asking, for the resource of  *)
(* the method, and for writing if the method may change anything.  So an   *)
(* RBAC server that fails, times out or answers late never opens a door.   *)
(***************************************************************************)
Needs(hop) ==
    [AuthorizeRequest(hop) EXCEPT
        !.capability = IF hop.method.verb \in {"Get", "List", "GET"} THEN <<"read">> ELSE <<"write">>]

HandledOnEvidence ==
    \A i \in DOMAIN hops :
        Guarded(hops[i]) => Evidence(hops[i].seen, Needs(hops[i]), hops[i].info)

(***************************************************************************)
(* Every service that a chain of calls passes through acts for the client  *)
(* that made the first one, although each asks the RBAC server anew, at    *)
(* another moment and with headers that were passed on: for the user of    *)
(* the client's own token, in the organization and the project that the    *)
(* client named, if any; or for the API key that the token is, in a state  *)
(* that the key was in meanwhile.  For an API key the server ignores the   *)
(* named organization and project and takes those of the key.  (That the   *)
(* organization is the named one takes what RequestedHonoured takes.)      *)
(***************************************************************************)
ActsAsKey(hop, token) ==
    \E c \in hop.seen :
        /\ token \in DOMAIN c.apiKeysBySecret
        /\ LET key == c.apiKeysBySecret[token]
           IN  <<hop.info.apiKey, hop.info.user, hop.info.org, hop.info.project>> =
                   <<key.id, key.user, key.org, key.project>>

ActsAsUser(hop, token) ==
    \E i \in Introspections[token] : i.active /\ hop.info.user = Normalize[i.email]

ActsInProject(hop, org, project) ==
    hop.info.project # None =>
        /\ project # None => hop.info.project = project
        /\ org # None /\ (\A c \in hop.seen : RolesMatchProjects(c)) => hop.info.org = org

ActsForClient ==
    \A i \in DOMAIN hops : Guarded(hops[i]) =>
        LET client == hops[1].headers
        IN  IF hops[i].info.apiKey # None
            THEN ActsAsKey(hops[i], First(client.authorization))
            ELSE /\ ActsAsUser(hops[i], First(client.authorization))
                 /\ ActsInProject(hops[i], First(client.org), First(client.project))

(***************************************************************************)
(* Nothing is dereferenced that is not there: an interceptor takes every   *)
(* grant of the RBAC server to have a user, an organization and a project, *)
(* also one for a resource that belongs to no project.  The one panic left *)
(* is that of an interceptor whose accepted configuration has a resource   *)
(* function for the other kind of call only.                               *)
(***************************************************************************)
NoPanic ==
    \A i \in DOMAIN hops :
        hops[i].pc = "panicked" => NilFunction(hops[i].kind) /\ ~ConfigError(icept)

(***************************************************************************)
(* Every call returns, also when calls to the RBAC server fail and while   *)
(* snapshots keep being replaced.                                          *)
(***************************************************************************)
CallsReturn == (hops # <<>>) ~> (hops = <<>>)
=============================================================================

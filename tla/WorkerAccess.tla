---------------------------- MODULE WorkerAccess ----------------------------
(***************************************************************************)
(* The way of a cluster registration key from the cluster manager to the   *)
(* services that workers call: a worker sends its key, WorkerInterceptor   *)
(* (pkg/auth/worker_interceptor.go) asks AuthorizeWorker (server/internal/ *)
(* server/authorization_worker.go), which looks the key up in the cache    *)
(* that CacheStore keeps in step with the directory.  RPCs to the RBAC     *)
(* server may fail at any moment.                                          *)
(***************************************************************************)
EXTENDS CacheStore, Sequences

CONSTANTS
    Workers,      \* processes of workers, each with one call at a time
    Keys,         \* the values of the environment variable of workers
    DefaultKey,   \* "default-cluster-registration-key-secret"
    Prefixed,     \* the keys that begin with "clusterkey-"
    NoKey         \* the empty string

VARIABLES
    w,            \* w[x]: the call of worker x
    (* History variable, read by the properties only. *)
    gone          \* gone[r]: updates begun since row r left the table

accessVars == <<w, gone>>
allVars    == <<vars, accessVars>>

ClusterRows == Rows["clusters"]

Kinds == {"unary", "stream", "http"}

----------------------------------------------------------------------------
(* The worker.                                                             *)

(***************************************************************************)
(* ValidateClusterRegistrationKey, which workers call when they start.     *)
(***************************************************************************)
ValidateClusterRegistrationKey(key) ==
    /\ key # NoKey
    /\ key = DefaultKey \/ key \in Prefixed

(***************************************************************************)
(* AppendWorkerAuthorization adds the key behind the values there are.     *)
(***************************************************************************)
AppendWorkerAuthorization(values, key) == Append(values, key)

(***************************************************************************)
(* The interceptors take the first value.                                  *)
(***************************************************************************)
ExtractToken(values) == Head(values)

Idle == [pc |-> "idle"]

SetCall(x, call) == w' = [w EXCEPT ![x] = call]

Move(x, place) == SetCall(x, [w[x] EXCEPT !.pc = place])

AccessInit ==
    /\ Init
    /\ w = [x \in Workers |-> Idle]
    /\ gone = [r \in ClusterRows |-> 0]

Called(x, kind, values) ==
    /\ w[x].pc = "idle"
    /\ SetCall(x, [pc |-> "called", kind |-> kind, values |-> values])
    /\ UNCHANGED <<vars, gone>>

Call(x, kind, key) ==
    /\ ValidateClusterRegistrationKey(key)
    /\ Called(x, kind, AppendWorkerAuthorization(<<>>, key))

(***************************************************************************)
(* A client without a key: it sends no header or an empty one.             *)
(***************************************************************************)
CallWithoutKey(x, kind) == \E values \in {<<>>, <<NoKey>>} : Called(x, kind, values)

----------------------------------------------------------------------------
(* The interceptor and AuthorizeWorker.                                    *)

(***************************************************************************)
(* HTTP knows one code for a missing header and a denied key.              *)
(***************************************************************************)
DeniedCode(kind) == IF kind = "http" THEN "unauthenticated" ELSE "permissionDenied"

RejectMissing(x) ==
    /\ w[x].pc = "called"
    /\ w[x].values = <<>>
    /\ Move(x, "unauthenticated")
    /\ UNCHANGED <<vars, gone>>

Grant(x, row) ==
    SetCall(x, [pc |-> "granted", kind |-> w[x].kind, values |-> w[x].values, info |-> row,
                listed |-> pubWindow["clusters"]])

\* Faulty variant: every key is taken for that of some cluster.
AuthorizeAnyWorker(x) ==
    /\ w[x].pc = "called"
    /\ w[x].values # <<>>
    /\ synced
    /\ LET clusters == cache.clustersByRegistrationKey
       IN  IF DOMAIN clusters = {}
           THEN Move(x, "denied")
           ELSE \E token \in DOMAIN clusters : Grant(x, clusters[token])
    /\ UNCHANGED <<vars, gone>>

(***************************************************************************)
(* The server, which only listens after its first sync, is reached, and    *)
(* AuthorizeWorker does its one read of the cache.  Without a token it     *)
(* answers with an error.  The field listed is history.                    *)
(***************************************************************************)
AuthorizeWorker(x) ==
    /\ w[x].pc = "called"
    /\ w[x].values # <<>>
    /\ synced
    /\ LET token    == ExtractToken(w[x].values)
           clusters == cache.clustersByRegistrationKey
       IN  IF token = NoKey THEN Move(x, "internal")
           ELSE IF token \notin DOMAIN clusters THEN Move(x, "denied")
           ELSE Grant(x, clusters[token])
    /\ UNCHANGED <<vars, gone>>

\* Faulty variant: a call is handled although the RPC failed.
AuthorizeFailsOpen(x) ==
    /\ w[x].pc \in {"called", "denied", "granted"}
    /\ w[x].values # <<>>
    /\ Move(x, "handling")
    /\ UNCHANGED <<vars, gone>>

(***************************************************************************)
(* The RPC fails, before or after the server has done its work.            *)
(***************************************************************************)
AuthorizeFails(x) ==
    /\ w[x].pc \in {"called", "denied", "granted"}
    /\ w[x].values # <<>>
    /\ Move(x, "internal")
    /\ UNCHANGED <<vars, gone>>

(***************************************************************************)
(* The answer arrives.                                                     *)
(***************************************************************************)
TakeAnswer(x) ==
    /\ \/ w[x].pc = "denied" /\ Move(x, DeniedCode(w[x].kind))
       \/ w[x].pc = "granted" /\ Move(x, "handling")
    /\ UNCHANGED <<vars, gone>>

(***************************************************************************)
(* The call returns.  A stream lasts as long as the worker holds it open.  *)
(***************************************************************************)
Ended(x) == w[x].pc \in {"handling", "unauthenticated", "permissionDenied", "internal"}

OpenStream(x) == w[x].pc = "handling" /\ w[x].kind = "stream"

Return(x) ==
    /\ Ended(x)
    /\ SetCall(x, Idle)
    /\ UNCHANGED <<vars, gone>>

(***************************************************************************)
(* Directory and store; a row that is not in its table grows older with    *)
(* every update that begins.                                               *)
(***************************************************************************)
StoreStep ==
    /\ DirChange \/ StoreNext
    /\ gone' = [r \in ClusterRows |->
                  IF r \in dir'["clusters"] THEN 0 ELSE IF SyncTick THEN Tick(gone[r]) ELSE gone[r]]
    /\ UNCHANGED w

Interceptor(x) == RejectMissing(x) \/ AuthorizeWorker(x) \/ TakeAnswer(x)

AccessNext ==
    \/ StoreStep
    \/ \E x \in Workers :
          \/ \E kind \in Kinds : CallWithoutKey(x, kind) \/ \E key \in Keys : Call(x, kind, key)
          \/ Interceptor(x)
          \/ AuthorizeFails(x)
          \/ Return(x)

(***************************************************************************)
(* The store is fair as in CacheStore, interceptors run, and every call    *)
(* but a stream returns.                                                   *)
(***************************************************************************)
AccessFairness ==
    /\ WF_allVars(StoreStep /\ SyncTick)
    /\ WF_allVars(StoreStep /\ UpdateStep)
    /\ \A t \in Tables : SF_allVars(StoreStep /\ List(t))
    /\ \A x \in Workers : WF_allVars(Interceptor(x)) /\ WF_allVars(~OpenStream(x) /\ Return(x))

AccessSpec == AccessInit /\ [][AccessNext]_allVars /\ AccessFairness

----------------------------------------------------------------------------
(* Properties.                                                             *)

AccessTypeOK ==
    /\ gone \in [ClusterRows -> 0..MaxAge]
    /\ \A x \in Workers :
          \/ w[x] = Idle
          \/ /\ w[x].pc \in {"called", "denied", "unauthenticated", "permissionDenied", "internal"}
             /\ w[x].kind \in Kinds
          \/ /\ w[x].pc \in {"granted", "handling", "internal"}
             /\ w[x].kind \in Kinds
             /\ "info" \in DOMAIN w[x] /\ w[x].info \in ClusterRows

(***************************************************************************)
(* A handler acts for the cluster that the cluster manager had registered  *)
(* under the worker's own key when the cache was listed: with its tenant,  *)
(* and not with that of another cluster that had or got the same key.      *)
(***************************************************************************)
Handling(x) == w[x].pc = "handling"

ActsForOwnCluster ==
    \A x \in Workers : Handling(x) =>
        /\ w[x].info.registrationKey = Head(w[x].values)
        /\ \E rows \in w[x].listed : w[x].info \in rows

(***************************************************************************)
(* A revoked key is honoured no longer than the exported time since the    *)
(* last sync says: when a key is granted whose row has left the table, at  *)
(* most as many updates have begun since as since the last sync.  So as    *)
(* long as syncs succeed a key works for one interval more, and the alert  *)
(* on that time covers the case that they do not, whatever else in the     *)
(* directory changes.                                                      *)
(***************************************************************************)
RevocationLag ==
    [][\A x \in Workers :
          w[x].pc = "called" /\ w'[x].pc = "granted" => gone[w'[x].info] <= age]_allVars

(***************************************************************************)
(* Access follows the directory: if a key stays revoked, from some time on *)
(* no call with it is granted, streams included, and none is handled but   *)
(* streams that were opened before; and if it stays registered, from some  *)
(* time on every answer to a call with it grants it and for the cluster it *)
(* is registered for, both provided that the tables fit together in the    *)
(* end.                                                                    *)
(***************************************************************************)
RevokedIsLockedOut ==
    \A r \in ClusterRows :
        <>[](r \notin dir["clusters"] /\ ~BuildError(dir)) =>
            <>[](\A x \in Workers :
                    w[x].pc = "granted" \/ (Handling(x) /\ w[x].kind # "stream") => w[x].info # r)

Misjudged(x, r) ==
    /\ w[x].pc \in {"denied", "granted"}
    /\ Head(w[x].values) = r.registrationKey
    /\ w[x].pc = "granted" => w[x].info # r

RegisteredIsAdmitted ==
    \A r \in ClusterRows :
        <>[](r \in dir["clusters"] /\ ~BuildError(dir)) => <>[](\A x \in Workers : ~Misjudged(x, r))
=============================================================================

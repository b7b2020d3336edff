-------------------------------- MODULE Boot -------------------------------
(***************************************************************************)
(* The life of the server process (server/cmd/run.go): the main goroutine  *)
(* checks the configuration (server/internal/config/config.go), waits for  *)
(* the first sync of the cache, fetches the signing keys, starts the gRPC  *)
(* server and the metrics server in goroutines of their own and then waits *)
(* for an error of one of them or for a signal.  The cache is reduced to   *)
(* whether its first sync has succeeded (CacheStore has the rest), the     *)
(* RPCs in progress to their number.                                       *)
(*                                                                         *)
(* The context of all goroutines is never cancelled, so Sync and the       *)
(* monitor, which has no steps of interest here, never send on errCh.      *)
(***************************************************************************)
EXTENDS Integers

CONSTANTS
    Configs,        \* the contents of configuration files
    MaxRPCs         \* bound on the RPCs in progress

VARIABLES
    config,         \* the configuration that Parse has read
    main,           \* where the main goroutine is
    signalled,      \* sigCh, of capacity one, holds a signal
    ticking,        \* Store.Sync has made its ticker and is in its loop
    synced,         \* initialSync is closed
    srv,            \* the goroutine of Server.Run
    metrics,        \* the goroutine of the metrics server
    rpcs,           \* RPCs in progress
    upstream        \* user-manager and cluster-manager answer

vars == <<config, main, signalled, ticking, synced, srv, metrics, rpcs, upstream>>

ASSUME BootAssumption == MaxRPCs \in Nat

Ended == {"returned", "failed", "panicked"}

Alive == main \notin Ended

\* Faulty variant: an interval of zero is accepted.
CacheConfigUnchecked(c) == c.userManagerAddr # "" /\ c.clusterManagerAddr # ""

(***************************************************************************)
(* Validate.  It does not compare the two ports.                           *)
(***************************************************************************)
CacheConfigValid(c) ==
    c.syncInterval > 0 /\ c.userManagerAddr # "" /\ c.clusterManagerAddr # ""

Valid(c) ==
    /\ c.internalGRPCPort > 0
    /\ c.monitoringPort > 0
    /\ c.gracefulShutdownDelay >= 0
    /\ c.jwksURL # ""
    /\ CacheConfigValid(c)

SharedPort == config.internalGRPCPort = config.monitoringPort

Init ==
    /\ config \in Configs
    /\ main = "validate"
    /\ signalled = FALSE
    /\ ticking = FALSE
    /\ synced = FALSE
    /\ srv = "none"
    /\ metrics = "none"
    /\ rpcs = 0
    /\ upstream \in BOOLEAN

----------------------------------------------------------------------------
(* The surroundings *)

(***************************************************************************)
(* SIGTERM or SIGINT.  A signal that finds sigCh full is dropped, and one  *)
(* that comes before sigCh is there ends the process at once.              *)
(***************************************************************************)
Signal ==
    /\ Alive
    /\ IF main = "validate"
       THEN main' = "failed" /\ UNCHANGED signalled
       ELSE signalled' = TRUE /\ UNCHANGED main
    /\ UNCHANGED <<config, ticking, synced, srv, metrics, rpcs, upstream>>

UpstreamChange ==
    /\ Alive
    /\ upstream' = ~upstream
    /\ UNCHANGED <<config, ticking, main, signalled, synced, srv, metrics, rpcs>>

----------------------------------------------------------------------------
(* The main goroutine *)

(***************************************************************************)
(* Parse works and Validate accepts what it has read, or run is not even   *)
(* called.  Making the two gRPC clients connects to nothing yet.           *)
(***************************************************************************)
Validate ==
    /\ main = "validate"
    /\ main' \in IF Valid(config) THEN {"waitForSync", "failed"} ELSE {"failed"}
    /\ UNCHANGED <<config, ticking, signalled, synced, srv, metrics, rpcs, upstream>>

Syncing == Alive /\ main # "validate"

(***************************************************************************)
(* Store.Sync makes its ticker after its first update; time.NewTicker      *)
(* panics if the interval is not positive.                                 *)
(***************************************************************************)
NewTicker ==
    /\ Syncing
    /\ ~ticking
    /\ IF config.syncInterval > 0
       THEN ticking' = TRUE /\ UNCHANGED main
       ELSE main' = "panicked" /\ UNCHANGED ticking
    /\ UNCHANGED <<config, signalled, synced, srv, metrics, rpcs, upstream>>

(***************************************************************************)
(* An update of the cache succeeds for the first time.                     *)
(***************************************************************************)
InitialSync ==
    /\ Syncing
    /\ ~synced
    /\ upstream
    /\ synced' = TRUE
    /\ UNCHANGED <<config, ticking, main, signalled, srv, metrics, rpcs, upstream>>

\* Faulty variant: the server is started without waiting for the cache.
WaitForSyncSkipped ==
    /\ main = "waitForSync"
    /\ main' = "newValidator"
    /\ UNCHANGED <<config, ticking, signalled, synced, srv, metrics, rpcs, upstream>>

WaitForSync ==
    /\ main = "waitForSync"
    /\ synced
    /\ main' = "newValidator"
    /\ UNCHANGED <<config, ticking, signalled, synced, srv, metrics, rpcs, upstream>>

(***************************************************************************)
(* The first fetch of the key set works, or it does not, and run returns   *)
(* the error.  It may also last for ever: neither the context nor the HTTP *)
(* client of the key cache has a timeout.                                  *)
(***************************************************************************)
NewValidator ==
    /\ main = "newValidator"
    /\ main' \in {"startServer", "failed"}
    /\ UNCHANGED <<config, ticking, signalled, synced, srv, metrics, rpcs, upstream>>

(***************************************************************************)
(* The two go statements.  A goroutine may run, and fail, before main has  *)
(* come to its select.                                                     *)
(***************************************************************************)
StartServer ==
    /\ main = "startServer"
    /\ main' = "startMetrics"
    /\ srv' = "started"
    /\ UNCHANGED <<config, ticking, signalled, synced, metrics, rpcs, upstream>>

StartMetrics ==
    /\ main = "startMetrics"
    /\ main' = "enterSelect"
    /\ metrics' = "started"
    /\ UNCHANGED <<config, ticking, signalled, synced, srv, rpcs, upstream>>

EnterSelect ==
    /\ main = "enterSelect"
    /\ main' = "select"
    /\ UNCHANGED <<config, ticking, signalled, synced, srv, metrics, rpcs, upstream>>

\* Faulty variant: errors of the goroutines are never received.
ReceiveErrorNever == FALSE /\ UNCHANGED vars

(***************************************************************************)
(* A goroutine whose server has failed is blocked sending its error on     *)
(* errCh, which is unbuffered, until main receives it.                     *)
(***************************************************************************)
ReceiveError ==
    /\ main = "select"
    /\ srv \in {"failed", "broken"} \/ metrics = "failed"
    /\ main' = "failed"
    /\ UNCHANGED <<config, ticking, signalled, synced, srv, metrics, rpcs, upstream>>

\* Faulty variant: run returns on a signal without stopping the server.
ReceiveSignalReturns ==
    /\ main = "select"
    /\ signalled
    /\ signalled' = FALSE
    /\ main' = "returned"
    /\ UNCHANGED <<config, ticking, synced, srv, metrics, rpcs, upstream>>

\* Faulty variant: a signal is received and forgotten.
ReceiveSignalIgnored ==
    /\ main = "select"
    /\ signalled
    /\ signalled' = FALSE
    /\ UNCHANGED <<config, ticking, main, synced, srv, metrics, rpcs, upstream>>

(***************************************************************************)
(* A signal: sleep for the configured delay, zero by default.              *)
(***************************************************************************)
ReceiveSignal ==
    /\ main = "select"
    /\ signalled
    /\ signalled' = FALSE
    /\ main' = "sleep"
    /\ UNCHANGED <<config, ticking, synced, srv, metrics, rpcs, upstream>>

(***************************************************************************)
(* Server.GracefulStop.  s.srv is nil until Server.Run has set it; nothing *)
(* orders the two goroutines.  Otherwise no new RPC is accepted.           *)
(***************************************************************************)
GracefulStop ==
    /\ main = "sleep"
    /\ IF srv = "started"
       THEN main' = "panicked" /\ UNCHANGED srv
       ELSE main' = "draining" /\ srv' = "stopped"
    /\ UNCHANGED <<config, ticking, signalled, synced, metrics, rpcs, upstream>>

(***************************************************************************)
(* GracefulStop returns when the last RPC has ended.                       *)
(***************************************************************************)
Drained ==
    /\ main = "draining"
    /\ rpcs = 0
    /\ main' = "returned"
    /\ UNCHANGED <<config, ticking, signalled, synced, srv, metrics, rpcs, upstream>>

----------------------------------------------------------------------------
(* The other goroutines; they end with the main goroutine. *)

(***************************************************************************)
(* A listener gets its port unless that is taken, or fails.                *)
(***************************************************************************)
Listen(other) == IF SharedPort /\ other = "serving" THEN {"failed"} ELSE {"serving", "failed"}

(***************************************************************************)
(* Server.Run assigns s.srv, then listens and serves, unless the server    *)
(* has been stopped in between.                                            *)
(***************************************************************************)
AssignServer ==
    /\ Alive
    /\ srv = "started"
    /\ srv' = "assigned"
    /\ UNCHANGED <<config, ticking, main, signalled, synced, metrics, rpcs, upstream>>

\* Faulty variant: the error of listening is sent to a main that is in its
\* select, or else dropped.
ListenAndServeDropped ==
    /\ Alive
    /\ srv = "assigned"
    /\ \E s \in Listen(metrics) :
          srv' = IF s = "failed" /\ main # "select" THEN "stopped" ELSE s
    /\ UNCHANGED <<config, ticking, main, signalled, synced, metrics, rpcs, upstream>>

ListenAndServe ==
    /\ Alive
    /\ srv = "assigned"
    /\ srv' \in Listen(metrics)
    /\ UNCHANGED <<config, ticking, main, signalled, synced, metrics, rpcs, upstream>>

MetricsServe ==
    /\ Alive
    /\ metrics = "started"
    /\ metrics' \in Listen(srv)
    /\ UNCHANGED <<config, ticking, main, signalled, synced, srv, rpcs, upstream>>

(***************************************************************************)
(* Accepting connections fails after a time: Serve returns the error.  The *)
(* listener is closed, connections that are open live on.                  *)
(***************************************************************************)
ServerFails ==
    /\ Alive
    /\ srv = "serving"
    /\ srv' = "broken"
    /\ UNCHANGED <<config, ticking, main, signalled, synced, metrics, rpcs, upstream>>

MetricsFails ==
    /\ Alive
    /\ metrics = "serving"
    /\ metrics' = "failed"
    /\ UNCHANGED <<config, ticking, main, signalled, synced, srv, rpcs, upstream>>

BeginRPC ==
    /\ Alive
    /\ srv \in {"serving", "broken"}
    /\ rpcs < MaxRPCs
    /\ rpcs' = rpcs + 1
    /\ UNCHANGED <<config, ticking, main, signalled, synced, srv, metrics, upstream>>

\* Faulty variant: the end of an RPC is counted whether or not there is one.
EndRPCTwice ==
    /\ Alive
    /\ srv = "serving"
    /\ rpcs' = rpcs - 1
    /\ UNCHANGED <<config, ticking, main, signalled, synced, srv, metrics, upstream>>

EndRPC ==
    /\ Alive
    /\ rpcs > 0
    /\ rpcs' = rpcs - 1
    /\ UNCHANGED <<config, ticking, main, signalled, synced, srv, metrics, upstream>>

MainStep ==
    \/ Validate
    \/ WaitForSync
    \/ StartServer
    \/ StartMetrics
    \/ EnterSelect
    \/ ReceiveError
    \/ ReceiveSignal
    \/ GracefulStop
    \/ Drained

Next ==
    \/ MainStep
    \/ NewValidator
    \/ Signal
    \/ UpstreamChange
    \/ NewTicker
    \/ InitialSync
    \/ AssignServer
    \/ ListenAndServe
    \/ MetricsServe
    \/ ServerFails
    \/ MetricsFails
    \/ BeginRPC
    \/ EndRPC

(***************************************************************************)
(* Goroutines run and RPCs end.  InitialSync is fair in the strong sense:  *)
(* an upstream that answers now and then is found answering by one of the  *)
(* updates, which are tried for ever.  The first fetch of the keys is not  *)
(* fair: no timeout ends it.  Nor are the failures.                        *)
(***************************************************************************)
Fairness ==
    /\ WF_vars(MainStep)
    /\ SF_vars(InitialSync)
    /\ WF_vars(NewTicker)
    /\ WF_vars(AssignServer)
    /\ WF_vars(ListenAndServe)
    /\ WF_vars(MetricsServe)
    /\ WF_vars(EndRPC)

Spec == Init /\ [][Next]_vars /\ Fairness

----------------------------------------------------------------------------
(* Properties. *)

TypeOK ==
    /\ config \in Configs
    /\ main \in {"validate", "waitForSync", "newValidator", "startServer", "startMetrics",
                "enterSelect", "select", "sleep", "draining"} \cup Ended
    /\ signalled \in BOOLEAN /\ ticking \in BOOLEAN /\ synced \in BOOLEAN /\ upstream \in BOOLEAN
    /\ srv \in {"none", "started", "assigned", "serving", "broken", "stopped", "failed"}
    /\ metrics \in {"none", "started", "serving", "failed"}
    /\ rpcs \in 0..MaxRPCs

(***************************************************************************)
(* No RPC is served from a cache that was never filled: with the empty     *)
(* cache every API key and every user would be denied.                     *)
(***************************************************************************)
ServesOnlySynced == srv \in {"serving", "broken"} \/ rpcs > 0 => synced

(***************************************************************************)
(* A shutdown by signal cuts off no RPC: when run returns without an error *)
(* every RPC that was begun has ended and no other one can begin.          *)
(***************************************************************************)
SignalDrains == main = "returned" => rpcs = 0 /\ srv = "stopped"

(***************************************************************************)
(* With an upstream that answers again and again and a key fetch that      *)
(* ends, a signal ends the process at last, whatever the process is doing  *)
(* when it comes.                                                          *)
(***************************************************************************)
KeysFetched == []<>(main # "newValidator")

SignalEndsProcess == []<>upstream /\ KeysFetched => (signalled ~> ~Alive)

(***************************************************************************)
(* The process does not live on without its servers: if the gRPC server or *)
(* the metrics server is down, the process ends (and Kubernetes restarts   *)
(* it), whether the server could not listen or failed after it had served, *)
(* and also when that happens before main has come to its select.          *)
(***************************************************************************)
Down == srv \in {"failed", "broken", "stopped"} \/ metrics = "failed"

FailureEndsProcess == Down ~> ~Alive

(***************************************************************************)
(* Validate lets two equal ports pass.  Then one of the servers may serve  *)
(* for a moment, but the process does not go on with only that one.        *)
(***************************************************************************)
SharedPortEndsProcess == (SharedPort /\ srv # "none") ~> ~Alive

(***************************************************************************)
(* No accepted configuration makes the goroutine of Store.Sync panic, long *)
(* after it was read: the only panic is that of GracefulStop without a     *)
(* server.                                                                 *)
(***************************************************************************)
TickerNeverPanics == main = "panicked" => srv = "started"

(***************************************************************************)
(* What run.go says of its start: "We could wait for the cache to be       *)
(* populated before starting the server, but we intentionally avoid that   *)
(* here to avoid hard dependency to user-manager-server."  That is, the    *)
(* server gets started, or run fails, whether or not upstream ever         *)
(* answers.  (A fetch of the keys that never ends is no counterexample.)   *)
(***************************************************************************)
StartsWithoutUpstream == KeysFetched => <>(srv # "none" \/ ~Alive)

(***************************************************************************)
(* What server.go says of its shutdown: "GracefulStop stops the gRPC       *)
(* server gracefully."  It does not take the process down with a nil       *)
(* dereference.                                                            *)
(***************************************************************************)
GracefulStopIsGraceful == main # "panicked"
=============================================================================

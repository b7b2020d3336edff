# A verification project for the RBAC manager

The RBAC server answers one question for the other services of LLMariner: may
the holder of this token use this resource, and on whose behalf. It answers
from a cache of what user-manager-server and cluster-manager-server hold, and
the interceptors of `pkg/auth` put the question in front of every call. This
directory has TLA+ models of the server and the interceptors, the runs that
check them with TLC and proofs about them checked by TLAPS. All paths below are
relative to the root of the repository's source.

## The system

| Component | Source | State | Operations |
|---|---|---|---|
| cache store | `server/internal/cache/cache.go` | nine maps, time of the last sync, `synced`, `initialSync` | `Sync`, `updateCache`, `WaitForSync`, ten getters |
| authorization handlers | `server/internal/server/authorization*.go` | none beyond the locals of a request | `Authorize`, `AuthorizeWorker` |
| kubernetes environments | `server/internal/server/authorization.go:322-369` | two slices and a map | the loops of `assignedKubernetesEnvsInternal` |
| token validator | `server/internal/token/validator.go` | the cached key set | `TokenIntrospect`, refresh every hour |
| process, configuration | `server/cmd/run.go`, `server/internal/server/server.go`, `server/internal/config` | goroutines, `sigCh`, `errCh`, `s.srv` | parse and validate, start, failure, shutdown |
| monitoring | `server/internal/monitoring/monitoring.go`, the scrape endpoint and the alert rule of the Helm chart | one gauge; what was scraped of it; the state of the alert | sampling `GetLastSuccessfulSyncTime`, scrape, evaluation |
| client interceptors | `pkg/auth/interceptor.go`, `metadata.go`, `userinfo.go`, `header_matcher.go` | configuration only | `Unary`, `InterceptHTTPRequest`, `CarryMetadata` |
| worker access | `pkg/auth/worker_interceptor.go`, `worker_client.go` | none | unary, stream and HTTP interceptors, key check and header of workers |
| upstream directory | not in this repository | six tables | `List...` calls |
| database creator, API, Helm charts | `database-creator`, `api`, `deployments` | none | one SQL statement; generated code; templates |

How they interact. One goroutine runs `Sync`: it lists the six upstream tables,
one call after the other, builds nine maps and swaps them in under
`Store.mu`. gRPC handlers run in goroutines of their own and read the maps
through getters, each of which takes and releases the read lock. `run` starts
the server after `WaitForSync`. The monitor exports the age of the last
successful sync; Prometheus scrapes it and evaluates an alert rule over what it
has scraped. In the other services an
interceptor asks `Authorize` or `AuthorizeWorker` over gRPC before a handler
runs, and the handler may call a further service with the same metadata, where
the next interceptor asks again.

What is hard about it:

* the six lists are not one snapshot, and the directory changes between them;
* the up to eight reads of one request are not one snapshot either;
* the services of one chain of calls are answered from different snapshots;
* failed updates are ignored and retried while the server goes on answering,
  so revoked rights live on; only a sampled and scraped gauge and an alert tell;
* the checks that keep tenants apart are spread over `updateCache` (a user has
  one tenant) and the handlers (a role in the project's organization is
  needed); three TODOs in the handlers admit that the direct check is missing;
* an RPC to the server may fail after the server has granted the request;
* the issuer of tokens rotates its keys while an hour-old copy is searched;
* start and shutdown run in goroutines that nothing orders, and that may fail
  before anybody receives their errors.

What makes each component correct:

* cache: consistent maps, derived from what upstream really held; all or
  nothing; converges; its age is honest; `initialSync` is closed once;
* handlers: a grant rests on what was in the cache while the request was being
  served; tenants stay apart; a grant is for what was asked for; without a
  publication in between a request is answered as if in one step;
* environments: those of the last assignment for each cluster and of the
  assignments for all clusters, none twice unless a namespace is given twice for
  all clusters or a cluster is registered twice;
* validator: a token signed with a key of the set is active, others are not,
  and a dropped key is honoured for a time only;
* process: nothing is served before the first sync; a shutdown loses no RPC;
  signals and failures, whenever they come, end the process; no accepted
  configuration panics;
* interceptors: a handler runs only on a grant for that very call, for the
  client that made the first call of the chain, and every call returns;
* worker access: a handler acts for the cluster that owns the key; a revoked
  key stops working and a registered one works, in the end;
* monitoring: a stale cache raises the alert in a known time, a fresh one does
  not.

## Modules

| Module | Models |
|---|---|
| `CacheMaps` | the data: rows of the six tables, the nine maps `updateCache` derives (one operator per map), its three errors, and `Consistent`, what it means for the maps to agree |
| `Directory` | the upstream tables, as seen by the `List` calls: rows are put and deleted at any time; nothing relates one table to another (external) |
| `CacheStore` | `Sync`, `updateCache`, `WaitForSync`: `pc` is the position of the goroutine, one action per `List` call, `Publish` is the critical section, `Abandon` what happens on every error |
| `SnapshotStore` | the abstract specification of the cache: one whole snapshot, replaced in one step |
| `Authorization` | the decisions of the handlers that need no state: roles and scopes, choice of the project, Kubernetes environments, the shapes of the answers |
| `RbacServer` | the handlers over a `SnapshotStore`: one action per getter call, locals in the record `h[x]` |
| `KubernetesEnvs` | the loops behind the environments, one action per round, with order, repetitions and the map in which a later assignment replaces an earlier one |
| `TokenValidator` | `TokenIntrospect` and `validate`, one action per key of the fetched set, with rotations (external), refreshes and expiry |
| `ServiceCall` | a chain of calls through guarded services: `hops` are the calls in progress, each with its place in `Unary` or `InterceptHTTPRequest`; composed with the handlers of `RbacServer` |
| `WorkerAccess` | calls of workers through the three worker interceptors and `AuthorizeWorker`; composed with `CacheStore` and `Directory` |
| `StalenessAlert` | `MetricsMonitor`, the gauge, its scrapes and the alert rule (Prometheus is external), restarts; time in units |
| `Boot` | `Config.Validate`, `run` with the key fetch and the goroutines it starts one after the other, `Server.Run` and the metrics server (each may fail to listen, or later), `Server.GracefulStop`, the ticker of `Sync`, signals, RPCs in progress |
| `*Proofs` | theorems and proofs about the module of that name |
| `MC*` | instances for TLC |

`CacheStore` extends `Directory`, which extends `CacheMaps`. `CacheStore`
implements `SnapshotStore` (property `ReadersSpec`, theorem `Refinement`).
`RbacServer` extends `SnapshotStore` instead of `CacheStore`: it relies on
nothing else, and the reads of a request can be interleaved with arbitrary
snapshots in a state space that TLC can exhaust. `ServiceCall` extends
`RbacServer`: its action `Ask` is the handler's `Receive`, its `TakeAnswer`
consumes the handler's reply. `WorkerAccess` extends `CacheStore` itself,
because its properties are about the time between a change of the directory and
its effect on a call.

How the code is abstracted:

* A slice of rows is the set of its elements, because the order is upstream's.
  Where the code takes the first element that fits (`pickProject`), the model
  takes any that some order would make the first. Assignments of a project,
  where the last one counts, are a sequence.
* Fields that are passed through unread (titles, names, internal IDs, the rate
  limiting flag) are left out.
* Resources and capabilities are sequences of dot-separated segments, so
  `toScope` is concatenation, and two pairs may make the same scope, as in the
  code. `None` is the empty string, `Nil` an unset message.
* `RbacServer` takes any outcome of `TokenIntrospect` that the configuration
  allows for a token: a token may expire between two requests. The search
  behind the outcome is `TokenValidator`.
* A header is the sequence of its values; a bearer token stands for itself. A
  method is a name and the verb that `Capability` looks at.
* Rows of a table have unique keys, as the upstream databases have. Nothing
  else is assumed of them.
* History variables, which only properties read: `window`, `pubWindow`, `quiet`
  (`CacheStore`), `seen` (`RbacServer`), `latest` (what the
  issuer served to the last refresh; each validation notes it at its fetch) and
  the field `wasExpired` (`TokenValidator`), `gone` and the field `listed` (`WorkerAccess`), the field
  `seen` of a hop (`ServiceCall`), `up` (`StalenessAlert`).

A definition that is preceded by "Faulty variant" is never part of a
specification. It is the definition after it with a plausible mistake in it, and
is there to see that the property the mistake should break does break.

## Runs

| Run | Question and result |
|---|---|
| `cache` (`MCCacheStore.cfg`) | Updates interleaved with two changes of the directory, failing and succeeding calls, cancellation. The maps agree with each other (`CacheConsistent`); they come from contents the tables had during the update (`CacheFresh`); `initialSync` is closed once (`SyncSignal`); a stale cache never looks fresh (`StalenessReported`); readers see a `SnapshotStore` (`ReadersSpec`). |
| `cache_live` (`MCCacheStoreLive.cfg`) | Once the directory is at rest and fits together the cache becomes equal to it (`Converges`); cancellation stops the store (`Shutdown`). One of the initial directories makes updates fail until a change repairs it. |
| `server` (`MCRbacServer.cfg`) | Requests of all kinds against seven snapshots between which the cache jumps at will: `UntornIsAtomic`, `EvidencedGrant`, `TenantCoherent`, `RequestedHonoured`. |
| `calls` (`MCServiceCall.cfg`) | A client's call by gRPC, grpc-gateway or HTTP and the call it causes, under interceptors with a static resource, with one resource function, or with the other. There are tokens of one user and an API key of another, and either may be granted the client's call and the one it causes. Handlers run only on evidence for that method (`HandledOnEvidence`) and on behalf of the client (`ActsForClient`); nothing nil is dereferenced but in a misconfigured interceptor (`NoPanic`); every call returns (`CallsReturn`). |
| `k8s_envs` (`MCKubernetesEnvs.cfg`) | Every project with up to three assignments: the result is the expected one (`ResultCorrect`), without repetitions unless a namespace is given twice for all clusters or a cluster is registered twice (`NoDuplicates`). |
| `token` (`MCTokenValidator.cfg`) | Rotations, refreshes and expiry during the search: only tokens signed by an RSA key of the one set that the issuer served to the last refresh before the fetch are active, whatever is refreshed during the search (`ActiveIsSigned`), no key is missed but behind one of another type (`SearchComplete`), dropped keys are rejected in the end (`DroppedKeyRejected`). |
| `worker` (`MCWorkerAccess.cfg`) | A key that moves from a cluster to one of another tenant, the default key, and a row that makes updates fail: `ActsForOwnCluster`, `RevocationLag`, `RevokedIsLockedOut`, `RegisteredIsAdmitted`. |
| `alert` (`MCStalenessAlert.cfg`) | Every phase of sampling, scraping and evaluation, syncs and restarts: a stale cache fires (`StaleFires`), a fresh one does not (`NoFalseAlarm`). |
| `boot` (`MCBoot.cfg`) | The process with signals and RPCs at any moment, servers that fail before `main` has come to its `select` or while it waits there, also after they have served, and a key fetch that may fail or never end, under the default configuration, one with equal ports, and one for each check of `Validate`: `ServesOnlySynced`, `SignalDrains`, `SignalEndsProcess`, `FailureEndsProcess`, `SharedPortEndsProcess`, `TickerNeverPanics`. |
| `boot_start`, `boot_stop`, `role_rule` | Violations, see below. |

Each passing run but `server` and `cache_live` also checks a type invariant;
that of the handlers is part of `CallTypeOK` in `calls`, that of the store is
checked in `cache`.

`StalenessReported` counts updates begun by a tick, the unit in which `age`
(time since `lastSuccessfulSyncTime`) grows: if the directory has not changed
for `quiet` updates and the cache still differs from it, at least `quiet` ticks
have passed since the last successful one. `RevocationLag` is the same promise
for one right: a revoked key works no longer than the exported age says.

`EvidencedGrant` is deliberately weaker than atomicity. A request that is torn
by a publication may combine an organization role from one snapshot with a
project role from the next, and so be granted what neither snapshot grants;
each piece was current while the request was being served. `TenantCoherent`
needs the user itself to keep its tenant during the request: the tenant is read
first and used last. `RequestedHonoured` promises the requested organization
only if project roles are listed under their project's organization.

`ActsForClient` is about every service of a chain of calls, each of which is
told by the server for whom it acts. For a token of a user that is a user the
client's own token was introspected to, in the organization and the project that
the client's headers name. If they name no project, each service picks one from
its own snapshot, and two services of one call may act in different ones: the
property promises nothing there. For an API key the server ignores the headers
(`authorization.go:29-62`); what is promised is the key's own ID, user,
organization and project, as they were in one snapshot of the time.

Bounds.

* `cache`: `MaxChanges = 2`: two changes are needed to make the answers of one
  update unlike anything the directory ever held at one moment (one change
  between two calls, one to undo the first); one is enough for liveness, where
  it breaks or repairs the directory. `MaxAge = 2` is one more than the largest
  difference the invariant compares. The tables have at most three possible
  rows: a user with two organizations that may be in two tenants, a project
  that may move.
* `server`, `calls`: one handler, as handlers share nothing they write; any
  number of publications. `MaxHops = 2`: `ActsForClient` relates the client's call
  to a later one, and a third is to the second what that is to the first.
* `token`: one validation, for the same reason; `MaxRotations = 2`: one
  rotation drops a key, before or after it was fetched, the second brings it
  back.
* `k8s_envs`: three assignments are needed for one that is replaced, one that
  replaces it and one for all clusters; three cluster IDs of which two are
  registered.
* `worker`: one worker, `MaxChanges = 1` (a revocation, a registration, a key
  given to another cluster, or a row that breaks or repairs the updates; the
  proofs have no such bound), `MaxAge = 2`.
* `alert`: the intervals 2, 3 and 5 have no common divisors, so all phases occur;
  time stops at an age two units past the one at which the alert must fire.
* `boot`: `MaxRPCs = 2`, for one to end while another goes on.

`CHECK_DEADLOCK FALSE` is set where the system stops: a cancelled store, a
process that has ended, a loop that has returned.

Fairness. The ticker ticks, goroutines run and gRPC calls return (weak
fairness). `List(t)` is strongly fair: a call that is tried again and again is
answered at some time; without that no convergence could be promised.
`SyncReturn` is strongly fair because `select` picks among ready cases at
random. In `Boot` the first sync is strongly fair, so it happens if upstream
answers again and again. The fetch of the keys is not fair: it is an HTTP request
without a timeout, and so may never end. `SignalEndsProcess` assumes just that
upstream answers again and again and that the fetch ends; `FailureEndsProcess`
assumes neither. In
`TokenValidator` a refresh succeeds now and then (`jwk.AutoRefresh` goes on
after a failure). In `ServiceCall` and `WorkerAccess` interceptors, handlers of
the RBAC server and `Return` are weakly fair; a stream need not end. The
directory's changes, rotations, cancellation, signals, failures and new calls
have no fairness. `StalenessAlert` states none: its properties are invariants,
and time cannot pass while a sample, a scrape or an evaluation is due.

## Findings

* `boot_start`: the comment at `server/cmd/run.go:95-97` says that the server
  intentionally does not wait for the cache; the lines before it do wait. As
  long as user-manager-server is down nothing is served, and a SIGTERM has no
  effect.
* `boot_stop`: a signal that comes during the start is received as soon as
  `run` reaches its `select`. With the default delay of zero `GracefulStop` may
  run before the goroutine of `Server.Run` has set `s.srv`: a nil dereference
  (and a data race in any case).
* `role_rule`: the comment at `server/internal/server/authorization.go:158-165`
  says that a project owner or member can perform inference on the project. The
  code also requires a role in the project's organization.

Observations without a run of their own:

* `NewInterceptor` (`pkg/auth/interceptor.go:50-62`) accepts a configuration
  with only one of the two resource functions; the other kind of call then
  calls nil. `NoPanic` states exactly this exception.
* `validate` (`server/internal/token/validator.go:97-101`) gives up at the
  first key that is not an RSA key, whatever keys follow, although the comment
  at line 85 says "Validate with all keys until we find a match".
  `SearchComplete` states exactly this exception.
* The first fetch of the key set (`validator.go:28`, called at
  `server/cmd/run.go:99`) has no timeout, and no signal is received before it has
  ended: with an issuer that accepts the connection and does not answer, the
  process neither serves nor reacts to SIGTERM.
* An assignment for all clusters with an empty namespace counts on a cluster
  that has an assignment of its own and not on one that has none
  (`authorization.go:356`). `Expected` in `KubernetesEnvs` says so.
* The annotation of the alert rule says "more than 5 minutes ago". The alert
  takes the time of its `for` on top, and up to one sample, one scrape and two
  evaluations more; and after a restart the gauge is absent until the first sync, so a
  restart while upstream is down ends a firing alert.
* `Config.Validate` accepts equal ports. One server then fails to listen, and
  the process ends (`SharedPortEndsProcess`).
* A stream is authorized when it opens and outlives its key.

## Proofs

All theorems hold for every value of the constants that the modules' named
assumptions allow.

**`CacheStoreProofs`**: every safety property of the run `cache`, for every
directory, whatever its rows and however often it changes. Assumed:
`MaxChanges` is a natural number, `MaxAge` a positive one, and the directory
starts with unique keys. `CacheFresh` is not inductive: at the end of an update
one has to know that each answer was in the window of its table. The inductive
invariant `IInv` therefore adds `InWindow` (the present contents of a table are
in its window, and so is the answer of every call already made) and
`QuietWindow` (if an update has begun since the directory's last change, the
window holds nothing but the present contents), the latter for
`StalenessReported`. `Consistency` needs no induction on steps: the lemma
`BuildConsistent` shows that whatever passes the three checks of `updateCache`
gives maps that agree, and `CacheFresh` says that the cache came from such
answers. `Refinement` uses that all other steps leave the cache alone.
`BuiltCachesFit` puts together what readers may assume of a published cache.

**`RbacServerProofs`**: `ServerTypeCorrect`, `AnswersAreAtomic`,
`GrantsHaveEvidence`, `GrantsStayInTenant` and `GrantsAreAsRequested`, for any
number of handlers, all requests and all snapshots. The inductive invariant
`ServerInv` has two halves.

* Whatever is published meanwhile: of each local variable of a handler in which
  kind of snapshot it was read (`HasKey`, `HasUser`, `Named`), what has been
  established for the project found so far (`Searching`, `Associated`), and
  that what is replied follows from that (`Replied`). This is closed under
  publications because `seen` only grows and each part says "in some snapshot
  of `seen`".
* As long as there has been one snapshot `c` only (`Untorn`): the locals are
  what `Authorize` computes from `c`. `OnlyKey` and `OnlyUser` say so of the
  rows read; `OnlySearch` says that `pool` has the projects of exactly those
  organizations that the loop of `findAssociatedProject` has passed, and that
  the project picked is a candidate of the whole function. A reply is then one
  of `AtomicAnswers(c, ...)`. A publication ends the premise, because `seen`
  never shrinks.

Assumed of a snapshot is `WellFormed`: the rows of projects and roles in its
maps agree, each map's entries agree with their keys, API keys have IDs and
roles are values of the upstream enums. For tenants `GrantsStayInTenant` states
a hypothesis of its own, that a user has one tenant (`OneTenant`).
`BuiltCachesFit` in `CacheStoreProofs` shows that every cache that passes the
checks of `updateCache` meets all of this but the last two, which upstream's API
guarantees; with `Refinement` the assumptions are what the cache store promises.
The check of `updateCache` is really needed: with `TenantIDsUnchecked` in place
of `MultipleTenantIDs` the run `server` finds a grant across tenants.

**`ServiceCallProofs`**: `CallTypeCorrect`, `HandledOnlyOnEvidence`,
`NothingPanics` and `CallsActForClient`, for any number of handlers of the RBAC
server, all calls and configurations, and chains of any length. The run `calls`
has one handler; the theorems are about many, among which an answer that comes
late must not be taken for that of another call. The inductive invariant
`CallInv` has three parts.

* `ServerInv`, unchanged: every step of the composition is a step of the server
  or leaves it alone, and an interceptor's request is as good as any other.
* `AskedInv`: the handler that an asking interceptor waits for is at work on
  exactly the request of that interceptor. Without this an answer says nothing
  about the call that takes it.
* `ChainInv`: every hop below the last is a handler that has called on; all
  hops carry the same first values of the three headers; and a hop that is
  being handled has its evidence and the organization and project that its own
  headers name (`HopOK`, `AsAsked`). The
  chain above a hop grows and shrinks, the hop changes only in fields that
  neither evidence nor headers depend on.

`NothingPanics` needs in addition that a grant names user, organization and
project, which follows from its evidence, and that nothing that exists in a
snapshot is nil (`NothingIsNil`). `CallsActForClient`
follows from the last part of `ChainInv`: the evidence of a hop is about the token
in its own headers, whose first value is that of the client's. It needs no
hypothesis about how tokens are issued. `CallAssumption` says that headers
are sequences and that the verbs of HTTP are not beginnings of gRPC method
names, so that `Needs` can tell by the verb alone which methods only read.

**`TokenValidatorProofs`**: `ValidatorTypeCorrect`, `ActiveTokensAreSigned` and
`SearchMissesNoKey`, for key sets of any length and any number of validations,
rotations and refreshes.
The invariant says that the keys before the current position are RSA keys that
did not sign the token (unless it has expired meanwhile), and that the set being
searched is the one that the issuer served to the last refresh before the fetch,
which stays one and the same whatever is refreshed afterwards.

**`KubernetesEnvsProofs`**: `EnvironmentsAreRight`, `EnvironmentsAreDistinct` and
`LoopsComputeDecision`, for inputs of any length. The last one joins this module
to the others: for the same project and clusters the loops return the set that
`Authorization!assignedKubernetesEnvs` states as one expression, which is what
`RbacServer` uses in place of the loops. The loop invariants: the map has for each cluster the
last of the assignments read so far (`MapInv`), the list the namespaces for all
clusters (`ListInv`), and the result is that of the clusters before the current
one and, for the current one, of the namespaces tried so far (`EnvsInv`). That
nothing is repeated needs the order of the loop: a namespace is compared with
the one found before, and `Before` has only other clusters.

**`WorkerAccessProofs`**: `WorkersActForThemselves` and `RevokedKeysLag`, for
every directory and any number of workers and changes. Every step of the
composition is a step of the store or leaves the store alone, so `IInv` holds
here too (`StoreInv`). `RevocationLag` alone is not inductive: `GoneInv` adds
that a row which the current update has listed is not counted as gone before
that update ends, as updates do not overlap, so a newly published cache has no
row that is gone for longer than zero, the age it starts with; from then on
both numbers grow with the same ticks. `CallsInv` ties the row in an answer to
the key of the call and to the list the cache came from.

**`BootProofs`**: `ProcessType`, `SyncedBeforeServing`, `ShutdownDrains` and
`TickerSafe`, for every set of configuration files. `BootInv` says what the place
of the main goroutine tells about the others.

**`StalenessAlertProofs`**: `AlertType`, `StaleCacheFires` and
`FiringMeansStale`, for all intervals and thresholds with a threshold of at least
a sample, a scrape and an evaluation interval. `GaugeInv` ties the gauge to the
age and `ScrapeInv` the scraped value to both; `Noticed`, `Waiting` and `Raised`
follow a stale cache from the scrape to the alert, `PendingSound` and
`FiringSound` go the other way.

Two places of the models were wrong in a way that the instances could not show
and that the proofs asked about. An interceptor could take the answer that
another handler had prepared for an earlier, failed call, which needs two
handlers; the field `asked` of a hop and `Awaits` now say whose answer it waits
for. And `UserAnswers`, the reference for `UntornIsAtomic`, had a quantifier
wrong where several projects are candidates.

Only model-checked: all liveness properties (`Converges`, `Shutdown`,
`CallsReturn`, `SignalEndsProcess`, `FailureEndsProcess`,
`SharedPortEndsProcess`, `DroppedKeyRejected`, `RevokedIsLockedOut`,
`RegisteredIsAdmitted`), because fairness and `ENABLED` are out of the provers'
reach. Every other property of a passing run is a theorem.

## Plan

1. The composition of `CacheStore` and `RbacServer` as one specification, to
   prove rather than argue that `SnapshotsAssumption` and `OneTenant` hold of
   what the store publishes.
2. Safety parts of the liveness properties: what keeps `Converges` and
   `SignalEndsProcess` from being lost once they are within reach.
3. `TokenValidator` in place of the nondeterministic `Introspections` of
   `RbacServer`.
4. A process that crashes and restarts under a chain of calls (`Boot` composed
   with `ServiceCall`).

## Not modelled

* `database-creator`: one SQL statement and exit; it has no state and meets
  nobody.
* `api`: generated code. The shapes of its messages are the records of
  `Authorization`.
* Helm charts: role scopes and delays are constants of the models; the alert
  rule and the scrape endpoint are in `StalenessAlert`.
* gRPC, HTTP, JWT and Prometheus libraries, as far as they are not the external
  actions named above; the wording of errors and logs; other metrics.
* Parsing of the configuration file: it succeeds or fails.

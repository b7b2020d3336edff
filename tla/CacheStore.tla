----------------------------- MODULE CacheStore ----------------------------
(***************************************************************************)
(* The cache of the RBAC server (server/internal/cache/cache.go).  One     *)
(* goroutine runs Sync: it calls updateCache at once and then on every     *)
(* tick of a ticker.  updateCache lists the six upstream tables one after  *)
(* the other, without a common snapshot, derives nine maps from what it    *)
(* got and swaps all of them in under a lock.  Any error abandons the      *)
(* update and leaves the maps that were there.  WaitForSync blocks until   *)
(* the first successful update.                                            *)
(***************************************************************************)
EXTENDS Directory

CONSTANTS
    MaxAge        \* the counters of ticks stop counting here

VARIABLES
    pc,           \* where the goroutine of Sync is: in the select, in the List
                  \* call of a table, past the last List call, or returned
    resp,         \* resp[t] is the answer to the List call of table t
    cache,        \* the maps of Store
    synced,       \* Store.synced
    closes,       \* how often the channel Store.initialSync was closed
    age,          \* ticks since lastSuccessfulSyncTime
    waiter,       \* the caller of WaitForSync
    ctxDone,      \* the context of Sync and WaitForSync is cancelled
    (* History variables, read by the properties only.                     *)
    window,       \* window[t]: contents of t since the current update began
    pubWindow,    \* window of the update that published the cache
    quiet         \* updates begun by a tick since the directory last changed

storeVars == <<pc, resp, cache, synced, closes, age, waiter, ctxDone>>
history   == <<window, pubWindow, quiet>>
vars      == <<dirVars, storeVars, history>>

ASSUME CacheStoreAssumption == MaxAge \in Nat \ {0}

----------------------------------------------------------------------------
(* The order of the List calls.                                            *)
FirstCall == "apiKeys"
NextCall == [apiKeys  |-> "clusters", clusters |-> "orgs",         orgs         |-> "orgUsers",
             orgUsers |-> "projects", projects |-> "projectUsers", projectUsers |-> "build"]

StoreInit ==
    /\ pc = FirstCall
    /\ resp = NoRows
    /\ cache = NewStore
    /\ synced = FALSE
    /\ closes = 0
    /\ age = MaxAge
    /\ waiter = "waiting"
    /\ ctxDone = FALSE
    /\ window = [t \in Tables |-> {dir[t]}]
    /\ pubWindow = [t \in Tables |-> {}]
    /\ quiet = 0

Tick(n) == IF n < MaxAge THEN n + 1 ELSE n

(***************************************************************************)
(* Sync takes a tick in its select and calls updateCache.                  *)
(***************************************************************************)
SyncTick ==
    /\ pc = "select"
    /\ pc' = FirstCall
    /\ age' = Tick(age)
    /\ window' = [t \in Tables |-> {dir[t]}]
    /\ quiet' = Tick(quiet)
    /\ UNCHANGED <<dirVars, resp, cache, synced, closes, waiter, ctxDone, pubWindow>>

\* Faulty variant: every answer ends up in the variable of the projects.
ListIntoProjects(t) ==
    /\ pc = t
    /\ ~ctxDone
    /\ resp' = [resp EXCEPT !["projects"] = dir[t]]
    /\ pc' = NextCall[t]
    /\ UNCHANGED <<dirVars, cache, synced, closes, age, waiter, ctxDone, history>>

(***************************************************************************)
(* A List call answers with the rows the table has at that moment.  gRPC   *)
(* fails calls made with a cancelled context.                              *)
(***************************************************************************)
List(t) ==
    /\ pc = t
    /\ ~ctxDone
    /\ resp' = [resp EXCEPT ![t] = dir[t]]
    /\ pc' = NextCall[t]
    /\ UNCHANGED <<dirVars, cache, synced, closes, age, waiter, ctxDone, history>>

\* Faulty variant: a failed update also stamps the time of the last sync.
AbandonStampsTime ==
    /\ pc' = "select"
    /\ resp' = NoRows
    /\ age' = 0
    /\ UNCHANGED <<dirVars, cache, synced, closes, waiter, ctxDone, history>>

\* Faulty variant: Sync returns the error of updateCache.
AbandonReturns ==
    /\ pc' = "returned"
    /\ resp' = NoRows
    /\ UNCHANGED <<dirVars, cache, synced, closes, age, waiter, ctxDone, history>>

(***************************************************************************)
(* updateCache returns an error, which Sync logs and ignores.              *)
(***************************************************************************)
Abandon ==
    /\ pc' = "select"
    /\ resp' = NoRows
    /\ UNCHANGED <<dirVars, cache, synced, closes, age, waiter, ctxDone, history>>

\* Faulty variant: the error of a List call is dropped and its answer taken.
ListFailIgnored(t) ==
    /\ pc = t
    /\ pc' = NextCall[t]
    /\ UNCHANGED <<dirVars, resp, cache, synced, closes, age, waiter, ctxDone, history>>

ListFail(t) == pc = t /\ Abandon

BuildFail == pc = "build" /\ BuildError(resp) /\ Abandon

\* Faulty variant: initialSync is closed on every successful update.
PublishClosesAgain ==
    /\ pc = "build"
    /\ ~BuildError(resp)
    /\ pc' = "select"
    /\ resp' = NoRows
    /\ cache' = Build(resp)
    /\ age' = 0
    /\ closes' = closes + 1
    /\ synced' = TRUE
    /\ pubWindow' = window
    /\ UNCHANGED <<dirVars, waiter, ctxDone, window, quiet>>

\* Faulty variant: the swap forgets usersByID.
PublishKeepsUsers ==
    /\ pc = "build"
    /\ ~BuildError(resp)
    /\ pc' = "select"
    /\ resp' = NoRows
    /\ cache' = [Build(resp) EXCEPT !.usersByID = cache.usersByID]
    /\ age' = 0
    /\ closes' = IF synced THEN closes ELSE closes + 1
    /\ synced' = TRUE
    /\ pubWindow' = window
    /\ UNCHANGED <<dirVars, waiter, ctxDone, window, quiet>>

(***************************************************************************)
(* updateCache swaps in all maps in one critical section of Store.mu,      *)
(* stamps the time and, the first time, closes initialSync.                *)
(***************************************************************************)
Publish ==
    /\ pc = "build"
    /\ ~BuildError(resp)
    /\ pc' = "select"
    /\ resp' = NoRows
    /\ cache' = Build(resp)
    /\ age' = 0
    /\ closes' = IF synced THEN closes ELSE closes + 1
    /\ synced' = TRUE
    /\ pubWindow' = window
    /\ UNCHANGED <<dirVars, waiter, ctxDone, window, quiet>>

\* Faulty variant: the select has no case for ctx.Done().
SyncReturnMissing == FALSE /\ UNCHANGED vars

(***************************************************************************)
(* Sync finds the context cancelled in its select and returns.             *)
(***************************************************************************)
SyncReturn ==
    /\ pc = "select"
    /\ ctxDone
    /\ pc' = "returned"
    /\ UNCHANGED <<dirVars, resp, cache, synced, closes, age, waiter, ctxDone, history>>

WaitForSyncOK ==
    /\ waiter = "waiting"
    /\ closes > 0
    /\ waiter' = "synced"
    /\ UNCHANGED <<dirVars, pc, resp, cache, synced, closes, age, ctxDone, history>>

WaitForSyncErr ==
    /\ waiter = "waiting"
    /\ ctxDone
    /\ waiter' = "error"
    /\ UNCHANGED <<dirVars, pc, resp, cache, synced, closes, age, ctxDone, history>>

Cancel ==
    /\ ~ctxDone
    /\ ctxDone' = TRUE
    /\ UNCHANGED <<dirVars, pc, resp, cache, synced, closes, age, waiter, history>>

(***************************************************************************)
(* The directory changes at any time, also between two List calls.         *)
(***************************************************************************)
DirChange ==
    /\ DirNext
    /\ window' = [t \in Tables |-> window[t] \cup {dir'[t]}]
    /\ quiet' = 0
    /\ UNCHANGED <<storeVars, pubWindow>>

UpdateStep ==
    \/ \E t \in Tables : List(t) \/ ListFail(t)
    \/ BuildFail
    \/ Publish

(***************************************************************************)
(* The steps of the store while nobody cancels its context.                *)
(***************************************************************************)
StoreNext == SyncTick \/ UpdateStep \/ WaitForSyncOK

Init == DirInit /\ StoreInit

Next ==
    \/ DirChange
    \/ StoreNext
    \/ SyncReturn
    \/ WaitForSyncErr
    \/ Cancel

(***************************************************************************)
(* The ticker goes on ticking and every call returns.  A List call that is *)
(* tried again and again is answered at some time: without that nothing    *)
(* can be promised.  select picks among its ready cases at random, so      *)
(* neither case is passed over forever.                                    *)
(***************************************************************************)
StoreFairness ==
    /\ WF_vars(SyncTick)
    /\ WF_vars(UpdateStep)
    /\ \A t \in Tables : SF_vars(List(t))
    /\ WF_vars(WaitForSyncOK)

Fairness ==
    /\ StoreFairness
    /\ SF_vars(SyncReturn)
    /\ WF_vars(WaitForSyncErr)

Spec == Init /\ [][Next]_vars /\ Fairness

----------------------------------------------------------------------------
(* Properties.                                                             *)

TypeOK ==
    /\ IsContents(dir)
    /\ changes \in 0..MaxChanges
    /\ pc \in Tables \cup {"select", "build", "returned"}
    /\ IsContents(resp)
    /\ synced \in BOOLEAN /\ ctxDone \in BOOLEAN
    /\ closes \in Nat
    /\ age \in 0..MaxAge /\ quiet \in 0..MaxAge
    /\ waiter \in {"waiting", "synced", "error"}
    /\ window = [t \in Tables |-> window[t]]
    /\ pubWindow = [t \in Tables |-> pubWindow[t]]
    /\ \A t \in Tables : \A rows \in window[t] \cup pubWindow[t] :
          rows \subseteq Rows[t] /\ UniqueKeys(t, rows)

(***************************************************************************)
(* The nine maps that request handlers read always agree with each other,  *)
(* even though the six lists they come from were read at different moments *)
(* while the directory was changing (see Consistent).                      *)
(***************************************************************************)
CacheConsistent == Consistent(cache)

(***************************************************************************)
(* A published cache is derived from contents that every table really had  *)
(* while updateCache was listing: an update of which one List call failed, *)
(* or whose answers do not fit together, leaves no trace, and nothing of   *)
(* an older cache survives a successful update.  So a right revoked before *)
(* an update begins is gone once that update is published.                 *)
(***************************************************************************)
DerivedFrom(c, w) ==
    \E k \in w.apiKeys, cl \in w.clusters, o \in w.orgs, ou \in w.orgUsers,
       p \in w.projects, pu \in w.projectUsers :
        LET m == [apiKeys |-> k, clusters |-> cl, orgs |-> o, orgUsers |-> ou,
                  projects |-> p, projectUsers |-> pu]
        IN  ~BuildError(m) /\ c = Build(m)

CacheFresh == IF synced THEN DerivedFrom(cache, pubWindow) ELSE cache = NewStore

(***************************************************************************)
(* initialSync is closed at most once (a second close would panic) and     *)
(* WaitForSync returns without an error only after a successful update.    *)
(***************************************************************************)
SyncSignal ==
    /\ closes = IF synced THEN 1 ELSE 0
    /\ waiter = "synced" => synced

(***************************************************************************)
(* Staleness shows in lastSuccessfulSyncTime, which the monitor exports    *)
(* and the alert rule watches: while the cache differs from what the       *)
(* directory holds, the reported age is at least the number of updates     *)
(* that have begun since the directory took its present contents.  Failed  *)
(* updates never make a stale cache look fresh.                            *)
(***************************************************************************)
Stale == ~BuildError(dir) => cache # Build(dir)

StalenessReported == synced /\ Stale => quiet <= age

(***************************************************************************)
(* Failed updates are retried until one succeeds: unless the store is      *)
(* stopped, once the directory no longer changes and its tables fit        *)
(* together the cache becomes and stays what the directory holds.          *)
(***************************************************************************)
Converges == <>[](ctxDone \/ BuildError(dir) \/ ~Stale)

(***************************************************************************)
(* After a cancellation Sync returns and WaitForSync does not hang.        *)
(***************************************************************************)
Shutdown == ctxDone ~> (pc = "returned" /\ waiter # "waiting")

(***************************************************************************)
(* For its readers the cache is a SnapshotStore: the maps change all at    *)
(* once and only to what a successful updateCache derives from answers     *)
(* that fit together, and synced stays set.                                *)
(***************************************************************************)
Readers == INSTANCE SnapshotStore WITH Snapshots <- BuiltCaches, EmptyStore <- NewStore

ReadersSpec == Readers!SnapshotSpec
=============================================================================

-------------------------- MODULE CacheStoreProofs -------------------------
(***************************************************************************)
(* Proofs about the cache (CacheStore) for every directory, every bound on *)
(* its changes and every length of the history.                            *)
(***************************************************************************)
EXTENDS CacheStore, TLAPS

----------------------------------------------------------------------------
(* What updateCache derives from answers that pass its checks (CacheMaps). *)

(***************************************************************************)
(* The maps derived from any answers without duplicate project IDs that    *)
(* pass the three checks of updateCache agree with each other, no matter   *)
(* at which moments the answers were given.                                *)
(***************************************************************************)
LEMMA BuildConsistent ==
    ASSUME NEW m, UniqueKeys("projects", m.projects), ~BuildError(m)
    PROVE  Consistent(Build(m))
<1> DEFINE c == Build(m)
<1>a. \A p, q \in m.projects : p.id = q.id => p = q
  BY DEF UniqueKeys, SameKey, KeyFields
<1>b. /\ c.projectsByID = ProjectsByID(m)
      /\ c.projectsByUserID = ProjectsByUserID(m)
      /\ c.projectsByOrganizationID = ProjectsByOrganizationID(m)
      /\ c.orgsByID = OrgsByID(m)
      /\ c.orgsByUserID = OrgsByUserID(m)
      /\ c.usersByID = UsersByID(m)
  BY DEF Build
<1>c. \A i \in DOMAIN ProjectsByID(m) :
         ProjectsByID(m)[i] \in m.projects /\ ProjectsByID(m)[i].id = i
  BY DEF ProjectsByID
<1>d. \A p \in m.projects : p.id \in DOMAIN ProjectsByID(m) /\ ProjectsByID(m)[p.id] = p
  BY <1>a, <1>c DEF ProjectsByID
<1>1. RolesHaveProjects(c)
  <2> SUFFICES ASSUME NEW u \in DOMAIN ProjectsByUserID(m), NEW x \in ProjectsByUserID(m)[u]
               PROVE  /\ x.project.id \in DOMAIN ProjectsByID(m)
                      /\ ProjectsByID(m)[x.project.id] = x.project
    BY <1>b DEF RolesHaveProjects
  <2>1. PICK r \in m.projectUsers : x.project = ProjectsByID(m)[r.project]
    BY DEF ProjectsByUserID
  <2>2. r.project \in DOMAIN ProjectsByID(m)
    BY DEF BuildError, ProjectNotFound
  <2> QED
    BY <2>1, <2>2, <1>c
<1>2. UsersHaveOneTenant(c)
  <2>1. DOMAIN UsersByID(m) = DOMAIN OrgsByUserID(m)
    BY DEF UsersByID, OrgsByUserID
  <2>2. ASSUME NEW u \in DOMAIN UsersByID(m), NEW x \in OrgsByUserID(m)[u]
        PROVE  /\ x.org \in DOMAIN OrgsByID(m)
               /\ OrgsByID(m)[x.org].tenant = UsersByID(m)[u].tenant
    <3> DEFINE s == CHOOSE r \in m.orgUsers : r.user = u
    <3>1. PICK r \in m.orgUsers : r.user = u /\ x.org = r.org
      BY DEF UsersByID, OrgsByUserID
    <3>2. s \in m.orgUsers /\ s.user = u
      BY <3>1
    <3>3. UsersByID(m)[u].tenant = OrgsByID(m)[s.org].tenant
      BY DEF UsersByID
    <3>4. r.org \in DOMAIN OrgsByID(m) /\ s.org \in DOMAIN OrgsByID(m)
      BY <3>1, <3>2 DEF BuildError, OrganizationNotFound
    <3>5. OrgsByID(m)[r.org].tenant = OrgsByID(m)[s.org].tenant
      <4> HIDE DEF s
      <4> QED BY <3>1, <3>2, <3>4 DEF BuildError, MultipleTenantIDs
    <3> QED
      BY <3>1, <3>3, <3>4, <3>5
  <2> QED
    BY <1>b, <2>1, <2>2 DEF UsersHaveOneTenant
<1>3. ProjectMapsAgree(c)
  <2>1. ASSUME NEW o \in DOMAIN ProjectsByOrganizationID(m),
               NEW p \in ProjectsByOrganizationID(m)[o]
        PROVE  p.org = o /\ p.id \in DOMAIN ProjectsByID(m) /\ ProjectsByID(m)[p.id] = p
    BY <1>d DEF ProjectsByOrganizationID
  <2>2. ASSUME NEW i \in DOMAIN ProjectsByID(m), NEW p, p = ProjectsByID(m)[i]
        PROVE  /\ p.id = i
               /\ p.org \in DOMAIN ProjectsByOrganizationID(m)
               /\ p \in ProjectsByOrganizationID(m)[p.org]
    BY <1>c, <2>2 DEF ProjectsByOrganizationID
  <2> QED
    BY <1>b, <2>1, <2>2 DEF ProjectMapsAgree
<1> QED
  BY <1>1, <1>2, <1>3 DEF Consistent

LEMMA NoRowsBuild == ~BuildError(NoRows) /\ UniqueKeys("projects", NoRows.projects)
BY DEF BuildError, ProjectNotFound, OrganizationNotFound, MultipleTenantIDs, NoRows, Tables,
       UniqueKeys

LEMMA BuildFiled == \A m : FiledUnderOwnKeys(Build(m))
<1> TAKE m
<1>1. Build(m).usersByID = UsersByID(m) /\ Build(m).clustersByTenantID = ClustersByTenantID(m)
  BY DEF Build
<1>2. \A u \in DOMAIN UsersByID(m) : UsersByID(m)[u].id = u
  BY DEF UsersByID
<1>3. \A t \in DOMAIN ClustersByTenantID(m) : \A cl \in ClustersByTenantID(m)[t] : cl.tenant = t
  BY DEF ClustersByTenantID
<1> QED
  BY <1>1, <1>2, <1>3 DEF FiledUnderOwnKeys

(***************************************************************************)
(* Together with Refinement this is what the request handlers assume of    *)
(* the snapshots they read: the maps of every cache that updateCache       *)
(* builds agree with each other, file users and clusters under their own   *)
(* keys, and show a user in one tenant only.                               *)
(***************************************************************************)
THEOREM BuiltCachesFit == \A c \in BuiltCaches : Consistent(c) /\ FiledUnderOwnKeys(c)
<1> SUFFICES ASSUME NEW m \in Contents, ~BuildError(m)
             PROVE  Consistent(Build(m)) /\ FiledUnderOwnKeys(Build(m))
  BY DEF BuiltCaches
<1>1. UniqueKeys("projects", m.projects)
  BY DEF Contents, TableContents
<1> QED
  BY <1>1, BuildConsistent, BuildFiled

----------------------------------------------------------------------------
(***************************************************************************)
(* Rows come and go without two rows of a table ever having the same key.  *)
(***************************************************************************)
LEMMA DirectoryType ==
    ASSUME IsContents(dir), changes \in 0..MaxChanges, DirNext
    PROVE  IsContents(dir)' /\ (changes \in 0..MaxChanges)'
<1> USE DirectoryAssumption
<1>a. PICK t \in Tables : \E r \in Rows[t] : Put(t, r) \/ Delete(t, r)
  BY DEF DirNext
<1>1. PICK r \in Rows[t] : Put(t, r) \/ Delete(t, r)
  BY <1>a
<1>2. (changes \in 0..MaxChanges)'
  BY <1>1 DEF Put, Delete
<1>3. CASE Put(t, r)
  <2>1. dir' = [s \in Tables |-> dir'[s]]
    BY <1>3 DEF Put, IsContents
  <2>2. dir'[t] = {s \in dir[t] : ~SameKey(t, s, r)} \cup {r}
    BY <1>3 DEF Put, IsContents
  <2>3. dir'[t] \subseteq Rows[t] /\ UniqueKeys(t, dir'[t])
    BY <2>2 DEF IsContents, UniqueKeys, SameKey
  <2>4. \A s \in Tables \ {t} : dir'[s] = dir[s]
    BY <1>3 DEF Put, IsContents
  <2> QED
    BY <1>2, <2>1, <2>3, <2>4 DEF IsContents
<1>4. CASE Delete(t, r)
  <2>1. dir' = [s \in Tables |-> dir'[s]]
    BY <1>4 DEF Delete, IsContents
  <2>2. dir'[t] = dir[t] \ {r}
    BY <1>4 DEF Delete, IsContents
  <2>3. dir'[t] \subseteq Rows[t] /\ UniqueKeys(t, dir'[t])
    BY <2>2 DEF IsContents, UniqueKeys
  <2>4. \A s \in Tables \ {t} : dir'[s] = dir[s]
    BY <1>4 DEF Delete, IsContents
  <2> QED
    BY <1>2, <2>1, <2>3, <2>4 DEF IsContents
<1> QED
  BY <1>1, <1>3, <1>4

LEMMA NoRowsType == IsContents(NoRows)
BY DEF IsContents, NoRows, UniqueKeys

(***************************************************************************)
(* Every reachable state of the store is well typed.                       *)
(***************************************************************************)
LEMMA InitType == Init => TypeOK
<1> SUFFICES ASSUME Init PROVE TypeOK
  OBVIOUS
<1>1. IsContents(dir) /\ changes \in 0..MaxChanges
  BY DirectoryAssumption DEF Init, DirInit
<1>2. IsContents(resp)
  BY NoRowsType DEF Init, StoreInit
<1>3. \A t \in Tables : \A rows \in window[t] \cup pubWindow[t] :
          rows \subseteq Rows[t] /\ UniqueKeys(t, rows)
  BY <1>1 DEF Init, StoreInit, IsContents
<1>4. pc \in Tables
  BY DEF Init, StoreInit, FirstCall, Tables
<1>5. window = [t \in Tables |-> window[t]] /\ pubWindow = [t \in Tables |-> pubWindow[t]]
  BY DEF Init, StoreInit
<1>6. age \in 0..MaxAge /\ quiet \in 0..MaxAge
  BY CacheStoreAssumption DEF Init, StoreInit
<1> QED
  BY <1>1, <1>2, <1>3, <1>4, <1>5, <1>6 DEF Init, StoreInit, TypeOK

LEMMA NextType == TypeOK /\ [Next]_vars => TypeOK'
<1> SUFFICES ASSUME TypeOK, [Next]_vars PROVE TypeOK'
  OBVIOUS
<1> USE CacheStoreAssumption
<1>1. CASE DirChange
  <2>1. IsContents(dir)' /\ (changes \in 0..MaxChanges)'
    BY <1>1, DirectoryType DEF DirChange, TypeOK
  <2>2. window' = [t \in Tables |-> window[t] \cup {dir'[t]}] /\ pubWindow' = pubWindow
    BY <1>1 DEF DirChange
  <2>3. ASSUME NEW t \in Tables, NEW rows \in window'[t] \cup pubWindow'[t]
        PROVE  rows \subseteq Rows[t] /\ UniqueKeys(t, rows)
    BY <2>1, <2>2, <2>3 DEF TypeOK, IsContents
  <2>4. IsContents(resp)'
    BY <1>1 DEF DirChange, TypeOK, storeVars, IsContents
  <2>5. window' = [t \in Tables |-> window'[t]] /\ pubWindow' = [t \in Tables |-> pubWindow'[t]]
    BY <2>2 DEF TypeOK
  <2> QED
    BY <1>1, <2>1, <2>3, <2>4, <2>5 DEF DirChange, TypeOK, storeVars
<1>2. CASE SyncTick
  <2>1. window' = [t \in Tables |-> {dir[t]}] /\ pubWindow' = pubWindow
    BY <1>2 DEF SyncTick
  <2>2. ASSUME NEW t \in Tables, NEW rows \in window'[t] \cup pubWindow'[t]
        PROVE  rows \subseteq Rows[t] /\ UniqueKeys(t, rows)
    BY <2>1, <2>2 DEF TypeOK, IsContents
  <2>3. age' \in 0..MaxAge /\ quiet' \in 0..MaxAge
    BY <1>2 DEF SyncTick, Tick, TypeOK
  <2>4. window' = [t \in Tables |-> window'[t]] /\ pubWindow' = [t \in Tables |-> pubWindow'[t]]
    BY <2>1 DEF TypeOK
  <2>5. IsContents(dir)' /\ IsContents(resp)' /\ (changes \in 0..MaxChanges)'
    BY <1>2 DEF SyncTick, TypeOK, dirVars, IsContents
  <2> QED
    BY <1>2, <2>2, <2>3, <2>4, <2>5 DEF SyncTick, TypeOK, FirstCall, Tables
<1>3. ASSUME NEW t \in Tables, List(t) PROVE TypeOK'
  <2>1. IsContents(resp)'
    BY <1>3 DEF List, TypeOK, IsContents
  <2>2. pc' \in Tables \cup {"select", "build", "returned"}
    BY <1>3 DEF List, NextCall, Tables
  <2>3. IsContents(dir)'
    BY <1>3 DEF List, TypeOK, dirVars, IsContents
  <2> QED
    BY <1>3, <2>1, <2>2, <2>3 DEF List, TypeOK, dirVars, history
<1>4. CASE Abandon
  <2>1. IsContents(resp)' /\ IsContents(dir)'
    BY <1>4, NoRowsType DEF Abandon, TypeOK, dirVars, IsContents
  <2> QED
    BY <1>4, <2>1 DEF Abandon, TypeOK, dirVars, history
<1>5. CASE Publish
  <2>1. IsContents(resp)' /\ IsContents(dir)'
    BY <1>5, NoRowsType DEF Publish, TypeOK, dirVars, IsContents
  <2>2. pubWindow' = window /\ window' = window
    BY <1>5 DEF Publish
  <2>3. closes' \in Nat
    BY <1>5 DEF Publish, TypeOK
  <2> QED
    BY <1>5, <2>1, <2>2, <2>3 DEF Publish, TypeOK, dirVars
<1>6. CASE SyncReturn \/ WaitForSyncOK \/ WaitForSyncErr \/ Cancel
  <2>1. IsContents(resp)' /\ IsContents(dir)'
    BY <1>6 DEF SyncReturn, WaitForSyncOK, WaitForSyncErr, Cancel, TypeOK, dirVars, IsContents
  <2> QED
    BY <1>6, <2>1 DEF SyncReturn, WaitForSyncOK, WaitForSyncErr, Cancel, TypeOK, dirVars, history
<1>7. CASE UNCHANGED vars
  <2>1. IsContents(resp)' /\ IsContents(dir)'
    BY <1>7 DEF vars, storeVars, dirVars, TypeOK, IsContents
  <2> QED
    BY <1>7, <2>1 DEF vars, storeVars, dirVars, history, TypeOK
<1> QED
  BY <1>1, <1>2, <1>3, <1>4, <1>5, <1>6, <1>7
  DEF Next, StoreNext, UpdateStep, ListFail, BuildFail

THEOREM TypeCorrect == Spec => []TypeOK
BY InitType, NextType, PTL DEF Spec

----------------------------------------------------------------------------
(* The inductive invariant.                                                *)

(***************************************************************************)
(* The order of the steps of an update.                                    *)
(***************************************************************************)
Position == [apiKeys  |-> 1, clusters |-> 2, orgs         |-> 3,
             orgUsers |-> 4, projects |-> 5, projectUsers |-> 6, build |-> 7]

Updating == pc \in Tables \cup {"build"}

(***************************************************************************)
(* The window of a table has its present contents and, during an update,   *)
(* the answer to its List call once there is one.                          *)
(***************************************************************************)
InWindow ==
    \A t \in Tables :
        /\ dir[t] \in window[t]
        /\ Updating /\ Position[t] < Position[pc] => resp[t] \in window[t]

(***************************************************************************)
(* If an update has begun since the last change of the directory, all that *)
(* the window holds is the present contents.                               *)
(***************************************************************************)
QuietWindow == quiet > 0 => \A t \in Tables : window[t] = {dir[t]}

IInv == TypeOK /\ InWindow /\ QuietWindow /\ SyncSignal /\ CacheFresh /\ StalenessReported

LEMMA InitIInv == Init => IInv
<1> SUFFICES ASSUME Init PROVE IInv
  OBVIOUS
<1>1. TypeOK
  BY InitType
<1>2. InWindow
  BY DEF Init, StoreInit, InWindow, Position, FirstCall, Tables
<1>3. QuietWindow /\ SyncSignal /\ CacheFresh /\ StalenessReported
  BY DEF Init, StoreInit, QuietWindow, SyncSignal, CacheFresh, StalenessReported
<1> QED
  BY <1>1, <1>2, <1>3 DEF IInv

LEMMA NextWindow == IInv /\ [Next]_vars => InWindow' /\ QuietWindow'
<1> SUFFICES ASSUME IInv, [Next]_vars PROVE InWindow' /\ QuietWindow'
  OBVIOUS
<1> USE DEF IInv
<1>1. CASE DirChange
  <2>1. window' = [t \in Tables |-> window[t] \cup {dir'[t]}] /\ quiet' = 0
    BY <1>1 DEF DirChange
  <2>2. pc' = pc /\ resp' = resp
    BY <1>1 DEF DirChange, storeVars
  <2> QED
    BY <2>1, <2>2 DEF InWindow, QuietWindow, Updating
<1>2. CASE SyncTick
  <2>1. window' = [t \in Tables |-> {dir[t]}] /\ pc' = "apiKeys" /\ dir' = dir
    BY <1>2 DEF SyncTick, FirstCall, dirVars
  <2> QED
    BY <2>1 DEF InWindow, QuietWindow, Position, Tables
<1>3. ASSUME NEW t \in Tables, List(t) PROVE InWindow' /\ QuietWindow'
  <2>1. /\ resp' = [resp EXCEPT ![t] = dir[t]] /\ pc = t /\ pc' = NextCall[t]
        /\ UNCHANGED <<dir, window, quiet>>
    BY <1>3 DEF List, dirVars, history
  <2>2. ASSUME NEW s \in Tables, Position[s] < Position[pc'] PROVE resp'[s] \in window'[s]
    <3>1. s = t \/ Position[s] < Position[pc]
      BY <2>1, <2>2 DEF NextCall, Position, Tables
    <3>2. DOMAIN resp = Tables
      BY DEF TypeOK, IsContents
    <3> QED
      BY <2>1, <3>1, <3>2 DEF InWindow, Updating
  <2> QED
    BY <2>1, <2>2 DEF InWindow, QuietWindow
<1>4. CASE Abandon \/ Publish \/ SyncReturn
  <2>1. pc' \in {"select", "returned"} /\ UNCHANGED <<dir, window, quiet>>
    BY <1>4 DEF Abandon, Publish, SyncReturn, dirVars, history
  <2> QED
    BY <2>1 DEF InWindow, QuietWindow, Updating, Tables
<1>5. CASE WaitForSyncOK \/ WaitForSyncErr \/ Cancel \/ UNCHANGED vars
  <2>1. UNCHANGED <<dir, pc, resp, window, quiet>>
    BY <1>5 DEF WaitForSyncOK, WaitForSyncErr, Cancel, vars, dirVars, storeVars, history
  <2> QED
    BY <2>1 DEF InWindow, QuietWindow, Updating
<1> QED
  BY <1>1, <1>2, <1>3, <1>4, <1>5 DEF Next, StoreNext, UpdateStep, ListFail, BuildFail

(***************************************************************************)
(* At the end of an update every answer is in the window of its table.     *)
(***************************************************************************)
LEMMA AnswersInWindow ==
    ASSUME IInv, pc = "build" PROVE \A t \in Tables : resp[t] \in window[t]
BY DEF IInv, InWindow, Updating, Position, Tables

(***************************************************************************)
(* Answers taken from a window are a function of the six tables.           *)
(***************************************************************************)
LEMMA AnswersAreRecord ==
    ASSUME IsContents(resp)
    PROVE  resp = [apiKeys |-> resp.apiKeys, clusters |-> resp.clusters, orgs |-> resp.orgs,
                   orgUsers |-> resp.orgUsers, projects |-> resp.projects,
                   projectUsers |-> resp.projectUsers]
BY DEF IsContents, Tables

LEMMA NextFresh == IInv /\ [Next]_vars => CacheFresh'
<1> SUFFICES ASSUME IInv, [Next]_vars PROVE CacheFresh'
  OBVIOUS
<1>1. CASE Publish
  <2>1. /\ synced' = TRUE /\ cache' = Build(resp) /\ pubWindow' = window
        /\ ~BuildError(resp) /\ pc = "build"
    BY <1>1 DEF Publish
  <2>2. \A t \in Tables : resp[t] \in window[t]
    BY <2>1, AnswersInWindow
  <2>3. /\ resp.apiKeys \in window.apiKeys /\ resp.clusters \in window.clusters
        /\ resp.orgs \in window.orgs /\ resp.orgUsers \in window.orgUsers
        /\ resp.projects \in window.projects /\ resp.projectUsers \in window.projectUsers
    BY <2>2 DEF Tables
  <2>4. IsContents(resp)
    BY DEF IInv, TypeOK
  <2>5. DerivedFrom(Build(resp), window)
    BY <2>1, <2>3, <2>4, AnswersAreRecord DEF DerivedFrom
  <2> QED
    BY <2>1, <2>5 DEF CacheFresh
<1>2. CASE ~Publish
  <2>1. UNCHANGED <<cache, synced, pubWindow>>
    BY <1>2 DEF Next, StoreNext, UpdateStep, ListFail, BuildFail, Abandon, List, DirChange,
                SyncTick, SyncReturn, WaitForSyncOK, WaitForSyncErr, Cancel, vars, storeVars,
                history
  <2> QED
    BY <2>1 DEF IInv, CacheFresh
<1> QED
  BY <1>1, <1>2

LEMMA NextSignal == IInv /\ [Next]_vars => SyncSignal'
<1> SUFFICES ASSUME IInv, [Next]_vars PROVE SyncSignal'
  OBVIOUS
<1>1. SyncSignal /\ synced \in BOOLEAN
  BY DEF IInv, TypeOK
<1>2. CASE Publish
  BY <1>1, <1>2 DEF Publish, SyncSignal
<1>3. CASE WaitForSyncOK
  BY <1>1, <1>3 DEF WaitForSyncOK, SyncSignal
<1>4. CASE WaitForSyncErr
  BY <1>1, <1>4 DEF WaitForSyncErr, SyncSignal
<1>5. CASE ~Publish /\ ~WaitForSyncOK /\ ~WaitForSyncErr
  <2>1. UNCHANGED <<synced, closes, waiter>>
    BY <1>5 DEF Next, StoreNext, UpdateStep, ListFail, BuildFail, Abandon, List, DirChange,
                SyncTick, SyncReturn, Cancel, vars, storeVars
  <2> QED
    BY <1>1, <2>1 DEF SyncSignal
<1> QED
  BY <1>2, <1>3, <1>4, <1>5

LEMMA NextStaleness == IInv /\ [Next]_vars => StalenessReported'
<1> SUFFICES ASSUME IInv, [Next]_vars PROVE StalenessReported'
  OBVIOUS
<1>1. /\ StalenessReported /\ TypeOK
      /\ age \in 0..MaxAge /\ quiet \in 0..MaxAge /\ MaxAge \in Nat
  BY CacheStoreAssumption DEF IInv, TypeOK
<1>2. CASE DirChange
  <2>1. quiet' = 0 /\ age' = age
    BY <1>2 DEF DirChange, storeVars
  <2> QED
    BY <1>1, <2>1 DEF StalenessReported
<1>3. CASE SyncTick
  <2>1. /\ age' = Tick(age) /\ quiet' = Tick(quiet)
        /\ UNCHANGED <<dir, cache, synced>>
    BY <1>3 DEF SyncTick, dirVars
  <2>2. quiet <= age => quiet' <= age'
    BY <1>1, <2>1 DEF Tick
  <2> QED
    BY <1>1, <2>1, <2>2 DEF StalenessReported, Stale
<1>4. CASE Publish
  <2>1. /\ cache' = Build(resp) /\ ~BuildError(resp) /\ pc = "build" /\ age' = 0
        /\ UNCHANGED <<dir, quiet>>
    BY <1>4 DEF Publish, dirVars
  <2>2. CASE quiet = 0
    BY <2>1, <2>2 DEF StalenessReported
  <2>3. CASE quiet > 0
    <3>1. \A t \in Tables : resp[t] = dir[t]
      BY <2>1, <2>3, AnswersInWindow DEF IInv, QuietWindow
    <3>2. resp = dir
      BY <1>1, <3>1 DEF TypeOK, IsContents
    <3> QED
      BY <2>1, <3>2 DEF StalenessReported, Stale
  <2> QED
    BY <1>1, <2>2, <2>3
<1>5. CASE ~DirChange /\ ~SyncTick /\ ~Publish
  <2>1. UNCHANGED <<dir, cache, synced, age, quiet>>
    BY <1>5 DEF Next, StoreNext, UpdateStep, ListFail, BuildFail, Abandon, List, SyncReturn,
                WaitForSyncOK, WaitForSyncErr, Cancel, vars, dirVars, storeVars, history
  <2> QED
    BY <1>1, <2>1 DEF StalenessReported, Stale
<1> QED
  BY <1>2, <1>3, <1>4, <1>5

(***************************************************************************)
(* IInv is an inductive invariant of the store.                            *)
(***************************************************************************)
THEOREM Invariance == Spec => []IInv
<1>1. Init => IInv
  BY InitIInv
<1>2. IInv /\ [Next]_vars => IInv'
  BY NextType, NextWindow, NextFresh, NextSignal, NextStaleness DEF IInv
<1> QED
  BY <1>1, <1>2, PTL DEF Spec

(***************************************************************************)
(* Whatever is published was derived from contents that the tables had     *)
(* while they were being listed.                                           *)
(***************************************************************************)
THEOREM Freshness == Spec => []CacheFresh
<1>1. IInv => CacheFresh
  BY DEF IInv
<1> QED
  BY <1>1, Invariance, PTL

(***************************************************************************)
(* initialSync is never closed twice and WaitForSync never returns early.  *)
(***************************************************************************)
THEOREM SignalSound == Spec => []SyncSignal
<1>1. IInv => SyncSignal
  BY DEF IInv
<1> QED
  BY <1>1, Invariance, PTL

(***************************************************************************)
(* A stale cache is at least as old as the time of the last sync says.     *)
(***************************************************************************)
THEOREM StalenessSound == Spec => []StalenessReported
<1>1. IInv => StalenessReported
  BY DEF IInv
<1> QED
  BY <1>1, Invariance, PTL

(***************************************************************************)
(* The maps that request handlers read agree with each other, for every    *)
(* directory and every interleaving of its changes with the List calls.    *)
(***************************************************************************)
THEOREM Consistency == Spec => []CacheConsistent
<1>1. IInv => CacheConsistent
  <2> SUFFICES ASSUME IInv PROVE Consistent(cache)
    BY DEF CacheConsistent
  <2>1. CASE synced
    <3>1. DerivedFrom(cache, pubWindow)
      BY <2>1 DEF IInv, CacheFresh
    <3>2. PICK k \in pubWindow.apiKeys, cl \in pubWindow.clusters, o \in pubWindow.orgs,
               ou \in pubWindow.orgUsers, p \in pubWindow.projects,
               pu \in pubWindow.projectUsers :
            LET m == [apiKeys |-> k, clusters |-> cl, orgs |-> o, orgUsers |-> ou,
                      projects |-> p, projectUsers |-> pu]
            IN  ~BuildError(m) /\ cache = Build(m)
      BY <3>1 DEF DerivedFrom
    <3>3. UniqueKeys("projects", p)
      BY <3>2 DEF IInv, TypeOK, Tables
    <3> QED
      BY <3>2, <3>3, BuildConsistent
  <2>2. CASE ~synced
    <3>1. cache = Build(NoRows)
      BY <2>2 DEF IInv, CacheFresh, NewStore
    <3> QED
      BY <3>1, NoRowsBuild, BuildConsistent
  <2> QED
    BY <2>1, <2>2
<1> QED
  BY <1>1, Invariance, PTL

(***************************************************************************)
(* The store implements the SnapshotStore that the request handlers are    *)
(* written against.                                                        *)
(***************************************************************************)
LEMMA AnswersInContents ==
    ASSUME IsContents(resp), ~BuildError(resp) PROVE Build(resp) \in BuiltCaches
<1>1. \A t \in Tables : resp[t] \in TableContents(t)
  BY DEF IsContents, TableContents
<1>2. resp \in Contents
  BY <1>1, AnswersAreRecord DEF Contents, Tables
<1> QED
  BY <1>2 DEF BuiltCaches

THEOREM Refinement == Spec => ReadersSpec
<1>1. Init => Readers!SnapshotInit
  BY DEF Init, StoreInit, Readers!SnapshotInit
<1>2. IInv /\ [Next]_vars => [Readers!Refresh]_(Readers!snapshotVars)
  <2> SUFFICES ASSUME IInv, [Next]_vars
               PROVE  Readers!Refresh \/ UNCHANGED <<cache, synced>>
    BY DEF Readers!snapshotVars
  <2>1. CASE Publish
    BY <2>1, AnswersInContents DEF Publish, IInv, TypeOK, Readers!Refresh
  <2>2. CASE ~Publish
    BY <2>2 DEF Next, StoreNext, UpdateStep, ListFail, BuildFail, Abandon, List, DirChange,
                SyncTick, SyncReturn, WaitForSyncOK, WaitForSyncErr, Cancel, vars, storeVars
  <2> QED
    BY <2>1, <2>2
<1> QED
  BY <1>1, <1>2, Invariance, PTL DEF Spec, ReadersSpec, Readers!SnapshotSpec
=============================================================================

----------------------------- MODULE Directory -----------------------------
(***************************************************************************)
(* The upstream directory: the six tables that user-manager-server and     *)
(* cluster-manager-server serve to the RBAC server through the List calls  *)
(* of cache.go (userInfoLister and clusterInfoLister).  Those services are *)
(* not part of this repository; they are modelled from how cache.go uses   *)
(* them: a table is a set of rows, a List call returns all rows of one     *)
(* table, and rows come and go at any time.                                *)
(*                                                                         *)
(* Nothing ties two tables together here.  updateCache checks what it      *)
(* needs by itself, and reads of different tables are not one transaction. *)
(***************************************************************************)
EXTENDS Naturals, CacheMaps

CONSTANTS
    Rows,         \* the rows that may exist, a function from Tables to sets
    InitialDirs,  \* the contents the directory may have at the start
    MaxChanges    \* bound on the number of changes to the directory

VARIABLES
    dir,          \* dir[t] is the set of rows of table t
    changes       \* number of changes so far

dirVars == <<dir, changes>>

IsContents(d) ==
    /\ d = [t \in Tables |-> d[t]]
    /\ \A t \in Tables : d[t] \subseteq Rows[t] /\ UniqueKeys(t, d[t])

(***************************************************************************)
(* The answers a round of List calls may give, and the caches that come    *)
(* of them.                                                                *)
(***************************************************************************)
TableContents(t) == {rows \in SUBSET Rows[t] : UniqueKeys(t, rows)}

Contents ==
    {[apiKeys |-> k, clusters |-> c, orgs |-> o, orgUsers |-> ou, projects |-> p,
      projectUsers |-> pu] :
        k \in TableContents("apiKeys"), c \in TableContents("clusters"),
        o \in TableContents("orgs"), ou \in TableContents("orgUsers"),
        p \in TableContents("projects"), pu \in TableContents("projectUsers")}

BuiltCaches == {Build(m) : m \in {c \in Contents : ~BuildError(c)}}

ASSUME DirectoryAssumption ==
    /\ MaxChanges \in Nat
    /\ \A d \in InitialDirs : IsContents(d)

DirInit ==
    /\ dir \in InitialDirs
    /\ changes = 0

(***************************************************************************)
(* A row is created, or replaces the row with the same key.                *)
(***************************************************************************)
Put(t, r) ==
    /\ changes < MaxChanges
    /\ r \notin dir[t]
    /\ dir' = [dir EXCEPT ![t] = {s \in @ : ~SameKey(t, s, r)} \cup {r}]
    /\ changes' = changes + 1

Delete(t, r) ==
    /\ changes < MaxChanges
    /\ r \in dir[t]
    /\ dir' = [dir EXCEPT ![t] = @ \ {r}]
    /\ changes' = changes + 1

DirNext == \E t \in Tables : \E r \in Rows[t] : Put(t, r) \/ Delete(t, r)
=============================================================================

--------------------------- MODULE SnapshotStore ---------------------------
(***************************************************************************)
(* What the cache promises to the code that reads it: it holds one whole   *)
(* snapshot, a snapshot is only ever replaced by another one in a single   *)
(* step, and once there is one there always is.  CacheStore implements     *)
(* this, and the request handlers (RbacServer) rely on nothing else.       *)
(***************************************************************************)
CONSTANTS
    Snapshots,    \* the caches that a successful update may publish
    EmptyStore    \* the cache before the first of them

VARIABLES
    cache,        \* the maps of Store
    synced        \* an update was published

snapshotVars == <<cache, synced>>

SnapshotInit ==
    /\ cache = EmptyStore
    /\ synced = FALSE

Refresh ==
    /\ cache' \in Snapshots
    /\ synced' = TRUE

SnapshotSpec == SnapshotInit /\ [][Refresh]_snapshotVars
=============================================================================

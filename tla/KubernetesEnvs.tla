--------------------------- MODULE KubernetesEnvs ---------------------------
(***************************************************************************)
(* assignedKubernetesEnvsInternal (server/internal/server/                 *)
(* authorization.go): the loop over the assignments of a project, and the  *)
(* loop over the clusters with the loop over namespaces in it, one action  *)
(* per round.  Authorization has the set of the environments as an         *)
(* operator; here are the slices, with their order and repetitions, and    *)
(* the map in which a later assignment replaces an earlier one.            *)
(*                                                                         *)
(* An assignment is [cluster, namespace]; None is the empty string.        *)
(***************************************************************************)
EXTENDS Integers, Sequences

CONSTANTS
    None,          \* the empty string
    ClusterIds,
    Namespaces,
    Inputs         \* [namespace, assignments, clusters]: what it may be called with

VARIABLES
    input,         \* the arguments of the call
    a,             \* index in the loop over the assignments
    nssForAll,     \* nssForAllClusters
    nsByCluster,   \* nssByCluster: a map as a function on its keys
    c,             \* index in the loop over the clusters
    n,             \* index in the loop over nssForAllClusters; 0 before it
    foundNS,       \* the namespace found for the cluster, or None
    envs           \* the result: a sequence of [cluster, namespace]

vars == <<input, a, nssForAll, nsByCluster, c, n, foundNS, envs>>

Assignments == [cluster : ClusterIds \cup {None}, namespace : Namespaces \cup {None}]

Arguments ==
    [namespace : Namespaces \cup {None}, assignments : Seq(Assignments), clusters : Seq(ClusterIds)]

ASSUME InputsAssumption == Inputs \subseteq Arguments /\ None \notin ClusterIds \cup Namespaces

Env(cluster, namespace) == [cluster |-> cluster, namespace |-> namespace]

Elements(s) == {s[i] : i \in DOMAIN s}

----------------------------------------------------------------------------
Init ==
    /\ input \in Inputs
    /\ a = 1
    /\ nssForAll = IF input.namespace = None THEN <<>> ELSE <<input.namespace>>
    /\ nsByCluster = [k \in {} |-> None]
    /\ c = 1
    /\ n = 0
    /\ foundNS = None
    /\ envs = <<>>

\* Faulty variant: the first assignment of a cluster counts.
KeepFirstAssignment ==
    /\ a <= Len(input.assignments)
    /\ LET x == input.assignments[a]
       IN  IF x.cluster = None
           THEN nssForAll' = Append(nssForAll, x.namespace) /\ UNCHANGED nsByCluster
           ELSE /\ nsByCluster' =
                     [k \in DOMAIN nsByCluster \cup {x.cluster} |->
                        IF k \in DOMAIN nsByCluster THEN nsByCluster[k] ELSE x.namespace]
                /\ UNCHANGED nssForAll
    /\ a' = a + 1
    /\ UNCHANGED <<input, c, n, foundNS, envs>>

\* Faulty variant: assignments for all clusters are put into the map too.
ReadAssignmentUnsplit ==
    /\ a <= Len(input.assignments)
    /\ LET x == input.assignments[a]
       IN  nsByCluster' = [k \in DOMAIN nsByCluster \cup {x.cluster} |->
                             IF k = x.cluster THEN x.namespace ELSE nsByCluster[k]]
    /\ a' = a + 1
    /\ UNCHANGED <<input, nssForAll, c, n, foundNS, envs>>

ReadAssignment ==
    /\ a <= Len(input.assignments)
    /\ LET x == input.assignments[a]
       IN  IF x.cluster = None
           THEN nssForAll' = Append(nssForAll, x.namespace) /\ UNCHANGED nsByCluster
           ELSE /\ nsByCluster' =
                     [k \in DOMAIN nsByCluster \cup {x.cluster} |->
                        IF k = x.cluster THEN x.namespace ELSE nsByCluster[k]]
                /\ UNCHANGED nssForAll
    /\ a' = a + 1
    /\ UNCHANGED <<input, c, n, foundNS, envs>>

InClusters == a > Len(input.assignments) /\ c <= Len(input.clusters)

(***************************************************************************)
(* A cluster: its own namespace first, if an assignment names it.          *)
(***************************************************************************)
OwnNamespace ==
    /\ InClusters
    /\ n = 0
    /\ LET id == input.clusters[c]
       IN  IF id \in DOMAIN nsByCluster
           THEN envs' = Append(envs, Env(id, nsByCluster[id])) /\ foundNS' = nsByCluster[id]
           ELSE foundNS' = None /\ UNCHANGED envs
    /\ n' = 1
    /\ UNCHANGED <<input, a, nssForAll, nsByCluster, c>>

\* Faulty variant: the namespace found is not left out.
NamespaceForAllAgain ==
    /\ InClusters
    /\ n \in 1..Len(nssForAll)
    /\ envs' = Append(envs, Env(input.clusters[c], nssForAll[n]))
    /\ n' = n + 1
    /\ UNCHANGED <<input, a, nssForAll, nsByCluster, c, foundNS>>

(***************************************************************************)
(* Then each of the namespaces for all clusters, without the one found.    *)
(***************************************************************************)
NamespaceForAll ==
    /\ InClusters
    /\ n \in 1..Len(nssForAll)
    /\ envs' = IF nssForAll[n] = foundNS THEN envs
               ELSE Append(envs, Env(input.clusters[c], nssForAll[n]))
    /\ n' = n + 1
    /\ UNCHANGED <<input, a, nssForAll, nsByCluster, c, foundNS>>

NextCluster ==
    /\ InClusters
    /\ n > Len(nssForAll)
    /\ c' = c + 1
    /\ n' = 0
    /\ UNCHANGED <<input, a, nssForAll, nsByCluster, foundNS, envs>>

Next == ReadAssignment \/ OwnNamespace \/ NamespaceForAll \/ NextCluster

Spec == Init /\ [][Next]_vars

Returned == a > Len(input.assignments) /\ c > Len(input.clusters)

----------------------------------------------------------------------------
(* What the result should be. *)

(***************************************************************************)
(* Assignment i is the last one that names cluster k.                      *)
(***************************************************************************)
LastFor(k, i, upTo) ==
    /\ i \in 1..upTo
    /\ input.assignments[i].cluster = k
    /\ \A j \in 1..upTo : j > i => input.assignments[j].cluster # k

ForAll(upTo) ==
    ({input.namespace} \ {None})
        \cup {input.assignments[i].namespace : i \in {j \in 1..upTo : input.assignments[j].cluster = None}}

All == Len(input.assignments)

Own(k) == {input.assignments[i].namespace : i \in {j \in 1..All : LastFor(k, j, All)}}

Expected(k) == Own(k) \cup (IF Own(k) = {} THEN ForAll(All) \ {None} ELSE ForAll(All))

----------------------------------------------------------------------------
(* Properties. *)

TypeOK ==
    /\ input \in Inputs
    /\ a \in 1..(All + 1)
    /\ nssForAll \in Seq(Namespaces \cup {None})
    /\ nsByCluster \in [DOMAIN nsByCluster -> Namespaces \cup {None}]
    /\ DOMAIN nsByCluster \subseteq ClusterIds
    /\ c \in 1..(Len(input.clusters) + 1)
    /\ n \in 0..(Len(nssForAll) + 1)
    /\ foundNS \in Namespaces \cup {None}
    /\ envs \in Seq([cluster : ClusterIds, namespace : Namespaces \cup {None}])

(***************************************************************************)
(* The environments are exactly the expected ones: on each registered      *)
(* cluster the namespace of the last assignment that names it and the      *)
(* namespaces for all clusters, on no other cluster any.  (The empty       *)
(* namespace for all clusters only counts on clusters with an assignment.) *)
(***************************************************************************)
ResultCorrect ==
    Returned => Elements(envs) = UNION {{Env(k, ns) : ns \in Expected(k)} : k \in Elements(input.clusters)}

(***************************************************************************)
(* No environment is listed twice if no namespace is given twice for all   *)
(* clusters and no cluster is registered twice: in particular not one that *)
(* a cluster has by its own assignment and by one for all clusters.        *)
(***************************************************************************)
Distinct(s) == \A i, j \in DOMAIN s : s[i] = s[j] => i = j

NoDuplicates == Distinct(nssForAll) /\ Distinct(input.clusters) => Distinct(envs)
=============================================================================

------------------------ MODULE KubernetesEnvsProofs ------------------------
(***************************************************************************)
(* The loops of assignedKubernetesEnvsInternal (KubernetesEnvs) give the   *)
(* environments that they should, for any number of assignments, clusters  *)
(* and namespaces.                                                         *)
(***************************************************************************)
EXTENDS KubernetesEnvs, TLAPS

CONSTANTS Nil, RoleScopes, OrganizationSegments   \* of Authorization, not used here

Decisions == INSTANCE Authorization

LEMMA AppendElements ==
    ASSUME NEW T, NEW s \in Seq(T), NEW e \in T
    PROVE  /\ Append(s, e) \in Seq(T)
           /\ Elements(Append(s, e)) = Elements(s) \cup {e}
<1>1. /\ Append(s, e) \in Seq(T) /\ Len(Append(s, e)) = Len(s) + 1
      /\ DOMAIN Append(s, e) = 1..(Len(s) + 1) /\ DOMAIN s = 1..Len(s) /\ Len(s) \in Nat
      /\ Append(s, e)[Len(s) + 1] = e
      /\ \A i \in 1..Len(s) : Append(s, e)[i] = s[i]
  OBVIOUS
<1> QED
  BY <1>1 DEF Elements

LEMMA AppendDistinct ==
    ASSUME NEW T, NEW s \in Seq(T), NEW e \in T, Distinct(s), e \notin Elements(s)
    PROVE  Distinct(Append(s, e))
<1>1. /\ DOMAIN Append(s, e) = 1..(Len(s) + 1) /\ DOMAIN s = 1..Len(s) /\ Len(s) \in Nat
      /\ Append(s, e)[Len(s) + 1] = e
      /\ \A i \in 1..Len(s) : Append(s, e)[i] = s[i]
  OBVIOUS
<1>2. \A i \in 1..Len(s) : s[i] # e
  BY <1>1 DEF Elements
<1> QED
  BY <1>1, <1>2 DEF Distinct

LEMMA InputType ==
    ASSUME input \in Inputs
    PROVE  /\ input.namespace \in Namespaces \cup {None}
           /\ input.assignments \in Seq(Assignments)
           /\ input.clusters \in Seq(ClusterIds)
           /\ All \in Nat /\ Len(input.clusters) \in Nat
           /\ None \notin ClusterIds
BY InputsAssumption DEF Arguments, All

LEMMA AssignmentType ==
    ASSUME input \in Inputs, NEW i \in 1..All
    PROVE  /\ input.assignments[i].cluster \in ClusterIds \cup {None}
           /\ input.assignments[i].namespace \in Namespaces \cup {None}
<1>1. input.assignments[i] \in Assignments
  BY InputType DEF All
<1> QED
  BY <1>1 DEF Assignments

LEMMA ClusterType ==
    ASSUME input \in Inputs, NEW i \in 1..Len(input.clusters) PROVE input.clusters[i] \in ClusterIds
BY InputType

Envs == [cluster : ClusterIds, namespace : Namespaces \cup {None}]

----------------------------------------------------------------------------
LEMMA InitType == Init => TypeOK
<1> SUFFICES ASSUME Init PROVE TypeOK
  OBVIOUS
<1>1. input \in Inputs
  BY DEF Init
<1>2. nssForAll \in Seq(Namespaces \cup {None})
  <2>1. input.namespace \in Namespaces \cup {None}
    BY <1>1, InputType
  <2>2. \A ns \in Namespaces \cup {None} : <<ns>> \in Seq(Namespaces \cup {None})
    OBVIOUS
  <2>3. CASE input.namespace = None
    BY <2>3 DEF Init
  <2>4. CASE input.namespace # None
    BY <2>1, <2>2, <2>4 DEF Init
  <2> QED
    BY <2>3, <2>4
<1> QED
  BY <1>1, <1>2, InputType DEF Init, TypeOK

LEMMA NextType == TypeOK /\ [Next]_vars => TypeOK'
<1> SUFFICES ASSUME TypeOK, [Next]_vars PROVE TypeOK'
  OBVIOUS
<1> USE DEF TypeOK
<1>0. input \in Inputs /\ All \in Nat /\ Len(input.clusters) \in Nat /\ Len(nssForAll) \in Nat
  BY InputType
<1>1. CASE ReadAssignment
  <2> DEFINE x == input.assignments[a]
  <2>1. a \in 1..All /\ a' = a + 1 /\ UNCHANGED <<input, c, n, foundNS, envs>>
    BY <1>0, <1>1 DEF ReadAssignment, All
  <2>2. x.cluster \in ClusterIds \cup {None} /\ x.namespace \in Namespaces \cup {None}
    BY <1>0, <2>1, AssignmentType
  <2> HIDE DEF x
  <2>3. CASE x.cluster = None
    <3>1. nssForAll' = Append(nssForAll, x.namespace) /\ nsByCluster' = nsByCluster
      BY <1>1, <2>3 DEF ReadAssignment, x
    <3>2. nssForAll' \in Seq(Namespaces \cup {None}) /\ Len(nssForAll') = Len(nssForAll) + 1
      BY <2>2, <3>1
    <3>3. n' \in 0..(Len(nssForAll') + 1)
      BY <1>0, <2>1, <3>2
    <3>4. a' \in 1..(All + 1)
      BY <1>0, <2>1
    <3> QED
      BY <2>1, <3>1, <3>2, <3>3, <3>4 DEF All
  <2>4. CASE x.cluster # None
    <3>1. /\ nssForAll' = nssForAll
          /\ nsByCluster' = [k \in DOMAIN nsByCluster \cup {x.cluster} |->
                               IF k = x.cluster THEN x.namespace ELSE nsByCluster[k]]
      BY <1>1, <2>4 DEF ReadAssignment, x
    <3>2. /\ nsByCluster' \in [DOMAIN nsByCluster' -> Namespaces \cup {None}]
          /\ DOMAIN nsByCluster' \subseteq ClusterIds
      BY <2>2, <2>4, <3>1
    <3>3. a' \in 1..(All + 1)
      BY <1>0, <2>1
    <3>4. /\ input' \in Inputs /\ a' \in 1..(All' + 1)
          /\ nssForAll' \in Seq(Namespaces \cup {None})
          /\ c' \in 1..(Len(input'.clusters) + 1)
          /\ n' \in 0..(Len(nssForAll') + 1)
          /\ foundNS' \in Namespaces \cup {None}
          /\ envs' \in Seq([cluster : ClusterIds, namespace : Namespaces \cup {None}])
      BY <2>1, <3>1, <3>3 DEF All
    <3> QED
      BY <3>2, <3>4
  <2> QED
    BY <2>3, <2>4
<1>2. CASE OwnNamespace
  <2> DEFINE id == input.clusters[c]
  <2>1. c \in 1..Len(input.clusters) /\ UNCHANGED <<input, a, nssForAll, nsByCluster, c>> /\ n' = 1
    BY <1>0, <1>2 DEF OwnNamespace, InClusters
  <2>2. id \in ClusterIds
    BY <1>0, <2>1, ClusterType
  <2> HIDE DEF id
  <2>3. foundNS' \in Namespaces \cup {None} /\ envs' \in Seq(Envs)
    <3>1. CASE id \in DOMAIN nsByCluster
      <4>1. foundNS' = nsByCluster[id] /\ envs' = Append(envs, Env(id, nsByCluster[id]))
        BY <1>2, <3>1 DEF OwnNamespace, id
      <4>2. nsByCluster[id] \in Namespaces \cup {None}
        BY <3>1
      <4>3. Env(id, nsByCluster[id]) \in Envs
        BY <2>2, <4>2 DEF Env, Envs
      <4> QED
        BY <4>1, <4>2, <4>3, AppendElements DEF Envs
    <3>2. CASE id \notin DOMAIN nsByCluster
      BY <1>2, <3>2 DEF OwnNamespace, id, Envs
    <3> QED
      BY <3>1, <3>2
  <2> QED
    BY <1>0, <2>1, <2>3 DEF Envs, All
<1>3. CASE NamespaceForAll
  <2>1. /\ c \in 1..Len(input.clusters) /\ n \in 1..Len(nssForAll) /\ n' = n + 1
        /\ UNCHANGED <<input, a, nssForAll, nsByCluster, c, foundNS>>
    BY <1>0, <1>3 DEF NamespaceForAll, InClusters
  <2>2. Env(input.clusters[c], nssForAll[n]) \in Envs
    BY <1>0, <2>1, ClusterType DEF Env, Envs
  <2>3. envs' \in Seq(Envs)
    BY <1>3, <2>2, AppendElements DEF NamespaceForAll, Envs
  <2> QED
    BY <1>0, <2>1, <2>3 DEF Envs, All
<1>4. CASE NextCluster
  BY <1>0, <1>4 DEF NextCluster, InClusters, All
<1>5. CASE UNCHANGED vars
  BY <1>5 DEF vars, All
<1> QED
  BY <1>1, <1>2, <1>3, <1>4, <1>5 DEF Next

(***************************************************************************)
(* Every state of a call is well typed.                                    *)
(***************************************************************************)
THEOREM LoopsType == Spec => []TypeOK
BY InitType, NextType, PTL DEF Spec

----------------------------------------------------------------------------
(***************************************************************************)
(* The first loop: what it has made of the assignments before the next.    *)
(***************************************************************************)
MapInv ==
    \A k \in ClusterIds :
        IF k \in DOMAIN nsByCluster
        THEN \E i \in 1..(a - 1) : LastFor(k, i, a - 1) /\ nsByCluster[k] = input.assignments[i].namespace
        ELSE \A i \in 1..(a - 1) : input.assignments[i].cluster # k

ListInv == Elements(nssForAll) = ForAll(a - 1)

(***************************************************************************)
(* The second loop: the environments of the clusters before the next, and  *)
(* of the current one those found so far.                                  *)
(***************************************************************************)
Mine(k)  == {nsByCluster[j] : j \in DOMAIN nsByCluster \cap {k}}
Found(k) == IF k \in DOMAIN nsByCluster THEN nsByCluster[k] ELSE None

On(k, nss) == {Env(k, ns) : ns \in nss}

Full(k) == On(k, Mine(k) \cup (Elements(nssForAll) \ {Found(k)}))

Before(m) == UNION {Full(input.clusters[i]) : i \in 1..(m - 1)}

Current ==
    IF n = 0 THEN {}
    ELSE LET k == input.clusters[c]
         IN  On(k, Mine(k) \cup ({nssForAll[j] : j \in 1..(n - 1)} \ {Found(k)}))

EnvsInv ==
    /\ a <= All => c = 1 /\ n = 0 /\ envs = <<>>
    /\ n > 0 => c <= Len(input.clusters) /\ foundNS = Found(input.clusters[c])
    /\ Elements(envs) = Before(c) \cup Current

LoopInv == TypeOK /\ MapInv /\ ListInv /\ EnvsInv /\ NoDuplicates

LEMMA ReadStep ==
    ASSUME LoopInv, ReadAssignment PROVE MapInv' /\ ListInv' /\ EnvsInv' /\ NoDuplicates'
<1> DEFINE x == input.assignments[a]
<1>0. input \in Inputs /\ All \in Nat /\ a \in Nat \ {0} /\ None \notin ClusterIds
  BY InputType DEF LoopInv, TypeOK
<1>1. a \in 1..All /\ a' = a + 1 /\ UNCHANGED <<input, c, n, foundNS, envs>>
  BY <1>0 DEF ReadAssignment, All
<1>2. x.cluster \in ClusterIds \cup {None} /\ x.namespace \in Namespaces \cup {None}
  BY <1>0, <1>1, AssignmentType
<1>3. a' - 1 = a /\ 1..a = 1..(a - 1) \cup {a} /\ a \notin 1..(a - 1)
  BY <1>0, <1>1
<1>4. nssForAll \in Seq(Namespaces \cup {None}) /\ DOMAIN nsByCluster \subseteq ClusterIds
  BY DEF LoopInv, TypeOK
<1>5. /\ x.cluster = None => nssForAll' = Append(nssForAll, x.namespace) /\ nsByCluster' = nsByCluster
      /\ x.cluster # None =>
           /\ nssForAll' = nssForAll
           /\ nsByCluster' = [k \in DOMAIN nsByCluster \cup {x.cluster} |->
                                IF k = x.cluster THEN x.namespace ELSE nsByCluster[k]]
  BY DEF ReadAssignment
<1> HIDE DEF x
<1>6. ListInv'
  <2>1. ForAll(a) = ForAll(a - 1) \cup {ns \in {x.namespace} : x.cluster = None}
    BY <1>0, <1>3 DEF ForAll, x
  <2>2. Elements(nssForAll') = Elements(nssForAll) \cup {ns \in {x.namespace} : x.cluster = None}
    <3>1. CASE x.cluster = None
      <4>1. Elements(nssForAll') = Elements(nssForAll) \cup {x.namespace}
        <5> DEFINE T == Namespaces \cup {None}
        <5>1. nssForAll \in Seq(T) /\ x.namespace \in T /\ nssForAll' = Append(nssForAll, x.namespace)
          BY <1>2, <1>4, <1>5, <3>1
        <5> HIDE DEF T
        <5> QED
          BY <5>1, AppendElements
      <4> QED
        BY <3>1, <4>1
    <3>2. CASE x.cluster # None
      BY <1>5, <3>2
    <3> QED
      BY <3>1, <3>2
  <2>3. Elements(nssForAll') = ForAll(a)
    BY <2>1, <2>2 DEF LoopInv, ListInv
  <2> QED
    BY <1>1, <1>3, <2>3 DEF ListInv, ForAll
<1>7. MapInv'
  <2> SUFFICES ASSUME NEW k \in ClusterIds
               PROVE  IF k \in DOMAIN nsByCluster'
                      THEN \E i \in 1..a : LastFor(k, i, a) /\ nsByCluster'[k] = input.assignments[i].namespace
                      ELSE \A i \in 1..a : input.assignments[i].cluster # k
    BY <1>1, <1>3 DEF MapInv, LastFor
  <2>1. CASE x.cluster = k
    <3>1. k \in DOMAIN nsByCluster' /\ nsByCluster'[k] = x.namespace
      BY <1>0, <1>5, <2>1
    <3>2. LastFor(k, a, a)
      BY <1>0, <1>1, <2>1 DEF LastFor, x
    <3>3. a \in 1..a
      BY <1>0
    <3> QED
      BY <3>1, <3>2, <3>3 DEF x
  <2>2. CASE x.cluster # k
    <3>1. /\ k \in DOMAIN nsByCluster' <=> k \in DOMAIN nsByCluster
          /\ k \in DOMAIN nsByCluster => nsByCluster'[k] = nsByCluster[k]
      BY <1>5, <2>2
    <3>2. \A i \in 1..(a - 1) : LastFor(k, i, a - 1) => LastFor(k, i, a)
      BY <1>0, <1>1, <1>3, <2>2 DEF LastFor, x
    <3> QED
      BY <1>3, <2>2, <3>1, <3>2 DEF LoopInv, MapInv, x
  <2> QED
    BY <2>1, <2>2
<1>8. c = 1 /\ n = 0 /\ envs = <<>>
  BY <1>0, <1>1 DEF LoopInv, EnvsInv
<1>9. EnvsInv'
  BY <1>1, <1>8 DEF EnvsInv, Before, Current, Elements
<1>10. NoDuplicates'
  BY <1>1, <1>8 DEF NoDuplicates, Distinct
<1> QED
  BY <1>6, <1>7, <1>9, <1>10

(***************************************************************************)
(* In the second loop nothing changes but the result and the positions.    *)
(***************************************************************************)
LEMMA InSecondLoop ==
    ASSUME LoopInv, InClusters
    PROVE  /\ c \in 1..Len(input.clusters) /\ input.clusters[c] \in ClusterIds
           /\ n \in Nat /\ Len(nssForAll) \in Nat
           /\ a - 1 = All
           /\ envs \in Seq(Envs)
           /\ Elements(envs) = Before(c) \cup Current
           /\ n > 0 => foundNS = Found(input.clusters[c])
<1>1. c \in 1..Len(input.clusters)
  BY InputType DEF LoopInv, TypeOK, InClusters
<1>2. input.clusters[c] \in ClusterIds
  BY <1>1, ClusterType DEF LoopInv, TypeOK
<1>3. a - 1 = All
  BY InputType DEF LoopInv, TypeOK, InClusters, All
<1> QED
  BY <1>1, <1>2, <1>3 DEF LoopInv, TypeOK, EnvsInv, Envs

LEMMA SameMaps ==
    ASSUME LoopInv, UNCHANGED <<input, a, nssForAll, nsByCluster>>
    PROVE  /\ MapInv' /\ ListInv'
           /\ \A k : Mine(k)' = Mine(k) /\ Found(k)' = Found(k) /\ Full(k)' = Full(k)
           /\ \A m : Before(m)' = Before(m)
           /\ All' = All
BY DEF LoopInv, MapInv, ListInv, LastFor, ForAll, Mine, Found, Full, Before, All, Elements

(***************************************************************************)
(* Environments of other clusters and of this one differ.                  *)
(***************************************************************************)
LEMMA NotBefore ==
    ASSUME LoopInv, InClusters, Distinct(input.clusters), NEW ns
    PROVE  Env(input.clusters[c], ns) \notin Before(c)
<1>1. input.clusters \in Seq(ClusterIds) /\ c \in 1..Len(input.clusters)
  BY InSecondLoop, InputType DEF LoopInv, TypeOK
<1>2. ASSUME NEW i \in 1..(c - 1) PROVE Env(input.clusters[c], ns) \notin Full(input.clusters[i])
  <2>1. {i, c} \subseteq DOMAIN input.clusters /\ i # c
    BY <1>1, <1>2
  <2>2. input.clusters[i] # input.clusters[c]
    BY <1>1, <2>1 DEF Distinct
  <2> QED
    BY <2>2 DEF Full, On, Env
<1> QED
  BY <1>2 DEF Before

LEMMA OwnStep ==
    ASSUME LoopInv, OwnNamespace PROVE MapInv' /\ ListInv' /\ EnvsInv' /\ NoDuplicates'
<1> DEFINE k == input.clusters[c]
<1>1. /\ InClusters /\ n = 0 /\ n' = 1
      /\ UNCHANGED <<input, a, nssForAll, nsByCluster, c>>
      /\ foundNS' = Found(k)
      /\ k \in DOMAIN nsByCluster => envs' = Append(envs, Env(k, nsByCluster[k]))
      /\ k \notin DOMAIN nsByCluster => envs' = envs
  BY DEF OwnNamespace, Found
<1>2. k \in ClusterIds /\ c \in 1..Len(input.clusters) /\ a - 1 = All /\ envs \in Seq(Envs)
  BY <1>1, InSecondLoop
<1>3. Elements(envs) = Before(c)
  BY <1>1, InSecondLoop DEF Current
<1>4. k \in DOMAIN nsByCluster => Env(k, nsByCluster[k]) \in Envs
  BY <1>2 DEF LoopInv, TypeOK, Env, Envs
<1>5. Elements(envs') = Before(c) \cup On(k, Mine(k))
  <2>1. CASE k \in DOMAIN nsByCluster
    <3>1. Elements(envs') = Elements(envs) \cup {Env(k, nsByCluster[k])}
      <4> DEFINE e == Env(k, nsByCluster[k])
      <4>1. e \in Envs /\ envs' = Append(envs, e) /\ envs \in Seq(Envs)
        BY <1>1, <1>2, <1>4, <2>1
      <4> HIDE DEF e
      <4>2. Elements(envs') = Elements(envs) \cup {e}
        BY <4>1, AppendElements
      <4> QED
        BY <4>2 DEF e
    <3>2. On(k, Mine(k)) = {Env(k, nsByCluster[k])}
      BY <2>1 DEF On, Mine
    <3> QED
      BY <1>3, <3>1, <3>2
  <2>2. CASE k \notin DOMAIN nsByCluster
    <3>1. On(k, Mine(k)) = {}
      BY <2>2 DEF On, Mine
    <3> QED
      BY <1>1, <1>3, <2>2, <3>1
  <2> QED
    BY <2>1, <2>2
<1>6. /\ MapInv' /\ ListInv' /\ Before(c)' = Before(c) /\ All' = All
      /\ Mine(k)' = Mine(k) /\ Found(k)' = Found(k)
  BY <1>1, SameMaps DEF Before
<1>7. Current' = On(k, Mine(k))
  <2>1. {nssForAll'[j] : j \in 1..(1 - 1)} = {}
    OBVIOUS
  <2> QED
    BY <1>1, <1>6, <2>1 DEF Current, On, Env, Mine
<1>8. EnvsInv'
  <2>1. ~(a' <= All')
    BY <1>1, <1>2, <1>6, InputType DEF LoopInv, TypeOK
  <2>2. c' <= Len(input'.clusters) /\ foundNS' = Found(input.clusters[c])'
    BY <1>1, <1>2, <1>6, InputType DEF LoopInv, TypeOK, Found
  <2>3. Elements(envs)' = (Before(c) \cup Current)'
    BY <1>5, <1>6, <1>7 DEF Elements
  <2> QED
    BY <2>1, <2>2, <2>3 DEF EnvsInv
<1>9. NoDuplicates'
  <2> SUFFICES ASSUME Distinct(nssForAll), Distinct(input.clusters) PROVE Distinct(envs')
    BY <1>1 DEF NoDuplicates, Distinct
  <2>1. Distinct(envs)
    BY DEF LoopInv, NoDuplicates
  <2>2. CASE k \in DOMAIN nsByCluster
    <3>1. Env(k, nsByCluster[k]) \notin Elements(envs)
      BY <1>1, <1>3, NotBefore
    <3> QED
      BY <1>1, <1>2, <1>4, <2>1, <2>2, <3>1, AppendDistinct
  <2> QED
    BY <1>1, <2>1, <2>2
<1> QED
  BY <1>6, <1>8, <1>9

LEMMA ForAllStep ==
    ASSUME LoopInv, NamespaceForAll PROVE MapInv' /\ ListInv' /\ EnvsInv' /\ NoDuplicates'
<1> DEFINE k == input.clusters[c]
           e == Env(k, nssForAll[n])
           Tried(m) == {nssForAll[j] : j \in 1..(m - 1)}
<1>1. /\ InClusters /\ n \in 1..Len(nssForAll) /\ n' = n + 1
      /\ UNCHANGED <<input, a, nssForAll, nsByCluster, c, foundNS>>
      /\ nssForAll[n] = foundNS => envs' = envs
      /\ nssForAll[n] # foundNS => envs' = Append(envs, e)
  BY DEF NamespaceForAll
<1>2. /\ k \in ClusterIds /\ c \in 1..Len(input.clusters) /\ a - 1 = All /\ envs \in Seq(Envs)
      /\ n \in Nat \ {0} /\ foundNS = Found(k)
  BY <1>1, InSecondLoop
<1>3. nssForAll[n] \in Namespaces \cup {None}
  BY <1>1 DEF LoopInv, TypeOK
<1>4. e \in Envs
  BY <1>2, <1>3 DEF Env, Envs
<1>5. Elements(envs) = Before(c) \cup On(k, Mine(k) \cup (Tried(n) \ {Found(k)}))
  BY <1>1, <1>2, InSecondLoop DEF Current
<1>6. Tried(n + 1) = Tried(n) \cup {nssForAll[n]}
  <2>1. 1..((n + 1) - 1) = 1..(n - 1) \cup {n}
    BY <1>2
  <2> QED
    BY <2>1
<1> HIDE DEF Tried
<1>7. Elements(envs') = Before(c) \cup On(k, Mine(k) \cup (Tried(n + 1) \ {Found(k)}))
  <2>1. CASE nssForAll[n] = foundNS
    <3>1. Tried(n + 1) \ {Found(k)} = Tried(n) \ {Found(k)}
      BY <1>2, <1>6, <2>1
    <3> QED
      BY <1>1, <1>5, <2>1, <3>1
  <2>2. CASE nssForAll[n] # foundNS
    <3>1. Tried(n + 1) \ {Found(k)} = (Tried(n) \ {Found(k)}) \cup {nssForAll[n]}
      BY <1>2, <1>6, <2>2
    <3>2. On(k, Mine(k) \cup (Tried(n + 1) \ {Found(k)}))
             = On(k, Mine(k) \cup (Tried(n) \ {Found(k)})) \cup {e}
      BY <3>1 DEF On
    <3>3. Elements(envs') = Elements(envs) \cup {e}
      <4>1. e \in Envs /\ envs' = Append(envs, e) /\ envs \in Seq(Envs)
        BY <1>1, <1>2, <1>4, <2>2
      <4> HIDE DEF e
      <4> QED
        BY <4>1, AppendElements
    <3> QED
      BY <1>5, <3>2, <3>3
  <2> QED
    BY <2>1, <2>2
<1>8. /\ MapInv' /\ ListInv' /\ Before(c)' = Before(c) /\ All' = All
      /\ Mine(k)' = Mine(k) /\ Found(k)' = Found(k)
  BY <1>1, SameMaps DEF Before
<1>9. Current' = On(k, Mine(k) \cup (Tried(n + 1) \ {Found(k)}))
  BY <1>1, <1>2, <1>8 DEF Current, On, Env, Mine, Tried
<1>10. EnvsInv'
  <2>1. ~(a' <= All')
    BY <1>1, <1>2, <1>8, InputType DEF LoopInv, TypeOK
  <2>2. c' <= Len(input'.clusters) /\ foundNS' = Found(input.clusters[c])'
    BY <1>1, <1>2, <1>8, InputType DEF LoopInv, TypeOK, Found
  <2>3. Elements(envs)' = (Before(c) \cup Current)'
    BY <1>7, <1>8, <1>9 DEF Elements
  <2> QED
    BY <2>1, <2>2, <2>3 DEF EnvsInv
<1>11. NoDuplicates'
  <2> SUFFICES ASSUME Distinct(nssForAll), Distinct(input.clusters) PROVE Distinct(envs')
    BY <1>1 DEF NoDuplicates, Distinct
  <2>1. Distinct(envs)
    BY DEF LoopInv, NoDuplicates
  <2>2. CASE nssForAll[n] # foundNS
    <3>1. e \notin Before(c)
      BY <1>1, NotBefore
    <3>2. nssForAll[n] \notin Mine(k)
      BY <1>2, <2>2 DEF Mine, Found
    <3>3. nssForAll[n] \notin Tried(n)
      BY <1>1, <1>2 DEF Tried, Distinct
    <3>4. e \notin On(k, Mine(k) \cup (Tried(n) \ {Found(k)}))
      BY <3>2, <3>3 DEF On, Env
    <3>5. e \notin Elements(envs)
      BY <1>5, <3>1, <3>4
    <3>6. envs' = Append(envs, e)
      BY <1>1, <2>2
    <3> HIDE DEF e
    <3> QED
      BY <1>2, <1>4, <2>1, <3>5, <3>6, AppendDistinct
  <2> QED
    BY <1>1, <2>1, <2>2
<1> QED
  BY <1>8, <1>10, <1>11

LEMMA NextClusterStep ==
    ASSUME LoopInv, NextCluster PROVE MapInv' /\ ListInv' /\ EnvsInv' /\ NoDuplicates'
<1> DEFINE k == input.clusters[c]
           L == Len(nssForAll)
<1>1. /\ InClusters /\ n > Len(nssForAll) /\ c' = c + 1 /\ n' = 0
      /\ UNCHANGED <<input, a, nssForAll, nsByCluster, foundNS, envs>>
  BY DEF NextCluster
<1>2. k \in ClusterIds /\ c \in 1..Len(input.clusters) /\ a - 1 = All /\ n \in Nat /\ L \in Nat
  BY <1>1, InSecondLoop
<1>3. n = L + 1 /\ DOMAIN nssForAll = 1..L
  BY <1>1, <1>2 DEF LoopInv, TypeOK
<1>4. Current = Full(k)
  <2>1. {nssForAll[j] : j \in 1..(n - 1)} = Elements(nssForAll)
    BY <1>2, <1>3 DEF Elements
  <2>2. n # 0
    BY <1>2, <1>3
  <2> QED
    BY <2>1, <2>2 DEF Current, Full
<1>5. Before(c + 1) = Before(c) \cup Full(k)
  <2>1. 1..((c + 1) - 1) = 1..(c - 1) \cup {c}
    BY <1>2
  <2> QED
    BY <2>1 DEF Before
<1>6. MapInv' /\ ListInv' /\ All' = All /\ \A m : Before(m)' = Before(m)
  BY <1>1, SameMaps
<1>7. Elements(envs)' = (Before(c) \cup Current)'
  <2>1. Elements(envs') = Before(c + 1)
    BY <1>1, <1>4, <1>5, InSecondLoop
  <2>2. Before(c)' = Before(c + 1)
    BY <1>1 DEF Before, Full, Mine, Found, Elements, On
  <2>3. Current' = {}
    BY <1>1 DEF Current
  <2> QED
    BY <2>1, <2>2, <2>3 DEF Elements
<1>8. EnvsInv'
  BY <1>1, <1>2, <1>6, <1>7, InputType DEF EnvsInv, LoopInv, TypeOK
<1>9. NoDuplicates'
  BY <1>1 DEF LoopInv, NoDuplicates, Distinct
<1> QED
  BY <1>6, <1>8, <1>9

LEMMA NextLoops == LoopInv /\ [Next]_vars => LoopInv'
<1> SUFFICES ASSUME LoopInv, [Next]_vars PROVE LoopInv'
  OBVIOUS
<1>1. TypeOK'
  BY NextType DEF LoopInv
<1>2. MapInv' /\ ListInv' /\ EnvsInv' /\ NoDuplicates'
  <2>1. CASE UNCHANGED vars
    <3>1. UNCHANGED <<input, a, nssForAll, nsByCluster, c, n, foundNS, envs>>
      BY <2>1 DEF vars
    <3>2. MapInv' /\ ListInv' /\ All' = All
      BY <3>1, SameMaps
    <3>3. EnvsInv'
      <4>1. EnvsInv
        BY DEF LoopInv
      <4>2. Before(c)' = Before(c)
        BY <3>1 DEF Before, Full, Mine, Found, Elements, On
      <4>3. Current' = Current
        BY <3>1 DEF Current, Mine, Found, On
      <4>4. Elements(envs)' = Elements(envs) /\ Found(input.clusters[c])' = Found(input.clusters[c])
        BY <3>1 DEF Elements, Found
      <4> QED
        BY <3>1, <3>2, <4>1, <4>2, <4>3, <4>4 DEF EnvsInv
    <3>4. NoDuplicates'
      BY <3>1 DEF LoopInv, NoDuplicates, Distinct
    <3> QED
      BY <3>2, <3>3, <3>4
  <2> QED
    BY <2>1, ReadStep, OwnStep, ForAllStep, NextClusterStep DEF Next
<1> QED
  BY <1>1, <1>2 DEF LoopInv

LEMMA InitLoops == Init => LoopInv
<1> SUFFICES ASSUME Init PROVE LoopInv
  OBVIOUS
<1>1. /\ a - 1 = 0 /\ 1..(a - 1) = {} /\ c = 1 /\ 1..(c - 1) = {} /\ n = 0 /\ envs = <<>>
      /\ DOMAIN nsByCluster = {}
  BY DEF Init
<1>2. MapInv
  BY <1>1 DEF MapInv
<1>3. ListInv
  <2>1. ForAll(a - 1) = {input.namespace} \ {None}
    BY <1>1 DEF ForAll
  <2>2. Elements(nssForAll) = {input.namespace} \ {None}
    <3>1. CASE input.namespace = None
      BY <3>1 DEF Init, Elements
    <3>2. CASE input.namespace # None
      <4>1. nssForAll = <<input.namespace>>
        BY <3>2 DEF Init
      <4>2. DOMAIN nssForAll = {1} /\ nssForAll[1] = input.namespace
        BY <4>1
      <4> QED
        BY <3>2, <4>2 DEF Elements
    <3> QED
      BY <3>1, <3>2
  <2> QED
    BY <2>1, <2>2 DEF ListInv
<1>4. Elements(envs) = {}
  BY <1>1 DEF Elements
<1>5. EnvsInv
  BY <1>1, <1>4 DEF EnvsInv, Before, Current
<1>6. NoDuplicates
  BY <1>1 DEF NoDuplicates, Distinct
<1> QED
  BY <1>2, <1>3, <1>5, <1>6, InitType DEF LoopInv

THEOREM LoopInvariant == Spec => []LoopInv
BY InitLoops, NextLoops, PTL DEF Spec

----------------------------------------------------------------------------
LEMMA LastIsUnique ==
    ASSUME TypeOK, NEW k, NEW i, NEW j, LastFor(k, i, All), LastFor(k, j, All)
    PROVE  i = j
<1>1. All \in Nat
  BY InputType DEF TypeOK
<1>2. i \in 1..All /\ j \in 1..All
  BY DEF LastFor
<1>3. ~(i < j) /\ ~(j < i)
  BY <1>1, <1>2 DEF LastFor
<1> QED
  BY <1>1, <1>2, <1>3

(***************************************************************************)
(* When the call returns, the result has exactly the environments that the *)
(* project should have: the last assignment for a cluster counts, and an   *)
(* assignment for all clusters counts on each of them.                     *)
(***************************************************************************)
THEOREM EnvironmentsAreRight == Spec => []ResultCorrect
<1>1. LoopInv => ResultCorrect
  <2> SUFFICES ASSUME LoopInv, Returned
               PROVE  Elements(envs) =
                         UNION {{Env(k, ns) : ns \in Expected(k)} : k \in Elements(input.clusters)}
    BY DEF ResultCorrect
  <2> DEFINE L == Len(input.clusters)
  <2>1. /\ input \in Inputs /\ All \in Nat /\ L \in Nat /\ a - 1 = All /\ c = L + 1
        /\ DOMAIN input.clusters = 1..L
    BY InputType DEF LoopInv, TypeOK, Returned, All
  <2>2. n = 0 /\ c - 1 = L
    BY <2>1 DEF LoopInv, TypeOK, EnvsInv
  <2>3. Elements(envs) = UNION {Full(input.clusters[i]) : i \in 1..L}
    BY <2>2 DEF LoopInv, EnvsInv, Current, Before
  <2>4. ASSUME NEW k \in ClusterIds PROVE Full(k) = {Env(k, ns) : ns \in Expected(k)}
    <3>1. Elements(nssForAll) = ForAll(All)
      BY <2>1 DEF LoopInv, ListInv
    <3>2. CASE k \in DOMAIN nsByCluster
      <4>1. PICK i \in 1..All : LastFor(k, i, All) /\ nsByCluster[k] = input.assignments[i].namespace
        BY <2>1, <3>2 DEF LoopInv, MapInv
      <4>2. Own(k) = {nsByCluster[k]}
        BY <4>1, LastIsUnique DEF Own, LoopInv
      <4>3. Mine(k) = {nsByCluster[k]} /\ Found(k) = nsByCluster[k]
        BY <3>2 DEF Mine, Found
      <4>4. Expected(k) = {nsByCluster[k]} \cup ForAll(All)
        BY <4>2 DEF Expected
      <4>5. Mine(k) \cup (Elements(nssForAll) \ {Found(k)}) = Expected(k)
        BY <3>1, <4>3, <4>4
      <4> QED
        BY <4>5 DEF Full, On
    <3>3. CASE k \notin DOMAIN nsByCluster
      <4>1. \A i \in 1..All : input.assignments[i].cluster # k
        BY <2>1, <3>3 DEF LoopInv, MapInv
      <4>2. Own(k) = {}
        BY <4>1 DEF Own, LastFor
      <4>3. Mine(k) = {} /\ Found(k) = None
        BY <3>3 DEF Mine, Found
      <4>4. Mine(k) \cup (Elements(nssForAll) \ {Found(k)}) = Expected(k)
        BY <3>1, <4>2, <4>3 DEF Expected
      <4> QED
        BY <4>4 DEF Full, On
    <3> QED
      BY <3>2, <3>3
  <2>5. \A i \in 1..L : input.clusters[i] \in ClusterIds
    BY <2>1, ClusterType
  <2> HIDE DEF L
  <2>6. UNION {Full(input.clusters[i]) : i \in 1..L}
           = UNION {{Env(k, ns) : ns \in Expected(k)} : k \in Elements(input.clusters)}
    BY <2>1, <2>4, <2>5 DEF Elements
  <2> QED
    BY <2>3, <2>6
<1> QED
  BY <1>1, LoopInvariant, PTL

(***************************************************************************)
(* No environment is listed twice, if the namespaces for all clusters and  *)
(* the clusters are not.                                                   *)
(***************************************************************************)
THEOREM EnvironmentsAreDistinct == Spec => []NoDuplicates
<1>1. LoopInv => NoDuplicates
  BY DEF LoopInv
<1> QED
  BY <1>1, LoopInvariant, PTL

SameArguments(p, clusters) ==
    /\ p.namespace = input.namespace
    /\ p.assignments = input.assignments
    /\ {cl.id : cl \in clusters} = Elements(input.clusters)

AsDecided ==
    Returned => \A p, clusters :
        SameArguments(p, clusters) => Elements(envs) = Decisions!assignedKubernetesEnvs(p, clusters)

(***************************************************************************)
(* At the end of the loop over the assignments, a cluster that any of them *)
(* names has a last one.                                                   *)
(***************************************************************************)
LEMMA LastExists ==
    ASSUME LoopInv, Returned, NEW k \in ClusterIds, NEW j \in 1..All,
           input.assignments[j].cluster = k
    PROVE  \E i \in 1..All : LastFor(k, i, All)
<1>1. input \in Inputs /\ a \in 1..(All + 1)
  BY DEF LoopInv, TypeOK
<1>2. All \in Nat /\ a > All
  BY <1>1, InputType DEF Returned, All
<1>3. a - 1 = All
  BY <1>1, <1>2
<1> QED
  BY <1>2, <1>3 DEF LoopInv, MapInv

LEMMA ExpectedIsDecided ==
    ASSUME LoopInv, Returned, NEW p, NEW clusters, SameArguments(p, clusters)
    PROVE  Decisions!assignedKubernetesEnvs(p, clusters)
              = UNION {{Env(k, ns) : ns \in Expected(k)} : k \in Elements(input.clusters)}
<1> DEFINE Naming(k) == {i \in DOMAIN p.assignments : p.assignments[i].cluster = k}
           ForEach == ({p.namespace} \ {None}) \cup {p.assignments[i].namespace : i \in Naming(None)}
           LastOf(is) == CHOOSE i \in is : \A j \in is : j <= i
           Spaces(k) == IF Naming(k) = {} THEN ForEach \ {None}
                        ELSE ForEach \cup {p.assignments[LastOf(Naming(k))].namespace}
<1>1. /\ input \in Inputs /\ All \in Nat /\ p.assignments = input.assignments
      /\ p.namespace = input.namespace /\ DOMAIN input.assignments = 1..All
  BY InputType DEF LoopInv, TypeOK, SameArguments, All
<1>2. \A k : Naming(k) = {i \in 1..All : input.assignments[i].cluster = k}
  BY <1>1
<1>3. ForEach = ForAll(All)
  BY <1>1, <1>2 DEF ForAll
<1>4. ASSUME NEW k \in ClusterIds PROVE Spaces(k) = Expected(k)
  <2>1. CASE Naming(k) = {}
    <3>1. Own(k) = {}
      BY <1>2, <2>1 DEF Own, LastFor
    <3> QED
      BY <1>3, <2>1, <3>1 DEF Expected
  <2>2. CASE Naming(k) # {}
    <3>1. PICK i \in 1..All : LastFor(k, i, All)
      BY <1>2, <2>2, LastExists
    <3>2. i \in Naming(k) /\ \A j \in Naming(k) : j <= i
      BY <1>1, <1>2, <3>1 DEF LastFor
    <3>3. LastOf(Naming(k)) \in Naming(k) /\ \A j \in Naming(k) : j <= LastOf(Naming(k))
      BY <3>2
    <3> HIDE DEF LastOf
    <3>4. LastOf(Naming(k)) = i
      <4> DEFINE l == LastOf(Naming(k))
      <4>1. l \in 1..All /\ l <= i /\ i <= l
        BY <1>2, <3>2, <3>3
      <4> HIDE DEF l
      <4>2. l = i
        BY <1>1, <4>1
      <4> QED
        BY <4>2 DEF l
    <3>5. Own(k) = {input.assignments[i].namespace}
      BY <3>1, LastIsUnique DEF Own, LoopInv
    <3>6. Own(k) # {} /\ Spaces(k) = ForAll(All) \cup Own(k)
      BY <1>1, <1>3, <2>2, <3>4, <3>5
    <3> QED
      BY <3>6 DEF Expected
  <2> QED
    BY <2>1, <2>2
<1>5. Decisions!assignedKubernetesEnvs(p, clusters)
          = UNION {{[cluster |-> cl.id, namespace |-> ns] : ns \in Spaces(cl.id)} : cl \in clusters}
  BY DEF Decisions!assignedKubernetesEnvs
<1> HIDE DEF Spaces
<1>6. {cl.id : cl \in clusters} = Elements(input.clusters) /\ Elements(input.clusters) \subseteq ClusterIds
  <2>1. Elements(input.clusters) \subseteq ClusterIds
    BY <1>1, InputType, ClusterType DEF Elements
  <2> QED
    BY <2>1 DEF SameArguments
<1>7. \A cl \in clusters : {[cluster |-> cl.id, namespace |-> ns] : ns \in Spaces(cl.id)}
                             = {Env(cl.id, ns) : ns \in Expected(cl.id)}
  BY <1>4, <1>6 DEF Env
<1>8. Decisions!assignedKubernetesEnvs(p, clusters)
          = UNION {{Env(cl.id, ns) : ns \in Expected(cl.id)} : cl \in clusters}
  BY <1>5, <1>7
<1>9. UNION {{Env(cl.id, ns) : ns \in Expected(cl.id)} : cl \in clusters}
          = UNION {{Env(k, ns) : ns \in Expected(k)} : k \in {cl.id : cl \in clusters}}
  <2> DEFINE F(k) == {Env(k, ns) : ns \in Expected(k)}
  <2> HIDE DEF F
  <2>1. UNION {F(cl.id) : cl \in clusters} = UNION {F(k) : k \in {cl.id : cl \in clusters}}
    OBVIOUS
  <2> QED
    BY <2>1 DEF F
<1> QED
  BY <1>6, <1>8, <1>9

(***************************************************************************)
(* The loops compute what the request handlers are modelled with: the set  *)
(* of environments that the operator of Authorization states in one line.  *)
(***************************************************************************)
THEOREM LoopsComputeDecision == Spec => []AsDecided
<1>1. LoopInv /\ ResultCorrect => AsDecided
  BY ExpectedIsDecided DEF AsDecided, ResultCorrect
<1> QED
  BY <1>1, LoopInvariant, EnvironmentsAreRight, PTL
=============================================================================

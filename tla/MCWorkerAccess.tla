--------------------------- MODULE MCWorkerAccess ---------------------------
(***************************************************************************)
(* A key that goes from one cluster to another one of another tenant, the  *)
(* default key, and a role without an organization that makes every update *)
(* fail as long as it is there.                                            *)
(***************************************************************************)
EXTENDS WorkerAccess

Cluster(key, i, t) == [registrationKey |-> key, id |-> i, tenant |-> t]

Cluster1 == Cluster("r1", "c1", "t1")
Cluster2 == Cluster("r1", "c2", "t2")
Default  == Cluster("default", "c0", "t1")
Dangling == [user |-> "u1", org |-> "o1", role |-> "reader"]

MCRows ==
    [NoRows EXCEPT !["clusters"] = {Cluster1, Cluster2, Default}, !["orgUsers"] = {Dangling}]

MCDirs ==
    { [NoRows EXCEPT !["clusters"] = {Cluster1}],
      [NoRows EXCEPT !["clusters"] = {Cluster1, Default}, !["orgUsers"] = {Dangling}] }
=============================================================================

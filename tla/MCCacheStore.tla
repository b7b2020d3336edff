--------------------------- MODULE MCCacheStore ----------------------------
(***************************************************************************)
(* A small directory for the model checker: one user who may have roles in *)
(* two organizations of two tenants, an organization that may move to the  *)
(* other tenant, one project that may move between the organizations.      *)
(***************************************************************************)
EXTENDS CacheStore

Key(p)   == [secret |-> "s1", id |-> "k1", user |-> "u1", org |-> "o1", project |-> p,
             tenant |-> "t1", orgRole |-> "reader", projectRole |-> "member"]
Cluster1 == [registrationKey |-> "r1", id |-> "c1", tenant |-> "t1"]
Org(i, t)     == [id |-> i, tenant |-> t]
OrgUser(o)    == [user |-> "u1", org |-> o, role |-> "reader"]
Project(o)    == [id |-> "p1", org |-> o, isDefault |-> FALSE, envs |-> {}]
ProjectUser   == [user |-> "u1", project |-> "p1", org |-> "o1", role |-> "member"]

MCRows ==
    [apiKeys      |-> {Key("p1")},
     clusters     |-> {Cluster1},
     orgs         |-> {Org("o1", "t1"), Org("o2", "t2"), Org("o2", "t1")},
     orgUsers     |-> {OrgUser("o1"), OrgUser("o2")},
     projects     |-> {Project("o1"), Project("o2")},
     projectUsers |-> {ProjectUser}]

Full ==
    [apiKeys      |-> {Key("p1")},
     clusters     |-> {Cluster1},
     orgs         |-> {Org("o1", "t1"), Org("o2", "t1")},
     orgUsers     |-> {OrgUser("o1"), OrgUser("o2")},
     projects     |-> {Project("o1")},
     projectUsers |-> {ProjectUser}]

\* Two organizations of different tenants, nobody in them.
TwoTenants ==
    [NoRows EXCEPT !["orgs"] = {Org("o1", "t1"), Org("o2", "t2")},
                   !["orgUsers"] = {OrgUser("o1")}]

MCInitialDirs == {NoRows, Full, TwoTenants}

\* A role in an organization that does not exist: updates fail until the
\* role is deleted or the organization created.
Dangling == [NoRows EXCEPT !["orgUsers"] = {OrgUser("o1")}]

MCLiveDirs == {Full, Dangling}
=============================================================================

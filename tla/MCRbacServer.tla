---------------------------- MODULE MCRbacServer ---------------------------
(***************************************************************************)
(* Eight directories, chosen so that one user loses and gains roles, moves *)
(* to another tenant and back, and an organization disappears under a      *)
(* project; the cache may jump from any of them to any other at any time.  *)
(***************************************************************************)
EXTENDS RbacServer

Orgs == {[id |-> "o1", tenant |-> "t1"], [id |-> "o2", tenant |-> "t1"],
         [id |-> "o3", tenant |-> "t2"]}

Clusters == {[registrationKey |-> "r1", id |-> "c1", tenant |-> "t1"],
             [registrationKey |-> "r2", id |-> "c2", tenant |-> "t2"]}

Assignments == <<[cluster |-> None, namespace |-> "n2"], [cluster |-> "c1", namespace |-> "n3"]>>

P1 == [id |-> "p1", org |-> "o1", isDefault |-> TRUE, namespace |-> "n1",
       assignments |-> Assignments]
P2 == [id |-> "p2", org |-> "o2", isDefault |-> FALSE, namespace |-> "n1", assignments |-> <<>>]
P3 == [id |-> "p3", org |-> "o3", isDefault |-> FALSE, namespace |-> None,
       assignments |-> Assignments]

Key == [secret |-> "s1", id |-> "k1", user |-> "u1", org |-> "o1", project |-> "p1",
        tenant |-> "t1", orgRole |-> "reader", projectRole |-> "owner"]

OrgUser(o, role) == [user |-> "u1", org |-> o, role |-> role]
ProjectUser(p, o, role) == [user |-> "u1", project |-> p, org |-> o, role |-> role]

Directory(keys, orgs, orgUsers, projectUsers) ==
    [apiKeys |-> keys, clusters |-> Clusters, orgs |-> orgs, orgUsers |-> orgUsers,
     projects |-> {P1, P2, P3}, projectUsers |-> projectUsers]

Directories ==
    { Directory({Key}, Orgs, {OrgUser("o1", "reader")}, {ProjectUser("p1", "o1", "member")}),
      Directory({}, Orgs, {}, {}),
      Directory({Key}, Orgs, {OrgUser("o1", "reader"), OrgUser("o2", "reader")},
                {ProjectUser("p2", "o2", "owner")}),
      Directory({}, Orgs, {OrgUser("o3", "owner")}, {ProjectUser("p3", "o3", "owner")}),
      \* a project role listed under another organization than the project's
      Directory({}, Orgs, {OrgUser("o3", "owner")}, {ProjectUser("p3", "o1", "owner")}),
      \* o1 is gone, its project and the key are still there
      Directory({Key}, {o \in Orgs : o.id # "o1"}, {OrgUser("o2", "tenantSystem")},
                {ProjectUser("p1", "o1", "owner")}),
      \* roles in two tenants: no snapshot comes of this one
      Directory({}, Orgs, {OrgUser("o1", "owner"), OrgUser("o3", "owner")}, {}),
      \* no projects
      [Directory({Key}, Orgs, {OrgUser("o1", "owner")}, {}) EXCEPT !.projects = {}] }

MCSnapshots == {Build(m) : m \in {d \in Directories : ~BuildError(d)}}

\* A user with a role in a project, but none in the project's organization.
MCProjectRoleOnly ==
    {Build(Directory({}, Orgs, {OrgUser("o2", "reader")}, {ProjectUser("p1", "o1", "owner")}))}

Request(token, resource, org, project) ==
    [token |-> token, resource |-> resource, capability |-> <<"read">>, org |-> org,
     project |-> project]

Model == <<"api", "model">>

MCRequests ==
    { Request("s1", Model, None, None),
      Request("jwt", Model, None, None),
      Request("fresh", Model, None, None),
      Request("fresh", Model, "o1", None),
      Request("fresh", Model, None, "p1"),
      Request("jwt", Model, "o3", "p3"),
      Request("jwt", Model, "o1", "p3"),
      Request("jwt", <<"api", "organizations">>, None, None),
      Request("noEmail", Model, None, None),
      Request(None, Model, None, None) }

MCWorkerTokens == {"r1", "r3", None}

MCRoleScopes ==
    [organizationOwner |-> {Model \o <<"read">>},
     projectOwner      |-> {Model \o <<"read">>},
     projectMember     |-> {Model \o <<"write">>}]

Inactive == [err |-> FALSE, active |-> FALSE, email |-> None]
Failed   == [err |-> TRUE, active |-> FALSE, email |-> None]
User     == [err |-> FALSE, active |-> TRUE, email |-> "U1@example.com"]

\* One of the user's tokens may have expired; an API key that was deleted is no token.
MCIntrospections ==
    [jwt |-> {User, Inactive}, fresh |-> {User}, s1 |-> {Inactive}, noEmail |-> {Failed}]

MCActive == [jwt |-> {User}]

MCProjectRequests == {Request("jwt", Model, None, "p1")}

MCNormalize == [e \in {"U1@example.com"} |-> "u1"]
=============================================================================

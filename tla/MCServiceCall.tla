--------------------------- MODULE MCServiceCall ---------------------------
(***************************************************************************)
(* A user that is the owner of one project and a member of the default     *)
(* one, loses all roles and gains others; an API key of another user that  *)
(* comes and goes.  One call has a second value, the key, in its           *)
(* authorization header.                                                   *)
(***************************************************************************)
EXTENDS ServiceCall, MCRbacServer

OtherKey == [Key EXCEPT !.user = "u2"]

MCCallDirectories ==
    { Directory({OtherKey}, Orgs, {OrgUser("o1", "reader"), OrgUser("o2", "reader")},
                {ProjectUser("p1", "o1", "member"), ProjectUser("p2", "o2", "owner")}),
      Directory({}, Orgs, {OrgUser("o2", "reader")}, {ProjectUser("p2", "o2", "member")}),
      Directory({OtherKey}, Orgs, {OrgUser("o1", "owner")}, {}) }

MCCallSnapshots == {Build(m) : m \in MCCallDirectories}

Get    == [name |-> "GetModel", verb |-> "Get"]
Create == [name |-> "CreateModel", verb |-> "Create"]
Health == [name |-> "Check", verb |-> "Check"]
Org    == [name |-> "ListOrganizations", verb |-> "List"]
HTTPGet  == [name |-> "/v1/models", verb |-> "GET"]
HTTPPost == [name |-> "/v1/models", verb |-> "POST"]

MCExclude == {Health.name}

MCInner == {Get}

WithHeaders(token, org, project) ==
    [authorization |-> token, org |-> org, project |-> project]

MCCall(kind, method, headers) == [kind |-> kind, method |-> method, headers |-> headers]

User1 == WithHeaders(<<"jwt">>, <<>>, <<>>)

MCCalls ==
    { MCCall("grpc", Create, User1),
      MCCall("grpc", Health, User1),
      MCCall("grpc", Org, User1),
      MCCall("gateway", Get, WithHeaders(<<"jwt">>, <<>>, <<"p2">>)),
      MCCall("gateway", Get, WithHeaders(<<"s1">>, <<"o1">>, <<"p2">>)),
      MCCall("http", HTTPGet, WithHeaders(<<"jwt", "s1">>, <<"o2">>, <<>>)),
      MCCall("http", HTTPPost, WithHeaders(<<"noEmail">>, <<>>, <<None>>)),
      MCCall("http", HTTPGet, WithHeaders(<<>>, <<>>, <<"p2">>)) }

GRPCResources ==
    [m \in {Get.name, Create.name, Org.name} |->
        IF m = Org.name THEN <<"api", "organizations">> ELSE Model]

HTTPResources == [m \in {HTTPGet.name} |-> Model]

Static   == [static |-> Model, grpc |-> Nil, http |-> Nil]
GRPCOnly == [static |-> Nil, grpc |-> GRPCResources, http |-> Nil]
HTTPOnly == [static |-> Nil, grpc |-> Nil, http |-> HTTPResources]
Nothing  == [static |-> Nil, grpc |-> Nil, http |-> Nil]

MCConfigs == {Static, GRPCOnly, HTTPOnly, Nothing}
=============================================================================

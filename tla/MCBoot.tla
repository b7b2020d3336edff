------------------------------- MODULE MCBoot ------------------------------
(***************************************************************************)
(* The process with at most two RPCs in progress: one more than it takes   *)
(* for one to end while another is still going on.  The default            *)
(* configuration, one with a single port, and one file for each check of   *)
(* Validate that fails.                                                    *)
(***************************************************************************)
EXTENDS Boot

MCMaxRPCs == 2

Default ==
    [internalGRPCPort |-> 8082, monitoringPort |-> 8083, gracefulShutdownDelay |-> 0,
     jwksURL |-> "http://dex-server-http:5556/v1/dex/keys", syncInterval |-> 10,
     userManagerAddr |-> "user-manager-server-internal-grpc:8082",
     clusterManagerAddr |-> "cluster-manager-server-internal-grpc:8083"]

MCConfigs ==
    { Default,
      [Default EXCEPT !.monitoringPort = Default.internalGRPCPort],
      [Default EXCEPT !.internalGRPCPort = 0],
      [Default EXCEPT !.monitoringPort = -1],
      [Default EXCEPT !.gracefulShutdownDelay = -1],
      [Default EXCEPT !.jwksURL = ""],
      [Default EXCEPT !.syncInterval = 0],
      [Default EXCEPT !.userManagerAddr = ""],
      [Default EXCEPT !.clusterManagerAddr = ""] }
=============================================================================

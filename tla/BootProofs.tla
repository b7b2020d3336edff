----------------------------- MODULE BootProofs ----------------------------
(***************************************************************************)
(* Proofs about the life of the process (Boot) for every set of            *)
(* configuration files and any number of RPCs.                             *)
(***************************************************************************)
EXTENDS Boot, TLAPS

(***************************************************************************)
(* How far the main goroutine has come tells what the others may have      *)
(* done: the configuration is valid once run has been called, the cache is *)
(* synced once WaitForSync has returned, there is no server before that,   *)
(* no RPC without a server, and no server that serves once GracefulStop    *)
(* has begun.                                                              *)
(***************************************************************************)
Early == {"validate", "waitForSync", "newValidator", "startServer"}

Late == {"newValidator", "startServer", "startMetrics", "enterSelect", "select", "sleep", "draining"}

BootInv ==
    /\ TypeOK
    /\ Alive /\ main # "validate" => Valid(config)
    /\ main \in Late => synced
    /\ main \in Early => srv = "none"
    /\ srv # "none" => synced
    /\ rpcs > 0 => srv # "none"
    /\ main = "draining" => srv = "stopped"

LEMMA InitInv == Init => BootInv /\ SignalDrains /\ TickerNeverPanics
<1> SUFFICES ASSUME Init PROVE BootInv /\ SignalDrains /\ TickerNeverPanics
  OBVIOUS
<1>1. rpcs \in 0..MaxRPCs
  BY BootAssumption DEF Init
<1>2. TypeOK
  BY <1>1 DEF Init, TypeOK
<1> QED
  BY <1>2 DEF Init, BootInv, Early, Late, SignalDrains, TickerNeverPanics

(***************************************************************************)
(* Every step keeps the invariant, and from it the two properties of a     *)
(* process that has ended: none of its goroutines takes a step any more.   *)
(***************************************************************************)
Safe == BootInv /\ SignalDrains /\ TickerNeverPanics

LEMMA MainInv == Safe /\ MainStep => Safe'
<1> SUFFICES ASSUME Safe, MainStep PROVE Safe'
  OBVIOUS
<1> USE DEF Safe, BootInv, TypeOK, Alive, Ended, Early, Late, SignalDrains, TickerNeverPanics
<1>1. CASE Validate
  BY <1>1 DEF Validate
<1>2. CASE WaitForSync
  BY <1>2 DEF WaitForSync
<1>3. CASE StartServer
  BY <1>3 DEF StartServer
<1>4. CASE StartMetrics
  BY <1>4 DEF StartMetrics
<1>5. CASE EnterSelect
  BY <1>5 DEF EnterSelect
<1>6. CASE ReceiveError
  BY <1>6 DEF ReceiveError
<1>7. CASE ReceiveSignal
  BY <1>7 DEF ReceiveSignal
<1>8. CASE GracefulStop
  BY <1>8 DEF GracefulStop
<1>9. CASE Drained
  BY <1>9 DEF Drained
<1> QED
  BY <1>1, <1>2, <1>3, <1>4, <1>5, <1>6, <1>7, <1>8, <1>9 DEF MainStep

LEMMA NextInv == Safe /\ [Next]_vars => Safe'
<1> SUFFICES ASSUME Safe, [Next]_vars PROVE Safe'
  OBVIOUS
<1> USE BootAssumption
     DEF Safe, BootInv, TypeOK, Alive, Ended, Early, Late, SignalDrains, TickerNeverPanics
<1>1. CASE MainStep
  BY <1>1, MainInv
<1>2. CASE Signal
  BY <1>2 DEF Signal
<1>3. CASE UpstreamChange
  BY <1>3 DEF UpstreamChange
<1>4. CASE NewTicker
  <2>1. config.syncInterval > 0
    BY <1>4 DEF NewTicker, Syncing, Valid, CacheConfigValid
  <2> QED
    BY <1>4, <2>1 DEF NewTicker, Syncing
<1>5. CASE InitialSync
  BY <1>5 DEF InitialSync, Syncing
<1>6. CASE AssignServer
  BY <1>6 DEF AssignServer
<1>7. CASE ListenAndServe
  BY <1>7 DEF ListenAndServe, Listen
<1>8. CASE MetricsServe
  BY <1>8 DEF MetricsServe, Listen
<1>9. CASE BeginRPC
  BY <1>9 DEF BeginRPC
<1>10. CASE EndRPC
  BY <1>10 DEF EndRPC
<1>11. CASE NewValidator
  BY <1>11 DEF NewValidator
<1>12. CASE ServerFails
  BY <1>12 DEF ServerFails
<1>13. CASE MetricsFails
  BY <1>13 DEF MetricsFails
<1>14. CASE UNCHANGED vars
  BY <1>14 DEF vars
<1> QED
  BY <1>1, <1>2, <1>3, <1>4, <1>5, <1>6, <1>7, <1>8, <1>9, <1>10, <1>11, <1>12, <1>13, <1>14
     DEF Next

(***************************************************************************)
(* What the main goroutine has passed stays true for the other goroutines: *)
(* the invariant from which the properties follow.                         *)
(***************************************************************************)
THEOREM ProcessInvariant == Spec => []Safe
<1>1. Init => Safe
  BY InitInv DEF Safe
<1> QED
  BY <1>1, NextInv, PTL DEF Spec

(***************************************************************************)
(* Every reachable state of the process is well typed.                     *)
(***************************************************************************)
THEOREM ProcessType == Spec => []TypeOK
<1>1. Safe => TypeOK
  BY DEF Safe, BootInv
<1> QED
  BY <1>1, ProcessInvariant, PTL

(***************************************************************************)
(* No RPC is served from a cache that was never filled.                    *)
(***************************************************************************)
THEOREM SyncedBeforeServing == Spec => []ServesOnlySynced
<1>1. Safe => ServesOnlySynced
  BY DEF Safe, BootInv, ServesOnlySynced
<1> QED
  BY <1>1, ProcessInvariant, PTL

(***************************************************************************)
(* A shutdown by signal cuts off no RPC.                                   *)
(***************************************************************************)
THEOREM ShutdownDrains == Spec => []SignalDrains
<1>1. Safe => SignalDrains
  BY DEF Safe
<1> QED
  BY <1>1, ProcessInvariant, PTL

(***************************************************************************)
(* No configuration that Validate accepts makes the ticker of Store.Sync   *)
(* panic.                                                                  *)
(***************************************************************************)
THEOREM TickerSafe == Spec => []TickerNeverPanics
<1>1. Safe => TickerNeverPanics
  BY DEF Safe
<1> QED
  BY <1>1, ProcessInvariant, PTL
=============================================================================

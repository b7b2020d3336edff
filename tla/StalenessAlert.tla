--------------------------- MODULE StalenessAlert ---------------------------
(***************************************************************************)
(* From a stale cache to an alert: the monitor (server/internal/           *)
(* monitoring/monitoring.go) sets a gauge to the time since the last       *)
(* successful sync, once per interval; Prometheus (external) scrapes the   *)
(* gauge (deployments/rbac-server/templates/servicemonitor.yaml) and       *)
(* evaluates the rule of prometheusrule.yaml, next to it, over what it has *)
(* scraped.  The rule fires when the value has been above a threshold for  *)
(* some time.                                                              *)
(*                                                                         *)
(* Time is counted in units.  It does not pass while the ticker of the     *)
(* monitor, a scrape or an evaluation is due.  A process that has crashed  *)
(* exports nothing, and neither does one that waits for its first sync.    *)
(***************************************************************************)
EXTENDS Integers

CONSTANTS
    Sample,      \* the interval of the monitor
    Scrape,      \* the interval of the scrapes
    Evaluation,  \* the interval of the evaluations of the rule
    Threshold,   \* expr: gauge > Threshold
    For,         \* for: the time for which expr must have been true
    MaxAge       \* bound: time stops where the cache is that old

VARIABLES
    synced,      \* the process has synced its cache
    running,     \* MetricsMonitor.Run is in its loop
    age,         \* time since lastSuccessfulSyncTime
    gauge,       \* the exported value
    sampleClock, \* time since the last tick of the monitor
    scraped,     \* the value of the last scrape, or Absent
    scrapeClock, \* time since the last scrape
    evalClock,   \* time since the last evaluation
    pending,     \* time for which expr has been true, up to For; or Absent
    firing,      \* the alert
    (* History variable, read by the properties only. *)
    up           \* time since the monitor was started, up to Grace

processVars == <<synced, running, age, gauge, sampleClock, up>>
scrapeVars  == <<scraped, scrapeClock>>
alertVars   == <<evalClock, pending, firing>>
vars        == <<processVars, scrapeVars, alertVars>>

ASSUME AlertAssumption ==
    /\ {Sample, Scrape, Evaluation, For} \subseteq Nat \ {0}
    /\ {Threshold, MaxAge} \subseteq Nat
    /\ Threshold >= Sample + Scrape + Evaluation

Absent == -1

(***************************************************************************)
(* The delay that sampling, scraping and evaluation may add to that of the *)
(* rule.                                                                   *)
(***************************************************************************)
Grace == For + Sample + Scrape + 2 * Evaluation

UpTo(bound, n) == IF n < bound THEN n + 1 ELSE n

----------------------------------------------------------------------------
Init ==
    /\ synced = FALSE
    /\ running = FALSE
    /\ age = 0
    /\ gauge = Absent
    /\ sampleClock = 0
    /\ scraped = Absent
    /\ scrapeClock = 0
    /\ evalClock = 0
    /\ pending = Absent
    /\ firing = FALSE
    /\ up = 0

Tick ==
    /\ age < MaxAge
    /\ running => sampleClock < Sample
    /\ scrapeClock < Scrape
    /\ evalClock < Evaluation
    /\ age' = age + 1
    /\ sampleClock' = IF running THEN sampleClock + 1 ELSE sampleClock
    /\ scrapeClock' = scrapeClock + 1
    /\ evalClock' = evalClock + 1
    /\ pending' = IF pending = Absent THEN Absent ELSE UpTo(For, pending)
    /\ up' = UpTo(Grace, up)
    /\ UNCHANGED <<synced, running, gauge, scraped, firing>>

(***************************************************************************)
(* updateCache succeeds and stamps the time.                               *)
(***************************************************************************)
Sync ==
    /\ synced' = TRUE
    /\ age' = 0
    /\ UNCHANGED <<running, gauge, sampleClock, up, scrapeVars, alertVars>>

\* Faulty variant: the gauge is not registered.
NewMetricsMonitorUnregistered ==
    /\ synced
    /\ ~running
    /\ running' = TRUE
    /\ sampleClock' = 0
    /\ up' = 0
    /\ UNCHANGED <<synced, age, gauge, scrapeVars, alertVars>>

(***************************************************************************)
(* The gauge is registered with the value zero; the loop starts.  This     *)
(* comes some time after the first sync (run.go).                          *)
(***************************************************************************)
NewMetricsMonitor ==
    /\ synced
    /\ ~running
    /\ running' = TRUE
    /\ gauge' = 0
    /\ sampleClock' = 0
    /\ up' = 0
    /\ UNCHANGED <<synced, age, scrapeVars, alertVars>>

\* Faulty variant: a timer instead of a ticker.
RunOnce ==
    /\ running
    /\ sampleClock = Sample
    /\ gauge' = IF up = Sample THEN age ELSE gauge
    /\ sampleClock' = 0
    /\ UNCHANGED <<synced, running, age, up, scrapeVars, alertVars>>

\* Faulty variant: Add instead of Set.
RunAdds ==
    /\ running
    /\ sampleClock = Sample
    /\ gauge' = gauge + age
    /\ sampleClock' = 0
    /\ UNCHANGED <<synced, running, age, up, scrapeVars, alertVars>>

(***************************************************************************)
(* A tick in the loop of the monitor.                                      *)
(***************************************************************************)
Run ==
    /\ running
    /\ sampleClock = Sample
    /\ gauge' = age
    /\ sampleClock' = 0
    /\ UNCHANGED <<synced, running, age, up, scrapeVars, alertVars>>

(***************************************************************************)
(* The process ends and another one begins, with an empty cache.           *)
(***************************************************************************)
Restart ==
    /\ synced' = FALSE
    /\ running' = FALSE
    /\ gauge' = Absent
    /\ UNCHANGED <<age, sampleClock, up, scrapeVars, alertVars>>

(***************************************************************************)
(* Prometheus scrapes the endpoint of the ServiceMonitor.  The scrape of a *)
(* process that is gone marks the series as stale: it has no value.        *)
(***************************************************************************)
ScrapeGauge ==
    /\ scrapeClock = Scrape
    /\ scraped' = gauge
    /\ scrapeClock' = 0
    /\ UNCHANGED <<processVars, alertVars>>

(***************************************************************************)
(* Prometheus evaluates the rule.  No value counts like a small one.       *)
(***************************************************************************)
Evaluate ==
    /\ evalClock = Evaluation
    /\ evalClock' = 0
    /\ pending' = IF scraped <= Threshold THEN Absent ELSE IF pending = Absent THEN 0 ELSE pending
    /\ firing' = (pending' = For)
    /\ UNCHANGED <<processVars, scrapeVars>>

Next == Tick \/ Sync \/ NewMetricsMonitor \/ Run \/ Restart \/ ScrapeGauge \/ Evaluate

Spec == Init /\ [][Next]_vars

----------------------------------------------------------------------------
(* Properties.                                                             *)

TypeOK ==
    /\ {synced, running, firing} \subseteq BOOLEAN
    /\ age \in 0..MaxAge
    /\ gauge \in IF running THEN 0..MaxAge ELSE {Absent}
    /\ sampleClock \in 0..Sample
    /\ scraped \in 0..MaxAge \cup {Absent}
    /\ scrapeClock \in 0..Scrape
    /\ evalClock \in 0..Evaluation
    /\ pending \in 0..For \cup {Absent}
    /\ up \in 0..Grace

(***************************************************************************)
(* A cache that stays stale raises the alert.  The annotation of the rule  *)
(* says "more than 5 minutes ago"; it takes the threshold and the time of  *)
(* "for" on top of it, and up to one sample, one scrape and two            *)
(* evaluations more, and a process that has been up that long.             *)
(***************************************************************************)
StaleFires == running /\ age >= Threshold + Grace /\ up = Grace => firing

(***************************************************************************)
(* The alert fires only if the last sync really was that long ago, or so   *)
(* short ago that it has not been sampled, scraped and evaluated yet.  So  *)
(* one sync resets everything: short disturbances do not add up.           *)
(***************************************************************************)
NoFalseAlarm == firing => age > Threshold + For \/ age <= Sample + Scrape + Evaluation
=============================================================================

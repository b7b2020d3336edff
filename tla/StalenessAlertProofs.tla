------------------------ MODULE StalenessAlertProofs ------------------------
(***************************************************************************)
(* Proofs about the alert on a stale cache (StalenessAlert) for all        *)
(* intervals, thresholds and bounds.                                       *)
(***************************************************************************)
EXTENDS StalenessAlert, TLAPS

LEMMA Constants ==
    /\ Sample \in Nat \ {0} /\ Scrape \in Nat \ {0} /\ Evaluation \in Nat \ {0}
    /\ For \in Nat \ {0} /\ Threshold \in Nat /\ MaxAge \in Nat
    /\ Threshold >= Sample + Scrape + Evaluation
BY AlertAssumption DEF AlertAssumption

LEMMA InitType == Init => TypeOK
<1> SUFFICES ASSUME Init PROVE TypeOK
  OBVIOUS
<1>1. /\ age \in 0..MaxAge /\ up \in 0..Grace
      /\ sampleClock \in 0..Sample /\ scrapeClock \in 0..Scrape /\ evalClock \in 0..Evaluation
  BY Constants DEF Init, Grace
<1> QED
  BY <1>1 DEF Init, TypeOK

LEMMA NextType == TypeOK /\ [Next]_vars => TypeOK'
<1> SUFFICES ASSUME TypeOK, [Next]_vars PROVE TypeOK'
  OBVIOUS
<1> USE Constants DEF TypeOK, Absent, Grace, processVars, scrapeVars, alertVars
<1>1. CASE Tick
  BY <1>1 DEF Tick, UpTo
<1>2. CASE Sync
  BY <1>2 DEF Sync
<1>3. CASE NewMetricsMonitor
  BY <1>3 DEF NewMetricsMonitor
<1>4. CASE Run
  BY <1>4 DEF Run
<1>5. CASE Restart
  BY <1>5 DEF Restart
<1>6. CASE Evaluate
  BY <1>6 DEF Evaluate
<1>7. CASE ScrapeGauge
  BY <1>7 DEF ScrapeGauge
<1>8. CASE UNCHANGED vars
  BY <1>8 DEF vars
<1> QED
  BY <1>1, <1>2, <1>3, <1>4, <1>5, <1>6, <1>7, <1>8 DEF Next

(***************************************************************************)
(* Every reachable state is well typed; in particular a process exports a  *)
(* value exactly while its monitor runs.                                   *)
(***************************************************************************)
THEOREM AlertType == Spec => []TypeOK
BY InitType, NextType, PTL DEF Spec

----------------------------------------------------------------------------
(***************************************************************************)
(* The gauge is the age at the last sample, unless there was no sample yet *)
(* or the cache has been synced since.                                     *)
(***************************************************************************)
GaugeInv ==
    running => \/ up = sampleClock /\ gauge = 0
               \/ gauge + sampleClock = age
               \/ age <= sampleClock

(***************************************************************************)
(* The scraped value of a cache that has been stale long enough tells so,  *)
(* and if it tells so, the cache is stale or was synced since the gauge    *)
(* was last sampled and scraped.                                           *)
(***************************************************************************)
ScrapedStale ==
    running /\ age > Threshold + Sample + scrapeClock /\ up > Sample + scrapeClock
    => scraped > Threshold

ScrapedHonest == scraped > Threshold => age > Threshold \/ age <= Sample + scrapeClock

ScrapeInv == ScrapedStale /\ ScrapedHonest

(***************************************************************************)
(* A stale cache is sampled, scraped, evaluated and then pending long      *)
(* enough.                                                                 *)
(***************************************************************************)
Noticed ==
    running /\ age > Threshold + Sample + Scrape + evalClock /\ up > Sample + Scrape + evalClock
    => pending # Absent

Waiting ==
    running /\ pending # Absent =>
        \/ pending = For
        \/ pending + Threshold + Sample + Scrape + Evaluation >= age
        \/ pending + Sample + Scrape + Evaluation >= up

Raised ==
    /\ running
    /\ age >= Threshold + For + Sample + Scrape + Evaluation + evalClock
    /\ up >= For + Sample + Scrape + Evaluation + evalClock
    => firing

(***************************************************************************)
(* Conversely expr is not true for longer than the cache is stale, but for *)
(* a sync that the next sample, scrape and evaluation will notice.         *)
(***************************************************************************)
Unnoticed == age <= Sample + Scrape + evalClock

PendingSound == pending # Absent => Unnoticed \/ age > Threshold + pending

FiringSound == firing => Unnoticed \/ age > Threshold + For

AlertInv ==
    TypeOK /\ GaugeInv /\ ScrapeInv /\ Noticed /\ Waiting /\ Raised /\ PendingSound /\ FiringSound

LEMMA GaugeStep == TypeOK /\ GaugeInv /\ [Next]_vars => GaugeInv'
<1> SUFFICES ASSUME TypeOK, GaugeInv, [Next]_vars PROVE GaugeInv'
  OBVIOUS
<1> USE Constants DEF TypeOK, GaugeInv, Absent, Grace, processVars, scrapeVars, alertVars
<1>1. CASE Tick
  BY <1>1 DEF Tick, UpTo
<1>2. CASE Sync
  BY <1>2 DEF Sync
<1>3. CASE NewMetricsMonitor
  BY <1>3 DEF NewMetricsMonitor
<1>4. CASE Run
  BY <1>4 DEF Run
<1>5. CASE Restart
  BY <1>5 DEF Restart
<1>6. CASE Evaluate
  BY <1>6 DEF Evaluate
<1>7. CASE ScrapeGauge
  BY <1>7 DEF ScrapeGauge
<1>8. CASE UNCHANGED vars
  BY <1>8 DEF vars
<1> QED
  BY <1>1, <1>2, <1>3, <1>4, <1>5, <1>6, <1>7, <1>8 DEF Next

(***************************************************************************)
(* What a scrape finds: for a cache that is stale a sample longer     *)
(* than the threshold expr is true, and if expr is true the cache is older *)
(* than the threshold, or was synced since the last sample.                *)
(***************************************************************************)
LEMMA GaugeStale ==
    ASSUME TypeOK, GaugeInv, running, age > Threshold + Sample, up > Sample
    PROVE  gauge > Threshold
BY Constants DEF TypeOK, GaugeInv, Absent, Grace

LEMMA GaugeHonest ==
    ASSUME TypeOK, GaugeInv, gauge > Threshold
    PROVE  age > Threshold \/ age <= Sample
BY Constants DEF TypeOK, GaugeInv, Absent, Grace

LEMMA ScrapeStep == TypeOK /\ GaugeInv /\ ScrapeInv /\ [Next]_vars => ScrapeInv'
<1> SUFFICES ASSUME TypeOK, GaugeInv, ScrapeInv, [Next]_vars PROVE ScrapeInv'
  OBVIOUS
<1>1. CASE ScrapeGauge
  <2>1. scraped' = gauge /\ scrapeClock' = 0 /\ UNCHANGED processVars
    BY <1>1 DEF ScrapeGauge
  <2>2. ScrapedStale'
    <3> SUFFICES ASSUME running, age > Threshold + Sample, up > Sample
                 PROVE  gauge > Threshold
      BY <2>1, Constants DEF ScrapedStale, processVars
    <3> QED
      BY GaugeStale
  <2>3. ScrapedHonest'
    <3> SUFFICES ASSUME gauge > Threshold PROVE age > Threshold \/ age <= Sample
      BY <2>1, Constants DEF ScrapedHonest, processVars
    <3> QED
      BY GaugeHonest
  <2> QED
    BY <2>2, <2>3 DEF ScrapeInv
<1>2. CASE ~ScrapeGauge
  <2> USE Constants
      DEF TypeOK, ScrapeInv, ScrapedStale, ScrapedHonest, Absent, Grace,
          processVars, scrapeVars, alertVars
  <2>1. CASE Tick
    BY <2>1 DEF Tick, UpTo
  <2>2. CASE Sync
    BY <2>2 DEF Sync
  <2>3. CASE NewMetricsMonitor
    BY <2>3 DEF NewMetricsMonitor
  <2>4. CASE Run
    BY <2>4 DEF Run
  <2>5. CASE Restart
    BY <2>5 DEF Restart
  <2>6. CASE Evaluate
    BY <2>6 DEF Evaluate
  <2>7. CASE UNCHANGED vars
    BY <2>7 DEF vars
  <2> QED
    BY <1>2, <2>1, <2>2, <2>3, <2>4, <2>5, <2>6, <2>7 DEF Next
<1> QED
  BY <1>1, <1>2

(***************************************************************************)
(* The same of an evaluation, with a scrape in between.                    *)
(***************************************************************************)
LEMMA ScrapeStale ==
    ASSUME TypeOK, ScrapeInv, running, age > Threshold + Sample + Scrape, up > Sample + Scrape
    PROVE  scraped > Threshold
BY Constants DEF TypeOK, ScrapeInv, ScrapedStale, Absent, Grace

LEMMA ScrapeHonest ==
    ASSUME TypeOK, ScrapeInv, scraped > Threshold
    PROVE  age > Threshold \/ age <= Sample + Scrape
BY Constants DEF TypeOK, ScrapeInv, ScrapedHonest, Absent, Grace

LEMMA EvaluateStep == AlertInv /\ Evaluate => (Noticed /\ Waiting /\ Raised /\ PendingSound /\ FiringSound)'
<1> SUFFICES ASSUME AlertInv, Evaluate
             PROVE  (Noticed /\ Waiting /\ Raised /\ PendingSound /\ FiringSound)'
  OBVIOUS
<1>0. firing' <=> pending' = For
  BY Zenon DEF Evaluate
<1> USE Constants DEF TypeOK, Absent, Grace, processVars, scrapeVars
<1>1. /\ TypeOK /\ ScrapeInv /\ evalClock = Evaluation /\ evalClock' = 0
      /\ UNCHANGED processVars /\ UNCHANGED scrapeVars
  BY DEF AlertInv, Evaluate
<1>2. Noticed'
  BY <1>1, ScrapeStale DEF Noticed, Evaluate
<1>3. Waiting'
  BY <1>1 DEF AlertInv, Noticed, Waiting, Evaluate
<1>4. Raised'
  <2> SUFFICES ASSUME running, age >= Threshold + For + Sample + Scrape + Evaluation,
                      up >= For + Sample + Scrape + Evaluation
               PROVE  firing'
    BY <1>1 DEF Raised
  <2>1. scraped > Threshold
    BY <1>1, ScrapeStale
  <2>2. pending # Absent
    BY <1>1 DEF AlertInv, Noticed
  <2>3. pending = For
    BY <1>1, <2>2 DEF AlertInv, Waiting
  <2>4. pending' = For
    BY <1>1, <2>1, <2>2, <2>3 DEF Evaluate
  <2> QED
    BY <1>0, <2>4, Zenon
<1>5. PendingSound'
  <2> SUFFICES ASSUME pending' # Absent PROVE Unnoticed' \/ age' > Threshold + pending'
    BY DEF PendingSound
  <2>1. scraped > Threshold /\ pending' = IF pending = Absent THEN 0 ELSE pending
    BY <1>1 DEF Evaluate
  <2>2. age > Threshold \/ age <= Sample + Scrape
    BY <1>1, <2>1, ScrapeHonest
  <2> QED
    BY <1>1, <2>1, <2>2 DEF AlertInv, PendingSound, Unnoticed
<1>6. FiringSound'
  <2> SUFFICES ASSUME firing' PROVE Unnoticed' \/ age' > Threshold + For
    BY Zenon DEF FiringSound
  <2>1. pending' = For
    BY <1>0, Zenon
  <2> QED
    BY <1>5, <2>1 DEF PendingSound
<1> QED
  BY <1>2, <1>3, <1>4, <1>5, <1>6

LEMMA NextAlert == AlertInv /\ [Next]_vars => AlertInv'
<1> SUFFICES ASSUME AlertInv, [Next]_vars PROVE AlertInv'
  OBVIOUS
<1>1. TypeOK' /\ GaugeInv' /\ ScrapeInv'
  BY NextType, GaugeStep, ScrapeStep DEF AlertInv
<1>2. (Noticed /\ Waiting /\ Raised /\ PendingSound /\ FiringSound)'
  <2>1. CASE Evaluate
    BY <2>1, EvaluateStep
  <2>2. CASE ~Evaluate
    <3> USE <2>2, Constants DEF AlertInv, TypeOK, Absent, Grace, Unnoticed, processVars, scrapeVars, alertVars
    <3>1. CASE Tick
      BY <3>1 DEF Tick, UpTo, Noticed, Waiting, Raised, PendingSound, FiringSound
    <3>2. CASE Sync
      BY <3>2 DEF Sync, Noticed, Waiting, Raised, PendingSound, FiringSound
    <3>3. CASE NewMetricsMonitor
      BY <3>3 DEF NewMetricsMonitor, Noticed, Waiting, Raised, PendingSound, FiringSound
    <3>4. CASE Run
      BY <3>4 DEF Run, Noticed, Waiting, Raised, PendingSound, FiringSound
    <3>5. CASE Restart
      BY <3>5 DEF Restart, Noticed, Waiting, Raised, PendingSound, FiringSound
    <3>6. CASE ScrapeGauge
      BY <3>6 DEF ScrapeGauge, Noticed, Waiting, Raised, PendingSound, FiringSound
    <3>7. CASE UNCHANGED vars
      BY <3>7 DEF vars, Noticed, Waiting, Raised, PendingSound, FiringSound
    <3> QED
      BY <3>1, <3>2, <3>3, <3>4, <3>5, <3>6, <3>7 DEF Next
  <2> QED
    BY <2>1, <2>2
<1> QED
  BY <1>1, <1>2 DEF AlertInv

LEMMA InitAlert == Init => AlertInv
<1> SUFFICES ASSUME Init PROVE AlertInv
  OBVIOUS
<1>1. TypeOK
  BY InitType
<1> QED
  BY <1>1, Constants
     DEF AlertInv, Init, GaugeInv, ScrapeInv, ScrapedStale, ScrapedHonest, Absent,
         Noticed, Waiting, Raised, PendingSound, FiringSound

THEOREM AlertInvariant == Spec => []AlertInv
BY InitAlert, NextAlert, PTL DEF Spec

(***************************************************************************)
(* A cache that stays stale while the monitor runs raises the alert.       *)
(***************************************************************************)
THEOREM StaleCacheFires == Spec => []StaleFires
<1>1. AlertInv => StaleFires
  BY Constants DEF AlertInv, TypeOK, Raised, StaleFires, Grace
<1> QED
  BY <1>1, AlertInvariant, PTL

(***************************************************************************)
(* The alert fires for a stale cache only, but for the short time in which *)
(* a sync has not been noticed.                                            *)
(***************************************************************************)
THEOREM FiringMeansStale == Spec => []NoFalseAlarm
<1>1. AlertInv => NoFalseAlarm
  BY Constants DEF AlertInv, TypeOK, FiringSound, Unnoticed, NoFalseAlarm
<1> QED
  BY <1>1, AlertInvariant, PTL
=============================================================================

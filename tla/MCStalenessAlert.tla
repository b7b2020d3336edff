-------------------------- MODULE MCStalenessAlert --------------------------
(***************************************************************************)
(* Deployed are samples every 10 s, scrapes and evaluations at the default *)
(* of the Prometheus at hand (usually 30 s) and two times 300 s.  Here the *)
(* intervals are small, and no two of them have a common divisor, so that  *)
(* samples, scrapes and evaluations meet in every phase.                   *)
(***************************************************************************)
EXTENDS StalenessAlert

MCMaxAge == Threshold + Grace + 2
=============================================================================

---------------------------- MODULE MCScheduling -----------------------------
(* A schedule with an interval and one that is due at every third moment;  *)
(* a batch has room for one of them, so that the other one has to wait.    *)
EXTENDS SchedulingProperties

CONSTANTS hourly, nightly

NextRunTime(s, t) == IF s = hourly THEN t + 2 ELSE t + 3 - (t % 3)

(* The theorem about the distance of launches applies to these.            *)
ASSUME RunsGrow == Growing
=============================================================================

------------------------ MODULE SchedulingProperties -------------------------
(***************************************************************************)
(* What the evaluator promises about the times of launches.                *)
(***************************************************************************)
EXTENDS Scheduling

(* Every row of a batch is a stored schedule that was due when it was      *)
(* read, a row in progress is one of them and launched, an evaluation      *)
(* without rows is over, and schedules in two batches are excused.         *)
TypeOK ==
  /\ now \in Moments /\ toggles \in Nat /\ faults \in Nat
  /\ created \subseteq Schedules /\ excused \subseteq created
  /\ active \in [Schedules -> BOOLEAN]
  /\ nextRun \in [Schedules -> Nat]
  /\ lastLaunch \in [Schedules -> 0..now \cup {Never}]
  /\ \A s \in Schedules \ created : lastLaunch[s] = Never
  /\ pc \in [Evaluators -> {"idle", "insert", "tasks", "store"}]
  /\ DOMAIN rows = Evaluators
  /\ row \in [Evaluators -> Schedules]
  /\ next \in [Evaluators -> Nat]
  /\ \A e \in Evaluators :
       /\ rows[e] \in [Held(e) -> 0..now] /\ Held(e) \subseteq created
       /\ pc[e] = "idle" <=> Held(e) = {}
       /\ pc[e] \in {"tasks", "store"} =>
            row[e] \in Held(e) /\ lastLaunch[row[e]] # Never
       /\ Held(e) \cap HeldBeside(e) \subseteq excused

Launched(s) == \E e \in Evaluators : pc[e] = "insert" /\ pc'[e] = "tasks" /\ row'[e] = s

(* Exactly one launch per due time: what a schedule is launched for is a   *)
(* run time computed since its launch before, and reached, although        *)
(* next_run_at is moved only after the launch, from a clock that is read   *)
(* later, and although rows wait in batches while others are launched.     *)
(* Excused are schedules that two evaluations read at once, and those      *)
(* whose evaluation failed between the launch and the UPDATE.              *)
DueSinceLaunch ==
  [][\A s \in Schedules :
       Launched(s) /\ lastLaunch[s] # Never /\ s \notin excused =>
         \E t \in lastLaunch[s]..now : NextTime(s, t) <= now]_vars

(* A later reference gives no earlier run.  So it is with intervals and    *)
(* with expressions in UTC (CronProofs!NextRun, NextRunsGrow), not in every *)
(* zone: where the clock is put back, or the offset is computed wrongly,   *)
(* getNextRunTime can turn back.                                           *)
Growing ==
  \A s \in Schedules, t, u \in Moments : t <= u => NextTime(s, t) <= NextTime(s, u)

(* So between two launches of a schedule lies an interval, or a match of   *)
(* its cron expression, when run times do not turn back.                   *)
LaunchesSpaced ==
  [][\A s \in Schedules :
       Launched(s) /\ lastLaunch[s] # Never /\ s \notin excused =>
         NextTime(s, lastLaunch[s]) <= now]_vars

(* An active schedule that is due is launched, however many others are due *)
(* before it, after failed statements and crashes too, unless it is        *)
(* switched off.  Where two evaluations read it, the later UPDATE of one   *)
(* can move next_run_at past a time the other one stored.                  *)
DueIsServed ==
  \A s \in Schedules, d \in Moments :
    (s \in Due /\ nextRun[s] = d) ~>
      \/ ~active[s]
      \/ lastLaunch[s] # Never /\ d <= lastLaunch[s]
      \/ s \in excused
=============================================================================

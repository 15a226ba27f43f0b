----------------------------- MODULE Scheduling ------------------------------
(***************************************************************************)
(* ScheduleEvaluator of schedule-evaluator.ts, with the rows of the table  *)
(* schedules as ScheduleController writes them.  setInterval starts an     *)
(* evaluation every five seconds whether or not the one before it is over, *)
(* and k8s runs two replicas: Evaluators are the calls of evaluate that    *)
(* can be under way at once.  What a launch does to its execution is       *)
(* module Execution; here it matters when launches happen.                 *)
(***************************************************************************)
EXTENDS Integers, FiniteSets

CONSTANTS
  Schedules, Evaluators,
  Limit,            \* rows of one evaluation, 50 in the code
  NextTime(_, _),   \* Date.now() + interval_ms, or getNextRunTime
  Never,            \* no launch yet
  MaxTime, MaxToggles, MaxFaults   \* bounds of the model

ASSUME SchedulesAssumption == Schedules # {}
ASSUME LimitAssumption == Limit \in Nat \ {0}
ASSUME NeverAssumption == Never \notin Nat
ASSUME BoundAssumption == MaxTime \in Nat /\ MaxToggles \in Nat /\ MaxFaults \in Nat

Moments == 0..MaxTime

(* A moment, of whatever zone the expression is evaluated in.              *)
ASSUME NextTimeAssumption ==
  \A s \in Schedules, t \in Moments : NextTime(s, t) \in Nat

VARIABLES
  now,
  created, active, nextRun,   \* the table schedules
  lastLaunch,   \* started_at of the last execution of a schedule
  pc,           \* where an evaluation stands
  rows,         \* its rows not yet dealt with, with next_run_at as read
  row, next,    \* the row whose turn it is and its computed next_run_at
  excused,      \* schedules read by two evaluations at once, or launched by
                \* one that failed, since their last undisturbed launch
  toggles, faults

table == <<created, active, nextRun>>
vars == <<now, table, lastLaunch, pc, rows, row, next, excused, toggles, faults>>

NoRows == [s \in {} |-> 0]

Init ==
  /\ now = 0
  /\ created = {}
  /\ active = [s \in Schedules |-> FALSE]
  /\ nextRun = [s \in Schedules |-> 0]
  /\ lastLaunch = [s \in Schedules |-> Never]
  /\ pc = [e \in Evaluators |-> "idle"]
  /\ rows = [e \in Evaluators |-> NoRows]
  /\ row = [e \in Evaluators |-> CHOOSE s \in Schedules : TRUE]
  /\ next = [e \in Evaluators |-> 0]
  /\ excused = {}
  /\ toggles = 0 /\ faults = 0

Tick ==
  /\ now < MaxTime
  /\ now' = now + 1
  /\ UNCHANGED <<table, lastLaunch, pc, rows, row, next, excused, toggles, faults>>

-----------------------------------------------------------------------------
(* ScheduleController                                                      *)

InsertSchedule(s, at) ==
  /\ created' = created \cup {s}
  /\ active' = [active EXCEPT ![s] = TRUE]
  /\ nextRun' = [nextRun EXCEPT ![s] = at]

Create(s) ==
  /\ s \notin created
  /\ InsertSchedule(s, NextTime(s, now))
  /\ UNCHANGED <<now, lastLaunch, pc, rows, row, next, excused, toggles, faults>>

(* next_run_at stays as it was, however long the schedule is off.          *)
SetActive(s, on) == active' = [active EXCEPT ![s] = on] /\ UNCHANGED <<created, nextRun>>

Toggle(s) ==
  /\ s \in created
  /\ toggles < MaxToggles
  /\ toggles' = toggles + 1
  /\ SetActive(s, ~active[s])
  /\ UNCHANGED <<now, lastLaunch, pc, rows, row, next, excused, faults>>

-----------------------------------------------------------------------------
(* ScheduleEvaluator.evaluate                                              *)

(* Mutant: the time is not looked at.                                      *)
DueAlways == {s \in created : active[s]}

Due == {s \in created : active[s] /\ nextRun[s] <= now}

(* ORDER BY next_run_at LIMIT                                              *)
Batch(D) ==
  /\ D \subseteq Due
  /\ Cardinality(D) <= Limit
  /\ D # Due => Cardinality(D) = Limit
  /\ \A s \in D, r \in Due \ D : nextRun[s] <= nextRun[r]

Held(e) == DOMAIN rows[e]
HeldBeside(e) == UNION {Held(f) : f \in Evaluators \ {e}}

SelectDue(e) ==
  /\ pc[e] = "idle"
  /\ \E D \in (SUBSET Schedules) \ {{}} :
       /\ Batch(D)
       /\ rows' = [rows EXCEPT ![e] = [s \in D |-> nextRun[s]]]
       /\ excused' = excused \cup (D \cap HeldBeside(e))
  /\ pc' = [pc EXCEPT ![e] = "insert"]
  /\ UNCHANGED <<now, table, lastLaunch, row, next, toggles, faults>>

Without(s, f) == [r \in DOMAIN f \ {s} |-> f[r]]

(* INSERT INTO executions, in the order of the rows.                       *)
IsFirst(e, s) ==
  /\ pc[e] = "insert"
  /\ s \in Held(e)
  /\ \A r \in Held(e) : rows[e][s] <= rows[e][r]

Undisturbed(e, s) == s \notin HeldBeside(e) /\ rows[e][s] = nextRun[s]

Launch(e, s) ==
  /\ IsFirst(e, s)
  /\ lastLaunch' = [lastLaunch EXCEPT ![s] = now]
  /\ excused' = IF Undisturbed(e, s) THEN excused \ {s} ELSE excused
  /\ row' = [row EXCEPT ![e] = s]
  /\ pc' = [pc EXCEPT ![e] = "tasks"]
  /\ UNCHANGED <<now, table, rows, next, toggles, faults>>

(* Task states, the queue, status running; then the clock is read again.   *)
Prepare(e) ==
  /\ pc[e] = "tasks"
  /\ next' = [next EXCEPT ![e] = NextTime(row[e], now)]
  /\ pc' = [pc EXCEPT ![e] = "store"]
  /\ UNCHANGED <<now, table, lastLaunch, rows, row, excused, toggles, faults>>

(* The loop goes on with the next row.                                     *)
Advance(e, s) ==
  /\ rows' = [rows EXCEPT ![e] = Without(s, @)]
  /\ pc' = [pc EXCEPT ![e] = IF Held(e) = {s} THEN "idle" ELSE "insert"]

(* Mutant: the next run is counted from the one that was due.              *)
StoreFromDue(e) ==
  /\ pc[e] = "store"
  /\ nextRun' = [nextRun EXCEPT ![row[e]] = NextTime(row[e], rows[e][row[e]])]
  /\ Advance(e, row[e])
  /\ UNCHANGED <<now, created, active, lastLaunch, row, next, excused, toggles, faults>>

Store(e) ==
  /\ pc[e] = "store"
  /\ nextRun' = [nextRun EXCEPT ![row[e]] = next[e]]
  /\ Advance(e, row[e])
  /\ UNCHANGED <<now, created, active, lastLaunch, row, next, excused, toggles, faults>>

-----------------------------------------------------------------------------
(* Faults.  The catch block turns to the next row; the statement that      *)
(* failed may have been executed all the same.                             *)

Fault == faults < MaxFaults /\ faults' = faults + 1

(* Mutant: next_run_at moves although the launch failed.                   *)
LaunchFailsMoved(e, s, executed) ==
  /\ Fault
  /\ IsFirst(e, s)
  /\ lastLaunch' = IF executed THEN [lastLaunch EXCEPT ![s] = now] ELSE lastLaunch
  /\ excused' = IF executed THEN excused \cup {s} ELSE excused
  /\ nextRun' = [nextRun EXCEPT ![s] = NextTime(s, now)]
  /\ Advance(e, s)
  /\ UNCHANGED <<now, created, active, row, next, toggles>>

LaunchFails(e, s, executed) ==
  /\ Fault
  /\ IsFirst(e, s)
  /\ lastLaunch' = IF executed THEN [lastLaunch EXCEPT ![s] = now] ELSE lastLaunch
  /\ excused' = IF executed THEN excused \cup {s} ELSE excused
  /\ Advance(e, s)
  /\ UNCHANGED <<now, table, row, next, toggles>>

PrepareFails(e) ==
  /\ Fault
  /\ pc[e] = "tasks"
  /\ excused' = excused \cup {row[e]}
  /\ Advance(e, row[e])
  /\ UNCHANGED <<now, table, lastLaunch, row, next, toggles>>

StoreFails(e, executed) ==
  /\ Fault
  /\ pc[e] = "store"
  /\ nextRun' = IF executed THEN [nextRun EXCEPT ![row[e]] = next[e]] ELSE nextRun
  /\ excused' = excused \cup {row[e]}
  /\ Advance(e, row[e])
  /\ UNCHANGED <<now, created, active, lastLaunch, row, next, toggles>>

(* The process ends; its successor starts with a new evaluation.           *)
Crash(e) ==
  /\ Fault
  /\ pc[e] # "idle"
  /\ excused' = IF pc[e] = "insert" THEN excused ELSE excused \cup {row[e]}
  /\ rows' = [rows EXCEPT ![e] = NoRows]
  /\ pc' = [pc EXCEPT ![e] = "idle"]
  /\ UNCHANGED <<now, table, lastLaunch, row, next, toggles>>

-----------------------------------------------------------------------------
Next ==
  \/ Tick
  \/ \E s \in Schedules : Create(s) \/ Toggle(s)
  \/ \E e \in Evaluators :
       \/ SelectDue(e) \/ Prepare(e) \/ Store(e) \/ PrepareFails(e) \/ Crash(e)
       \/ \E s \in Schedules : Launch(e, s)
       \/ \E s \in Schedules, executed \in BOOLEAN : LaunchFails(e, s, executed)
       \/ \E executed \in BOOLEAN : StoreFails(e, executed)

Spec == Init /\ [][Next]_vars

(* The timer keeps firing, and every statement is answered or fails.       *)
Evaluate(e) ==
  SelectDue(e) \/ (\E s \in Schedules : Launch(e, s)) \/ Prepare(e) \/ Store(e)

FairSpec == Spec /\ \A e \in Evaluators : WF_vars(Evaluate(e))
=============================================================================

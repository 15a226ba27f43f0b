-------------------------- MODULE SchedulingProofs ---------------------------
(***************************************************************************)
(* TypeOK and LaunchesSpaced for all schedules, any number of evaluations, *)
(* every LIMIT and all bounds.                                             *)
(*                                                                         *)
(* A schedule that is not excused is in the rows of one evaluation at most,*)
(* with next_run_at as it still is; while none has launched it and not yet *)
(* stored, next_run_at was computed after the last launch.                 *)
(***************************************************************************)
EXTENDS SchedulingProperties, TLAPS

USE DEF Moments

Busy(e) == pc[e] \in {"tasks", "store"}

Variables ==
  /\ now \in Moments /\ toggles \in Nat /\ faults \in Nat
  /\ created \subseteq Schedules /\ excused \subseteq created
  /\ active \in [Schedules -> BOOLEAN]
  /\ nextRun \in [Schedules -> Nat]
  /\ lastLaunch \in [Schedules -> 0..now \cup {Never}]
  /\ \A s \in Schedules \ created : lastLaunch[s] = Never
  /\ pc \in [Evaluators -> {"idle", "insert", "tasks", "store"}]
  /\ DOMAIN rows = Evaluators
  /\ row \in [Evaluators -> Schedules]
  /\ next \in [Evaluators -> Nat]

Evaluation(e) ==
  /\ rows[e] \in [Held(e) -> 0..now] /\ Held(e) \subseteq created
  /\ pc[e] = "idle" <=> Held(e) = {}
  /\ Busy(e) => row[e] \in Held(e) /\ lastLaunch[row[e]] # Never

(* An undisturbed schedule is in the rows of one evaluation, as read.      *)
Alone ==
  \A s \in Schedules, e, f \in Evaluators :
    s \in Held(e) /\ s \in Held(f) /\ e # f => s \in excused
Fresh ==
  \A e \in Evaluators : \A s \in Held(e) : s \notin excused => rows[e][s] = nextRun[s]

(* next_run_at was computed since the last launch, or is about to be.      *)
Counted(s, x) == \E t \in lastLaunch[s]..now : x = NextTime(s, t)
Spaced ==
  \A s \in Schedules :
    s \notin excused /\ lastLaunch[s] # Never /\ (\A e \in Evaluators : Busy(e) => row[e] # s)
      => Counted(s, nextRun[s])
Computed ==
  \A e \in Evaluators :
    pc[e] = "store" /\ row[e] \notin excused =>
      Counted(row[e], next[e])

IInv ==
  /\ Variables
  /\ \A e \in Evaluators : Evaluation(e)
  /\ Alone /\ Fresh /\ Spaced /\ Computed

-----------------------------------------------------------------------------
LEMMA IInvTypes == IInv => TypeOK
BY DEF IInv, Variables, Evaluation, Busy, Alone, TypeOK, HeldBeside, Held

LEMMA InitIInv == Init => IInv
<1> SUFFICES ASSUME Init PROVE IInv
  OBVIOUS
<1>1. (CHOOSE s \in Schedules : TRUE) \in Schedules
  BY SchedulesAssumption
<1>2. Variables
  BY <1>1, BoundAssumption DEF Init, Variables
<1>3. ASSUME NEW e \in Evaluators
      PROVE  Held(e) = {} /\ pc[e] = "idle" /\ rows[e] \in [Held(e) -> 0..now]
  BY DEF Init, Held, NoRows
<1>4. QED BY <1>2, <1>3 DEF Init, IInv, Evaluation, Busy, Alone, Fresh, Counted, Spaced, Computed

-----------------------------------------------------------------------------
(* The rows of an evaluation that turns to the next one.                   *)
LEMMA AdvanceRows ==
  ASSUME IInv, NEW e \in Evaluators, NEW s \in Held(e), Advance(e, s)
  PROVE  /\ \A f \in Evaluators :
              /\ Held(f)' = IF f = e THEN Held(e) \ {s} ELSE Held(f)
              /\ \A r \in Held(f)' : rows'[f][r] = rows[f][r]
              /\ rows'[f] \in [Held(f)' -> 0..now]
              /\ pc'[f] = IF f # e THEN pc[f]
                          ELSE IF Held(e) = {s} THEN "idle" ELSE "insert"
         /\ DOMAIN rows' = Evaluators
         /\ pc' \in [Evaluators -> {"idle", "insert", "tasks", "store"}]
<1>1. rows'[e] = [r \in Held(e) \ {s} |-> rows[e][r]]
  BY DEF IInv, Variables, Advance, Without, Held
<1>2. \A f \in Evaluators \ {e} : rows'[f] = rows[f]
  BY DEF IInv, Variables, Advance
<1>3. \A f \in Evaluators : rows[f] \in [Held(f) -> 0..now]
  BY DEF IInv, Evaluation
<1>4. DOMAIN rows' = Evaluators /\ DOMAIN pc = Evaluators
  BY DEF IInv, Variables, Advance
<1>5. QED BY <1>1, <1>2, <1>3, <1>4 DEF IInv, Variables, Advance, Held

(* Everything about the batches that Advance leaves true.                  *)
LEMMA AdvanceKeeps ==
  ASSUME IInv, NEW e \in Evaluators, NEW s \in Held(e), Advance(e, s),
         now' = now, created' = created, row' = row, next' = next,
         excused \subseteq excused',
         \A r \in Schedules : lastLaunch[r] # Never => lastLaunch'[r] # Never
  PROVE  /\ \A f \in Evaluators : Evaluation(f)'
         /\ Alone'
<1>1. \A f \in Evaluators :
        /\ Held(f)' = IF f = e THEN Held(e) \ {s} ELSE Held(f)
        /\ rows'[f] \in [Held(f)' -> 0..now]
        /\ pc'[f] = IF f # e THEN pc[f]
                    ELSE IF Held(e) = {s} THEN "idle" ELSE "insert"
  BY AdvanceRows
<1>2. ASSUME NEW f \in Evaluators PROVE Evaluation(f)'
  <2>1. Evaluation(f) /\ row[f] \in Schedules
    BY DEF IInv, Variables
  <2>2. CASE f = e
    BY <1>1, <2>1, <2>2 DEF Evaluation, Busy
  <2>3. CASE f # e
    BY <1>1, <2>1, <2>3 DEF Evaluation, Busy
  <2>4. QED BY <2>2, <2>3
<1>3. Alone'
  BY <1>1 DEF IInv, Alone
<1>4. QED BY <1>2, <1>3

-----------------------------------------------------------------------------
LEMMA TickStep ==
  ASSUME IInv, Tick
  PROVE  IInv'
<1>1. now \in Nat /\ now' \in Moments /\ 0..now \subseteq 0..now'
  BY BoundAssumption DEF IInv, Variables, Tick
<1>2. Variables'
  BY <1>1 DEF IInv, Variables, Tick, table
<1>3. ASSUME NEW e \in Evaluators PROVE Evaluation(e)'
  <2>1. Evaluation(e)
    BY DEF IInv
  <2>2. rows'[e] \in [Held(e)' -> 0..now']
    BY <1>1, <2>1 DEF Evaluation, Tick, Held
  <2>3. QED BY <2>1, <2>2 DEF Evaluation, Tick, table, Held, Busy
<1>4. ASSUME NEW s \in Schedules, lastLaunch[s] # Never, NEW x, Counted(s, x)
      PROVE  \E t \in lastLaunch'[s]..now' : x = NextTime(s, t)
  <2>1. lastLaunch[s] \in 0..now /\ lastLaunch' = lastLaunch
    BY <1>4 DEF IInv, Variables, Tick, table
  <2>2. lastLaunch[s]..now \subseteq lastLaunch'[s]..now'
    BY <1>1, <2>1 DEF Tick
  <2>3. QED BY <1>4, <2>2 DEF Counted
<1>5. Spaced'
  BY <1>4 DEF IInv, Spaced, Counted, Busy, Tick, table
<1>6. Computed'
  <2>1. \A e \in Evaluators : pc[e] = "store" => row[e] \in Schedules /\ lastLaunch[row[e]] # Never
    BY DEF IInv, Variables, Evaluation, Busy
  <2>2. ASSUME NEW e \in Evaluators, pc[e] = "store", row[e] \notin excused
        PROVE  \E t \in lastLaunch'[row[e]]..now' : next[e] = NextTime(row[e], t)
    <3>1. Counted(row[e], next[e])
      BY <2>2 DEF IInv, Computed
    <3>2. QED BY <1>4, <2>1, <2>2, <3>1
  <2>3. QED BY <2>2 DEF Computed, Counted, Tick, table
<1>7. QED BY <1>2, <1>3, <1>5, <1>6 DEF IInv, Alone, Fresh, Held, Tick, table

LEMMA CreateStep ==
  ASSUME IInv, NEW s \in Schedules, Create(s)
  PROVE  IInv'
<1>1. NextTime(s, now) \in Nat
  BY NextTimeAssumption DEF IInv, Variables
<1>2. \A e \in Evaluators : s \notin Held(e)
  BY DEF IInv, Evaluation, Create, InsertSchedule
<1>3. lastLaunch[s] = Never
  BY DEF IInv, Variables, Create, InsertSchedule
<1>4. Variables'
  BY <1>1 DEF IInv, Variables, Create, InsertSchedule
<1>5. \A e \in Evaluators : Evaluation(e)'
  BY DEF IInv, Evaluation, Create, InsertSchedule, Held, Busy
<1>6. Alone' /\ Computed'
  BY DEF IInv, Alone, Counted, Computed, Create, InsertSchedule, Held
<1>7. Fresh'
  BY <1>2 DEF IInv, Fresh, Variables, Create, InsertSchedule, Held
<1>8. Spaced'
  BY <1>3 DEF IInv, Counted, Spaced, Variables, Create, InsertSchedule, Busy
<1>9. QED BY <1>4, <1>5, <1>6, <1>7, <1>8 DEF IInv

LEMMA ToggleStep ==
  ASSUME IInv, NEW s \in Schedules, Toggle(s)
  PROVE  IInv'
<1>1. Variables'
  BY DEF IInv, Variables, Toggle, SetActive
<1>2. QED
  BY <1>1 DEF IInv, Evaluation, Alone, Fresh, Counted, Spaced, Computed, Busy, Held, Toggle, SetActive

LEMMA SelectDueStep ==
  ASSUME IInv, NEW e \in Evaluators, SelectDue(e)
  PROVE  IInv'
<1>1. PICK D \in (SUBSET Schedules) \ {{}} :
        /\ Batch(D)
        /\ rows' = [rows EXCEPT ![e] = [s \in D |-> nextRun[s]]]
        /\ excused' = excused \cup (D \cap HeldBeside(e))
  BY DEF SelectDue
<1>2. D \subseteq created /\ \A s \in D : nextRun[s] \in 0..now
  BY <1>1 DEF Batch, Due, IInv, Variables
<1>3. /\ Held(e)' = D /\ rows'[e] = [s \in D |-> nextRun[s]]
      /\ \A f \in Evaluators \ {e} : Held(f)' = Held(f) /\ rows'[f] = rows[f]
  BY <1>1 DEF IInv, Variables, Held
<1>4. \A f \in Evaluators : pc'[f] = IF f = e THEN "insert" ELSE pc[f]
  BY DEF IInv, Variables, SelectDue
<1>5. Variables'
  BY <1>1, <1>2 DEF IInv, Variables, SelectDue, table
<1>6. ASSUME NEW f \in Evaluators PROVE Evaluation(f)'
  <2>1. CASE f = e
    <3>1. rows'[f] \in [Held(f)' -> 0..now']
      BY <1>2, <1>3, <2>1 DEF SelectDue
    <3>2. Held(f)' # {} /\ Held(f)' \subseteq created' /\ pc'[f] = "insert"
      BY <1>1, <1>2, <1>3, <1>4, <2>1 DEF SelectDue, table
    <3>3. QED BY <3>1, <3>2 DEF Evaluation, Busy
  <2>2. CASE f # e
    BY <1>3, <1>4, <2>2 DEF IInv, Evaluation, Busy, SelectDue, table
  <2>3. QED BY <2>1, <2>2
<1>7. ASSUME NEW s \in Schedules, NEW f \in Evaluators, NEW g \in Evaluators,
             s \in Held(f)', s \in Held(g)', f # g
      PROVE  s \in excused'
  <2>1. CASE f # e /\ g # e
    BY <1>1, <1>3, <1>7, <2>1 DEF IInv, Alone
  <2>2. CASE f = e \/ g = e
    BY <1>1, <1>3, <1>7, <2>2 DEF HeldBeside
  <2>3. QED BY <2>1, <2>2
<1>8. Fresh'
  BY <1>1, <1>3 DEF IInv, Fresh, SelectDue, table
<1>9. Spaced' /\ Computed'
  BY <1>1, <1>4 DEF IInv, Counted, Spaced, Computed, Busy, SelectDue, table
<1>10. QED BY <1>5, <1>6, <1>7, <1>8, <1>9 DEF IInv, Alone

(* A launch of a schedule that is not excused is undisturbed.              *)
LEMMA LaunchStep ==
  ASSUME IInv, NEW e \in Evaluators, NEW s \in Schedules, Launch(e, s)
  PROVE  IInv'
<1>1. s \in Held(e) /\ pc[e] = "insert"
  BY DEF Launch, IsFirst
<1>2. s \notin excused => Undisturbed(e, s)
  BY <1>1 DEF Undisturbed, HeldBeside, IInv, Alone, Fresh
<1>3. /\ excused \subseteq excused' \cup {s} /\ excused' \subseteq excused
      /\ s \notin excused' => Undisturbed(e, s)
  BY <1>2 DEF Launch
<1>4. /\ \A r \in Schedules : lastLaunch'[r] = IF r = s THEN now ELSE lastLaunch[r]
      /\ \A f \in Evaluators : pc'[f] = IF f = e THEN "tasks" ELSE pc[f]
      /\ \A f \in Evaluators : row'[f] = IF f = e THEN s ELSE row[f]
  BY DEF IInv, Variables, Launch
<1>5. now # Never /\ s \in created /\ now \in 0..now
  BY <1>1, NeverAssumption DEF IInv, Variables, Evaluation
<1>6. Variables'
  BY <1>3, <1>4, <1>5 DEF IInv, Variables, Launch, table
<1>7. ASSUME NEW f \in Evaluators PROVE Evaluation(f)'
  <2>1. CASE f = e
    BY <1>1, <1>4, <1>5, <2>1 DEF IInv, Evaluation, Busy, Launch, table, Held
  <2>2. CASE f # e
    BY <1>4, <1>5, <2>2 DEF IInv, Variables, Evaluation, Busy, Launch, table, Held
  <2>3. QED BY <2>1, <2>2
<1>8. Alone'
  BY <1>1, <1>3 DEF IInv, Alone, Undisturbed, HeldBeside, Launch, Held
<1>9. Fresh'
  BY <1>1, <1>3 DEF IInv, Fresh, Undisturbed, HeldBeside, Launch, table, Held
<1>10. Spaced'
  BY <1>1, <1>3, <1>4 DEF IInv, Counted, Spaced, Busy, Launch, table
<1>11. ASSUME NEW f \in Evaluators, pc'[f] = "store", row'[f] \notin excused'
       PROVE  Counted(row[f], next[f])' /\ row'[f] = row[f]
  <2>1. f # e /\ pc[f] = "store" /\ row'[f] = row[f]
    BY <1>4, <1>11
  <2>2. row[f] \in Held(f) /\ row[f] \in Schedules
    BY <2>1 DEF IInv, Variables, Evaluation, Busy
  <2>3. row[f] # s
    BY <1>3, <1>11, <2>1, <2>2 DEF Undisturbed, HeldBeside
  <2>4. Counted(row[f], next[f])
    BY <1>3, <1>11, <2>1, <2>2, <2>3 DEF IInv, Computed
  <2>5. lastLaunch'[row[f]] = lastLaunch[row[f]] /\ next' = next /\ now' = now
    BY <1>4, <2>2, <2>3 DEF Launch
  <2>6. QED BY <2>1, <2>4, <2>5 DEF Counted
<1>12. Computed'
  BY <1>11 DEF Counted, Computed, Launch
<1>13. QED BY <1>6, <1>7, <1>8, <1>9, <1>10, <1>12 DEF IInv

(* The clock has not gone back since the launch.                           *)
LEMMA PrepareStep ==
  ASSUME IInv, NEW e \in Evaluators, Prepare(e)
  PROVE  IInv'
<1>1. /\ row[e] \in Schedules /\ now \in Moments
      /\ lastLaunch[row[e]] \in 0..now /\ lastLaunch[row[e]] \in Moments
  <2>1. row[e] \in Schedules /\ now \in Moments /\ Busy(e)
    BY DEF IInv, Variables, Busy, Prepare
  <2>2. lastLaunch[row[e]] # Never
    BY <2>1 DEF IInv, Evaluation
  <2>3. lastLaunch[row[e]] \in 0..now
    BY <2>1, <2>2 DEF IInv, Variables
  <2>4. QED BY <2>1, <2>3, BoundAssumption
<1>2. /\ NextTime(row[e], now) \in Nat
      /\ Counted(row[e], NextTime(row[e], now))
  BY <1>1, NextTimeAssumption DEF Counted
<1>3. /\ \A f \in Evaluators : pc'[f] = IF f = e THEN "store" ELSE pc[f]
      /\ \A f \in Evaluators : next'[f] = IF f = e THEN NextTime(row[e], now) ELSE next[f]
  BY DEF IInv, Variables, Prepare
<1>4. pc[e] = "tasks"
  BY DEF Prepare
<1>5. Variables'
  BY <1>2 DEF IInv, Variables, Prepare, table
<1>6. \A f \in Evaluators : Evaluation(f)'
  BY <1>3, <1>4 DEF IInv, Evaluation, Busy, Prepare, table, Held
<1>7. Alone' /\ Fresh'
  BY DEF IInv, Alone, Fresh, Prepare, table, Held
<1>8. Spaced'
  BY <1>3, <1>4 DEF IInv, Counted, Spaced, Busy, Prepare, table
<1>9. Computed'
  BY <1>2, <1>3 DEF IInv, Counted, Computed, Prepare, table
<1>10. QED BY <1>5, <1>6, <1>7, <1>8, <1>9 DEF IInv

LEMMA StoreStep ==
  ASSUME IInv, NEW e \in Evaluators, Store(e)
  PROVE  IInv'
<1> DEFINE s == row[e]
<1>1. s \in Held(e) /\ s \in Schedules /\ pc[e] = "store" /\ Advance(e, s)
  BY DEF IInv, Variables, Evaluation, Busy, Store
<1>2. /\ \A f \in Evaluators : Evaluation(f)'
      /\ Alone'
  BY <1>1, AdvanceKeeps DEF Store
<1>3. /\ \A f \in Evaluators :
           /\ Held(f)' = IF f = e THEN Held(e) \ {s} ELSE Held(f)
           /\ \A r \in Held(f)' : rows'[f][r] = rows[f][r]
           /\ pc'[f] = IF f # e THEN pc[f]
                       ELSE IF Held(e) = {s} THEN "idle" ELSE "insert"
      /\ DOMAIN rows' = Evaluators
      /\ pc' \in [Evaluators -> {"idle", "insert", "tasks", "store"}]
  BY <1>1, AdvanceRows
<1>4. \A r \in Schedules : nextRun'[r] = IF r = s THEN next[e] ELSE nextRun[r]
  BY DEF IInv, Variables, Store
<1>5. Variables'
  BY <1>3 DEF IInv, Variables, Store
<1>6. \A f \in Evaluators : \A r \in Held(f)' : r \in Schedules
  BY <1>2, <1>5 DEF Evaluation, Variables
<1>7. Fresh'
  BY <1>1, <1>3, <1>4, <1>6 DEF IInv, Fresh, Alone, Store
<1>8. Spaced'
  <2> SUFFICES ASSUME NEW r \in Schedules, r \notin excused, lastLaunch[r] # Never,
                      \A f \in Evaluators : Busy(f)' => row[f] # r
               PROVE  Counted(r, nextRun[r])'
    BY DEF Counted, Spaced, Store
  <2>1. Counted(r, nextRun'[r])
    <3>1. CASE r = s
      BY <1>1, <1>4, <3>1 DEF IInv, Computed
    <3>2. CASE r # s
      BY <1>3, <1>4, <3>2 DEF IInv, Spaced, Busy, Store
    <3>3. QED BY <3>1, <3>2
  <2>2. lastLaunch' = lastLaunch /\ now' = now
    BY DEF Store
  <2>3. QED BY <2>1, <2>2 DEF Counted
<1>9. Computed'
  BY <1>3 DEF IInv, Counted, Computed, Store
<1>10. QED BY <1>2, <1>5, <1>7, <1>8, <1>9 DEF IInv

LEMMA LaunchFailsStep ==
  ASSUME IInv, NEW e \in Evaluators, NEW s \in Schedules, NEW executed \in BOOLEAN,
         LaunchFails(e, s, executed)
  PROVE  IInv'
<1>1. s \in Held(e) /\ pc[e] = "insert" /\ Advance(e, s)
  BY DEF LaunchFails, IsFirst
<1>2. /\ excused \subseteq excused' /\ excused' \subseteq excused \cup {s}
      /\ \A r \in Schedules :
           lastLaunch'[r] = IF r = s /\ executed THEN now ELSE lastLaunch[r]
      /\ executed => s \in excused'
  BY DEF IInv, Variables, LaunchFails
<1>3. now # Never /\ s \in created /\ now \in 0..now
  BY <1>1, NeverAssumption DEF IInv, Variables, Evaluation
<1>4. /\ \A f \in Evaluators : Evaluation(f)'
      /\ Alone'
  BY <1>1, <1>2, <1>3, AdvanceKeeps DEF LaunchFails, table
<1>5. /\ \A f \in Evaluators :
           /\ Held(f)' = IF f = e THEN Held(e) \ {s} ELSE Held(f)
           /\ \A r \in Held(f)' : rows'[f][r] = rows[f][r]
           /\ pc'[f] = IF f # e THEN pc[f]
                       ELSE IF Held(e) = {s} THEN "idle" ELSE "insert"
      /\ DOMAIN rows' = Evaluators
      /\ pc' \in [Evaluators -> {"idle", "insert", "tasks", "store"}]
  BY <1>1, AdvanceRows
<1>6. Variables'
  BY <1>2, <1>3, <1>5 DEF IInv, Variables, LaunchFails, Fault, table
<1>7. Fresh'
  BY <1>2, <1>5 DEF IInv, Fresh, LaunchFails, table
<1>8. Spaced'
  BY <1>1, <1>2, <1>5 DEF IInv, Counted, Spaced, Busy, LaunchFails, table
<1>9. Computed'
  <2> SUFFICES ASSUME NEW f \in Evaluators, pc'[f] = "store", row[f] \notin excused'
               PROVE  Counted(row[f], next[f])'
    BY DEF Counted, Computed, LaunchFails
  <2>1. pc[f] = "store" /\ row[f] \in Schedules
    BY <1>5 DEF IInv, Variables
  <2>2. lastLaunch'[row[f]] = lastLaunch[row[f]]
    BY <1>2, <2>1
  <2>3. Counted(row[f], next[f]) /\ row' = row /\ next' = next /\ now' = now
    BY <1>2, <2>1 DEF IInv, Computed, LaunchFails
  <2>4. QED BY <2>2, <2>3 DEF Counted
<1>10. QED BY <1>4, <1>6, <1>7, <1>8, <1>9 DEF IInv

(* What both failures after the launch have in common: the row is excused. *)
LEMMA GivenUp ==
  ASSUME IInv, NEW e \in Evaluators, Busy(e), Advance(e, row[e]),
         excused' = excused \cup {row[e]}, UNCHANGED <<now, created, active, lastLaunch, row, next>>,
         faults' = faults + 1, toggles' = toggles, nextRun' \in [Schedules -> Nat],
         \A r \in Schedules \ {row[e]} : nextRun'[r] = nextRun[r]
  PROVE  IInv'
<1> DEFINE s == row[e]
<1>1. s \in Held(e) /\ s \in Schedules /\ s \in created
  BY DEF IInv, Variables, Evaluation
<1>2. /\ \A f \in Evaluators : Evaluation(f)'
      /\ Alone'
  BY <1>1, AdvanceKeeps
<1>3. /\ \A f \in Evaluators :
           /\ Held(f)' = IF f = e THEN Held(e) \ {s} ELSE Held(f)
           /\ \A r \in Held(f)' : rows'[f][r] = rows[f][r]
           /\ pc'[f] = IF f # e THEN pc[f]
                       ELSE IF Held(e) = {s} THEN "idle" ELSE "insert"
      /\ DOMAIN rows' = Evaluators
      /\ pc' \in [Evaluators -> {"idle", "insert", "tasks", "store"}]
  BY <1>1, AdvanceRows
<1>4. Variables'
  BY <1>1, <1>3 DEF IInv, Variables
<1>5. \A f \in Evaluators : \A r \in Held(f)' : r \in Schedules
  BY <1>2, <1>4 DEF Evaluation, Variables
<1>6. Fresh'
  BY <1>3, <1>5 DEF IInv, Fresh
<1>7. Spaced'
  BY <1>3 DEF IInv, Counted, Spaced, Busy
<1>8. Computed'
  BY <1>3 DEF IInv, Counted, Computed
<1>9. QED BY <1>2, <1>4, <1>6, <1>7, <1>8 DEF IInv

LEMMA PrepareFailsStep ==
  ASSUME IInv, NEW e \in Evaluators, PrepareFails(e)
  PROVE  IInv'
<1>1. nextRun' \in [Schedules -> Nat] /\ \A r \in Schedules : nextRun'[r] = nextRun[r]
  BY DEF IInv, Variables, PrepareFails, table
<1>2. QED BY <1>1, GivenUp DEF PrepareFails, Fault, Busy, table

LEMMA StoreFailsStep ==
  ASSUME IInv, NEW e \in Evaluators, NEW executed \in BOOLEAN, StoreFails(e, executed)
  PROVE  IInv'
<1>1. nextRun' \in [Schedules -> Nat]
  BY DEF IInv, Variables, StoreFails
<1>2. \A r \in Schedules \ {row[e]} : nextRun'[r] = nextRun[r]
  BY DEF IInv, Variables, StoreFails
<1>3. QED BY <1>1, <1>2, GivenUp DEF StoreFails, Fault, Busy

LEMMA CrashStep ==
  ASSUME IInv, NEW e \in Evaluators, Crash(e)
  PROVE  IInv'
<1>1. /\ excused \subseteq excused' /\ excused' \subseteq created
      /\ Busy(e) => row[e] \in excused'
  BY DEF IInv, Variables, Evaluation, Busy, Crash
<1>2. /\ \A f \in Evaluators : Held(f)' = IF f = e THEN {} ELSE Held(f)
      /\ \A f \in Evaluators \ {e} : rows'[f] = rows[f]
      /\ rows'[e] \in [{} -> 0..now]
      /\ \A f \in Evaluators : pc'[f] = IF f = e THEN "idle" ELSE pc[f]
  BY DEF IInv, Variables, Crash, Held, NoRows
<1>3. Variables'
  BY <1>1 DEF IInv, Variables, Crash, Fault, table
<1>4. ASSUME NEW f \in Evaluators PROVE Evaluation(f)'
  <2>1. CASE f = e
    <3>1. /\ rows'[f] \in [Held(f)' -> 0..now'] /\ Held(f)' = {} /\ pc'[f] = "idle"
      BY <1>2, <2>1 DEF Crash
    <3>2. QED BY <3>1 DEF Evaluation, Busy
  <2>2. CASE f # e
    BY <1>2, <2>2 DEF IInv, Evaluation, Busy, Crash, table
  <2>3. QED BY <2>1, <2>2
<1>5. Alone' /\ Fresh'
  BY <1>1, <1>2 DEF IInv, Alone, Fresh, Crash, table
<1>6. Spaced' /\ Computed'
  BY <1>1, <1>2 DEF IInv, Counted, Spaced, Computed, Busy, Crash, table
<1>7. QED BY <1>3, <1>4, <1>5, <1>6 DEF IInv

-----------------------------------------------------------------------------
LEMMA NextIInv == IInv /\ [Next]_vars => IInv'
<1> SUFFICES ASSUME IInv, [Next]_vars PROVE IInv'
  OBVIOUS
<1>1. CASE Tick
  BY <1>1, TickStep
<1>2. CASE \E s \in Schedules : Create(s) \/ Toggle(s)
  BY <1>2, CreateStep, ToggleStep
<1>3. ASSUME NEW e \in Evaluators,
             SelectDue(e) \/ Prepare(e) \/ Store(e) \/ PrepareFails(e) \/ Crash(e)
      PROVE  IInv'
  BY <1>3, SelectDueStep, PrepareStep, StoreStep, PrepareFailsStep, CrashStep
<1>4. ASSUME NEW e \in Evaluators, NEW s \in Schedules, Launch(e, s)
      PROVE  IInv'
  BY <1>4, LaunchStep
<1>5. ASSUME NEW e \in Evaluators, NEW s \in Schedules, NEW executed \in BOOLEAN,
             LaunchFails(e, s, executed)
      PROVE  IInv'
  BY <1>5, LaunchFailsStep
<1>6. ASSUME NEW e \in Evaluators, NEW executed \in BOOLEAN, StoreFails(e, executed)
      PROVE  IInv'
  BY <1>6, StoreFailsStep
<1>7. CASE UNCHANGED vars
  BY <1>7 DEF vars, table, IInv, Variables, Evaluation, Alone, Fresh, Counted, Spaced, Computed,
              Busy, Held
<1>8. QED BY <1>1, <1>2, <1>3, <1>4, <1>5, <1>6, <1>7 DEF Next

LEMMA SpecIInv == Spec => []IInv
BY InitIInv, NextIInv, PTL DEF Spec

(* Of the schedules two evaluations hold, none counts as undisturbed.      *)
THEOREM TypeCorrect == Spec => []TypeOK
BY SpecIInv, IInvTypes, PTL

(* What Launched says is a step of Launch, of a row as it was read.        *)
LEMMA LaunchedRow ==
  ASSUME IInv, Next, NEW s \in Schedules, Launched(s), lastLaunch[s] # Never,
         s \notin excused
  PROVE  nextRun[s] <= now /\ Counted(s, nextRun[s])
<1>1. PICK e \in Evaluators : pc[e] = "insert" /\ pc'[e] = "tasks" /\ row'[e] = s
  BY DEF Launched
<1>2. PICK r \in Schedules : Launch(e, r)
  <2>1. ASSUME NEW f \in Evaluators, NEW t \in Held(f), Advance(f, t)
        PROVE  pc'[e] # "tasks"
    BY <1>1, <2>1, AdvanceRows
  <2>2. \A f \in Evaluators : Busy(f) => row[f] \in Held(f)
    BY DEF IInv, Evaluation
  <2>3. QED
    BY <1>1, <2>1, <2>2 DEF Next, Tick, Create, InsertSchedule, Toggle, SetActive, SelectDue,
       Launch, Prepare, Store, LaunchFails, PrepareFails, StoreFails, Crash, IsFirst, Busy,
       IInv, Variables
<1>3. r = s /\ s \in Held(e)
  BY <1>1, <1>2 DEF Launch, IsFirst, IInv, Variables
<1>4. rows[e][s] = nextRun[s] /\ nextRun[s] \in 0..now
  BY <1>3 DEF IInv, Fresh, Evaluation
<1>5. ASSUME NEW f \in Evaluators, Busy(f) PROVE row[f] # s
  BY <1>1, <1>3, <1>5 DEF IInv, Evaluation, Alone, Busy
<1>6. Counted(s, nextRun[s])
  BY <1>5 DEF IInv, Spaced
<1>7. QED BY <1>4, <1>6

(* Every launch is for a due time of its own, in every zone.               *)
THEOREM LaunchesAreDue == Spec => DueSinceLaunch
<1>1. IInv /\ [Next]_vars =>
        [\A s \in Schedules :
           Launched(s) /\ lastLaunch[s] # Never /\ s \notin excused =>
             \E t \in lastLaunch[s]..now : NextTime(s, t) <= now]_vars
  BY LaunchedRow DEF Counted
<1>2. QED BY <1>1, SpecIInv, PTL DEF Spec, DueSinceLaunch

(* So launches are as far apart as runs, for schedules whose run times do  *)
(* not turn back.                                                          *)
THEOREM LaunchesAreSpaced ==
  ASSUME Growing PROVE Spec => LaunchesSpaced
<1>1. ASSUME IInv, Next, NEW s \in Schedules, Launched(s), lastLaunch[s] # Never,
             s \notin excused
      PROVE  NextTime(s, lastLaunch[s]) <= now
  <2>1. lastLaunch[s] \in 0..now /\ lastLaunch[s] \in Moments /\ now \in Moments
    <3>1. lastLaunch[s] \in 0..now /\ now \in Moments
      BY <1>1 DEF IInv, Variables
    <3>2. QED BY <3>1, BoundAssumption
  <2>2. PICK t \in lastLaunch[s]..now : nextRun[s] = NextTime(s, t) /\ nextRun[s] <= now
    BY <1>1, LaunchedRow DEF Counted
  <2>3. t \in Moments /\ lastLaunch[s] <= t
    BY <2>1, BoundAssumption
  <2>4. NextTime(s, lastLaunch[s]) <= NextTime(s, t)
    BY <2>1, <2>3 DEF Growing
  <2>5. NextTime(s, lastLaunch[s]) \in Nat /\ NextTime(s, t) \in Nat
    BY <2>1, <2>3, NextTimeAssumption
  <2>6. now \in Nat
    BY <2>1, BoundAssumption
  <2>7. QED BY <2>2, <2>4, <2>5, <2>6
<1>2. IInv /\ [Next]_vars =>
        [\A s \in Schedules :
           Launched(s) /\ lastLaunch[s] # Never /\ s \notin excused =>
             NextTime(s, lastLaunch[s]) <= now]_vars
  BY <1>1
<1>3. QED BY <1>2, SpecIInv, PTL DEF Spec, LaunchesSpaced
=============================================================================

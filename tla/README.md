# A verification development for the task orchestrator engine

The task orchestrator stores workflows (tasks and edges), launches executions
of them over an HTTP API, by schedule or by webhook, and lets a pool of
executor processes run the tasks.  PostgreSQL keeps the truth
(`executions`, `task_states`, `dead_letter_queue`), Redis keeps what is
transient (the task queue, locks, heartbeats, events).  No process talks to
another one directly.  Everything that is hard about the system happens in
between: two executors with one task, a status that was read before an `await`
and is used after it, a crash between two statements that are no transaction.

This directory models that system in TLA+, checks the models with TLC and
proves their central properties with TLAPS.

## 1. The system

Paths are relative to `src/`; `shared` is `packages/shared/src`, `executor` is
`services/executor-service/src/services`, `scheduler` is
`services/scheduler-api/src`, `monitor` is `services/monitor-service/src`.

| Component | State it keeps | Operations | Hard because |
|---|---|---|---|
| task state machine (`shared/state-machine`) | none | `transition`, `isTerminalState` | guards an UPDATE that happens later and repeats no check |
| task claimer (`executor/task-claimer.ts`) | `running`, `currentTask`, the renewal interval | `start` (the claim loop), `releaseCurrentTask`, `clearCurrentTask`, `stop` | its timer, `stop()` and the loop interleave at every `await`; an exception can leave `currentTask` behind |
| task runner (`executor/task-runner.ts`) | none of its own | `run`, timeout race, status updates | status checked on a loaded copy; timeout, abort and outcome race |
| retry handler (`executor/retry-handler.ts`, `shared/retry`) | none of its own | `handleFailure`, `waitWithLockRenewal`, dead letters | attempt count, dead letter and status are separate statements; waits while holding a lock that may lapse |
| task queue (`shared/redis/task-queue.ts`) | lists `task_queue`, `task_processing` | `enqueue`, `enqueueBatch`, `claimTask`, `requeue`, `removeFromProcessing` | requeue is two calls; the errors of a pipeline are not looked at |
| lock manager (`shared/redis/lock-manager.ts`) | keys `lock:task:<id>` with a TTL | `acquireLock`, `renewLock`, `releaseLock` | keys lapse; there is no fencing token |
| fan-out/fan-in (`executor/fan-out-fan-in.ts`) | none; works on its caller's snapshot | `evaluateDownstream`, `markSkipped` | concurrent evaluators on different snapshots; skips are never stored |
| execution controller (`scheduler/controllers`) | rows of `executions`, `task_states` | `execute`, `cancel`, `getById` | several calls without a transaction; `cancel` overwrites what changed since it read |
| execution manager (`scheduler/services`) | subscriptions | `start`, `checkExecutionCompletion` | decides on task states read earlier |
| event bus (`shared/redis/event-bus.ts`) | Redis channels | `publishTaskCompleted`, `subscribe` | fire and forget; channel names must agree |
| schedule evaluator, controller, repository (`scheduler`) | rows of `schedules` | `evaluate`, CRUD | overlapping evaluations, two replicas |
| cron evaluator (`shared/scheduling`) | none | `parseCronExpression`, `getNextRunTime` | calendar and time zone arithmetic |
| DAG validator, topological sorter, serializer (`shared/dag`) | none | `validateDAG`, `topologicalSort`, `serializeDAG` | depth-first search with three colors, aborted visits |
| workflow controller and repository, trigger manager (`scheduler`) | rows of `workflows`, `task_definitions`, `edges`, triggers | create, update, delete, list | several tables under foreign keys that executions refer to |
| orphan detector (`scheduler/services`) | none | `detect` | its query names columns that do not exist |
| heartbeat emitter, store, health tracker | timers, `heartbeat:<id>` hashes with a TTL, a snapshot | `start`, `stop`, `sendHeartbeat`, `refreshHealth` | timers against `stop()`, two calls for hash and TTL, four intervals that must fit |
| SLA checker, alert manager (`monitor`) | the map of alerts sent, rows of `alerts` | `check`, `createAlert`, `stop` | overlapping checks share the map; a clean-up by rows read earlier |
| metrics, webhook gateway, HTTP plumbing, clients, manifests | caches, none | read-only or stateless | - |

How they interact:

- A launch (`ExecutionController.execute`, `ScheduleEvaluator.evaluate`)
  inserts the execution and its task states and pushes task ids onto
  `task_queue`.
- An executor moves an id from `task_queue` to `task_processing`
  (BRPOPLPUSH), takes the lock (SET NX PX), loads the task state, checks the
  transition, updates the status, runs the body, updates the status again and
  releases (unlock, LREM).  A failed task with a policy waits under the lock,
  goes back to `pending` and is pushed again.
- After a completion `evaluateDownstream` decides on a snapshot of the task
  states which successors are ready, pushes them, and publishes an event.
- `ExecutionManager` reacts to events: when all task states are terminal it
  closes the execution.  `cancel` closes an execution and its pending tasks.
- `ScheduleEvaluator` reads the schedules that are due every five seconds,
  launches each and then moves its `next_run_at`.
- `WorkflowController` replaces task definitions that task states reference,
  or deletes a workflow, while launches read and reference them.
- `SLAChecker` reads running executions every five seconds and stores alerts.
- `HeartbeatEmitter` writes a key every 30 seconds, `ExecutorHealthTracker`
  reads all of them every ten.

The deployment runs three executors, two scheduler APIs, two monitors and two
webhook gateways (`k8s/`).  The four `app.ts` files serve `/health` only, and
nothing in the repository constructs the services: what calls
`evaluateDownstream`, `checkExecutionCompletion` and the `onTaskClaimed`
callback is known from the signatures and from the tests, and is modelled as
external.

### What makes it correct

- *Tasks*: the body of a task never runs on two executors at once and not more
  often than its policy allows; a terminal status is final; a task that failed
  for good is in the dead letter queue, once; nothing that was pushed is lost
  or leaked as long as nothing fails; a stopped executor drains.
- *Executions*: no task starts before its upstream tasks are done, no join is
  lost between concurrent evaluators, the final status of an execution is right
  when it is written and stays, a cancelled execution starts nothing new, and
  without faults every execution gets as far as its failures let it.
- *Workflows*: the validator accepts exactly the acyclic graphs, and the
  sorter orders them; concurrent updates do not mix, and what was launched fits
  the workflow as it is.
- *Schedules*: the next run time is the first moment that matches the
  expression, on the clock of the schedule's zone; every due time is launched,
  and once.
- *SLA*: every breach is reported, and once; the checker's memory drains.
- *Heartbeats*: one lost heartbeat does not show, an executor that went silent
  does.

`PROJECT.json` lists every component with what is modelled of it, and every
hazard with its line and the properties that would catch it.

## 2. Modules

| Module | Models | Composes with |
|---|---|---|
| `TaskStateMachine` | statuses and the transition table | used by `Executor`, `Execution`, `TaskLifecycle` |
| `TaskLifecycle` | abstract specification: what all executors together promise about a task | implemented by `Executor` |
| `Executor` | claimer, runner, retry handler, queue, lock, dead letters, timers, faults, for any executors and tasks | `Push`, `CancelRead`, `CancelWrite` stand for the other services |
| `ExecutorProperties` | its properties and the refinement mapping | |
| `Execution` | one execution of any workflow: launch, executors (as `TaskLifecycle` promises them), fan-in, events, completion checks, cancel | uses the verdict of `Dag` as `GraphAssumption` |
| `ExecutionProperties` | its properties | |
| `Dag` | `validateDAG` and `topologicalSort`, neighbour by neighbour | discharges `GraphAssumption` |
| `DagProperties` | what they compute, against definitions by sets | |
| `Cron` | `parseCronExpression` and `getNextRunTime`, field by field, with both time zone conversions | |
| `CronProperties` | what it computes, against a definition of the first matching minute | |
| `Scheduling` | the table `schedules`, `ScheduleController`, overlapping calls of `evaluate` | `NextTime` is what `Cron` computes; what a launch does is `Execution` |
| `SchedulingProperties` | its properties | |
| `Workflows` | one workflow: creation, update, deletion and launches as statements under row locks and foreign keys | the validator is `Dag`, the rest of an execution `Execution` |
| `WorkflowsProperties` | its properties | |
| `SlaMonitor` | overlapping calls of `check`, the map, the table `alerts` | |
| `SlaProperties` | its properties | |
| `Heartbeat` | emitter, key and tracker of one executor, in units of time | |
| `HeartbeatProperties` | its properties | |
| `MCExecutor`, `MCExecution`, `MCDag`, `MCCron`, `MCScheduling`, `MCWorkflows`, `MCSla`, `MCHeartbeat` | values of the constants for TLC | |
| `ExecutorProofs`, `ExecutionProofs`, `DagProofs`, `CronProofs`, `SchedulingProofs`, `WorkflowsProofs`, `SlaProofs`, `HeartbeatProofs` | theorems | |

The map from definitions to source lines is in `PROJECT.json`; a definition
keeps the name of the code it models where it can.  A definition marked
*Mutant* is not part of the model: it is the definition below it with a
plausible bug, to show that a property notices.

### Executor

JavaScript runs one turn of the event loop at a time, so the model's grain is
the `await`: `pc[e]` names the call that executor `e` awaits, and a step is the
effect of that call on Redis or PostgreSQL together with the code up to the
next `await`.  `claimed[e]` holds the handler's locals and the `ClaimedTask`:
the task id, whether the renewal interval is set, `aborted`, the attempt count
that was loaded.

| `pc` | Awaited call |
|---|---|
| `claim`, `acquire` | BRPOPLPUSH, SET NX of `TaskClaimer.start` |
| `requeueRem`, `requeuePush` | LREM, LPUSH of `TaskQueue.requeue` |
| `load` | the callback's SELECT of the task state |
| `markRunning`, `execute` | the first UPDATE and the body in `TaskRunner.run` |
| `markCompleted`, `markTimedOut`, `markFailed` | the final UPDATE |
| `bumpAttempt`, `deadLetter`, `retryWait`, `markPending` | `RetryHandler.handleFailure` |
| `unlock`, `unlist`, `enqueue` | `releaseCurrentTask` and the LPUSH after it |
| `wedged` | nothing: the loop sleeps because `currentTask` is still set |
| `stopped`, `down` | the loop has ended, the process is dead |

Around these steps happen `RenewalRefused` and `RenewalError` (the interval),
`LockLapses` (the TTL), `CallFails` (a call rejects and nothing changed),
`ReplyLost` (it rejects and did change something), `Stop`, `Crash`, `Restart`,
`Push` (a task pushed, possibly twice) and the two halves of `cancel`.

`LeaseLoss` says whether a lock may lapse under an executor that renews it,
that is, whether a process or Redis may stall for 30 seconds.  With
`LeaseLoss = FALSE` a key is protected while its owner's interval is set, and
during the two round trips after SET.  The code has no fencing token, so
without this assumption two executors can run one task; the run
`ExecutorLeaseLoss` shows what survives.

Abstractions: bodies are their outcomes (success, failure, timeout), the
retry delay is a wait of any length, outputs, errors and timestamps are left
out.  The processing list is a multiset, since it is only ever read as one.  A
body that timed out keeps running in the background and has no state here.  A
call that was on its way when its process crashed either took effect before the
crash or never does.

### Execution

One execution of one workflow.  `launch`, `work[t]`, `check[c]` and `cancel`
are the program counters of the launching handler, of the executor of task `t`,
of a call of `checkExecutionCompletion` and of `cancel`.  The work on a task is
the one `TaskLifecycle` allows, at the grain of what other services can see;
`Retry` merges four steps of `Executor`, and a claim of a task that is being
worked on, which `Executor` requeues, is a stutter.  Locks and their loss are
`Executor`'s business.

`Evaluate` runs in one turn, on the snapshot that its caller read after the
completion.  Edges come from a SELECT without ORDER BY, so any order is
considered; the verdicts of conditions are left open.  `markSkipped` writes to
the snapshot only, which is why `skipped` is a history variable and no
`task_states.status` is ever `skipped`.

An execution launched by a schedule pushes *every* task (the comment at
`schedule-evaluator.ts:61` says so), so it ignores its edges; `DependencyOrder`
and `CompletionSound` are claimed for the API.

### Dag

One step is one neighbour looked at by the active call of `dfs`, or one node
taken from the queue of the breadth-first search.  `caller` selects the
function.  Tasks and edges are sets, and both are visited in any order: the
code visits them in the order of the request, and the theorems hold for all.
`todo[n]` is the rest of the neighbour loop of the call for `n`.  When a gray
neighbour is met all active calls return `true` and leave their nodes gray;
`detectCycles` goes on with the next white task, `topologicalSort` returns.

### Cron

`phase` names the field whose turn it is in the loop of `getNextRunTime`; every
`continue` goes back to `month`, where the loop tests the year.  `Find...`
moves a field forward and resets the smaller ones, `Overflow...` carries.
Points in time are minutes since the epoch, the reference is in seconds, so the
rounding to the next minute is in the model.  The calendar of `Date` is given
by `MonthDays` and `MonthStart`, of which the model assumes only that a month
starts when all earlier ones are over; `MCCron` gives the Gregorian one.

A zone is an offset, a saving and the periods of summer time.  `Midnight` is
the hour that `Intl.DateTimeFormat` prints for midnight with `hour12: false`:
24 in the Node.js 20 of the images, 0 in engines that follow `hourCycle: h23`.
A token arrives as parts `[from, to, step]` with `*`, numbers or `NaN`; what
`parseInt` and `Number` make of odd strings (`5x` is 5, `-5/2` is `0-5/2`) is
left out, the checks that follow are not.  Day of month and day of week must
both match, as in the code; other implementations of cron take either.

### Scheduling

An element of `Evaluators` is a call of `evaluate` that may be under way:
`setInterval` does not wait for the one before it, and there are two replicas.
`rows[e]` are the rows that a call read and has not dealt with, with the
`next_run_at` they had; the code does not use that value again, the properties
do.  `Launch` is the INSERT of the execution, `Prepare` everything up to the
computation of the next run time, `Store` the UPDATE.  Each can fail before or
after it took effect, and the loop goes on with the next row.  `NextTime(s, t)`
is `t + interval_ms` or `getNextRunTime(cron, t)`.  The model assumes only that
it is a moment; that a later reference gives no earlier one (`Growing`) is a
hypothesis of the one theorem that needs it.  `excused` is a history variable: the
schedules that two calls have read at once, or whose launch was followed by a
failure, until a call has launched them undisturbed.

### Workflows

A step is one statement, or the end of a transaction, at READ COMMITTED.
`row` names the request whose values the row in `workflows` has, a task
definition is a pair of the request that inserted it and a task of its body, so
old and new definitions differ as their generated ids do.  The row lock of
`UPDATE workflows` makes a second update, or a deletion, wait until the first
one ends: `Open = {}` in the guards.  A foreign key makes an INSERT wait while a
deletion of what it references is not committed (`Emptied`) and a deletion wait
while a reference is not (`Shared`); it refuses the one that comes too late
(`DeleteRefused`, `TaskRefused`, `ExecutionRefused`, `DeleteWorkflowRefused`).
A deadlock that PostgreSQL resolves is one of the failures.
`ExecutionController.execute` inserts its task states in one transaction,
`ScheduleEvaluator.evaluate` one by one; `Scheduled` says which launch is which.
An execution is over (`Complete`) only after it was running: `cancel` accepts a
pending one too, but nobody knows its id then (as in `Execution`, `CancelLoad`).

### SlaMonitor

JavaScript runs from one `await` to the next: `Query` stands for the two
SELECTs, `Rows` and `Answered` for the loop up to the next `createAlert` or the
end, `Insert` for the statement.  `memory` is the map `alertedExecutions`.
`held` is what the set held when it was taken from the map; what is put back
after the `await` is that same set, which other checks may have changed
(`Known`).  The order of rows is left open.  An execution's time is its level:
below the warning threshold, between the thresholds, past the limit.

### Heartbeat

One executor with one emitter.  `timers` are the intervals, those included
whose handle was lost; `calls` are the sends under way.  Time passes in units
(`Tick`), and a unit ends only when every due timer has fired and every call is
answered: a call takes less than a unit.  `age` and `ttl` describe the key.

## 3. What TLC checks

| Run | Instance | Checks |
|---|---|---|
| `ExecutorFaults` | 2 executors, 1 task with two attempts, 2 pushes, 1 crash, 1 failed call, cancel, stop | `AtMostOneRunner`, `RunsBounded`, `DeadLettersMatchFailures`, `TerminalIsFinal`, and that `Executor` implements `TaskLifecycle` |
| `ExecutorLeaseLoss` | the same without cancel, locks may lapse at any time | `ProcessingCoversHandlers`, `LockBelongsToOwner`: even then nobody removes another executor's list entry or lock |
| `ExecutorHealthy` | 2 executors, 2 tasks, no faults, one executor may be stopped | `NothingLeaks`, `NoTaskLost`, and under fairness `PushedTasksSettle`, `StopDrains` |
| `ExecutionFaults` | every 3-task workflow with a join, 1 retry per task, 1 check, 1 fault, cancel | `DependencyOrder`, `FanInNotLost`, `CompletionSound`, `FinalStaysFinal`, `CancelledStaysQuiet` |
| `ExecutionProgress` | every 3-task workflow, launched over the API or by schedule, no faults | `Progress` |
| `DagCheck` | every graph over 3 tasks with an undefined fourth identifier, loop-free graphs over 4 | `VerdictCorrect`, `SortCorrect`, `Terminates` |
| `CronSearch` | 15 expressions, 8 references, UTC and two zones with summer time | `SearchCorrect`, `ZoneCorrect`, `Terminates` |
| `SchedulingFaults` | 2 calls of `evaluate`, 2 schedules, `LIMIT` 1, 5 units of time, 1 toggle, 1 fault | `LaunchesSpaced`, and under fairness `DueIsServed` |
| `WorkflowsRaces` | 1 POST, 2 PUTs, 1 request with edges, 1 invalid one, 1 DELETE, 2 launches, 1 fault | `VersionsUnmixed`, `LaunchIsConsistent` |
| `SlaFaults` | 2 executions, 2 checks, 1 fault (failed call, lost answer, restart or crash) | `AlertedOnce`, and under fairness `BreachIsReported`, `MemoryDrains` |
| `HeartbeatTimers` | the intervals of the code in units of 5 seconds, 3 starts, 2 failed calls, a crash | `MissedBeatTolerated`, and under fairness `SilenceShows` |

Each run also checks the type invariant of its module.  One more shows that the
program does not do what a comment says: `ExecutorWedge`
(`PollsAgainAfterError`).  The comment is "Log and continue polling"
(`task-claimer.ts:101`); after an exception in the callback `currentTask` stays
set, the loop sleeps for ever and the interval keeps the lock alive.

### What else came up

More facts follow from the models, or from reading the code for them, and are
not runs of their own.

*Tasks.*  `cancel` checks the status of the execution and of its tasks before it overwrites them
without a condition, so `cancelled` can replace `completed`
(`execution-controller.ts:72`), and a task cancelled that way may be marked
`running` by an executor that loaded it before; `TerminalIsFinal` and
`FinalStaysFinal` except exactly this.  The timeout path of `TaskRunner.run` returns before the abort
check of line 81, so an executor that lost its lock still persists `timed_out`,
against the comment at `task-claimer.ts:85`; and `waitWithLockRenewal` returns
silently when its renewal is refused, so after `stop()` a retry is reset to
pending without the lock, against the comment at `retry-handler.ts:75`.
`ExecutorFaults` reaches both writes, even while another executor holds the lock.
`AtMostOneRunner` and `TerminalIsFinal` show that they do no harm there, because
the status is `running` until they happen and keeps the other executor from the
task: let it accept a task that is `running`, or let `pending` be written before the
wait, and TLC finds both violated.  When a renewed lock may lapse, nothing
stops such a write (there is no fencing token), and no property says otherwise.

*Executions.*  An execution with a skipped task never completes: the task stays
`pending` in the database, and `AllTerminal` waits for it.  An execution in which
a task timed out and none failed is closed as `completed`, since only `failed` is
looked for (`execution-manager.ts:31`); `requirements.md:67-68` does not say what it should be,
and `CompletionSound` states what the code does.  No execution is
completed by an event at all: `event-bus.ts:3` publishes on
`channel:task.completed`, `execution-manager.ts:8` listens on `task:completed`.
`markSkipped` changes only the snapshot, and the loop does not come back to a
join that it passed before the skip: with edges 1-3, 1-2 (condition false) and
2-3, read in this order, task 3 is never enqueued, although
`.kiro/specs/task-orchestrator-engine/requirements.md:110` counts skipped
upstream tasks as satisfied.

*Graphs.*  The verdict of `validateDAG` is right, its report is not: after a
first cycle `path.indexOf` of a gray node is -1, so for the edges 1-1 and 2-1
the report is `undefined`, 1 and 2, and 2 is on no cycle (`dag-validator.ts:72`).

*Cron.*  The offset of a zone is computed with months of 43800 minutes
(`cron-evaluator.ts:433`): `0 0 1 * *` in UTC-5, computed on 29 February 2024,
gives 2 March, 10:00 local time.  With `Midnight` at 24 there are two more
errors: a scan that starts in the hour after midnight skips to the next day, and
a guess that falls there is off by a day.  An expression that matches on no day
of the next four years, such as `0 12 30 2 *`, is accepted by
`parseCronExpression` and makes `getNextRunTime` throw.  In a zone a later
reference can give an earlier run.  Where clocks are put back: `30 2 * * *` in
Berlin gives 28 October 2024, 01:30 UTC, for the reference 27 October, 00:40 UTC,
and 27 October, 01:30 UTC, for 25 minutes later.  And where the offset is wrong:
`0 * * * *` in UTC-5 gives 2 March 2024, 18:00 UTC, for the reference 1 March,
07:10 UTC, so an hourly schedule west of Greenwich loses about a day at the turn
of a month.

*Schedules.*  Two calls of `evaluate` that read the same row both launch it; a
slow call's UPDATE can move `next_run_at` past a due time, or back.  An error
after the INSERT leaves the schedule due, so it is launched again five seconds
later; with an expression that makes `getNextRunTime` throw, for ever.  A
schedule that is switched off after the SELECT is still launched, and one that
is switched on again is launched at once for the time it missed.  50 schedules
that always fail before the UPDATE keep all later ones from their turn.

*Workflows.*  A body with edges can never be stored: its edges name tasks, the
columns want ids that the INSERTs generate, and the transaction is rolled back
(`CreateRefused`, `InsertDefinitions`).  A workflow that was ever launched can be
neither updated nor deleted, and the request ends with status 500: old task
states and executions reference it, and only active ones are looked for.
`requirements.md:38-42` asks for all of this.

*SLA.*  A warning may follow the critical alert, since the second branch is
taken when the critical one is in the set.  Each replica alerts for itself.
`resolveByExecution` has no caller (`requirements.md:211`), and `sla_configs`
accepts two rows for one workflow, of which the later in the result counts.

*Heartbeats.*  Time to live and threshold are both 90 seconds: the key of an
executor that went silent expires when it would be reported as unhealthy, so it
is never shown as unhealthy but disappears (`requirements.md:139`), unless an
EXPIRE failed.  `stop()` during the first awaited heartbeat leaves an interval
that nobody clears, against "clean up timers" at `heartbeat-emitter.ts:51`; it
does nothing until the next `start()`, and then sends heartbeats of its own.

### Bounds, and why they are enough

The hazards of `Executor` are between two executors over one task: a third
executor repeats the part of the second, and tasks share nothing but the queue
and an executor's single slot, which `ExecutorHealthy` covers with two tasks.
Two pushes give a duplicate entry while the first is handled; two attempts give
a retry and an exhausted policy; one crash and one failed call can hit every
await, also during a retry.  An instance of `ExecutorFaults` with two tasks
(23.8 million states) was run once by hand, with the same result for
`AtMostOneRunner`.  Three tasks are the smallest workflows with a join of two
concurrent completions and with a chain below a skip.  For `Dag`, three nodes
give two cycles that share a node and one that does not; four give paths that
meet a black node on the way to another.  `MaxPushes`, `MaxCrashes`,
`MaxFaults`, `MaxRetries` and `MaxChecks` are the only bounds in guards.  What
is proved below holds for all their values.  For `Cron` the references lie
before the ends of days, months, a leap year and around the changes of the
clock, the expressions are daily jobs, working hours, ends of months, leap
days, dates that do not exist and tokens that are refused; some search to the
end of the four years, and `Years`, 2022 to 2029, covers that and the year beyond
that `UsualClocks` asks for.

For `Scheduling` two calls are all that can meet on one row, and with `LIMIT` 1
one schedule has to wait for the other; with `LIMIT` 2, where rows wait in
batches, the run was done once by hand with the same result.  Five units of
time are more than two intervals of either schedule.  `Workflows` has two
updates because row locks are between two, a launch of each kind because they
insert in different orders, and bodies with one and with two tasks, so that a
batch can stop half-way.  In `SlaMonitor` a failing alert for one execution is
in the way of the other's.  `Heartbeat` has the intervals of the code; three
starts give two intervals without a handle, two failures are the two lost
heartbeats that `MissedBeatTolerated` does not tolerate.  `MaxTime`,
`MaxToggles`, `MaxFaults` and `MaxStarts` are the bounds in guards.

`CHECK_DEADLOCK FALSE` is set in every configuration because the environment is
bounded: when the pushes are used up, all executors may be stopped, and a
terminated handler takes no step.  That nothing waits for ever is checked by
the liveness properties instead.

### Fairness

- `Executor`: weak fairness of `Step(e)` (the event loop serves every pending
  call; a body ends at the latest by its timeout, because `run` races it),
  of `Restart(e)` (the deployment restarts a pod), of `LockLapses(t)` (an
  unrenewed key has a TTL).  None for `Push`, `Stop`, cancellations or faults.
- `Execution`: weak fairness of the launching handler, of the work on each task
  and of each completion check.  A branch of `Work(t)` such as success is not
  forced.
- `Scheduling`: weak fairness of each call of `evaluate`: the interval keeps
  firing, and a statement is answered or fails.  None for toggles, creations,
  faults or the clock, which may stop at any moment up to `MaxTime`.
- `SlaMonitor`: the same for each call of `check`.
- `Heartbeat`: weak fairness of the clock, of due timers and of calls to Redis;
  none for `start`, `stop`, crashes and failures.
- `Workflows` states no fairness: its properties are invariants.
- `Dag` and `Cron`: weak fairness of `Next`; these functions run in one turn of
  the event loop.

## 4. What is proved

TLAPS proves these for every value of the constants, that is, for any
executors, tasks, policies, workflows and bounds.

| Theorem | States | Assumes |
|---|---|---|
| `ExecutorProofs!TypeCorrect` | `TypeOK` | the named assumptions of `Executor` |
| `ExecutorProofs!LocksAreOwned` | `LockBelongsToOwner` | the same |
| `ExecutorProofs!Exclusion` | `ExclusionInv` | and `~LeaseLoss` |
| `ExecutorProofs!MutualExclusion` | `AtMostOneRunner` | and `~LeaseLoss` |
| `ExecutorProofs!Finality` | `TerminalIsFinal` | and `~LeaseLoss` |
| `ExecutorProofs!Bound` | `RunsBounded` | and `~LeaseLoss` |
| `ExecutorProofs!DeadLetters` | `DeadLettersMatchFailures` | and `~LeaseLoss` |
| `ExecutorProofs!Refinement` | `ImplementsLifecycle` | and `~LeaseLoss` |
| `ExecutorProofs!Coverage` | `ProcessingCoversHandlers` | the named assumptions, finitely many executors |
| `ExecutorProofs!NoLeak` | `NothingLeaks` | and `Calm`: `~LeaseLoss`, no crash, no failed call |
| `ExecutorProofs!NoLoss` | `NoTaskLost` | the named assumptions and `Calm` |
| `ExecutionProofs!TypeCorrect` | `TypeOK` | the named assumptions of `Execution` |
| `ExecutionProofs!Order` | `DependencyOrder` | the same |
| `ExecutionProofs!Finality` | `FinalStaysFinal` | the same |
| `ExecutionProofs!CancelHolds` | `CancelledStaysQuiet` | the same |
| `ExecutionProofs!Completion` | `CompletionSound` | the same |
| `ExecutionProofs!NoJoinLost` | `FanInNotLost` | the same |
| `ExecutionProofs!NothingIsLeftBehind` | `NothingLeftBehind`, the safety half of `Progress` | the same |
| `ExecutionProofs!SkipsExactly` | what `markSkipped` marks | nothing |
| `DagProofs!Verdict` | `VerdictCorrect` | the named assumptions of `Dag` |
| `DagProofs!Sort` | `SortCorrect` | the same |
| `DagProofs!TypeCorrect` | `TypeOK` | the same |
| `DagProofs!AcceptedGraphs` | `RunsToItsEnd`: what is accepted meets `GraphAssumption` | the same |
| `DagProofs!WalkEnds` | every step lessens `Left`, the safety half of `Terminates` | the same |
| `DagProofs!FiniteWalk` | `Left` is finite | and finitely many identifiers |
| `CronProofs!Search` | `SearchCorrect` | the named assumptions of `Cron` |
| `CronProofs!TypeCorrect` | `TypeOK` | the same |
| `CronProofs!ZoneSearch` | `ZoneCorrect` | and `UsualClocks` |
| `CronProofs!LoopEnds` | every step of the loop lessens `Left`, the safety half of `Terminates` | the named assumptions |
| `CronProofs!NextRun` | the result in UTC is a function of expression and reference | the same |
| `CronProofs!NextRunsGrow` | that function is monotone | the same |
| `SchedulingProofs!TypeCorrect` | `TypeOK` | the named assumptions of `Scheduling` |
| `SchedulingProofs!LaunchesAreDue` | `DueSinceLaunch` | the same |
| `SchedulingProofs!LaunchesAreSpaced` | `LaunchesSpaced` | and `Growing` |
| `WorkflowsProofs!TypeCorrect` | `TypeOK` | the named assumptions of `Workflows` |
| `WorkflowsProofs!VersionsAreUnmixed` | `VersionsUnmixed` | the same |
| `WorkflowsProofs!LaunchesAreConsistent` | `LaunchIsConsistent` | the same |
| `SlaProofs!TypeCorrect` | `TypeOK` | the named assumptions of `SlaMonitor` |
| `SlaProofs!MemoryKept` | `OnceInv` | the same |
| `SlaProofs!OneAlert` | `AlertedOnce` | the same |
| `HeartbeatProofs!TypeCorrect` | `TypeOK` | the named assumptions of `Heartbeat` |
| `HeartbeatProofs!LostBeat` | `MissedBeatTolerated` | and `TwoBeatsFit` |

*Exclusion.*  `AtMostOneRunner` is not inductive: an executor that is about to
start the body is protected by something else.  `ExclusionInv` says by what.
Between SET NX and the update to `running` it is the lock (`LockGuards`); from
that update to the final one it is the status, which no other executor accepts
(`StatusGuards`), even when the lock has lapsed meanwhile, as it may after
`stop()` or an abort.  A cancellation that was decided earlier may hide the
status, hence `Stands`.  The proof classifies the steps of an executor: it
leaves, goes on, enters, or does not matter.

*Bound.*  The retry decision uses the attempt count loaded before the run.
`CountsAgree` relates it to the number of runs; by `ExclusionInv` nobody else
changes either number meanwhile.

*DeadLetters.*  The entry is inserted before the status becomes `failed`, and the
two are one executor's.  `DeadInv` adds where it stands between them: in a run
before the last the task has no entry, at `markFailed` it has one.  An executor
that crashes in between leaves a task `running` that nobody enters again.

*Refinement.*  `Worker` names at most one executor (`WorkerNamed`, from
`ExclusionInv`).  A step that enters or leaves the body is `Begin` or `End`, one
that persists an outcome `Settle`; that `Settle` may return to `pending` only
while runs are left is `BoundInv`.  Every other step leaves status, workers, runs
and cancellations alone.

*Coverage.*  Every step keeps, adds or drops one entry together with one handler
(`Keeps`, `Adds`, `Drops`); only faults make it keep an entry that has lost its
handler, and without them list and handlers have the same size (`Exact`).

*NoLeak, NoLoss.*  Without faults an executor that renews a lock holds it, and a
lock is held by the executor whose task it is (`CalmInv`), so nobody aborts.
A pending task that was pushed is in the queue or carried by an executor, one
that is running is in some executor's hands (`LostInv`); an entry is dropped
only when the status is not `pending`, so somebody else runs the task or it is
finished.

*Order.*  A pushed task stays justified because what justifies it is stable: a
completed task is never started again.  What justifies it at the push is the
snapshot of the evaluator, and `CompletedMeansDone` ties snapshots to what
executors did.

*CancelHolds, Completion, NoJoinLost.*  `Base` collects what the rest needs:
where the launch stands and which rows exist (`LaunchInv`, `Rows`), which work a
status allows (`Standing`), and that once a cancellation has read the tasks a
pending one is among those it will overwrite or was put back by a retry since
(`CancelInv`).  A task that is over stays over because nobody holds it any more,
so what a completion check has read remains
true until its UPDATE (`CheckInv`).  Of the evaluations above a join, the last
one to start has all the others' tasks completed in its snapshot, so it finds
the join ready; `FanInInv` says so for the evaluations under way.

*NothingIsLeftBehind.*  Without cancellations and faults a pending task that was
touched is in the queue or loaded, a running one is being run, and the roots are
pushed (`WaitInv`).  Among the tasks that at rest have neither ended nor a failed
or skipped task above them, one has no predecessor (`GraphAssumption`); so all its
upstream tasks completed and have published it, by `FanInNotLost` it was touched,
and then it is not at rest.  Whether rest is reached is what TLC checks with
`Progress`; the theorem adds retries and skips, which that run leaves out.

*SkipsExactly.*  The recursion of `markSkipped` is modelled by the least set closed
under its rule.  The theorem says that this set is a fixpoint, by taking out a
member that the rule does not give, so the recursion needs no induction.

*Dag.*  A node turns black when its neighbours are black, so no set of black
nodes contains a predecessor of each of its members (`BlackInv`); while no
cycle was found, the gray nodes are those on the path, so a gray neighbour
closes a cycle (`PathInv`, `GrayClosesCycle`); the tasks that the breadth-first
search misses contain a predecessor of each of their members
(`EverythingIsReached`).  None of this needs induction on the size of the graph.
`AcceptedGraphs` turns the verdict into `GraphAssumption` of `Execution`.
`Left` is what a walk has still to do: the stages before it, the calls to begin
and to end, the neighbours to look at, the tasks to reach.  Every step takes from
it and none adds (`WalkEnds`), although an aborted visit leaves gray nodes behind;
what the queue of the breadth-first search holds was not reached before (`FreshInv`).

*Cron.*  No step moves the cursor past a minute that matches and lies after the
reference (`SkipInv`), and the fields passed in a round match (`FoundInv`).
Dates are compared field by field; `Chronology` shows from the calendar alone
that this is the order of time, so the result is the least one.  The lemmas
`SkipMonth` and `SkipRestOfDay` say when a carry is justified.  The distance of the
cursor to the end of the search, and with it the number of the phase, is a measure
that every step of the loop lessens (`LoopEnds`): no `continue` leaves the cursor
where it was in the phase where it was.

*Zones.*  The guess of `buildTimestampInTimezone` is wrong by the saving at most, as
long as it stays in its month, and one of the adjustments makes up for that.
`UsualClocks` says what this needs: the calendar is continuous and reaches a year
beyond the search; a saving is 0, 60 or 120 minutes either way, since the
adjustments are whole hours (summer time on Lord Howe Island is half an hour); and
with `Midnight` at 24, where no adjustment is ever verified in the first hour of a
day, clocks do not change around that hour (`QuietMidnight`).

*Scheduling.*  A schedule that is not excused is in at most one batch, and
between its launch and its UPDATE no other call can read it; so when a call
reads it as due, `next_run_at` was computed from a clock that was read after the
last launch (`Counted`).  Nothing about zones is needed for that
(`LaunchesAreDue`).  Where run times do not turn back, it is no earlier than the
next run counted from the launch itself (`LaunchesAreSpaced`).  `Growing` holds of
intervals, and of expressions in UTC by `NextRun` and `NextRunsGrow`; section 3
says where it does not.  With such a `NextTime` TLC finds `LaunchesSpaced`
violated and `DueSinceLaunch` not.

*Workflows.*  The definitions in the table are those of one body, what a launch
has read is one body, and bodies are disjoint and not empty.  So a launch that
has inserted a task state for everything it read has read the definitions as
they are, and an update that could delete them met none of its task states.
The invariant adds to the properties where each request and launch stands
(`Dropped`, `Reads`, `Stands`).

*SLA.*  Two checks that are under way together excuse every pair (`Overlaps`), so
of a pair that is not excused at most one check can be about to alert.  An alert
that is stored is in the map, or its INSERT is being answered, or its execution is
over and no check will visit it any more (`Remembered`).  Only such executions lose
their entry in the clean-up: one that is not in the rows of the check that cleans up
is over, or was still to begin when they were read and then has no alert
(`WasRunning`).

*Heartbeats.*  `BeatInv` counts the time since the last EXPIRE that was answered:
the next heartbeat comes within one interval of it, or within two when one has
failed since.  A heartbeat is due by the timeout of `start`, by the first call, or by
any interval, those without a handle included; `CallInv` says what the answer of an
old interval's call can find.  `TwoBeatsFit` asks that two intervals of the emitter
be shorter than the time to live and no longer than the threshold: 60 seconds
against 90 and 90 in three files, none of which mentions the others.  The
inequalities are tight: with a period of 6 units TLC finds a violation for a time to
live of 12 or a threshold of 11, and none for 13 and 12.

Every invariant of the proofs was checked by TLC before it was proved.

Only model-checked: the liveness properties `PushedTasksSettle`, `StopDrains`,
`Progress`, `Terminates`, `DueIsServed`, `BreachIsReported`, `MemoryDrains` and
`SilenceShows`, since fairness and ENABLED are out of the prover's reach; of three
of them the safety half is proved (`NothingIsLeftBehind`, `WalkEnds`, `LoopEnds`).
The hypotheses of the theorems on constants are evaluated by TLC for the constants
of the runs: `UsualClocks` in `MCCron`, `Growing` in `MCScheduling`.  `TwoBeatsFit`
is arithmetic on the constants of `HeartbeatTimers`.  That the tables of `MCCron`
are the Gregorian calendar is for the reader to see.

## 5. What is not modelled, and why

- The orphan detector: its query names a status `processing` and a column
  `claimed_at` that the schema does not have, so every call of it ends in the
  error that it logs; there is no recovery to model.
- The trigger manager and the webhook repository: nothing calls the manager, and
  its `ON CONFLICT` names a column without a unique constraint.
- The webhook gateway: a stateless check in front of `execute`.  Its keyed
  digests are outside what such a model says anything about; what a repeated
  delivery launches is one more execution.
- Metrics (aggregator, cache, controller): read-only.
- The serializer: a JSON round trip.
- `calculateRetryDelay` and `validateRetryPolicy`: the delay is real-valued data
  that no decision reads, and how long a retry waits is left open in `Executor`.
- The dead letter API, the HTTP plumbing, the migration runner, and the clients
  of PostgreSQL and Redis, whose failures are actions of `Executor`,
  `Execution`, `Scheduling`, `Workflows`, `SlaMonitor` and `Heartbeat`.
- The bodies of tasks: `Executor` lets them succeed, fail and time out.
- The deployment manifests beyond the number of replicas and the restart of pods.

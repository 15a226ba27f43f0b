------------------------------ MODULE Execution ------------------------------
(***************************************************************************)
(* One execution of a workflow, from the insertion of its row to its final *)
(* status: ExecutionController.execute or ScheduleEvaluator.evaluate       *)
(* launches it, executors run its tasks, FanOutFanIn enqueues what became  *)
(* ready, ExecutionController.cancel cancels it and ExecutionManager       *)
(* decides when it is over.  A step is again one awaited call with the     *)
(* code up to the next await.                                              *)
(*                                                                         *)
(* The work of the executors on a task is what TaskLifecycle promises of   *)
(* module Executor: claimed while pending, marked running, one outcome.    *)
(***************************************************************************)
EXTENDS Integers, FiniteSets, TaskStateMachine

CONSTANTS
  Tasks,       \* task definitions of the workflow, one task state each
  Graphs,      \* workflows considered, see GraphAssumption
  Origins,     \* subset of {"api", "schedule"}: what launches the execution
  Checkers,    \* concurrent calls of checkExecutionCompletion
  MaxRetries,  \* bound: retries of a task
  MaxChecks,   \* bound: calls of checkExecutionCompletion by others
  MaxFaults    \* bound: failed calls and crashes

(* Edges are pairs of a source and a target, at most one for each pair;    *)
(* those in conditional have a conditionExpr.  validateDAG has rejected    *)
(* cycles: every non-empty set of tasks has one without predecessor in it. *)
ASSUME GraphAssumption ==
  \A g \in Graphs :
    /\ g.edges \subseteq Tasks \X Tasks
    /\ g.conditional \subseteq g.edges
    /\ \A X \in (SUBSET Tasks) \ {{}} :
         \E u \in X : \A s \in X : <<s, u>> \notin g.edges
ASSUME TaskAssumption == Tasks # {}   \* validateDAG rejects an empty workflow
ASSUME LimitAssumption ==
  /\ Origins \subseteq {"api", "schedule"}
  /\ MaxRetries \in Nat /\ MaxChecks \in Nat /\ MaxFaults \in Nat

VARIABLES
  graph,    \* the workflow, fixed
  origin,   \* what launches it, fixed
  launch,   \* the call the launching handler awaits
  pending,  \* tasks the launching handler has still to enqueue or insert
  exec,     \* executions.status, "none" before the INSERT
  rows,     \* tasks that have a row in task_states
  status,   \* task_states.status
  queue,    \* number of entries of the task in task_queue
  work,     \* what the executor of the task is doing
  ready,    \* readyTaskStateIds of evaluateDownstream for a completed task
  retries,  \* how often the task was retried
  cancel,   \* the call that ExecutionController.cancel awaits
  doomed,   \* tasks that cancel has read as pending and has still to write
  inbox,    \* calls of checkExecutionCompletion that are due
  check,    \* the final status a call has decided on, or "idle"
  calls,    \* number of calls by others so far
  faults,   \* number of faults so far
  skipped   \* history: tasks some evaluation has skipped, in its memory only

launching == <<launch, pending, rows>>
tasking   == <<status, queue, work, ready, retries, skipped>>
cancelling == <<cancel, doomed>>
checking  == <<inbox, check, calls>>
vars == <<graph, origin, launching, exec, tasking, cancelling, checking, faults>>

Upstream(u) == {s \in Tasks : <<s, u>> \in graph.edges}
Targets(t)  == {u \in Tasks : <<t, u>> \in graph.edges}
Roots == {t \in Tasks : Upstream(t) = {}}

(* The work of an executor on a task: claimed and seen pending, marked     *)
(* running, completed, enqueueing the ready tasks, publishing, all done;   *)
(* stopped by a failure; lost in a crash before the task completed, or cut *)
(* short by one after it.                                                  *)
Busy == {"loaded", "running"}
Following == {"ended", "enqueueing", "publishing"}
AfterCompletion == Following \cup {"published", "cut"}
Works == {"idle", "stopped", "lost"} \cup Busy \cup AfterCompletion

ExecStatus == {"pending", "running", "completed", "failed", "cancelled"}
ExecFinal == {"completed", "failed", "cancelled"}

Init ==
  /\ graph \in Graphs
  /\ origin \in Origins
  /\ launch = "create"
  /\ pending = {}
  /\ exec = "none"
  /\ rows = {}
  /\ status = [t \in Tasks |-> "pending"]
  /\ queue = [t \in Tasks |-> 0]
  /\ work = [t \in Tasks |-> "idle"]
  /\ ready = [t \in Tasks |-> {}]
  /\ retries = [t \in Tasks |-> 0]
  /\ cancel = "no"
  /\ doomed = {}
  /\ inbox = 0
  /\ check = [c \in Checkers |-> "idle"]
  /\ calls = 0
  /\ faults = 0
  /\ skipped = {}

Push(t) == queue' = [queue EXCEPT ![t] = @ + 1]
SetStatus(t, s) == status' = [status EXCEPT ![t] = s]
Goto(t, w) == work' = [work EXCEPT ![t] = w]

-----------------------------------------------------------------------------
(* Launching: execute creates all rows in one transaction and enqueues the *)
(* roots; evaluate inserts and enqueues every task one after the other.    *)

CreateExecution ==
  /\ launch = "create"
  /\ exec' = "pending"
  /\ launch' = IF origin = "api" THEN "batch" ELSE "insert"
  /\ pending' = Tasks
  /\ UNCHANGED <<graph, origin, rows, tasking, cancelling, checking, faults>>

CreateBatch ==
  /\ launch = "batch"
  /\ rows' = Tasks
  /\ pending' = Roots
  /\ launch' = "enqueue"
  /\ UNCHANGED <<graph, origin, exec, tasking, cancelling, checking, faults>>

EnqueueRoot(t) ==
  /\ launch = "enqueue"
  /\ t \in pending
  /\ Push(t)
  /\ pending' = pending \ {t}
  /\ launch' = IF pending' = {} THEN "markRunning" ELSE "enqueue"
  /\ UNCHANGED <<graph, origin, rows, exec, status, work, ready, retries,
                 skipped, cancelling, checking, faults>>

InsertRow(t) ==
  /\ launch = "insert"
  /\ t \in pending
  /\ rows' = rows \cup {t}
  /\ pending' = {t}
  /\ launch' = "enqueueRow"
  /\ UNCHANGED <<graph, origin, exec, tasking, cancelling, checking, faults>>

EnqueueRow(t) ==
  /\ launch = "enqueueRow"
  /\ t \in pending
  /\ Push(t)
  /\ pending' = Tasks \ rows
  /\ launch' = IF pending' = {} THEN "markRunning" ELSE "insert"
  /\ UNCHANGED <<graph, origin, rows, exec, status, work, ready, retries,
                 skipped, cancelling, checking, faults>>

MarkExecutionRunning ==
  /\ launch = "markRunning"
  /\ exec' = "running"
  /\ launch' = "done"
  /\ UNCHANGED <<graph, origin, pending, rows, tasking, cancelling, checking,
                 faults>>

(* A call fails: the handler answers 500, or logs the error; what was done *)
(* stays done.                                                             *)
LaunchFails ==
  /\ launch \notin {"done", "failed"}
  /\ faults < MaxFaults
  /\ faults' = faults + 1
  /\ launch' = "failed"
  /\ UNCHANGED <<graph, origin, pending, rows, exec, tasking, cancelling,
                 checking>>

-----------------------------------------------------------------------------
(* An executor's work on a task                                            *)

Take(t) ==
  /\ queue[t] > 0
  /\ work[t] \notin Busy
  /\ queue' = [queue EXCEPT ![t] = @ - 1]
  /\ IF CanTransition(status[t], "running")
     THEN Goto(t, "loaded")
     ELSE UNCHANGED work
  /\ UNCHANGED <<graph, origin, launching, exec, status, ready, retries,
                 skipped, cancelling, checking, faults>>

Start(t) ==
  /\ work[t] = "loaded"
  /\ SetStatus(t, "running")
  /\ Goto(t, "running")
  /\ UNCHANGED <<graph, origin, launching, exec, queue, ready, retries,
                 skipped, cancelling, checking, faults>>

Complete(t) ==
  /\ work[t] = "running"
  /\ SetStatus(t, "completed")
  /\ Goto(t, "ended")
  /\ UNCHANGED <<graph, origin, launching, exec, queue, ready, retries,
                 skipped, cancelling, checking, faults>>

(* Mutant: a status that is not in the enumeration of types.ts.            *)
FailOrTimeout(t) ==
  /\ work[t] = "running"
  /\ \E s \in {"failed", "timeout"} : SetStatus(t, s)
  /\ Goto(t, "stopped")
  /\ UNCHANGED <<graph, origin, launching, exec, queue, ready, retries,
                 skipped, cancelling, checking, faults>>

(* Nothing follows a failure: publishTaskFailed has no caller.             *)
FailOrTimeOut(t) ==
  /\ work[t] = "running"
  /\ \E s \in {"failed", "timed_out"} : SetStatus(t, s)
  /\ Goto(t, "stopped")
  /\ UNCHANGED <<graph, origin, launching, exec, queue, ready, retries,
                 skipped, cancelling, checking, faults>>

(* MarkPending, Unlock, Unlist and Enqueue of module Executor in one step.  *)
Retry(t) ==
  /\ work[t] = "running"
  /\ retries[t] < MaxRetries
  /\ retries' = [retries EXCEPT ![t] = @ + 1]
  /\ SetStatus(t, "pending")
  /\ Push(t)
  /\ Goto(t, "idle")
  /\ UNCHANGED <<graph, origin, launching, exec, ready, skipped, cancelling,
                 checking, faults>>

(* The process dies, or a call rejects and the handler breaks off.         *)
Crash(t) ==
  /\ faults < MaxFaults
  /\ faults' = faults + 1
  /\ \/ work[t] \in Busy /\ Goto(t, "lost")
     \/ work[t] \in Following /\ Goto(t, "cut")
  /\ ready' = [ready EXCEPT ![t] = {}]
  /\ UNCHANGED <<graph, origin, launching, exec, status, queue, retries,
                 skipped, cancelling, checking>>

-----------------------------------------------------------------------------
(* FanOutFanIn.evaluateDownstream, and its caller's read of the task states *)

(* Mutant: the states are read before the completion is persisted.         *)
EarlySnapshot == [t \in Tasks |->
  CASE t \notin rows -> "absent"
    [] work[t] = "ended" -> "running"
    [] OTHER -> status[t]]

Snapshot == [t \in Tasks |-> IF t \in rows THEN status[t] ELSE "absent"]

(* Mutant: one satisfied edge is enough.                                   *)
SatisfiedBySome(u, view) ==
  \E s \in Upstream(u) : view[s] = "completed"

(* Every incoming edge comes from a completed or skipped task, and one at  *)
(* least from a completed one.                                             *)
Satisfied(u, view) ==
  /\ \A s \in Upstream(u) : view[s] \in {"completed", "skipped"}
  /\ \E s \in Upstream(u) : view[s] = "completed"

Hopeless == {"skipped", "failed", "cancelled", "timed_out"}

(* markSkipped marks a pending task and goes on with every pending target  *)
(* whose incoming edges all come from hopeless tasks: calling it for the   *)
(* tasks in R marks the least set around R that is closed under this.      *)
Skips(R, seen) ==
  LET Closed(X) ==
        \A d \in Tasks :
          /\ seen[d] = "pending" /\ Upstream(d) \cap X # {}
          /\ \A s \in Upstream(d) : s \in X \/ seen[s] \in Hopeless
          => d \in X
  IN {d \in Tasks : \A X \in SUBSET Tasks : R \subseteq X /\ Closed(X) => d \in X}

Marked(X, seen) == [d \in Tasks |-> IF d \in X THEN "skipped" ELSE seen[d]]

(* The loop over the outgoing edges runs in one turn, on a snapshot in     *)
(* which it marks what it skips.  The database returned the edges in any   *)
(* order: turn[u] is the turn of the edge to u.  The verdicts are left     *)
(* open: refused are the targets whose condition is false.                 *)
SkippedBefore(u, turn, refused, seen) ==
  Skips({r \in refused : seen[r] = "pending" /\ turn[r] < turn[u]}, seen)

Ready(t, turn, refused, seen) ==
  {u \in Targets(t) \ refused :
     LET view == Marked(SkippedBefore(u, turn, refused, seen), seen)
     IN view[u] = "pending" /\ Satisfied(u, view)}

Turns(t) == {f \in [Targets(t) -> 1..Cardinality(Targets(t))] :
               \A u, v \in Targets(t) : f[u] = f[v] => u = v}

Conditional(t) == {u \in Targets(t) : <<t, u>> \in graph.conditional}

Evaluate(t) ==
  /\ work[t] = "ended"
  /\ \E turn \in Turns(t), refused \in SUBSET Conditional(t) :
       /\ ready' = [ready EXCEPT ![t] = Ready(t, turn, refused, Snapshot)]
       /\ skipped' = skipped \cup
            Skips({r \in refused : Snapshot[r] = "pending"}, Snapshot)
  /\ Goto(t, IF ready'[t] = {} THEN "publishing" ELSE "enqueueing")
  /\ UNCHANGED <<graph, origin, launching, exec, status, queue, retries,
                 cancelling, checking, faults>>

PushAll(X) == queue' = [u \in Tasks |-> queue[u] + IF u \in X THEN 1 ELSE 0]

(* Mutant: only the first of the ready tasks is pushed.                    *)
EnqueueFirst(t) ==
  /\ work[t] = "enqueueing"
  /\ PushAll({CHOOSE u \in ready[t] : TRUE})
  /\ ready' = [ready EXCEPT ![t] = {}]
  /\ Goto(t, "publishing")
  /\ UNCHANGED <<graph, origin, launching, exec, status, retries, skipped,
                 cancelling, checking, faults>>

EnqueueBatch(t) ==
  /\ work[t] = "enqueueing"
  /\ PushAll(ready[t])
  /\ ready' = [ready EXCEPT ![t] = {}]
  /\ Goto(t, "publishing")
  /\ UNCHANGED <<graph, origin, launching, exec, status, retries, skipped,
                 cancelling, checking, faults>>

(* exec() of a pipeline resolves with one error or reply per command, and  *)
(* nobody looks: a part was pushed, the evaluator goes on regardless.      *)
EnqueueBatchFails(t) ==
  /\ work[t] = "enqueueing"
  /\ faults < MaxFaults
  /\ faults' = faults + 1
  /\ \E X \in SUBSET ready[t] : PushAll(X)
  /\ ready' = [ready EXCEPT ![t] = {}]
  /\ Goto(t, "publishing")
  /\ UNCHANGED <<graph, origin, launching, exec, status, retries, skipped,
                 cancelling, checking>>

-----------------------------------------------------------------------------
(* EventBus and ExecutionManager                                           *)

CHANNEL_TASK_COMPLETED == "channel:task.completed"
Subscriptions == {"task:completed", "task:failed"}

(* Redis delivers a message to whoever subscribed to its channel.          *)
PublishTaskCompleted(t) ==
  /\ work[t] = "publishing"
  /\ Goto(t, "published")
  /\ inbox' = IF CHANNEL_TASK_COMPLETED \in Subscriptions
              THEN inbox + 1 ELSE inbox
  /\ UNCHANGED <<graph, origin, launching, exec, status, queue, ready, retries,
                 skipped, cancelling, check, calls, faults>>

(* checkExecutionCompletion is public: others may call it too.             *)
CallCheck ==
  /\ calls < MaxChecks
  /\ calls' = calls + 1
  /\ inbox' = inbox + 1
  /\ UNCHANGED <<graph, origin, launching, exec, tasking, cancelling, check,
                 faults>>

(* Mutant: a task that nobody works on counts as finished.                 *)
NoneRunning == rows # {} /\ \A t \in rows : status[t] # "running"

AllTerminal == rows # {} /\ \A t \in rows : status[t] \in TerminalStates

Verdict == IF \E t \in rows : status[t] = "failed" THEN "failed" ELSE "completed"

CheckRead(c) ==
  /\ check[c] = "idle"
  /\ inbox > 0
  /\ inbox' = inbox - 1
  /\ check' = [check EXCEPT ![c] = IF AllTerminal THEN Verdict ELSE "idle"]
  /\ UNCHANGED <<graph, origin, launching, exec, tasking, cancelling, calls,
                 faults>>

(* Mutant: the UPDATE does not repeat the condition on the status.         *)
CheckWriteAlways(c) ==
  /\ check[c] # "idle"
  /\ exec' = check[c]
  /\ check' = [check EXCEPT ![c] = "idle"]
  /\ UNCHANGED <<graph, origin, launching, tasking, cancelling, inbox, calls,
                 faults>>

CheckWrite(c) ==
  /\ check[c] # "idle"
  /\ exec' = IF exec = "running" THEN check[c] ELSE exec
  /\ check' = [check EXCEPT ![c] = "idle"]
  /\ UNCHANGED <<graph, origin, launching, tasking, cancelling, inbox, calls,
                 faults>>

(* One of its two queries rejects, and with it the handler's promise.      *)
CheckFails(c) ==
  /\ check[c] # "idle"
  /\ faults < MaxFaults
  /\ faults' = faults + 1
  /\ check' = [check EXCEPT ![c] = "idle"]
  /\ UNCHANGED <<graph, origin, launching, exec, tasking, cancelling, inbox,
                 calls>>

-----------------------------------------------------------------------------
(* ExecutionController.cancel                                              *)

(* cancel does not ask where the launch is, but nobody knows the id before *)
(* execute answers or a monitor reports the running execution.             *)
CancelLoad ==
  /\ cancel = "no"
  /\ launch = "done"
  /\ exec \notin ExecFinal
  /\ cancel' = "execution"
  /\ UNCHANGED <<graph, origin, launching, exec, tasking, doomed, checking,
                 faults>>

CancelExecution ==
  /\ cancel = "execution"
  /\ exec' = "cancelled"
  /\ cancel' = "load"
  /\ UNCHANGED <<graph, origin, launching, tasking, doomed, checking, faults>>

(* Mutant: only tasks that wait in the queue are cancelled.                *)
CancelLoadQueued ==
  /\ cancel = "load"
  /\ doomed' = {t \in rows : status[t] = "pending" /\ queue[t] > 0}
  /\ cancel' = IF doomed' = {} THEN "done" ELSE "tasks"
  /\ UNCHANGED <<graph, origin, launching, exec, tasking, checking, faults>>

CancelLoadTasks ==
  /\ cancel = "load"
  /\ doomed' = {t \in rows : status[t] = "pending"}
  /\ cancel' = IF doomed' = {} THEN "done" ELSE "tasks"
  /\ UNCHANGED <<graph, origin, launching, exec, tasking, checking, faults>>

CancelTask(t) ==
  /\ cancel = "tasks"
  /\ t \in doomed
  /\ SetStatus(t, "cancelled")
  /\ doomed' = doomed \ {t}
  /\ cancel' = IF doomed' = {} THEN "done" ELSE "tasks"
  /\ UNCHANGED <<graph, origin, launching, exec, queue, work, ready, retries,
                 skipped, checking, faults>>

(* A call fails: the handler answers 500.  A second cancel of a cancelled  *)
(* execution is refused, so tasks that were still doomed are spared.       *)
CancelFails ==
  /\ cancel \in {"execution", "load", "tasks"}
  /\ faults < MaxFaults
  /\ faults' = faults + 1
  /\ cancel' = "failed"
  /\ doomed' = {}
  /\ UNCHANGED <<graph, origin, launching, exec, tasking, checking>>

-----------------------------------------------------------------------------
Launch ==
  \/ CreateExecution \/ CreateBatch \/ MarkExecutionRunning
  \/ \E t \in Tasks : EnqueueRoot(t) \/ InsertRow(t) \/ EnqueueRow(t)

Work(t) ==
  \/ Take(t) \/ Start(t) \/ Complete(t) \/ FailOrTimeOut(t) \/ Retry(t)
  \/ Evaluate(t) \/ EnqueueBatch(t) \/ PublishTaskCompleted(t)

Check(c) == CheckRead(c) \/ CheckWrite(c)

Cancel ==
  \/ CancelLoad \/ CancelExecution \/ CancelLoadTasks
  \/ \E t \in Tasks : CancelTask(t)

Fault ==
  \/ LaunchFails \/ CancelFails
  \/ \E c \in Checkers : CheckFails(c)
  \/ \E t \in Tasks : Crash(t) \/ EnqueueBatchFails(t)

Next ==
  \/ Launch
  \/ \E t \in Tasks : Work(t)
  \/ \E c \in Checkers : Check(c)
  \/ CallCheck \/ Cancel \/ Fault

Spec == Init /\ [][Next]_vars

(* The handlers go on until they return, executors poll the queue and the  *)
(* event loop serves the messages that arrived.                            *)
FairSpec ==
  /\ Spec
  /\ WF_vars(Launch)
  /\ \A t \in Tasks : WF_vars(Work(t))
  /\ \A c \in Checkers : WF_vars(Check(c))

=============================================================================

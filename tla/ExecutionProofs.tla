--------------------------- MODULE ExecutionProofs ---------------------------
(***************************************************************************)
(* The safety properties of Execution for every workflow and all bounds on *)
(* retries, checks and faults.                                             *)
(*                                                                         *)
(* DependencyOrder: a pushed task stays justified because what justifies   *)
(* it is stable: a task that completed never becomes pending again, so it  *)
(* is never taken again, and a skip is remembered.  What makes a task      *)
(* justified when an evaluator pushes it is its snapshot: completed there  *)
(* means that the executor had completed the task before                   *)
(* (CompletedMeansDone), skipped there means skipped by the evaluator.     *)
(*                                                                         *)
(* The other properties share the invariant Base: where a task stands,     *)
(* what is inserted at each point of the launch, what a cancel has done.   *)
(* What the evaluator skips is a fixpoint (SkipsExactly), and what is left *)
(* at rest is what a failure or a skip is in the way of (last section).    *)
(***************************************************************************)
EXTENDS ExecutionProperties, TLAPS

(* The types that the argument needs.                                      *)
Typed ==
  /\ graph \in Graphs
  /\ pending \subseteq Tasks
  /\ status \in [Tasks -> TaskStatus \ {"skipped"}]
  /\ queue \in [Tasks -> Nat]
  /\ work \in [Tasks -> Works]
  /\ ready \in [Tasks -> SUBSET Tasks]
  /\ retries \in [Tasks -> Nat]
  /\ rows \subseteq Tasks
  /\ doomed \subseteq Tasks

(* The executors and the evaluators respect the dependencies of u.         *)
Justified(u) ==
  /\ \A s \in Upstream(u) : Done(s) \/ s \in skipped
  /\ Upstream(u) # {} => \E s \in Upstream(u) : Done(s)

CompletedMeansDone ==
  \A s \in Tasks :
    /\ status[s] = "completed" => Done(s)
    /\ Done(s) => status[s] \in {"completed", "cancelled"}

LaunchesRoots ==
  /\ launch \notin {"insert", "enqueueRow"}
  /\ launch = "enqueue" => pending \subseteq Roots

EverythingJustified ==
  /\ \A t \in Tasks : \A u \in ready[t] : Justified(u)
  /\ \A u \in Tasks : Touched(u) => Justified(u)

IInv ==
  /\ Typed
  /\ CompletedMeansDone
  /\ origin = "api" => LaunchesRoots /\ EverythingJustified

-----------------------------------------------------------------------------
(* Marking more tasks as skipped never unmarks one.                        *)
LEMMA SkipsMonotone ==
  ASSUME NEW R, NEW R1, R1 \subseteq R, NEW seen
  PROVE  Skips(R1, seen) \subseteq Skips(R, seen)
BY DEF Skips

(* A task that the evaluator of t finds ready is justified once the        *)
(* evaluator has recorded what it skipped.                                 *)
LEMMA ReadyIsJustified ==
  ASSUME Typed, CompletedMeansDone,
         NEW t \in Tasks, NEW turn, NEW refused,
         NEW u \in Ready(t, turn, refused, Snapshot)
  PROVE  LET all == {r \in refused : Snapshot[r] = "pending"}
         IN /\ \A s \in Upstream(u) : Done(s) \/ s \in Skips(all, Snapshot)
            /\ \E s \in Upstream(u) : Done(s)
<1> DEFINE all == {r \in refused : Snapshot[r] = "pending"}
           before == SkippedBefore(u, turn, refused, Snapshot)
           view == Marked(before, Snapshot)
<1>1. Satisfied(u, view)
  BY DEF Ready
<1>2. before \subseteq Skips(all, Snapshot)
  BY SkipsMonotone DEF SkippedBefore
<1>3. \A s \in Tasks : view[s] = "completed" => Done(s)
  BY DEF Marked, Snapshot, CompletedMeansDone
<1>4. \A s \in Tasks : view[s] = "skipped" => s \in before
  BY DEF Marked, Snapshot, Typed
<1>5. Upstream(u) \subseteq Tasks
  BY DEF Upstream
<1> QED
  BY <1>1, <1>2, <1>3, <1>4, <1>5 DEF Satisfied

(* What is done stays done, what is skipped stays skipped, so what is      *)
(* justified stays justified.                                              *)
LEMMA JustifiedIsStable ==
  ASSUME UNCHANGED graph, skipped \subseteq skipped',
         \A s \in Tasks : Done(s) => Done(s)',
         NEW u, Justified(u)
  PROVE  Justified(u)'
BY DEF Justified, Upstream

(* So EverythingJustified survives a step that pushes only tasks that were *)
(* touched before or are justified.                                        *)
LEMMA KeepsJustified ==
  ASSUME Typed, EverythingJustified,
         UNCHANGED graph, skipped \subseteq skipped',
         \A s \in Tasks : Done(s) => Done(s)',
         \A t \in Tasks : \A u \in ready'[t] : u \in ready[t] \/ Justified(u)',
         \A u \in Tasks : Touched(u)' => Touched(u) \/ Justified(u)'
  PROVE  EverythingJustified'
<1>1. \A u \in Tasks : Justified(u) => Justified(u)'
  BY JustifiedIsStable
<1> QED
  BY <1>1 DEF EverythingJustified, Typed

USE DEF launching, tasking, cancelling, checking

-----------------------------------------------------------------------------
(* Initially nothing is pushed.                                            *)
LEMMA InitJustified == Init => IInv
BY DEF Init, IInv, Typed, CompletedMeansDone, LaunchesRoots,
       EverythingJustified, Touched, Done, AfterCompletion, Following, Works,
       Busy, TaskStatus

(* Every step of the launching handler preserves the invariant.            *)
LEMMA LaunchPreserves == IInv /\ (Launch \/ LaunchFails) => IInv'
<1> SUFFICES ASSUME IInv, Launch \/ LaunchFails PROVE IInv'
  OBVIOUS
<1> USE DEF IInv, Typed, CompletedMeansDone, LaunchesRoots, Done
<1>1. ASSUME CreateExecution \/ CreateBatch \/ MarkExecutionRunning \/ LaunchFails
      PROVE  IInv'
  <2>1. Typed' /\ CompletedMeansDone' /\ origin' = origin
    BY <1>1 DEF CreateExecution, CreateBatch, MarkExecutionRunning,
                LaunchFails, Roots
  <2>2. origin = "api" => LaunchesRoots'
    BY <1>1 DEF CreateExecution, CreateBatch, MarkExecutionRunning,
                LaunchFails, Roots, Upstream
  <2>3. origin = "api" => EverythingJustified'
    BY <1>1, KeepsJustified
       DEF CreateExecution, CreateBatch, MarkExecutionRunning, LaunchFails,
           Touched
  <2> QED
    BY <2>1, <2>2, <2>3
<1>2. ASSUME NEW t \in Tasks, EnqueueRoot(t) PROVE IInv'
  <2>1. Typed' /\ CompletedMeansDone' /\ origin' = origin
    BY <1>2 DEF EnqueueRoot, Push
  <2>2. origin = "api" => LaunchesRoots'
    BY <1>2 DEF EnqueueRoot, Roots, Upstream
  <2>3. origin = "api" => Justified(t)'
    BY <1>2 DEF EnqueueRoot, Justified, Roots, Upstream
  <2>4. \A u \in Tasks : Touched(u)' => Touched(u) \/ u = t
    BY <1>2 DEF EnqueueRoot, Touched, Push
  <2>5. origin = "api" => EverythingJustified'
    BY <1>2, <2>3, <2>4, KeepsJustified DEF EnqueueRoot
  <2> QED
    BY <2>1, <2>2, <2>5
<1>3. ASSUME NEW t \in Tasks, InsertRow(t) \/ EnqueueRow(t) PROVE IInv'
  BY <1>3 DEF InsertRow, EnqueueRow, Push
<1> QED
  BY <1>1, <1>2, <1>3 DEF Launch

(* Every step of an executor on a task preserves it.                       *)
LEMMA WorkPreserves ==
  ASSUME IInv, NEW t \in Tasks, Work(t) \/ Crash(t) \/ EnqueueBatchFails(t)
  PROVE  IInv'
<1> USE DEF IInv, Typed, CompletedMeansDone, LaunchesRoots, Done,
            AfterCompletion, Following, Works, Busy, TaskStatus, Goto,
            SetStatus, Push
<1>1. CASE Take(t)
  <2>1. status[t] # "pending" => UNCHANGED work
    BY <1>1 DEF Take, CanTransition, TerminalStates, ValidTransitions
  <2>2. Typed' /\ CompletedMeansDone'
    BY <1>1, <2>1 DEF Take
  <2>2a. origin = "api" => LaunchesRoots'
    BY <1>1, <2>1 DEF Take, Roots, Upstream
  <2>3. \A s \in Tasks : Done(s) => Done(s)'
    BY <1>1, <2>1 DEF Take
  <2>4. \A u \in Tasks : Touched(u)' => Touched(u)
    BY <1>1 DEF Take, Touched
  <2> QED
    BY <1>1, <2>2, <2>2a, <2>3, <2>4, KeepsJustified DEF Take
<1>2. CASE Start(t) \/ Complete(t) \/ FailOrTimeOut(t) \/ Crash(t)
  <2>1. Typed' /\ CompletedMeansDone'
    BY <1>2 DEF Start, Complete, FailOrTimeOut, Crash
  <2>1a. origin = "api" => LaunchesRoots'
    BY <1>2 DEF Start, Complete, FailOrTimeOut, Crash, Roots, Upstream
  <2>2. /\ \A s \in Tasks : Done(s) => Done(s)'
        /\ \A u \in Tasks : Touched(u)' => Touched(u)
        /\ \A s \in Tasks : ready'[s] \subseteq ready[s]
        /\ UNCHANGED <<graph, origin, skipped>>
    BY <1>2 DEF Start, Complete, FailOrTimeOut, Crash, Touched
  <2> QED
    BY <2>1, <2>1a, <2>2, KeepsJustified
<1>3. CASE Retry(t)
  <2>1. Typed' /\ CompletedMeansDone'
    BY <1>3 DEF Retry
  <2>1a. origin = "api" => LaunchesRoots'
    BY <1>3 DEF Retry, Roots, Upstream
  <2>2. /\ \A s \in Tasks : Done(s) => Done(s)'
        /\ \A u \in Tasks : Touched(u)' => Touched(u)
        /\ UNCHANGED <<graph, origin, skipped, ready>>
    BY <1>3 DEF Retry, Touched
  <2> QED
    BY <2>1, <2>1a, <2>2, KeepsJustified
<1>4. CASE Evaluate(t)
  <2> PICK turn \in Turns(t), refused \in SUBSET Conditional(t) :
        /\ ready' = [ready EXCEPT ![t] = Ready(t, turn, refused, Snapshot)]
        /\ skipped' = skipped \cup
             Skips({r \in refused : Snapshot[r] = "pending"}, Snapshot)
    BY <1>4 DEF Evaluate
  <2>1. \A u \in Ready(t, turn, refused, Snapshot) : Justified(u)'
    <3> SUFFICES ASSUME NEW u \in Ready(t, turn, refused, Snapshot)
                 PROVE  Justified(u)'
      OBVIOUS
    <3>1. \A s \in Upstream(u) : Done(s) \/ s \in skipped'
      BY ReadyIsJustified
    <3>2. \E s \in Upstream(u) : Done(s)
      BY ReadyIsJustified
    <3>3. \A s \in Tasks : Done(s) => Done(s)'
      BY <1>4 DEF Evaluate
    <3>4. Upstream(u)' = Upstream(u) /\ Upstream(u) \subseteq Tasks
      BY <1>4 DEF Evaluate, Upstream
    <3> HIDE DEF Done
    <3> QED
      BY <3>1, <3>2, <3>3, <3>4 DEF Justified
  <2>2. Ready(t, turn, refused, Snapshot) \subseteq Tasks
    BY DEF Ready, Targets
  <2>3. Typed' /\ CompletedMeansDone'
    BY <1>4, <2>2 DEF Evaluate
  <2>3a. origin = "api" => LaunchesRoots'
    BY <1>4, <2>2 DEF Evaluate, Roots, Upstream
  <2>4. /\ \A s \in Tasks : Done(s) => Done(s)'
        /\ \A u \in Tasks : Touched(u)' => Touched(u)
        /\ UNCHANGED <<graph, origin>>
    BY <1>4 DEF Evaluate, Touched
  <2>5. \A s \in Tasks : \A u \in ready'[s] : u \in ready[s] \/ Justified(u)'
    BY <2>1
  <2> HIDE DEF Done
  <2> QED
    BY <2>3, <2>3a, <2>4, <2>5, KeepsJustified
<1>5. CASE EnqueueBatch(t) \/ EnqueueBatchFails(t)
  <2>1. Typed' /\ CompletedMeansDone'
    BY <1>5 DEF EnqueueBatch, EnqueueBatchFails, PushAll
  <2>1a. origin = "api" => LaunchesRoots'
    BY <1>5 DEF EnqueueBatch, EnqueueBatchFails, PushAll, Roots, Upstream
  <2>2. /\ \A s \in Tasks : Done(s) => Done(s)'
        /\ \A s \in Tasks : ready'[s] \subseteq ready[s]
        /\ UNCHANGED <<graph, origin, skipped>>
    BY <1>5 DEF EnqueueBatch, EnqueueBatchFails
  <2>3. \A u \in Tasks : Touched(u)' => Touched(u) \/ u \in ready[t]
    BY <1>5 DEF EnqueueBatch, EnqueueBatchFails, PushAll, Touched
  <2>4. origin = "api" => \A u \in ready[t] : Justified(u)'
    BY <2>2, JustifiedIsStable DEF EverythingJustified
  <2> QED
    BY <2>1, <2>1a, <2>2, <2>3, <2>4, KeepsJustified
<1>6. CASE PublishTaskCompleted(t)
  <2>1. Typed' /\ CompletedMeansDone'
    BY <1>6 DEF PublishTaskCompleted
  <2>1a. origin = "api" => LaunchesRoots'
    BY <1>6 DEF PublishTaskCompleted, Roots, Upstream
  <2>2. /\ \A s \in Tasks : Done(s) => Done(s)'
        /\ \A u \in Tasks : Touched(u)' => Touched(u)
        /\ UNCHANGED <<graph, origin, skipped, ready>>
    BY <1>6 DEF PublishTaskCompleted, Touched
  <2> QED
    BY <2>1, <2>1a, <2>2, KeepsJustified
<1> QED
  BY <1>1, <1>2, <1>3, <1>4, <1>5, <1>6 DEF Work

(* Nor does anybody else touch a task: cancelling one that is pending      *)
(* leaves it as little done as it was.                                     *)
LEMMA OthersPreserve ==
  ASSUME IInv,
         CallCheck \/ Cancel \/ CancelFails
         \/ (\E c \in Checkers : Check(c) \/ CheckFails(c)) \/ UNCHANGED vars
  PROVE  IInv'
<1> DEFINE frame == <<graph, origin, launch, pending, rows, work, queue, ready,
                     retries, skipped>>
<1> USE DEF IInv, Typed, CompletedMeansDone, LaunchesRoots, Done, TaskStatus
<1>1. CASE \E t \in Tasks : CancelTask(t)
  <2>1. UNCHANGED frame
    BY <1>1 DEF CancelTask
  <2>2. Typed' /\ CompletedMeansDone'
    BY <1>1 DEF CancelTask, SetStatus
  <2> QED
    BY <2>1, <2>2, KeepsJustified DEF Roots, Upstream, Touched
<1>2. CASE CancelLoad \/ CancelExecution \/ CancelLoadTasks \/ CancelFails
  <2>1. UNCHANGED <<frame, status>> /\ doomed' \subseteq Tasks
    BY <1>2 DEF CancelLoad, CancelExecution, CancelLoadTasks, CancelFails
  <2> QED
    BY <2>1, KeepsJustified DEF Roots, Upstream, Touched
<1>3. CASE \/ CallCheck \/ UNCHANGED vars
           \/ \E c \in Checkers : Check(c) \/ CheckFails(c)
  <2>1. UNCHANGED <<frame, status, doomed>>
    BY <1>3 DEF CallCheck, Check, CheckRead, CheckWrite, CheckFails, vars
  <2> QED
    BY <2>1, KeepsJustified DEF Roots, Upstream, Touched
<1> QED
  BY <1>1, <1>2, <1>3 DEF Cancel

-----------------------------------------------------------------------------
(* A task of an execution launched over the API is handed to an executor   *)
(* only when its upstream tasks completed or were skipped, one of them     *)
(* completed: for every workflow and all bounds.                           *)
THEOREM Order == Spec => []DependencyOrder
<1>1. Init => IInv
  BY InitJustified
<1>2. IInv /\ [Next]_vars => IInv'
  <2> SUFFICES ASSUME IInv, [Next]_vars PROVE IInv'
    OBVIOUS
  <2>1. CASE Launch \/ LaunchFails
    BY <2>1, LaunchPreserves
  <2>2. CASE \E t \in Tasks : Work(t) \/ Crash(t) \/ EnqueueBatchFails(t)
    BY <2>2, WorkPreserves
  <2>3. CASE \/ CallCheck \/ Cancel \/ CancelFails \/ UNCHANGED vars
             \/ \E c \in Checkers : Check(c) \/ CheckFails(c)
    BY <2>3, OthersPreserve
  <2> QED
    BY <2>1, <2>2, <2>3 DEF Next, Fault
<1>3. IInv => DependencyOrder
  BY DEF IInv, EverythingJustified, DependencyOrder, Justified
<1> QED
  BY <1>1, <1>2, <1>3, PTL DEF Spec

-----------------------------------------------------------------------------
(* The other invariants                                                    *)

(* Until the launching handler is done the execution is not running, so no *)
(* check can finish it, and nobody knows its id, so nobody can cancel it.  *)
LaunchInv ==
  launch # "done" => exec \in {"none", "pending"} /\ cancel = "no"

(* Where a task stands: it is pending until an executor takes it, and an   *)
(* executor has no ended task in its hands unless a cancel ended it.       *)
Standing ==
  /\ CompletedMeansDone
  /\ \A t \in Tasks :
       /\ status[t] \in {"completed", "failed", "timed_out"} => work[t] \notin Busy
       /\ work[t] = "idle" => status[t] \in {"pending", "cancelled"}

(* The rows are complete when the handler is done, over the API even       *)
(* before anything is enqueued; the evaluator of schedules enqueues a task *)
(* when it has inserted its row.                                           *)
Rows ==
  /\ launch \in {"markRunning", "done"} => rows = Tasks
  /\ launch = "enqueueRow" => \A t, u \in pending : t = u
  /\ origin = "api" =>
       /\ launch \notin {"insert", "enqueueRow"}
       /\ launch = "enqueue" => rows = Tasks
       /\ rows \in {{}, Tasks}
       /\ \A t \in Tasks : Touched(t) => rows = Tasks
  /\ origin = "schedule" =>
       /\ launch \notin {"batch", "enqueue"}
       /\ \A t \in rows : \/ launch = "enqueueRow" /\ t \in pending
                          \/ cancel # "no" \/ faults > 0 \/ Touched(t)

(* Only a cancel that has overwritten the status of the execution cancels  *)
(* tasks, and it reads all that are pending.                               *)
CancelInv ==
  /\ cancel \in {"load", "tasks", "done"} => exec = "cancelled"
  /\ \A t \in Tasks : status[t] = "cancelled" => exec = "cancelled" /\ cancel # "no"
  /\ cancel \in {"tasks", "done"} =>
       \A t \in Tasks : status[t] = "pending" => t \in doomed \/ retries[t] > 0

(* What a check decides on is right, and stays right until a cancel.       *)
Over(verdict) ==
  /\ rows = Tasks
  /\ \A t \in Tasks : status[t] \in TerminalStates
  /\ verdict = "failed" <=> \E t \in Tasks : status[t] = "failed"

CheckInv ==
  origin = "api" /\ exec # "cancelled" =>
    /\ \A c \in Checkers : check[c] # "idle" => Over(check[c])
    /\ exec \in {"completed", "failed"} => Over(exec)

(* A join whose upstream tasks have all been evaluated was seen ready.     *)
Evaluated(s) == work[s] \in {"enqueueing", "publishing", "published"}

FanInInv ==
  origin = "api" /\ cancel = "no" /\ faults = 0 =>
    \A t \in Tasks \ skipped :
      (Upstream(t) # {} /\ \A s \in Upstream(t) : Evaluated(s))
        => Touched(t) \/ \E s \in Upstream(t) : t \in ready[s]

-----------------------------------------------------------------------------
(* Types and standing                                                      *)

LEMMA InitStands == Init => TypeOK /\ Standing
BY LimitAssumption
   DEF Init, TypeOK, Standing, CompletedMeansDone, Done, AfterCompletion,
       Following, Works, Busy, TaskStatus, ExecStatus

LEMMA LaunchStands ==
  TypeOK /\ Standing /\ (Launch \/ LaunchFails) => TypeOK' /\ Standing'
<1> SUFFICES ASSUME TypeOK, Standing, Launch \/ LaunchFails
             PROVE  TypeOK' /\ Standing'
  OBVIOUS
<1>1. UNCHANGED <<graph, origin, status, work, ready, retries, skipped,
                  cancel, doomed, inbox, check, calls>>
  BY DEF Launch, LaunchFails, CreateExecution, CreateBatch, EnqueueRoot,
         InsertRow, EnqueueRow, MarkExecutionRunning
<1>2. Standing'
  BY <1>1 DEF Standing, CompletedMeansDone, Done
<1>3. faults' \in 0..MaxFaults
  BY LimitAssumption
     DEF TypeOK, Launch, LaunchFails, CreateExecution, CreateBatch,
         EnqueueRoot, InsertRow, EnqueueRow, MarkExecutionRunning
<1>4. /\ launch' \in {"create", "batch", "enqueue", "insert", "enqueueRow",
                      "markRunning", "done", "failed"}
      /\ exec' \in ExecStatus \cup {"none"}
  BY DEF TypeOK, ExecStatus, Launch, LaunchFails, CreateExecution,
         CreateBatch, EnqueueRoot, InsertRow, EnqueueRow, MarkExecutionRunning
<1>5. pending' \subseteq Tasks /\ rows' \subseteq Tasks /\ rows \subseteq rows'
  BY DEF TypeOK, Roots, Launch, LaunchFails, CreateExecution, CreateBatch,
         EnqueueRoot, InsertRow, EnqueueRow, MarkExecutionRunning
<1>6. queue' \in [Tasks -> Nat]
  BY DEF TypeOK, Push, Launch, LaunchFails, CreateExecution, CreateBatch,
         EnqueueRoot, InsertRow, EnqueueRow, MarkExecutionRunning
<1> QED
  BY <1>1, <1>2, <1>3, <1>4, <1>5, <1>6 DEF TypeOK

LEMMA WorkStands ==
  ASSUME TypeOK, Standing, NEW t \in Tasks,
         Work(t) \/ Crash(t) \/ EnqueueBatchFails(t)
  PROVE  TypeOK' /\ Standing'
<1>1. UNCHANGED <<graph, origin, launch, pending, rows, exec, cancel, doomed,
                  check, calls>>
  BY DEF Work, Take, Start, Complete, FailOrTimeOut, Retry, Evaluate,
         EnqueueBatch, PublishTaskCompleted, Crash, EnqueueBatchFails
<1>2. inbox' \in Nat
  BY DEF TypeOK, Work, Take, Start, Complete, FailOrTimeOut, Retry, Evaluate,
         EnqueueBatch, PublishTaskCompleted, Crash, EnqueueBatchFails
<1>3. faults' \in 0..MaxFaults
  BY LimitAssumption
     DEF TypeOK, Work, Take, Start, Complete, FailOrTimeOut, Retry, Evaluate,
         EnqueueBatch, PublishTaskCompleted, Crash, EnqueueBatchFails
<1>4. skipped' \subseteq Tasks
  BY DEF TypeOK, Work, Take, Start, Complete, FailOrTimeOut, Retry, Evaluate,
         EnqueueBatch, PublishTaskCompleted, Crash, EnqueueBatchFails, Skips
<1>5. retries' \in [Tasks -> 0..MaxRetries]
  BY LimitAssumption
     DEF TypeOK, Work, Take, Start, Complete, FailOrTimeOut, Retry, Evaluate,
         EnqueueBatch, PublishTaskCompleted, Crash, EnqueueBatchFails
<1>6. queue' \in [Tasks -> Nat]
  BY DEF TypeOK, Work, Take, Start, Complete, FailOrTimeOut, Retry, Evaluate,
         EnqueueBatch, PublishTaskCompleted, Crash, EnqueueBatchFails, Push,
         PushAll
<1>7. /\ status' \in [Tasks -> TaskStatus \ {"skipped"}]
      /\ work' \in [Tasks -> Works]
  BY DEF TypeOK, Work, Take, Start, Complete, FailOrTimeOut, Retry, Evaluate,
         EnqueueBatch, PublishTaskCompleted, Crash, EnqueueBatchFails, Goto,
         SetStatus, TaskStatus, Works, Busy, AfterCompletion, Following
<1>8. /\ ready' \in [Tasks -> SUBSET Tasks]
      /\ \A s \in Tasks : ready'[s] # {} <=> work'[s] = "enqueueing"
      /\ Standing'
  <2> USE DEF TypeOK, Standing, CompletedMeansDone, Done, AfterCompletion,
              Following, Works, Busy, TaskStatus, Goto, SetStatus
  <2>1. CASE Take(t)
    BY <2>1 DEF Take, CanTransition, TerminalStates, ValidTransitions
  <2>2. CASE Start(t) \/ Complete(t) \/ FailOrTimeOut(t)
    BY <2>2 DEF Start, Complete, FailOrTimeOut
  <2>3. CASE Retry(t) \/ PublishTaskCompleted(t)
    BY <2>3 DEF Retry, PublishTaskCompleted
  <2>4. CASE Evaluate(t)
    <3> PICK turn \in Turns(t), refused \in SUBSET Conditional(t) :
          ready' = [ready EXCEPT ![t] = Ready(t, turn, refused, Snapshot)]
      BY <2>4 DEF Evaluate
    <3>1. Ready(t, turn, refused, Snapshot) \subseteq Tasks
      BY DEF Ready, Targets
    <3> QED
      BY <2>4, <3>1 DEF Evaluate
  <2>5. CASE EnqueueBatch(t) \/ EnqueueBatchFails(t)
    BY <2>5 DEF EnqueueBatch, EnqueueBatchFails
  <2>6. CASE Crash(t)
    BY <2>6 DEF Crash
  <2> QED
    BY <2>1, <2>2, <2>3, <2>4, <2>5, <2>6 DEF Work
<1> QED
  BY <1>1, <1>2, <1>3, <1>4, <1>5, <1>6, <1>7, <1>8 DEF TypeOK

LEMMA OthersStand ==
  ASSUME TypeOK, Standing,
         CallCheck \/ Cancel \/ CancelFails
         \/ (\E c \in Checkers : Check(c) \/ CheckFails(c)) \/ UNCHANGED vars
  PROVE  TypeOK' /\ Standing'
<1>1. UNCHANGED <<graph, origin, launch, pending, rows, queue, work, ready,
                  retries, skipped>>
  BY DEF CallCheck, Cancel, CancelLoad, CancelExecution, CancelLoadTasks,
         CancelTask, CancelFails, Check, CheckRead, CheckWrite, CheckFails,
         vars
<1>2. faults' \in 0..MaxFaults /\ calls' \in 0..MaxChecks
  BY LimitAssumption
     DEF TypeOK, CallCheck, Cancel, CancelLoad, CancelExecution,
         CancelLoadTasks, CancelTask, CancelFails, Check, CheckRead,
         CheckWrite, CheckFails, vars
<1>3. inbox' \in Nat /\ check' \in [Checkers -> {"idle", "completed", "failed"}]
  BY DEF TypeOK, Verdict, CallCheck, Cancel, CancelLoad, CancelExecution,
         CancelLoadTasks, CancelTask, CancelFails, Check, CheckRead,
         CheckWrite, CheckFails, vars
<1>4. exec' \in ExecStatus \cup {"none"}
  BY DEF TypeOK, ExecStatus, CallCheck, Cancel, CancelLoad, CancelExecution,
         CancelLoadTasks, CancelTask, CancelFails, Check, CheckRead,
         CheckWrite, CheckFails, vars
<1>5. /\ cancel' \in {"no", "execution", "load", "tasks", "done", "failed"}
      /\ doomed' \subseteq rows /\ (doomed' # {} <=> cancel' = "tasks")
  BY DEF TypeOK, CallCheck, Cancel, CancelLoad, CancelExecution,
         CancelLoadTasks, CancelTask, CancelFails, Check, CheckRead,
         CheckWrite, CheckFails, vars
<1>6. status' \in [Tasks -> TaskStatus \ {"skipped"}] /\ Standing'
  <2>1. CASE \E t \in Tasks : CancelTask(t)
    BY <1>1, <2>1 DEF CancelTask, SetStatus, TypeOK, Standing,
                      CompletedMeansDone, Done, TaskStatus
  <2>2. CASE ~ \E t \in Tasks : CancelTask(t)
    <3>1. UNCHANGED <<status, work>>
      BY <2>2 DEF CallCheck, Cancel, CancelLoad, CancelExecution,
                  CancelLoadTasks, CancelFails, Check, CheckRead, CheckWrite,
                  CheckFails, vars
    <3> QED
      BY <3>1 DEF TypeOK, Standing, CompletedMeansDone, Done
  <2> QED
    BY <2>1, <2>2
<1> QED
  BY <1>1, <1>2, <1>3, <1>4, <1>5, <1>6 DEF TypeOK

LEMMA StepStands ==
  ASSUME TypeOK, Standing, [Next]_vars
  PROVE  TypeOK' /\ Standing'
<1>1. CASE Launch \/ LaunchFails
  BY <1>1, LaunchStands
<1>2. CASE \E t \in Tasks : Work(t) \/ Crash(t) \/ EnqueueBatchFails(t)
  BY <1>2, WorkStands
<1>3. CASE \/ CallCheck \/ Cancel \/ CancelFails \/ UNCHANGED vars
           \/ \E c \in Checkers : Check(c) \/ CheckFails(c)
  BY <1>3, OthersStand
<1> QED
  BY <1>1, <1>2, <1>3 DEF Next, Fault

(* Every variable stays within its type.                                   *)
THEOREM TypeCorrect == Spec => []TypeOK
<1>1. TypeOK /\ Standing /\ [Next]_vars => TypeOK' /\ Standing'
  BY StepStands
<1> QED
  BY <1>1, InitStands, PTL DEF Spec

-----------------------------------------------------------------------------
(* Launching and cancelling                                                *)

(* As long as nothing is cancelled, a task that was touched stays so.      *)
LEMMA TouchedStays ==
  ASSUME TypeOK, Standing, CancelInv, cancel = "no", NEW t \in Tasks,
         Work(t) \/ Crash(t) \/ EnqueueBatchFails(t),
         NEW s \in Tasks, Touched(s)
  PROVE  Touched(s)'
<1> USE DEF TypeOK, Touched, Goto
<1>1. CASE Take(t)
  BY <1>1 DEF Take, CancelInv, Standing, CanTransition, TerminalStates,
              ValidTransitions
<1>2. CASE Retry(t)
  BY <1>2 DEF Retry, Push
<1>3. CASE Start(t) \/ Complete(t) \/ FailOrTimeOut(t) \/ Evaluate(t)
           \/ PublishTaskCompleted(t) \/ Crash(t)
  BY <1>3 DEF Start, Complete, FailOrTimeOut, Evaluate, PublishTaskCompleted,
              Crash
<1>4. CASE EnqueueBatch(t) \/ EnqueueBatchFails(t)
  BY <1>4 DEF EnqueueBatch, EnqueueBatchFails, PushAll
<1> QED
  BY <1>1, <1>2, <1>3, <1>4 DEF Work

LEMMA RowsPreserved ==
  ASSUME TypeOK, Standing, LaunchInv, CancelInv, Rows, [Next]_vars
  PROVE  Rows'
<1>1. CASE Launch \/ LaunchFails
  <2> USE DEF TypeOK, Rows, Touched, Roots, Push
  <2>1. CASE CreateExecution
    BY <2>1 DEF CreateExecution
  <2>1a. CASE CreateBatch
    BY <2>1a DEF CreateBatch
  <2>1b. CASE MarkExecutionRunning
    BY <2>1b DEF MarkExecutionRunning
  <2>2. CASE \E t \in Tasks : EnqueueRoot(t)
    BY <2>2, LimitAssumption DEF EnqueueRoot
  <2>3. CASE \E t \in Tasks : InsertRow(t)
    BY <2>3 DEF InsertRow
  <2>4. CASE \E t \in Tasks : EnqueueRow(t)
    <3> PICK t \in Tasks : EnqueueRow(t)
      BY <2>4
    <3>1. origin # "api"
      BY DEF EnqueueRow
    <3>2. launch' = "markRunning" => rows' = Tasks
      BY DEF EnqueueRow
    <3>3. /\ \A s \in Tasks : Touched(s) \/ s = t => Touched(s)'
          /\ \A s \in pending : s = t
      BY DEF EnqueueRow
    <3> QED
      BY <3>1, <3>2, <3>3 DEF EnqueueRow
  <2>5. CASE LaunchFails
    BY <2>5 DEF LaunchFails
  <2> QED
    BY <1>1, <2>1, <2>1a, <2>1b, <2>2, <2>3, <2>4, <2>5 DEF Launch
<1>2. CASE \E t \in Tasks : Work(t) \/ Crash(t) \/ EnqueueBatchFails(t)
  <2> PICK t \in Tasks : Work(t) \/ Crash(t) \/ EnqueueBatchFails(t)
    BY <1>2
  <2>1. UNCHANGED <<origin, launch, pending, rows, cancel>>
    BY DEF Work, Take, Start, Complete, FailOrTimeOut, Retry, Evaluate,
           EnqueueBatch, PublishTaskCompleted, Crash, EnqueueBatchFails
  <2>2. faults' = faults \/ faults' > 0
    BY DEF TypeOK, Work, Take, Start, Complete, FailOrTimeOut, Retry, Evaluate,
           EnqueueBatch, PublishTaskCompleted, Crash, EnqueueBatchFails
  <2>3. \E s \in Tasks : Touched(s)
    BY DEF TypeOK, Touched, Work, Take, Start, Complete, FailOrTimeOut, Retry,
           Evaluate, EnqueueBatch, PublishTaskCompleted, Crash,
           EnqueueBatchFails, Busy, Following
  <2>4. cancel = "no" => \A s \in Tasks : Touched(s) => Touched(s)'
    BY TouchedStays
  <2>5. rows \in {{}, Tasks} /\ (\E s \in Tasks : Touched(s)) /\ origin = "api"
          => rows = Tasks
    BY DEF Rows
  <2>6. origin = "schedule" =>
          \A s \in rows : \/ launch = "enqueueRow" /\ s \in pending
                          \/ cancel # "no" \/ faults' > 0 \/ Touched(s)'
    BY <2>2, <2>4 DEF Rows, TypeOK
  <2>7. origin = "api" => rows = Tasks
    BY <2>3, <2>5 DEF Rows
  <2> QED
    BY <2>1, <2>6, <2>7 DEF Rows
<1>3. CASE \/ CallCheck \/ Cancel \/ CancelFails \/ UNCHANGED vars
           \/ \E c \in Checkers : Check(c) \/ CheckFails(c)
  <2>1. UNCHANGED <<origin, launch, pending, rows, queue, work, retries>>
    BY <1>3 DEF CallCheck, Cancel, CancelLoad, CancelExecution,
         CancelLoadTasks, CancelTask, CancelFails, Check, CheckRead,
         CheckWrite, CheckFails, vars
  <2>2. cancel' = cancel \/ cancel' # "no"
    BY <1>3 DEF CallCheck, Cancel, CancelLoad, CancelExecution,
         CancelLoadTasks, CancelTask, CancelFails, Check, CheckRead,
         CheckWrite, CheckFails, vars
  <2>3. faults' = faults \/ faults' > 0
    BY <1>3 DEF TypeOK, CallCheck, Cancel, CancelLoad, CancelExecution,
         CancelLoadTasks, CancelTask, CancelFails, Check, CheckRead,
         CheckWrite, CheckFails, vars
  <2> QED
    BY <2>1, <2>2, <2>3 DEF Rows, Touched
<1> QED
  BY <1>1, <1>2, <1>3 DEF Next, Fault

LEMMA CancelPreserved ==
  ASSUME TypeOK, Standing, LaunchInv, Rows, CancelInv, [Next]_vars
  PROVE  CancelInv'
<1> USE DEF CancelInv
<1>1. CASE Launch \/ LaunchFails
  <2>1. UNCHANGED <<status, retries, cancel, doomed>>
    BY <1>1 DEF Launch, LaunchFails, CreateExecution, CreateBatch,
                EnqueueRoot, InsertRow, EnqueueRow, MarkExecutionRunning
  <2>2. launch # "done"
    BY <1>1 DEF Launch, LaunchFails, CreateExecution, CreateBatch,
                EnqueueRoot, InsertRow, EnqueueRow, MarkExecutionRunning
  <2> QED
    BY <2>1, <2>2 DEF LaunchInv
<1>2. CASE \E t \in Tasks : Work(t) \/ Crash(t) \/ EnqueueBatchFails(t)
  <2> PICK t \in Tasks : Work(t) \/ Crash(t) \/ EnqueueBatchFails(t)
    BY <1>2
  <2>1. UNCHANGED <<exec, cancel, doomed>>
    BY DEF Work, Take, Start, Complete, FailOrTimeOut, Retry, Evaluate,
           EnqueueBatch, PublishTaskCompleted, Crash, EnqueueBatchFails
  <2>2. \A s \in Tasks : status'[s] = "cancelled" => status[s] = "cancelled"
    BY DEF TypeOK, SetStatus, Work, Take, Start, Complete, FailOrTimeOut,
           Retry, Evaluate, EnqueueBatch, PublishTaskCompleted, Crash,
           EnqueueBatchFails
  <2>3. \A s \in Tasks : /\ retries[s] > 0 => retries'[s] > 0
                         /\ status'[s] = "pending" =>
                              status[s] = "pending" \/ retries'[s] > 0
    BY DEF TypeOK, SetStatus, Work, Take, Start, Complete, FailOrTimeOut,
           Retry, Evaluate, EnqueueBatch, PublishTaskCompleted, Crash,
           EnqueueBatchFails
  <2> QED
    BY <2>1, <2>2, <2>3
<1>3. CASE CallCheck \/ UNCHANGED vars
           \/ \E c \in Checkers : Check(c) \/ CheckFails(c)
  <2>1. UNCHANGED <<status, retries, cancel, doomed>>
    BY <1>3 DEF CallCheck, Check, CheckRead, CheckWrite, CheckFails, vars
  <2>2. exec = "cancelled" => exec' = "cancelled"
    BY <1>3 DEF CallCheck, Check, CheckRead, CheckWrite, CheckFails, vars
  <2> QED
    BY <2>1, <2>2
<1>4. CASE Cancel \/ CancelFails
  <2>1. CASE CancelLoad \/ CancelExecution \/ CancelFails
    BY <2>1 DEF CancelLoad, CancelExecution, CancelFails
  <2>2. CASE CancelLoadTasks
    <3>1. rows = Tasks
      BY <2>2 DEF CancelLoadTasks, LaunchInv, Rows
    <3> QED
      BY <2>2, <3>1 DEF CancelLoadTasks
  <2>3. CASE \E t \in Tasks : CancelTask(t)
    BY <2>3 DEF CancelTask, SetStatus, TypeOK
  <2> QED
    BY <1>4, <2>1, <2>2, <2>3 DEF Cancel
<1> QED
  BY <1>1, <1>2, <1>3, <1>4 DEF Next, Fault

(* What the proofs below rest on.                                          *)
Base == TypeOK /\ Standing /\ LaunchInv /\ Rows /\ CancelInv

LEMMA LaunchInvPreserved ==
  ASSUME LaunchInv, [Next]_vars
  PROVE  LaunchInv'
<1> USE DEF LaunchInv
<1>1. CASE Launch \/ LaunchFails
  BY <1>1 DEF Launch, LaunchFails, CreateExecution, CreateBatch,
              EnqueueRoot, InsertRow, EnqueueRow, MarkExecutionRunning
<1>2. CASE \E t \in Tasks : Work(t) \/ Crash(t) \/ EnqueueBatchFails(t)
  BY <1>2 DEF Work, Take, Start, Complete, FailOrTimeOut, Retry, Evaluate,
              EnqueueBatch, PublishTaskCompleted, Crash, EnqueueBatchFails
<1>3. CASE \E c \in Checkers : Check(c) \/ CheckFails(c)
  BY <1>3 DEF Check, CheckRead, CheckWrite, CheckFails
<1>4. CASE CallCheck \/ Cancel \/ CancelFails \/ UNCHANGED vars
  BY <1>4 DEF CallCheck, Cancel, CancelLoad, CancelExecution,
              CancelLoadTasks, CancelTask, CancelFails, vars
<1> QED
  BY <1>1, <1>2, <1>3, <1>4 DEF Next, Fault

LEMMA InitBase == Init => Base
<1> SUFFICES ASSUME Init PROVE Base
  OBVIOUS
<1>1. TypeOK /\ Standing
  BY InitStands
<1>2. LaunchInv /\ Rows /\ CancelInv
  BY DEF Init, LaunchInv, Rows, CancelInv, Touched
<1> QED
  BY <1>1, <1>2 DEF Base

LEMMA BaseIsInvariant == Spec => []Base
<1>1. Base /\ [Next]_vars => Base'
  BY StepStands, LaunchInvPreserved, RowsPreserved, CancelPreserved DEF Base
<1> QED
  BY <1>1, InitBase, PTL DEF Spec

(* A final status of an execution is final, except that a cancel may       *)
(* overwrite completed or failed: for every workflow and all bounds.       *)
THEOREM Finality == Spec => FinalStaysFinal
<1>1. Base /\ [Next]_vars =>
        (exec \in ExecFinal => exec' = exec \/ exec' = "cancelled")
  <2> SUFFICES ASSUME Base, [Next]_vars, exec \in ExecFinal
               PROVE  exec' = exec \/ exec' = "cancelled"
    OBVIOUS
  <2> USE DEF Base, LaunchInv, ExecFinal
  <2>1. CASE Launch \/ LaunchFails
    BY <2>1 DEF Launch, LaunchFails, CreateExecution, CreateBatch,
                EnqueueRoot, InsertRow, EnqueueRow, MarkExecutionRunning
  <2>2. CASE \E t \in Tasks : Work(t) \/ Crash(t) \/ EnqueueBatchFails(t)
    BY <2>2 DEF Work, Take, Start, Complete, FailOrTimeOut, Retry, Evaluate,
                EnqueueBatch, PublishTaskCompleted, Crash, EnqueueBatchFails
  <2>3. CASE \E c \in Checkers : Check(c) \/ CheckFails(c)
    BY <2>3 DEF Check, CheckRead, CheckWrite, CheckFails
  <2>4. CASE CallCheck \/ Cancel \/ CancelFails \/ UNCHANGED vars
    BY <2>4 DEF CallCheck, Cancel, CancelLoad, CancelExecution,
                CancelLoadTasks, CancelTask, CancelFails, vars
  <2> QED
    BY <2>1, <2>2, <2>3, <2>4 DEF Next, Fault
<1> QED
  BY <1>1, BaseIsInvariant, PTL DEF Spec, FinalStaysFinal

(* After a cancel has returned no executor starts on another task of the   *)
(* execution, except for a retry: for every workflow and all bounds.       *)
THEOREM CancelHolds == Spec => CancelledStaysQuiet
<1>1. Base /\ [Next]_vars =>
        \A t \in Tasks :
          cancel = "done" /\ work[t] # "loaded" /\ work'[t] = "loaded"
            => retries[t] > 0
  <2> SUFFICES ASSUME Base, [Next]_vars, NEW t \in Tasks, cancel = "done",
                      work[t] # "loaded", work'[t] = "loaded"
               PROVE  retries[t] > 0
    OBVIOUS
  <2>1. launch = "done" /\ doomed = {}
    BY DEF Base, LaunchInv, TypeOK
  <2>2. work' # work
    OBVIOUS
  <2>3. PICK s \in Tasks : Work(s) \/ Crash(s) \/ EnqueueBatchFails(s)
    BY <2>2 DEF Next, Fault, Launch, LaunchFails, CreateExecution,
         CreateBatch, EnqueueRoot, InsertRow, EnqueueRow,
         MarkExecutionRunning, CallCheck, Cancel, CancelLoad, CancelExecution,
         CancelLoadTasks, CancelTask, CancelFails, Check, CheckRead,
         CheckWrite, CheckFails, vars
  <2>4. Take(t) /\ CanTransition(status[t], "running")
    BY <2>3 DEF Base, TypeOK, Goto, Work, Take, Start, Complete,
         FailOrTimeOut, Retry, Evaluate, EnqueueBatch, PublishTaskCompleted,
         Crash, EnqueueBatchFails
  <2>5. status[t] = "pending"
    BY <2>4 DEF Base, TypeOK, TaskStatus, CanTransition, TerminalStates,
                ValidTransitions
  <2> QED
    BY <2>1, <2>5 DEF Base, CancelInv
<1> QED
  BY <1>1, BaseIsInvariant, PTL DEF Spec, CancelledStaysQuiet

-----------------------------------------------------------------------------
(* Completion                                                              *)

LEMMA CheckPreserved ==
  ASSUME Base, CheckInv, [Next]_vars
  PROVE  CheckInv'
<1> SUFFICES ASSUME origin' = "api", exec' # "cancelled"
             PROVE  /\ (\A c \in Checkers : check[c] # "idle" => Over(check[c]))'
                    /\ (exec \in {"completed", "failed"} => Over(exec))'
  BY DEF CheckInv
<1>1. origin = "api" /\ exec # "cancelled"
  <2>1. origin' = origin
    BY DEF Next, Fault, Launch, LaunchFails, CreateExecution,
         CreateBatch, EnqueueRoot, InsertRow, EnqueueRow,
         MarkExecutionRunning, CallCheck, Cancel, CancelLoad, CancelExecution,
         CancelLoadTasks, CancelTask, CancelFails, Check, CheckRead,
         CheckWrite, CheckFails, vars, Work, Take, Start, Complete,
         FailOrTimeOut, Retry, Evaluate, EnqueueBatch, PublishTaskCompleted,
         Crash, EnqueueBatchFails
  <2>2. exec = "cancelled" => exec' = "cancelled"
    BY DEF Base, LaunchInv, Next, Fault, Launch, LaunchFails, CreateExecution,
         CreateBatch, EnqueueRoot, InsertRow, EnqueueRow,
         MarkExecutionRunning, CallCheck, Cancel, CancelLoad, CancelExecution,
         CancelLoadTasks, CancelTask, CancelFails, Check, CheckRead,
         CheckWrite, CheckFails, vars, Work, Take, Start, Complete,
         FailOrTimeOut, Retry, Evaluate, EnqueueBatch, PublishTaskCompleted,
         Crash, EnqueueBatchFails
  <2> QED
    BY <2>1, <2>2
<1>2. /\ \A c \in Checkers : check[c] # "idle" => Over(check[c])
      /\ exec \in {"completed", "failed"} => Over(exec)
  BY <1>1 DEF CheckInv
(* What is over stays over: nobody holds a task of it.                     *)
<1>3. ASSUME rows = Tasks, \A t \in Tasks : status[t] \in TerminalStates
      PROVE  UNCHANGED <<rows, status>>
  <2>1. \A t \in Tasks : work[t] \notin Busy
    BY <1>1, <1>3 DEF Base, CancelInv, Standing, TerminalStates
  <2>2. CASE Launch \/ LaunchFails
    BY <1>1, <1>3, <2>2
       DEF Base, TypeOK, Rows, Launch, LaunchFails, CreateExecution,
           CreateBatch, EnqueueRoot, InsertRow, EnqueueRow,
           MarkExecutionRunning
  <2>3. CASE \E t \in Tasks : Work(t) \/ Crash(t) \/ EnqueueBatchFails(t)
    BY <2>1, <2>3
       DEF Busy, Work, Take, Start, Complete, FailOrTimeOut, Retry, Evaluate,
           EnqueueBatch, PublishTaskCompleted, Crash, EnqueueBatchFails
  <2>4. CASE \/ CallCheck \/ Cancel \/ CancelFails \/ UNCHANGED vars
             \/ \E c \in Checkers : Check(c) \/ CheckFails(c)
    BY <1>1, <2>4
       DEF Base, CancelInv, CallCheck, Cancel, CancelLoad, CancelExecution,
           CancelLoadTasks, CancelTask, CancelFails, Check, CheckRead,
           CheckWrite, CheckFails, vars
  <2> QED
    BY <2>2, <2>3, <2>4 DEF Next, Fault
<1>4. \A c \in Checkers :
        check'[c] # "idle" => check'[c] = check[c] \/ Over(check'[c])
  <2> SUFFICES ASSUME NEW c \in Checkers, check'[c] # "idle",
                      check'[c] # check[c]
               PROVE  Over(check'[c])
    OBVIOUS
  <2>1. CheckRead(c) /\ AllTerminal /\ check'[c] = Verdict
    BY DEF Base, TypeOK, Next, Fault, Launch, LaunchFails, CreateExecution,
         CreateBatch, EnqueueRoot, InsertRow, EnqueueRow,
         MarkExecutionRunning, CallCheck, Cancel, CancelLoad, CancelExecution,
         CancelLoadTasks, CancelTask, CancelFails, Check, CheckRead,
         CheckWrite, CheckFails, vars, Work, Take, Start, Complete,
         FailOrTimeOut, Retry, Evaluate, EnqueueBatch, PublishTaskCompleted,
         Crash, EnqueueBatchFails
  <2>2. rows = Tasks
    BY <1>1, <2>1 DEF Base, Rows, AllTerminal
  <2> QED
    BY <2>1, <2>2 DEF Over, AllTerminal, Verdict
<1>5. exec' \in {"completed", "failed"} =>
        \/ exec' = exec
        \/ \E c \in Checkers : check[c] # "idle" /\ exec' = check[c]
  BY DEF Base, TypeOK, Next, Fault, Launch, LaunchFails, CreateExecution,
       CreateBatch, EnqueueRoot, InsertRow, EnqueueRow,
       MarkExecutionRunning, CallCheck, Cancel, CancelLoad, CancelExecution,
       CancelLoadTasks, CancelTask, CancelFails, Check, CheckRead,
       CheckWrite, CheckFails, vars, Work, Take, Start, Complete,
       FailOrTimeOut, Retry, Evaluate, EnqueueBatch, PublishTaskCompleted,
       Crash, EnqueueBatchFails
<1>6. (\A c \in Checkers : check[c] # "idle" => Over(check[c]))'
  <2> SUFFICES ASSUME NEW c \in Checkers, check'[c] # "idle"
               PROVE  Over(check[c])'
    OBVIOUS
  <2>1. Over(check'[c])
    BY <1>2, <1>4
  <2> QED
    BY <1>3, <2>1 DEF Over
<1>7. (exec \in {"completed", "failed"} => Over(exec))'
  <2> SUFFICES ASSUME exec' \in {"completed", "failed"} PROVE Over(exec)'
    OBVIOUS
  <2>1. Over(exec')
    BY <1>2, <1>5
  <2> QED
    BY <1>3, <2>1 DEF Over
<1> QED
  BY <1>6, <1>7

(* No task of a completed or failed execution is unfinished, and failed    *)
(* means that a task failed: for every workflow and all bounds.            *)
THEOREM Completion == Spec => []CompletionSound
<1>1. Init => CheckInv
  BY DEF Init, CheckInv
<1>2. Base /\ CheckInv /\ [Next]_vars => CheckInv'
  BY CheckPreserved
<1>3. CheckInv => CompletionSound
  BY DEF CheckInv, CompletionSound, Over
<1> QED
  BY <1>1, <1>2, <1>3, BaseIsInvariant, PTL DEF Spec

-----------------------------------------------------------------------------
(* Joins                                                                   *)

(* What is marked contains what was to be marked, and was pending.         *)
LEMMA SkipsArePending ==
  ASSUME NEW seen, NEW R, R \subseteq {d \in Tasks : seen[d] = "pending"}
  PROVE  /\ R \subseteq Skips(R, seen)
         /\ Skips(R, seen) \subseteq {d \in Tasks : seen[d] = "pending"}
<1> DEFINE P == {d \in Tasks : seen[d] = "pending"}
<1>1. R \subseteq P /\ P \in SUBSET Tasks
  OBVIOUS
<1>2. Skips(R, seen) \subseteq P
  BY <1>1 DEF Skips
<1>3. R \subseteq Skips(R, seen)
  BY <1>1 DEF Skips
<1> QED
  BY <1>2, <1>3

(* The rule by which markSkipped goes on from the tasks in X to d.         *)
Follows(d, X, seen) ==
  /\ seen[d] = "pending" /\ Upstream(d) \cap X # {}
  /\ \A s \in Upstream(d) : s \in X \/ seen[s] \in Hopeless

LEMMA SkipsLeast ==
  ASSUME NEW seen, NEW R, NEW X \in SUBSET Tasks, R \subseteq X,
         \A d \in Tasks : Follows(d, X, seen) => d \in X
  PROVE  Skips(R, seen) \subseteq X
BY DEF Skips, Follows

LEMMA SkipsClosed ==
  ASSUME NEW seen, NEW R, NEW d \in Tasks, Follows(d, Skips(R, seen), seen)
  PROVE  d \in Skips(R, seen)
<1>1. ASSUME NEW X \in SUBSET Tasks, R \subseteq X,
             \A u \in Tasks : Follows(u, X, seen) => u \in X
      PROVE  d \in X
  <2>1. Skips(R, seen) \subseteq X
    BY <1>1, SkipsLeast
  <2>2. Follows(d, X, seen)
    BY <2>1 DEF Follows
  <2> QED
    BY <1>1, <2>2
<1> QED
  BY <1>1 DEF Skips, Follows

(* markSkipped marks the tasks that it is called for and, beyond them,     *)
(* exactly the pending ones whose upstream tasks are all marked or cannot  *)
(* complete any more, one of them marked: no task is marked without such a *)
(* reason and none is forgotten.  So a target of a completed task is       *)
(* skipped only by a condition of its own.                                 *)
THEOREM SkipsExactly ==
  ASSUME NEW seen, NEW R \in SUBSET {d \in Tasks : seen[d] = "pending"}
  PROVE  LET marked == Skips(R, seen)
         IN \A d \in Tasks :
              /\ d \in marked <=> d \in R \/ Follows(d, marked, seen)
              /\ d \in marked \ R => \A s \in Upstream(d) : seen[s] # "completed"
<1> DEFINE marked == Skips(R, seen)
<1> SUFFICES ASSUME NEW d \in Tasks
             PROVE  /\ d \in marked <=> d \in R \/ Follows(d, marked, seen)
                    /\ d \in marked \ R
                         => \A s \in Upstream(d) : seen[s] # "completed"
  OBVIOUS
<1>1. /\ R \subseteq marked /\ marked \subseteq Tasks
      /\ \A s \in marked : seen[s] = "pending"
  BY SkipsArePending
<1>2. d \in R \/ Follows(d, marked, seen) => d \in marked
  BY <1>1, SkipsClosed
<1>3. ASSUME d \in marked, d \notin R PROVE Follows(d, marked, seen)
  <2> SUFFICES ASSUME ~Follows(d, marked, seen) PROVE FALSE
    OBVIOUS
  <2> DEFINE X == marked \ {d}
  <2>1. R \subseteq X /\ X \in SUBSET Tasks
    BY <1>1, <1>3
  <2>2. ASSUME NEW u \in Tasks, Follows(u, X, seen) PROVE u \in X
    <3>1. Follows(u, marked, seen)
      BY <2>2 DEF Follows
    <3>2. u \in marked /\ u # d
      BY <3>1, SkipsClosed
    <3> QED
      BY <3>2
  <2>3. marked \subseteq X
    BY <2>1, <2>2, SkipsLeast
  <2> QED
    BY <1>3, <2>3
<1>4. d \in marked \ R => \A s \in Upstream(d) : seen[s] # "completed"
  BY <1>1, <1>3 DEF Follows, Hopeless
<1> QED
  BY <1>2, <1>3, <1>4

(* The last evaluation above a join sees it ready, unless it skips it or   *)
(* an executor has it already.                                             *)
LEMMA LastEvaluation ==
  ASSUME Base, NEW t \in Tasks, Evaluate(t), cancel = "no", rows = Tasks,
         NEW u \in Targets(t) \ skipped',
         \A s \in Upstream(u) : s = t \/ Evaluated(s)
  PROVE  Touched(u) \/ u \in ready'[t]
<1> SUFFICES ASSUME ~Touched(u) PROVE u \in ready'[t]
  OBVIOUS
<1> PICK turn \in Turns(t), refused \in SUBSET Conditional(t) :
      /\ ready' = [ready EXCEPT ![t] = Ready(t, turn, refused, Snapshot)]
      /\ skipped' = skipped \cup
           Skips({r \in refused : Snapshot[r] = "pending"}, Snapshot)
  BY DEF Evaluate
<1> DEFINE all == {r \in refused : Snapshot[r] = "pending"}
           first == {r \in refused : /\ Snapshot[r] = "pending"
                                     /\ turn[r] < turn[u]}
           before == SkippedBefore(u, turn, refused, Snapshot)
           view == Marked(before, Snapshot)
<1>1. u \in Tasks /\ Upstream(u) \subseteq Tasks /\ t \in Upstream(u)
  BY DEF Targets, Upstream
<1>2. Snapshot = [s \in Tasks |-> status[s]]
  BY DEF Snapshot
<1>3. all \subseteq {d \in Tasks : Snapshot[d] = "pending"} /\ first \subseteq all
  BY DEF Conditional, Targets
<1>4. /\ all \subseteq Skips(all, Snapshot)
      /\ before \subseteq Skips(all, Snapshot)
      /\ Skips(all, Snapshot) \subseteq {d \in Tasks : Snapshot[d] = "pending"}
  BY <1>3, SkipsArePending, SkipsMonotone DEF SkippedBefore
<1>5. status[u] = "pending"
  BY <1>1 DEF Touched, Base, Standing, CancelInv
<1>6. u \notin refused /\ u \notin before
  BY <1>1, <1>2, <1>4, <1>5
<1>7. view[u] = "pending"
  BY <1>1, <1>2, <1>5, <1>6 DEF Marked
<1>8. \A s \in Upstream(u) : status[s] = "completed"
  BY <1>1 DEF Evaluate, Evaluated, Base, Standing, CompletedMeansDone, Done,
              AfterCompletion, Following, CancelInv
<1>9. \A s \in Upstream(u) : view[s] = "completed"
  <2>1. \A s \in Upstream(u) : Snapshot[s] = "completed"
    BY <1>1, <1>2, <1>8
  <2> QED
    BY <1>1, <1>4, <2>1 DEF Marked
<1>10. u \in Ready(t, turn, refused, Snapshot)
  BY <1>1, <1>6, <1>7, <1>9 DEF Ready, Satisfied
<1> QED
  BY <1>10 DEF Base, TypeOK

LEMMA FanInPreserved ==
  ASSUME Base, FanInInv, [Next]_vars
  PROVE  FanInInv'
<1> SUFFICES ASSUME origin' = "api", cancel' = "no", faults' = 0,
                    NEW u \in Tasks \ skipped', Upstream(u)' # {},
                    \A s \in Upstream(u)' : Evaluated(s)'
             PROVE  Touched(u)' \/ \E s \in Upstream(u)' : u \in ready'[s]
  BY DEF FanInInv
<1>1. CASE Launch \/ LaunchFails
  <2>1. UNCHANGED <<graph, origin, work, ready, retries, skipped, cancel>>
    BY <1>1 DEF Launch, LaunchFails, CreateExecution, CreateBatch,
                EnqueueRoot, InsertRow, EnqueueRow, MarkExecutionRunning
  <2>2. faults = 0
    BY <1>1 DEF Base, TypeOK, Launch, LaunchFails, CreateExecution,
                CreateBatch, EnqueueRoot, InsertRow, EnqueueRow,
                MarkExecutionRunning
  <2>3. Touched(u) => Touched(u)'
    BY <1>1 DEF Base, TypeOK, Touched, Push, Launch, LaunchFails,
                CreateExecution, CreateBatch, EnqueueRoot, InsertRow,
                EnqueueRow, MarkExecutionRunning
  <2>4. Upstream(u)' = Upstream(u)
    BY <2>1 DEF Upstream
  <2> QED
    BY <2>1, <2>2, <2>3, <2>4 DEF FanInInv, Evaluated
<1>2. CASE \/ CallCheck \/ Cancel \/ CancelFails \/ UNCHANGED vars
           \/ \E c \in Checkers : Check(c) \/ CheckFails(c)
  <2>1. UNCHANGED <<graph, origin, queue, work, ready, retries, skipped>>
    BY <1>2 DEF CallCheck, Cancel, CancelLoad, CancelExecution,
         CancelLoadTasks, CancelTask, CancelFails, Check, CheckRead,
         CheckWrite, CheckFails, vars
  <2>2. cancel = "no" /\ faults = 0
    BY <1>2 DEF Base, TypeOK, CallCheck, Cancel, CancelLoad, CancelExecution,
         CancelLoadTasks, CancelTask, CancelFails, Check, CheckRead,
         CheckWrite, CheckFails, vars
  <2>3. Upstream(u)' = Upstream(u)
    BY <2>1 DEF Upstream
  <2> QED
    BY <2>1, <2>2, <2>3 DEF FanInInv, Evaluated, Touched
<1>3. CASE \E t \in Tasks : Work(t) \/ Crash(t) \/ EnqueueBatchFails(t)
  <2> PICK t \in Tasks : Work(t) \/ Crash(t) \/ EnqueueBatchFails(t)
    BY <1>3
  <2>1. UNCHANGED <<graph, origin, cancel, rows>> /\ skipped \subseteq skipped'
    BY DEF Work, Take, Start, Complete, FailOrTimeOut, Retry, Evaluate,
           EnqueueBatch, PublishTaskCompleted, Crash, EnqueueBatchFails
  <2>2. faults = 0 /\ Work(t)
    BY DEF Base, TypeOK, Work, Take, Start, Complete, FailOrTimeOut, Retry,
           Evaluate, EnqueueBatch, PublishTaskCompleted, Crash,
           EnqueueBatchFails
  <2>3. Upstream(u)' = Upstream(u) /\ Upstream(u) \subseteq Tasks
    BY <2>1 DEF Upstream
  <2>4. CASE \A s \in Upstream(u) : Evaluated(s)
    <3>1. Touched(u) \/ \E s \in Upstream(u) : u \in ready[s]
      BY <2>1, <2>2, <2>3, <2>4 DEF FanInInv
    <3>2. CASE Touched(u)
      BY <2>1, <3>2, TouchedStays DEF Base
    <3>3. CASE \E s \in Upstream(u) : u \in ready[s]
      <4> PICK s \in Upstream(u) : u \in ready[s]
        BY <3>3
      <4>1. ready'[s] = ready[s] \/ s = t
        BY <2>2, <2>3 DEF Base, TypeOK, Work, Take, Start, Complete,
             FailOrTimeOut, Retry, Evaluate, EnqueueBatch, PublishTaskCompleted
      <4>2. CASE s = t
        <5>1. work[t] = "enqueueing"
          BY <4>2 DEF Base, TypeOK
        <5>2. EnqueueBatch(t) \/ ready' = ready
          BY <2>2, <5>1 DEF Work, Take, Start, Complete, FailOrTimeOut, Retry,
                            Evaluate, PublishTaskCompleted
        <5>3. EnqueueBatch(t) => Touched(u)'
          BY <4>2 DEF EnqueueBatch, PushAll, Touched, Base, TypeOK
        <5> QED
          BY <2>3, <4>2, <5>2, <5>3
      <4> QED
        BY <2>3, <4>1, <4>2
    <3> QED
      BY <3>1, <3>2, <3>3
  <2>5. CASE \E s \in Upstream(u) : ~Evaluated(s)
    <3>1. \A s \in Tasks : s # t => (Evaluated(s)' <=> Evaluated(s))
      BY <2>2 DEF Evaluated, Base, TypeOK, Goto, Work, Take, Start, Complete,
           FailOrTimeOut, Retry, Evaluate, EnqueueBatch, PublishTaskCompleted
    <3>2. t \in Upstream(u) /\ ~Evaluated(t)
      BY <2>3, <2>5, <3>1
    <3>3. Evaluate(t)
      BY <2>2, <2>3, <3>2 DEF Evaluated, Base, TypeOK, Goto, Work, Take, Start,
           Complete, FailOrTimeOut, Retry, EnqueueBatch, PublishTaskCompleted
    <3>4. rows = Tasks
      BY <2>1, <3>3 DEF Evaluate, Touched, Base, Rows
    <3>5. u \in Targets(t) \ skipped'
      BY <3>2 DEF Targets, Upstream
    <3>6. \A s \in Upstream(u) : s = t \/ Evaluated(s)
      BY <2>3, <3>1
    <3>7. Touched(u) \/ u \in ready'[t]
      BY <2>1, <3>3, <3>4, <3>5, <3>6, LastEvaluation
    <3>8. Touched(u) => Touched(u)'
      BY <2>1, TouchedStays DEF Base
    <3> QED
      BY <2>3, <3>2, <3>7, <3>8
  <2> QED
    BY <2>4, <2>5
<1> QED
  BY <1>1, <1>2, <1>3 DEF Next, Fault

(* A join is not lost between evaluators that run at the same time on      *)
(* snapshots of their own: for every workflow and all bounds.              *)
THEOREM NoJoinLost == Spec => []FanInNotLost
<1>1. Init => FanInInv
  BY DEF Init, FanInInv, Evaluated, Upstream
<1>2. Base /\ FanInInv /\ [Next]_vars => FanInInv'
  BY FanInPreserved
<1>3. Base /\ FanInInv => FanInNotLost
  <2> SUFFICES ASSUME Base, FanInInv, cancel = "no", faults = 0,
                      origin = "schedule" => launch = "done",
                      NEW t \in rows \ skipped, Upstream(t) # {},
                      \A s \in Upstream(t) : work[s] = "published"
               PROVE  Touched(t)
    BY DEF FanInNotLost
  <2>1. t \in Tasks /\ Upstream(t) \subseteq Tasks
    BY DEF Base, TypeOK, Upstream
  <2>2. CASE origin = "schedule"
    BY <2>2 DEF Base, Rows
  <2>3. CASE origin = "api"
    <3>1. Touched(t) \/ \E s \in Upstream(t) : t \in ready[s]
      BY <2>1, <2>3 DEF FanInInv, Evaluated
    <3>2. \A s \in Upstream(t) : ready[s] = {}
      BY <2>1 DEF Base, TypeOK
    <3> QED
      BY <3>1, <3>2
  <2> QED
    BY <2>2, <2>3, LimitAssumption DEF Base, TypeOK
<1> QED
  BY <1>1, <1>2, <1>3, BaseIsInvariant, PTL DEF Spec

-----------------------------------------------------------------------------
(* Rest                                                                    *)

(* As long as nothing is cancelled and nothing fails a pending task that   *)
(* was touched is in the queue or in an executor's hands, a running one is *)
(* being run, no work was cut off, and the roots are pushed.               *)
WaitInv ==
  cancel = "no" /\ faults = 0 =>
    /\ \A t \in Tasks :
         /\ status[t] = "pending" /\ Touched(t) => queue[t] > 0 \/ work[t] = "loaded"
         /\ status[t] = "running" => work[t] = "running"
         /\ work[t] # "cut"
    /\ origin = "api" =>
         /\ launch = "enqueue" => \A t \in Roots \ pending : Touched(t)
         /\ launch \in {"markRunning", "done"} => \A t \in Roots : Touched(t)

LEMMA InitWaits == Init => WaitInv
BY DEF Init, WaitInv, Touched

LEMMA WaitPreserved ==
  ASSUME Base, WaitInv, [Next]_vars
  PROVE  WaitInv'
<1> SUFFICES ASSUME cancel' = "no", faults' = 0 PROVE WaitInv'
  BY DEF WaitInv
<1> USE DEF Base, TypeOK
<1>1. CASE Launch \/ LaunchFails
  <2>1. Launch /\ cancel = "no" /\ faults = 0
    BY <1>1 DEF Launch, LaunchFails, CreateExecution, CreateBatch, EnqueueRoot, InsertRow,
                EnqueueRow, MarkExecutionRunning, cancelling
  <2>2. UNCHANGED <<graph, origin, status, work, retries>>
    BY <2>1 DEF Launch, CreateExecution, CreateBatch, EnqueueRoot, InsertRow, EnqueueRow,
                MarkExecutionRunning, tasking
  <2>3. \A t \in Tasks : queue'[t] >= queue[t] /\ queue'[t] \in Nat
    BY <2>1 DEF Launch, CreateExecution, CreateBatch, EnqueueRoot, InsertRow, EnqueueRow,
                MarkExecutionRunning, tasking, Push
  <2>4. ASSUME NEW t \in Tasks
        PROVE  /\ status'[t] = "pending" /\ Touched(t)' => queue'[t] > 0 \/ work'[t] = "loaded"
               /\ status'[t] = "running" => work'[t] = "running"
               /\ work'[t] # "cut"
               /\ Touched(t) => Touched(t)'
    BY <2>1, <2>2, <2>3 DEF WaitInv, Touched
  <2>5. Roots' = Roots /\ Roots \subseteq Tasks
    BY <2>2 DEF Roots, Upstream
  <2>6. CASE CreateExecution \/ MarkExecutionRunning \/ \E t \in Tasks : InsertRow(t)
    BY <2>1, <2>2, <2>4, <2>5, <2>6
       DEF WaitInv, CreateExecution, InsertRow, MarkExecutionRunning
  <2>7. CASE CreateBatch
    BY <2>2, <2>4, <2>5, <2>7 DEF WaitInv, CreateBatch
  <2>8. CASE \E t \in Tasks : EnqueueRow(t)
    BY <2>2, <2>4, <2>5, <2>8, LimitAssumption DEF WaitInv, EnqueueRow, Rows
  <2>9. CASE \E t \in Tasks : EnqueueRoot(t)
    <3>1. PICK t \in Tasks : EnqueueRoot(t)
      BY <2>9
    <3>2. Touched(t)'
      BY <3>1 DEF EnqueueRoot, Push, Touched
    <3>3. /\ launch = "enqueue" /\ pending' = pending \ {t}
          /\ launch' = "markRunning" => pending' = {}
          /\ launch' \in {"enqueue", "markRunning"}
      BY <3>1 DEF EnqueueRoot
    <3> QED
      BY <2>1, <2>2, <2>4, <2>5, <3>2, <3>3 DEF WaitInv
  <2> QED
    BY <2>1, <2>6, <2>7, <2>8, <2>9 DEF Launch
<1>2. CASE \E t \in Tasks : Work(t) \/ Crash(t) \/ EnqueueBatchFails(t)
  <2>1. PICK t \in Tasks : Work(t) \/ Crash(t) \/ EnqueueBatchFails(t)
    BY <1>2
  <2>2. UNCHANGED <<graph, origin, launch, pending, cancel>>
    BY <2>1 DEF Work, Take, Start, Complete, FailOrTimeOut, Retry, Evaluate, EnqueueBatch,
                PublishTaskCompleted, Crash, EnqueueBatchFails, launching, cancelling
  <2>3. Work(t) /\ faults = 0
    BY <2>1 DEF Work, Take, Start, Complete, FailOrTimeOut, Retry, Evaluate, EnqueueBatch,
                PublishTaskCompleted, Crash, EnqueueBatchFails
  <2>4. \A s \in Tasks : Touched(s) => Touched(s)'
    BY <2>1, <2>2, TouchedStays
  <2>5. Roots' = Roots /\ Roots \subseteq Tasks
    BY <2>2 DEF Roots, Upstream
  <2>6. ASSUME NEW s \in Tasks
        PROVE  /\ status'[s] = "pending" /\ Touched(s)' => queue'[s] > 0 \/ work'[s] = "loaded"
               /\ status'[s] = "running" => work'[s] = "running"
               /\ work'[s] # "cut"
    <3>1. /\ status[s] \in TaskStatus /\ work[s] \in Works /\ queue[s] \in Nat
          /\ status[s] = "pending" /\ Touched(s) => queue[s] > 0 \/ work[s] = "loaded"
          /\ status[s] = "running" => work[s] = "running"
          /\ work[s] # "cut"
      BY <2>2, <2>3 DEF WaitInv
    <3>2. CASE Take(t)
      BY <3>1, <3>2 DEF Take, Goto, Touched, CanTransition, TerminalStates, ValidTransitions,
                        TaskStatus, Busy
    <3>3. CASE Start(t) \/ Complete(t) \/ FailOrTimeOut(t)
      BY <3>1, <3>3 DEF Start, Complete, FailOrTimeOut, SetStatus, Goto, Touched
    <3>4. CASE Retry(t)
      BY <3>1, <3>4 DEF Retry, SetStatus, Goto, Push, Touched
    <3>5. CASE Evaluate(t) \/ PublishTaskCompleted(t)
      BY <3>1, <3>5 DEF Evaluate, PublishTaskCompleted, Goto, Touched
    <3>6. CASE EnqueueBatch(t)
      BY <3>1, <3>6 DEF EnqueueBatch, PushAll, Goto, Touched
    <3> QED
      BY <2>3, <3>2, <3>3, <3>4, <3>5, <3>6 DEF Work
  <2> QED
    BY <2>2, <2>3, <2>4, <2>5, <2>6 DEF WaitInv
<1>3. CASE \/ CallCheck \/ Cancel \/ CancelFails \/ UNCHANGED vars
           \/ \E c \in Checkers : Check(c) \/ CheckFails(c)
  <2>1. UNCHANGED <<graph, origin, launch, pending, queue, work, retries>>
    BY <1>3 DEF CallCheck, Cancel, CancelLoad, CancelExecution, CancelLoadTasks, CancelTask,
         CancelFails, Check, CheckRead, CheckWrite, CheckFails, vars, launching, tasking
  <2>2. cancel = "no" /\ faults = 0 /\ status' = status
    BY <1>3 DEF CallCheck, Cancel, CancelLoad, CancelExecution, CancelLoadTasks, CancelTask,
         CancelFails, Check, CheckRead, CheckWrite, CheckFails, vars, tasking, cancelling
  <2>3. Roots' = Roots
    BY <2>1 DEF Roots, Upstream
  <2> QED
    BY <2>1, <2>2, <2>3 DEF WaitInv, Touched
<1> QED
  BY <1>1, <1>2, <1>3 DEF Next, Fault

LEMMA AncestorsFacts ==
  ASSUME NEW u \in Tasks
  PROVE  /\ u \in AncestorsOf(u)
         /\ \A s \in Upstream(u) : AncestorsOf(s) \subseteq AncestorsOf(u)
BY DEF AncestorsOf, Upstream

LEMMA RestLeavesNothing ==
  ASSUME Base, WaitInv, FanInNotLost
  PROVE  NothingLeftBehind
<1> SUFFICES ASSUME cancel = "no", faults = 0, launch = "done", AtRest
             PROVE  \A t \in Tasks :
                      \/ status[t] \in TerminalStates
                      \/ \E s \in AncestorsOf(t) :
                           status[s] \in {"failed", "timed_out"} \/ s \in skipped
  BY DEF NothingLeftBehind
<1> USE DEF Base, TypeOK
<1> DEFINE Hindered(t) == \E s \in AncestorsOf(t) :
                            status[s] \in {"failed", "timed_out"} \/ s \in skipped
           X == {t \in Tasks : status[t] \notin TerminalStates /\ ~Hindered(t)}
<1> SUFFICES ASSUME X # {} PROVE FALSE
  OBVIOUS
<1>1. PICK u \in X : \A s \in X : <<s, u>> \notin graph.edges
  BY GraphAssumption
<1>2. u \notin skipped /\ status[u] \notin TerminalStates
  BY AncestorsFacts
<1>3. ASSUME NEW s \in Upstream(u)
      PROVE  work[s] = "published"
  <2>1. s \in Tasks /\ s \notin X
    BY <1>1 DEF Upstream
  <2>2. ~Hindered(s)
    BY AncestorsFacts
  <2>3. status[s] \in TerminalStates /\ status[s] \notin {"failed", "timed_out"}
    BY <2>1, <2>2, AncestorsFacts
  <2>4. status[s] = "completed"
    BY <2>1, <2>3 DEF TerminalStates, CancelInv
  <2>5. work[s] \in AfterCompletion /\ work[s] \notin Following
    BY <2>1, <2>4 DEF Standing, CompletedMeansDone, Done, AtRest
  <2>6. work[s] # "cut"
    BY <2>1 DEF WaitInv
  <2> QED
    BY <2>5, <2>6 DEF AfterCompletion
<1>4. Touched(u)
  <2>1. rows = Tasks
    BY DEF Rows
  <2>2. CASE Upstream(u) = {}
    <3>1. u \in Roots
      BY <2>2 DEF Roots
    <3>2. CASE origin = "api"
      BY <3>1, <3>2 DEF WaitInv
    <3>3. CASE origin = "schedule"
      BY <2>1, <3>3 DEF Rows
    <3> QED
      BY <3>2, <3>3, LimitAssumption
  <2>3. CASE Upstream(u) # {}
    BY <1>2, <1>3, <2>1, <2>3 DEF FanInNotLost
  <2> QED
    BY <2>2, <2>3
<1>5. status[u] \in {"pending", "running"}
  BY <1>2 DEF TaskStatus, TerminalStates
<1> QED
  BY <1>4, <1>5 DEF WaitInv, AtRest, Busy

(* Whenever everything that is under way has come to its end, nothing is   *)
(* left behind: a task that has not ended stands below a failed or a       *)
(* skipped one.  That it comes to its end is Progress, which TLC checks.   *)
THEOREM NothingIsLeftBehind == Spec => []NothingLeftBehind
<1>1. Spec => []WaitInv
  <2>1. Init => WaitInv
    BY InitWaits
  <2>2. Base /\ WaitInv /\ [Next]_vars => WaitInv'
    BY WaitPreserved
  <2> QED
    BY <2>1, <2>2, BaseIsInvariant, PTL DEF Spec
<1>2. Base /\ WaitInv /\ FanInNotLost => NothingLeftBehind
  BY RestLeavesNothing
<1> QED
  BY <1>1, <1>2, BaseIsInvariant, NoJoinLost, PTL
=============================================================================

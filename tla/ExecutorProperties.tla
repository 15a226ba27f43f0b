------------------------- MODULE ExecutorProperties -------------------------
(***************************************************************************)
(* What is claimed of the executor service, and under which conditions.    *)
(* Properties that need a healthy environment are checked in runs whose    *)
(* bounds allow no fault; the violation runs check what the code's own     *)
(* comments and documents say and the code does not do.                    *)
(***************************************************************************)
EXTENDS Executor

TypeOK ==
  /\ status \in [Tasks -> TaskStatus]
  /\ attempts \in [Tasks -> Int]
  /\ dlq \in [Tasks -> Nat]
  /\ queue \in Seq(Tasks)
  /\ processing \in [Tasks -> Nat]
  /\ lock \in [Tasks -> Executors \cup {None}]
  /\ pc \in [Executors -> PCs]
  /\ claimed \in [Executors -> Claims]
  /\ \A e \in Executors :
       pc[e] \in Awaiting \ {"claim"} => claimed[e].task \in Tasks
  /\ running \in [Executors -> BOOLEAN]
  /\ runs \in [Tasks -> Nat]
  /\ pushed \in [Tasks -> Nat]
  /\ cancel \in [Tasks -> {"no", "read", "written"}]
  /\ crashes \in Nat
  /\ faults \in Nat

-----------------------------------------------------------------------------
(* Safety                                                                  *)

(* The body of a task runs on at most one executor at a time, whatever     *)
(* crashes, failed calls, stop() calls, duplicate queue entries and        *)
(* cancellations happen, as long as no lock lapses under an executor that  *)
(* renews it: the lock guards the window between the status check and the  *)
(* status update (task-claimer.ts, task-runner.ts run), the status guards  *)
(* the rest.                                                               *)
AtMostOneRunner ==
  \A e, f \in Executors :
    pc[e] = "execute" /\ pc[f] = "execute" /\ Task(e) = Task(f) => e = f

RunLimit ==
  [t \in Tasks |->
    IF t \in Retriable /\ MaxAttempts[t] > 1 THEN MaxAttempts[t] ELSE 1]

(* The body of a task is started at most maxAttempts times, and once       *)
(* without a policy: the attempt count survives crashes between its update *)
(* and the re-enqueue, and no duplicate queue entry earns an extra run     *)
(* (retry-handler.ts handleFailure).                                       *)
RunsBounded == \A t \in Tasks : runs[t] <= RunLimit[t]

(* A task reaches the dead letter queue at most once, only after its last  *)
(* attempt, and every task with a policy that failed is in it              *)
(* (retry-handler.ts insertIntoDLQ before transitionToFailed).             *)
DeadLettersMatchFailures ==
  \A t \in Tasks :
    /\ dlq[t] <= 1
    /\ dlq[t] = 1 => t \in Retriable /\ runs[t] = RunLimit[t]
    /\ status[t] = "failed" /\ t \in Retriable => dlq[t] = 1

(* Calls after which the executor still owes one LREM for its claim.       *)
Listed == Awaiting \ {"claim", "requeuePush", "enqueue"}

Handlers(t) == {e \in Executors : pc[e] \in Listed /\ Task(e) = t}

(* Every task that a live executor is handling is in the processing list,  *)
(* once per handler: an LREM never takes away the entry of another         *)
(* executor, even when both handle the same task after a lease was lost    *)
(* (task-queue.ts).  That list is all that is left of a claim when the     *)
(* executor crashes.                                                       *)
ProcessingCoversHandlers ==
  \A t \in Tasks : processing[t] >= Cardinality(Handlers(t))

(* Without faults the list holds nothing else, and an executor holds the   *)
(* lock of no task but the one it is working on: nothing leaks, whatever   *)
(* duplicates, retries and stop() calls there are.                         *)
NothingLeaks ==
  \A t \in Tasks :
    /\ processing[t] = Cardinality(Handlers(t))
    /\ lock[t] # None => lock[t] \in Handlers(t)

InQueue(t) == \E i \in 1..Len(queue) : queue[i] = t

(* Without faults a task that was pushed and has not finished is in the    *)
(* queue or in the hands of an executor: neither a requeue after a lock    *)
(* conflict, nor the gap between release and re-enqueue of a retry, nor a  *)
(* handler that drops a duplicate entry loses it.                          *)
NoTaskLost ==
  \A t \in Tasks :
    pushed[t] > 0 /\ status[t] \notin TerminalStates =>
      \/ InQueue(t)
      \/ \E e \in Executors : Task(e) = t /\ pc[e] \in Awaiting \ {"claim"}

-----------------------------------------------------------------------------
(* The invariant behind AtMostOneRunner and TerminalIsFinal                *)

(* A late cancellation can replace the status that the code relies on.     *)
Stands(t, s) ==
  status[t] = s \/ (cancel[t] = "written" /\ status[t] = "cancelled")

Entered == {"markRunning"} \cup Engaged

(* Until the task is marked running it is the lock that keeps others out.  *)
LockGuards ==
  \A e \in Executors :
    pc[e] \in {"load", "markRunning"} => lock[Task(e)] = e

(* From then on it is the status, even when the lock has lapsed.           *)
StatusGuards ==
  \A e \in Executors :
    /\ pc[e] = "markRunning" => Stands(Task(e), "pending")
    /\ pc[e] \in Engaged => Stands(Task(e), "running")

OneEntered ==
  \A e, f \in Executors :
    pc[e] \in Entered /\ pc[f] \in Entered /\ Task(e) = Task(f) => e = f

(* The claimer's lock and the persisted status hand over to each other so  *)
(* that at any time one executor at most is between the check of a task's  *)
(* status and its final update (task-runner.ts run, lines 51 to 90).       *)
ExclusionInv == LockGuards /\ StatusGuards /\ OneEntered

(* The invariant behind RunsBounded: the persisted attempt count and the   *)
(* number of runs agree whenever the task may be started (again).          *)
CountsAgree ==
  /\ \A t \in Tasks :
       status[t] = "pending" => runs[t] = attempts[t] /\ runs[t] < RunLimit[t]
  /\ \A e \in Executors :
       LET t == Task(e)
           n == claimed[e].seen
       IN
       /\ pc[e] = "markRunning" =>
            runs[t] = n /\ attempts[t] = n /\ n < RunLimit[t]
       /\ pc[e] \in Engaged => runs[t] = n + 1
       /\ pc[e] = "bumpAttempt" => t \in Retriable
       /\ pc[e] \in {"deadLetter", "retryWait", "markPending"} =>
            t \in Retriable /\ attempts[t] = n + 1
       /\ pc[e] \in {"retryWait", "markPending"} => n + 1 < RunLimit[t]
       /\ pc[e] = "deadLetter" => n + 1 = RunLimit[t]

-----------------------------------------------------------------------------
(* Action properties                                                       *)

(* A task that nobody has decided to cancel never leaves a terminal        *)
(* status, although no UPDATE of task-runner.ts or retry-handler.ts looks  *)
(* at the status it overwrites.                                            *)
TerminalIsFinal ==
  [][\A t \in Tasks :
       status[t] \in TerminalStates /\ cancel[t] = "no" =>
         status'[t] = status[t]]_vars

(* No executor takes away a lock that another one holds: a late release,   *)
(* after the lease was lost and taken over, leaves the new owner's key     *)
(* alone (lock-manager.ts release), and so does everything else but the    *)
(* lapse of the key.                                                       *)
LockBelongsToOwner ==
  [][\A e \in Executors, t \in Tasks :
       /\ pc'[e] # pc[e]
       /\ lock[t] \notin {None, e}
       => lock'[t] = lock[t]]_vars

(* The executors implement the promise of TaskLifecycle, the worker of a   *)
(* task being the executor that awaits its body.                           *)
Worker ==
  [t \in Tasks |->
    IF \E e \in Executors : pc[e] = "execute" /\ Task(e) = t
    THEN CHOOSE e \in Executors : pc[e] = "execute" /\ Task(e) = t
    ELSE None]

Lifecycle == INSTANCE TaskLifecycle WITH worker <- Worker

ImplementsLifecycle == Lifecycle!Spec

-----------------------------------------------------------------------------
(* Liveness                                                                *)

(* Without faults every task that is pushed reaches a terminal status,     *)
(* provided some executor is never stopped: requeues after lock conflicts  *)
(* and duplicate entries cannot starve it, and its retries end.            *)
PushedTasksSettle ==
  \A t \in Tasks : pushed[t] > 0 ~> status[t] \in TerminalStates

(* Without faults a stopped executor drains: it finishes the task it has,  *)
(* leaves its loop and holds no lock any more (task-claimer.ts stop).      *)
StopDrains ==
  \A e \in Executors :
    ~running[e] ~> pc[e] = "stopped" /\ \A t \in Tasks : lock[t] # e

-----------------------------------------------------------------------------
(* What comments and documents say, and the code does not do               *)

(* task-claimer.ts:101, "Log and continue polling": after an error in the  *)
(* claim loop the executor polls again.                                    *)
PollsAgainAfterError ==
  \A e \in Executors : pc[e] = "wedged" ~> pc[e] = "claim"
=============================================================================

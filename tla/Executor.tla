------------------------------ MODULE Executor ------------------------------
(***************************************************************************)
(* The executor service: TaskClaimer, TaskRunner and RetryHandler running  *)
(* in several processes over one Redis (task queue, processing list,       *)
(* locks) and one PostgreSQL (task_states, dead_letter_queue).             *)
(*                                                                         *)
(* JavaScript runs one turn of the event loop at a time, so pc[e] names    *)
(* the call that executor e is awaiting, and a step of e is the effect of  *)
(* that call on the store followed by the code up to the next await.       *)
(* Renewal timers, stop(), process crashes, lock expiry, cancellation and  *)
(* enqueues by the other services interleave with these steps.             *)
(***************************************************************************)
EXTENDS Integers, Sequences, FiniteSets, TaskStateMachine

CONSTANTS
  Executors,    \* executor processes
  Tasks,        \* task states (rows of task_states)
  None,         \* no executor / no task
  Retriable,    \* tasks whose definition has a retryPolicy
  MaxAttempts,  \* retryPolicy.maxAttempts of those tasks
  Cancellable,  \* tasks of executions that a user may cancel
  Stoppable,    \* executors on which stop() may be called
  LeaseLoss,    \* may a lock lapse under an executor that is renewing it?
  MaxPushes,    \* bound: LPUSHes of a task by the scheduler or a fan-out
  MaxCrashes,   \* bound: process crashes
  MaxFaults     \* bound: failed Redis or PostgreSQL calls

ASSUME NoneAssumption == None \notin Executors /\ None \notin Tasks
(* maxAttempts is any number: nothing calls validateRetryPolicy.           *)
ASSUME PolicyAssumption ==
  Retriable \subseteq Tasks /\ MaxAttempts \in [Retriable -> Int]
ASSUME BoundAssumption ==
  /\ LeaseLoss \in BOOLEAN
  /\ MaxPushes \in Nat /\ MaxCrashes \in Nat /\ MaxFaults \in Nat

VARIABLES
  status,      \* task_states.status
  attempts,    \* task_states.attempt_count
  dlq,         \* rows of dead_letter_queue for the task
  queue,       \* list task_queue: LPUSH appends here, BRPOPLPUSH takes the head
  processing,  \* list task_processing, as the number of entries of each task
  lock,        \* key lock:task:<id>: the owner, or None
  pc,          \* the call the executor awaits, see the header
  claimed,     \* the executor's locals and its ClaimedTask, see Claims
  running,     \* TaskClaimer.running
  runs,        \* history: how often the task body was started
  pushed, cancel, crashes, faults   \* environment: how much of it happened

store == <<status, attempts, dlq, queue, processing, lock>>
env   == <<pushed, cancel, crashes, faults>>
vars  == <<store, pc, claimed, running, runs, env>>

(* claimed[e].task is the id the handler works on; renewing says that the  *)
(* renewal interval is set, aborted is ClaimedTask.aborted, seen is the    *)
(* attemptCount of the TaskState that was loaded, and again remembers that *)
(* handleFailure has still to re-enqueue after releaseCurrentTask.         *)
Claims == [task : Tasks \cup {None}, renewing : BOOLEAN, aborted : BOOLEAN,
           seen : Int, again : BOOLEAN]
ClaimOf(t) == [task |-> t, renewing |-> FALSE, aborted |-> FALSE,
               seen |-> 0, again |-> FALSE]
NoClaim == ClaimOf(None)

(* The calls awaited between updateTaskState('running') and the final      *)
(* status: the task body itself and the handling of its outcome.           *)
Engaged == {"execute", "markTimedOut", "markCompleted", "markFailed",
            "bumpAttempt", "deadLetter", "retryWait", "markPending"}
Releasing == {"unlock", "unlist"}
(* TaskClaimer.currentTask is set exactly here, and after an exception.    *)
HasCurrentTask == {"load", "markRunning"} \cup Engaged \cup Releasing
Awaiting == HasCurrentTask \cup
            {"claim", "acquire", "requeueRem", "requeuePush", "enqueue"}
PCs == Awaiting \cup {"wedged", "stopped", "down"}

Init ==
  /\ status = [t \in Tasks |-> "pending"]
  /\ attempts = [t \in Tasks |-> 0]
  /\ dlq = [t \in Tasks |-> 0]
  /\ queue = <<>>
  /\ processing = [t \in Tasks |-> 0]
  /\ lock = [t \in Tasks |-> None]
  /\ pc = [e \in Executors |-> "claim"]
  /\ claimed = [e \in Executors |-> NoClaim]
  /\ running = [e \in Executors |-> TRUE]
  /\ runs = [t \in Tasks |-> 0]
  /\ pushed = [t \in Tasks |-> 0]
  /\ cancel = [t \in Tasks |-> "no"]
  /\ crashes = 0
  /\ faults = 0

-----------------------------------------------------------------------------
(* Effects of single Redis commands and SQL statements.                    *)

Lpush(t) == queue' = Append(queue, t)

Brpoplpush ==
  /\ queue # <<>>
  /\ queue' = Tail(queue)
  /\ processing' = [processing EXCEPT ![Head(queue)] = @ + 1]

(* Mutant: LREM with count 0, which removes every occurrence.              *)
LremAll(t) == processing' = [processing EXCEPT ![t] = 0]

Lrem(t) ==
  processing' = [processing EXCEPT ![t] = IF @ > 0 THEN @ - 1 ELSE 0]

SetNx(t, e) == lock' = [lock EXCEPT ![t] = IF @ = None THEN e ELSE @]

(* Mutant: a plain DEL instead of the script that compares the owner.      *)
DelAlways(t, e) == lock' = [lock EXCEPT ![t] = None]

DelIfOwner(t, e) == lock' = [lock EXCEPT ![t] = IF @ = e THEN None ELSE @]

SetStatus(t, s) == status' = [status EXCEPT ![t] = s]

SetAttempts(t, n) == attempts' = [attempts EXCEPT ![t] = n]

InsertDeadLetter(t) == dlq' = [dlq EXCEPT ![t] = @ + 1]

-----------------------------------------------------------------------------
(* Control flow of an executor.                                            *)

Task(e) == claimed[e].task

Await(e, call) == pc' = [pc EXCEPT ![e] = call]

(* The handler returned: the loop tests `running` and polls again.         *)
NextPoll(e) ==
  /\ Await(e, IF running[e] THEN "claim" ELSE "stopped")
  /\ claimed' = [claimed EXCEPT ![e] = NoClaim]

(* releaseCurrentTask: the interval is cleared before the first await.     *)
Release(e) ==
  /\ Await(e, "unlock")
  /\ claimed' = [claimed EXCEPT ![e].renewing = FALSE]

(* The catch clause of the loop logs and polls again, but leaves           *)
(* currentTask set: from then on the loop only sleeps.                     *)
Throw(e) ==
  IF pc[e] \in HasCurrentTask
  THEN /\ Await(e, IF running[e] THEN "wedged" ELSE "stopped")
       /\ UNCHANGED claimed
  ELSE NextPoll(e)

(* Mutants: off by one in either direction.                                *)
ShouldRetryOnceMore(t, attempt) == attempt <= MaxAttempts[t]
ShouldRetryOnceLess(t, attempt) == attempt + 1 < MaxAttempts[t]
ShouldRetry(t, attempt) == attempt < MaxAttempts[t]

-----------------------------------------------------------------------------
(* TaskClaimer.start                                                       *)

Claim(e) ==
  /\ pc[e] = "claim"
  /\ Brpoplpush
  /\ Await(e, "acquire")
  /\ claimed' = [claimed EXCEPT ![e] = ClaimOf(Head(queue))]
  /\ UNCHANGED <<status, attempts, dlq, lock, running, runs, env>>

(* Mutant: SET without NX, so that a held lock is taken over.              *)
AcquireAlways(e) ==
  /\ pc[e] = "acquire"
  /\ lock' = [lock EXCEPT ![Task(e)] = e]
  /\ Await(e, "load")
  /\ claimed' = [claimed EXCEPT ![e].renewing = TRUE]
  /\ UNCHANGED <<status, attempts, dlq, queue, processing, running, runs, env>>

AcquireLock(e) ==
  /\ pc[e] = "acquire"
  /\ lock[Task(e)] = None
  /\ SetNx(Task(e), e)
  /\ Await(e, "load")
  /\ claimed' = [claimed EXCEPT ![e].renewing = TRUE]
  /\ UNCHANGED <<status, attempts, dlq, queue, processing, running, runs, env>>

LockTaken(e) ==
  /\ pc[e] = "acquire"
  /\ lock[Task(e)] # None
  /\ Await(e, "requeueRem")
  /\ UNCHANGED <<store, claimed, running, runs, env>>

RequeueRemove(e) ==
  /\ pc[e] = "requeueRem"
  /\ Lrem(Task(e))
  /\ Await(e, "requeuePush")
  /\ UNCHANGED <<status, attempts, dlq, queue, lock, claimed, running, runs,
                 env>>

RequeuePush(e) ==
  /\ pc[e] = "requeuePush"
  /\ Lpush(Task(e))
  /\ NextPoll(e)
  /\ UNCHANGED <<status, attempts, dlq, processing, lock, running, runs, env>>

(* Mutant: BRPOPLPUSH without a timeout.                                   *)
ExitLoopBlocked(e) ==
  /\ pc[e] = "wedged"
  /\ ~running[e]
  /\ Await(e, "stopped")
  /\ UNCHANGED <<store, claimed, running, runs, env>>

(* stop() was called while the loop awaited BRPOPLPUSH or slept: the reply *)
(* is null, or the sleep ends, and the loop condition fails.               *)
ExitLoop(e) ==
  /\ pc[e] \in {"claim", "wedged"}
  /\ ~running[e]
  /\ Await(e, "stopped")
  /\ UNCHANGED <<store, claimed, running, runs, env>>

-----------------------------------------------------------------------------
(* The onTaskClaimed callback and TaskRunner.run                           *)

(* Mutant: the TaskState is built without attempt_count.                   *)
LoadUncounted(e) ==
  /\ pc[e] = "load"
  /\ CanTransition(status[Task(e)], "running")
  /\ Await(e, "markRunning")
  /\ UNCHANGED <<store, claimed, running, runs, env>>

(* The callback loads the TaskState and hands it to run, which checks the  *)
(* transition on the loaded status in the same turn.                       *)
LoadPending(e) ==
  /\ pc[e] = "load"
  /\ CanTransition(status[Task(e)], "running")
  /\ claimed' = [claimed EXCEPT ![e].seen = attempts[Task(e)]]
  /\ Await(e, "markRunning")
  /\ UNCHANGED <<store, running, runs, env>>

(* Mutant: a rejected task is cleared like an aborted one, not released.   *)
LoadRejectedCleared(e) ==
  /\ pc[e] = "load"
  /\ ~CanTransition(status[Task(e)], "running")
  /\ NextPoll(e)
  /\ UNCHANGED <<store, running, runs, env>>

LoadRejected(e) ==
  /\ pc[e] = "load"
  /\ ~CanTransition(status[Task(e)], "running")
  /\ Release(e)
  /\ UNCHANGED <<store, running, runs, env>>

MarkRunning(e) ==
  /\ pc[e] = "markRunning"
  /\ SetStatus(Task(e), "running")
  /\ \/ /\ claimed[e].aborted
        /\ NextPoll(e)
        /\ UNCHANGED runs
     \/ /\ ~claimed[e].aborted
        /\ Await(e, "execute")
        /\ runs' = [runs EXCEPT ![Task(e)] = @ + 1]
        /\ UNCHANGED claimed
  /\ UNCHANGED <<attempts, dlq, queue, processing, lock, running, env>>

(* The timeout path returns before the abort check that follows the body.  *)
TimeOut(e) ==
  /\ pc[e] = "execute"
  /\ Await(e, "markTimedOut")
  /\ UNCHANGED <<store, claimed, running, runs, env>>

Abandon(e) ==
  /\ pc[e] = "execute"
  /\ claimed[e].aborted
  /\ NextPoll(e)
  /\ UNCHANGED <<store, running, runs, env>>

(* What the bodies of the three types of task do is left out.              *)
Succeed(e) ==
  /\ pc[e] = "execute"
  /\ ~claimed[e].aborted
  /\ Await(e, "markCompleted")
  /\ UNCHANGED <<store, claimed, running, runs, env>>

(* The body fails: without a policy the task fails at once, with one the   *)
(* attempt is recorded first.                                              *)
Fail(e) ==
  /\ pc[e] = "execute"
  /\ ~claimed[e].aborted
  /\ Await(e, IF Task(e) \in Retriable THEN "bumpAttempt" ELSE "markFailed")
  /\ UNCHANGED <<store, claimed, running, runs, env>>

Finish(e, call, final) ==
  /\ pc[e] = call
  /\ SetStatus(Task(e), final)
  /\ Release(e)
  /\ UNCHANGED <<attempts, dlq, queue, processing, lock, running, runs, env>>

(* Mutant: a status that is not in the enumeration of types.ts.            *)
MarkTimeout(e)   == Finish(e, "markTimedOut", "timeout")

MarkTimedOut(e)  == Finish(e, "markTimedOut", "timed_out")
MarkCompleted(e) == Finish(e, "markCompleted", "completed")
MarkFailed(e)    == Finish(e, "markFailed", "failed")

-----------------------------------------------------------------------------
(* RetryHandler.handleFailure, for a task with a retry policy              *)

BumpAttempt(e) ==
  LET attempt == claimed[e].seen + 1 IN
  /\ pc[e] = "bumpAttempt"
  /\ SetAttempts(Task(e), attempt)
  /\ Await(e, IF ShouldRetry(Task(e), attempt) THEN "retryWait"
                                               ELSE "deadLetter")
  /\ UNCHANGED <<status, dlq, queue, processing, lock, claimed, running, runs,
                 env>>

DeadLetter(e) ==
  /\ pc[e] = "deadLetter"
  /\ InsertDeadLetter(Task(e))
  /\ Await(e, "markFailed")
  /\ UNCHANGED <<status, attempts, queue, processing, lock, claimed, running,
                 runs, env>>

(* waitWithLockRenewal returns when the delay is over, when the claimer    *)
(* has aborted, or when its own renewal is refused; it reports none of     *)
(* this, so only `aborted` decides.                                        *)
WaitAbandoned(e) ==
  /\ pc[e] = "retryWait"
  /\ claimed[e].aborted
  /\ NextPoll(e)
  /\ UNCHANGED <<store, running, runs, env>>

WaitOver(e) ==
  /\ pc[e] = "retryWait"
  /\ ~claimed[e].aborted
  /\ Await(e, "markPending")
  /\ UNCHANGED <<store, claimed, running, runs, env>>

MarkPending(e) ==
  /\ pc[e] = "markPending"
  /\ SetStatus(Task(e), "pending")
  /\ Await(e, "unlock")
  /\ claimed' = [claimed EXCEPT ![e].renewing = FALSE, ![e].again = TRUE]
  /\ UNCHANGED <<attempts, dlq, queue, processing, lock, running, runs, env>>

-----------------------------------------------------------------------------
(* TaskClaimer.releaseCurrentTask, and the re-enqueue after it             *)

Unlock(e) ==
  /\ pc[e] = "unlock"
  /\ DelIfOwner(Task(e), e)
  /\ Await(e, "unlist")
  /\ UNCHANGED <<status, attempts, dlq, queue, processing, claimed, running,
                 runs, env>>

(* Mutant: a retry ends with the release.                                  *)
UnlistForgetful(e) ==
  /\ pc[e] = "unlist"
  /\ Lrem(Task(e))
  /\ NextPoll(e)
  /\ UNCHANGED <<status, attempts, dlq, queue, lock, running, runs, env>>

Unlist(e) ==
  /\ pc[e] = "unlist"
  /\ Lrem(Task(e))
  /\ \/ /\ claimed[e].again
        /\ Await(e, "enqueue")
        /\ claimed' = [claimed EXCEPT ![e] = ClaimOf(Task(e))]
     \/ /\ ~claimed[e].again
        /\ NextPoll(e)
  /\ UNCHANGED <<status, attempts, dlq, queue, lock, running, runs, env>>

Enqueue(e) ==
  /\ pc[e] = "enqueue"
  /\ Lpush(Task(e))
  /\ NextPoll(e)
  /\ UNCHANGED <<status, attempts, dlq, processing, lock, running, runs, env>>

-----------------------------------------------------------------------------
(* Timers and faults                                                       *)

(* The renewal script finds another owner, or no key: abort.               *)
RenewalRefused(e) ==
  /\ claimed[e].renewing
  /\ lock[Task(e)] # e
  /\ claimed' = [claimed EXCEPT ![e].renewing = FALSE, ![e].aborted = TRUE]
  /\ UNCHANGED <<store, pc, running, runs, env>>

(* The renewal call itself fails: abort as well, though the key is still   *)
(* there and will only lapse later.                                        *)
RenewalError(e) ==
  /\ claimed[e].renewing
  /\ faults < MaxFaults
  /\ faults' = faults + 1
  /\ claimed' = [claimed EXCEPT ![e].renewing = FALSE, ![e].aborted = TRUE]
  /\ UNCHANGED <<store, pc, running, runs, pushed, cancel, crashes>>

(* A key is kept alive by its owner's renewals every 10 s.  While the      *)
(* owner only loads the task and marks it running, two round trips after   *)
(* SET ... PX 30000, its age alone protects it.                            *)
Protected(t) ==
  LET e == lock[t] IN
  /\ Task(e) = t
  /\ claimed[e].renewing \/ pc[e] \in {"load", "markRunning"}

LockLapses(t) ==
  /\ lock[t] # None
  /\ LeaseLoss \/ ~Protected(t)
  /\ lock' = [lock EXCEPT ![t] = None]
  /\ UNCHANGED <<status, attempts, dlq, queue, processing, pc, claimed,
                 running, runs, env>>

(* A call that never reaches its store: it rejects, nothing changed there. *)
CallFails(e) ==
  /\ pc[e] \in Awaiting \ {"claim", "execute"}
  /\ faults < MaxFaults
  /\ faults' = faults + 1
  /\ Throw(e)
  /\ UNCHANGED <<store, running, runs, pushed, cancel, crashes>>

(* A call that takes effect but whose reply is lost: it rejects as well.   *)
ReplyLost(e) ==
  /\ faults < MaxFaults
  /\ faults' = faults + 1
  /\ \/ /\ pc[e] = "claim" /\ Brpoplpush
        /\ UNCHANGED <<status, attempts, dlq, lock>>
     \/ /\ pc[e] \in {"requeueRem", "unlist"} /\ Lrem(Task(e))
        /\ UNCHANGED <<status, attempts, dlq, queue, lock>>
     \/ /\ pc[e] \in {"requeuePush", "enqueue"} /\ Lpush(Task(e))
        /\ UNCHANGED <<status, attempts, dlq, processing, lock>>
     \/ /\ \/ pc[e] = "acquire" /\ SetNx(Task(e), e)
           \/ pc[e] = "unlock" /\ DelIfOwner(Task(e), e)
        /\ UNCHANGED <<status, attempts, dlq, queue, processing>>
     \/ /\ \/ pc[e] = "markRunning" /\ SetStatus(Task(e), "running")
           \/ pc[e] = "markTimedOut" /\ SetStatus(Task(e), "timed_out")
           \/ pc[e] = "markCompleted" /\ SetStatus(Task(e), "completed")
           \/ pc[e] = "markFailed" /\ SetStatus(Task(e), "failed")
           \/ pc[e] = "markPending" /\ SetStatus(Task(e), "pending")
        /\ UNCHANGED <<attempts, dlq, queue, processing, lock>>
     \/ /\ pc[e] = "bumpAttempt"
        /\ SetAttempts(Task(e), claimed[e].seen + 1)
        /\ UNCHANGED <<status, dlq, queue, processing, lock>>
     \/ /\ pc[e] = "deadLetter" /\ InsertDeadLetter(Task(e))
        /\ UNCHANGED <<status, attempts, queue, processing, lock>>
  /\ Throw(e)
  /\ UNCHANGED <<running, runs, pushed, cancel, crashes>>

(* TaskClaimer.stop: also clears the interval of a task that still runs.   *)
Stop(e) ==
  /\ e \in Stoppable
  /\ running[e]
  /\ running' = [running EXCEPT ![e] = FALSE]
  /\ claimed' = [claimed EXCEPT ![e].renewing = FALSE]
  /\ UNCHANGED <<store, pc, runs, env>>

Crash(e) ==
  /\ pc[e] # "down"
  /\ crashes < MaxCrashes
  /\ crashes' = crashes + 1
  /\ Await(e, "down")
  /\ claimed' = [claimed EXCEPT ![e] = NoClaim]
  /\ running' = [running EXCEPT ![e] = FALSE]
  /\ UNCHANGED <<store, runs, pushed, cancel, faults>>

Restart(e) ==
  /\ pc[e] = "down"
  /\ Await(e, "claim")
  /\ running' = [running EXCEPT ![e] = TRUE]
  /\ UNCHANGED <<store, claimed, runs, env>>

-----------------------------------------------------------------------------
(* The other services                                                      *)

(* A task is pushed when it becomes ready; a second time when two upstream *)
(* tasks complete together, or when a schedule enqueued it as a non-root.  *)
Push(t) ==
  /\ pushed[t] < MaxPushes
  /\ pushed' = [pushed EXCEPT ![t] = @ + 1]
  /\ Lpush(t)
  /\ UNCHANGED <<status, attempts, dlq, processing, lock, pc, claimed,
                 running, runs, cancel, crashes, faults>>

(* ExecutionController.cancel reads the statuses, then overwrites those    *)
(* that were pending, one UPDATE at a time.                                *)
CancelRead(t) ==
  /\ t \in Cancellable
  /\ cancel[t] = "no"
  /\ status[t] = "pending"
  /\ cancel' = [cancel EXCEPT ![t] = "read"]
  /\ UNCHANGED <<store, pc, claimed, running, runs, pushed, crashes, faults>>

CancelWrite(t) ==
  /\ cancel[t] = "read"
  /\ cancel' = [cancel EXCEPT ![t] = "written"]
  /\ SetStatus(t, "cancelled")
  /\ UNCHANGED <<attempts, dlq, queue, processing, lock, pc, claimed, running,
                 runs, pushed, crashes, faults>>

-----------------------------------------------------------------------------
(* What executor e does by itself.                                         *)
Step(e) ==
  \/ Claim(e) \/ AcquireLock(e) \/ LockTaken(e)
  \/ RequeueRemove(e) \/ RequeuePush(e) \/ ExitLoop(e)
  \/ LoadPending(e) \/ LoadRejected(e) \/ MarkRunning(e)
  \/ TimeOut(e) \/ Abandon(e) \/ Succeed(e) \/ Fail(e)
  \/ MarkTimedOut(e) \/ MarkCompleted(e) \/ MarkFailed(e)
  \/ BumpAttempt(e) \/ DeadLetter(e)
  \/ WaitAbandoned(e) \/ WaitOver(e) \/ MarkPending(e)
  \/ Unlock(e) \/ Unlist(e) \/ Enqueue(e)

(* What happens to it.                                                     *)
Disturb(e) ==
  \/ RenewalRefused(e) \/ RenewalError(e)
  \/ CallFails(e) \/ ReplyLost(e)
  \/ Stop(e) \/ Crash(e) \/ Restart(e)

Environment(t) ==
  LockLapses(t) \/ Push(t) \/ CancelRead(t) \/ CancelWrite(t)

Next ==
  \/ \E e \in Executors : Step(e) \/ Disturb(e)
  \/ \E t \in Tasks : Environment(t)

Spec == Init /\ [][Next]_vars

(* The event loop serves every pending call, a body ends at the latest by  *)
(* its timeout, a key with a TTL that nobody renews expires, and the       *)
(* orchestrator restarts a pod that went down.                             *)
FairSpec ==
  /\ Spec
  /\ \A e \in Executors : WF_vars(Step(e)) /\ WF_vars(Restart(e))
  /\ \A t \in Tasks : WF_vars(LockLapses(t))

=============================================================================

---------------------------- MODULE TaskLifecycle ----------------------------
(***************************************************************************)
(* What the executors together promise about a task: its body runs on at   *)
(* most one executor at a time and at most RunLimit times, it runs only    *)
(* between 'running' and the next status, and a task that nobody decides   *)
(* to cancel never leaves a terminal status.  Queues, locks, timers,       *)
(* retries, crashes and failed calls do not appear here.                   *)
(***************************************************************************)
EXTENDS Integers, TaskStateMachine

CONSTANTS Executors, Tasks, None, RunLimit

VARIABLES
  status,   \* the persisted status
  worker,   \* the executor running the body of the task, or None
  runs,     \* how often the body was started
  cancel    \* "no", "read" once a cancellation is decided, "written" when it landed

vars == <<status, worker, runs, cancel>>

TypeOK ==
  /\ status \in [Tasks -> TaskStatus]
  /\ worker \in [Tasks -> Executors \cup {None}]
  /\ runs \in [Tasks -> Nat]
  /\ cancel \in [Tasks -> {"no", "read", "written"}]

Init ==
  /\ status = [t \in Tasks |-> "pending"]
  /\ worker = [t \in Tasks |-> None]
  /\ runs = [t \in Tasks |-> 0]
  /\ cancel = [t \in Tasks |-> "no"]

(* A cancellation decided while the task was pending can land later, and   *)
(* then 'cancelled' hides the status that the executor knows of.           *)
Is(t, s) == status[t] = s \/ (cancel[t] = "written" /\ status[t] = "cancelled")

(* The task is marked running; the executor may find that it must not or   *)
(* cannot go on, and then nobody runs the body.                            *)
Mark(t) ==
  /\ Is(t, "pending") /\ worker[t] = None
  /\ status' = [status EXCEPT ![t] = "running"]
  /\ UNCHANGED <<worker, runs, cancel>>

Begin(t, e) ==
  /\ Is(t, "pending") /\ worker[t] = None
  /\ \A u \in Tasks : worker[u] # e
  /\ runs[t] < RunLimit[t]
  /\ status' = [status EXCEPT ![t] = "running"]
  /\ worker' = [worker EXCEPT ![t] = e]
  /\ runs' = [runs EXCEPT ![t] = @ + 1]
  /\ UNCHANGED cancel

(* The body ends, in whatever way; its outcome is persisted later.         *)
End(t) ==
  /\ worker[t] # None
  /\ worker' = [worker EXCEPT ![t] = None]
  /\ UNCHANGED <<status, runs, cancel>>

(* One outcome: a final status, or 'pending' while runs are left.          *)
Settle(t) ==
  /\ Is(t, "running") /\ worker[t] = None
  /\ \/ \E s \in TerminalStates \ {"cancelled"} :
          status' = [status EXCEPT ![t] = s]
     \/ /\ runs[t] < RunLimit[t]
        /\ status' = [status EXCEPT ![t] = "pending"]
  /\ UNCHANGED <<worker, runs, cancel>>

DecideCancel(t) ==
  /\ cancel[t] = "no" /\ status[t] = "pending"
  /\ cancel' = [cancel EXCEPT ![t] = "read"]
  /\ UNCHANGED <<status, worker, runs>>

Cancel(t) ==
  /\ cancel[t] = "read"
  /\ cancel' = [cancel EXCEPT ![t] = "written"]
  /\ status' = [status EXCEPT ![t] = "cancelled"]
  /\ UNCHANGED <<worker, runs>>

Next ==
  \E t \in Tasks :
    \/ Mark(t) \/ End(t) \/ Settle(t) \/ DecideCancel(t) \/ Cancel(t)
    \/ \E e \in Executors : Begin(t, e)

Spec == Init /\ [][Next]_vars

=============================================================================

------------------------- MODULE ExecutionProperties -------------------------
(***************************************************************************)
(* What module Execution is checked for.                                   *)
(***************************************************************************)
EXTENDS Execution

(* Every variable stays within its type; an evaluator holds ready tasks    *)
(* exactly until it has enqueued them, and a cancel has doomed tasks left  *)
(* only while it writes.                                                   *)
TypeOK ==
  /\ graph \in Graphs /\ origin \in Origins
  /\ launch \in {"create", "batch", "enqueue", "insert", "enqueueRow",
                 "markRunning", "done", "failed"}
  /\ pending \subseteq Tasks /\ rows \subseteq Tasks
  /\ exec \in ExecStatus \cup {"none"}
  /\ status \in [Tasks -> TaskStatus \ {"skipped"}]
  /\ queue \in [Tasks -> Nat]
  /\ work \in [Tasks -> Works]
  /\ ready \in [Tasks -> SUBSET Tasks]
  /\ \A t \in Tasks : ready[t] # {} <=> work[t] = "enqueueing"
  /\ retries \in [Tasks -> 0..MaxRetries]
  /\ cancel \in {"no", "execution", "load", "tasks", "done", "failed"}
  /\ doomed \subseteq rows /\ (doomed # {} <=> cancel = "tasks")
  /\ inbox \in Nat /\ calls \in 0..MaxChecks /\ faults \in 0..MaxFaults
  /\ check \in [Checkers -> {"idle", "completed", "failed"}]
  /\ skipped \subseteq Tasks

Done(s) == work[s] \in AfterCompletion
Touched(t) == queue[t] > 0 \/ work[t] # "idle" \/ retries[t] > 0

(* A task of an execution launched over the API is handed to an executor   *)
(* only when every upstream task completed or was skipped by the evaluator *)
(* and, unless it is a root, one of them completed: whatever the order of  *)
(* completions, snapshots, retries, cancellations and crashes.             *)
DependencyOrder ==
  origin = "api" =>
    \A t \in Tasks : Touched(t) =>
      /\ \A s \in Upstream(t) : Done(s) \/ s \in skipped
      /\ Upstream(t) # {} => \E s \in Upstream(t) : Done(s)

(* A join is not lost between evaluators that run at the same time on      *)
(* snapshots of their own: once the upstream tasks have all published      *)
(* their completion, the last snapshot must have shown the join ready,     *)
(* unless a cancellation or a fault intervened or a condition skipped it.  *)
FanInNotLost ==
  cancel = "no" /\ faults = 0 /\ (origin = "schedule" => launch = "done") =>
    \A t \in rows \ skipped :
      (Upstream(t) # {} /\ \A s \in Upstream(t) : work[s] = "published")
        => Touched(t)

(* The final status that checkExecutionCompletion writes from what it read *)
(* earlier is still right when it is written and ever after: no task of a  *)
(* completed or failed execution is unfinished, and failed means that a    *)
(* task failed (one that timed out did not, for the code).                 *)
CompletionSound ==
  (origin = "api" /\ exec \in {"completed", "failed"}) =>
    /\ rows = Tasks
    /\ \A t \in Tasks : status[t] \in TerminalStates
    /\ exec = "failed" <=> \E t \in Tasks : status[t] = "failed"

(* A final status of an execution is final, except that a cancel that      *)
(* checked the status earlier may still overwrite completed or failed: a   *)
(* check that decided before the cancel must not revive or finish the      *)
(* cancelled execution afterwards.                                         *)
FinalStaysFinal ==
  [][(exec \in ExecFinal) => (exec' = exec \/ exec' = "cancelled")]_vars

(* After a cancel has returned no executor starts on another task of the   *)
(* execution, except for the retry of one that was running at the time.    *)
CancelledStaysQuiet ==
  [][\A t \in Tasks :
       cancel = "done" /\ work[t] # "loaded" /\ work'[t] = "loaded"
         => retries[t] > 0]_vars

(* t and all tasks above it.                                               *)
AncestorsOf(t) ==
  LET Closed(X) == t \in X /\ \A u \in X : Upstream(u) \subseteq X
  IN {s \in Tasks : \A X \in SUBSET Tasks : Closed(X) => s \in X}

(* Without faults, cancellation and refused conditions an execution gets   *)
(* as far as its failures let it: every task ends or has a failed task     *)
(* above it, although each evaluator sees only its own snapshot.           *)
Progress ==
  launch = "done" ~>
    \/ cancel # "no" \/ faults > 0 \/ skipped # {}
    \/ \A t \in Tasks :
         \/ status[t] \in TerminalStates
         \/ \E s \in AncestorsOf(t) : status[s] \in {"failed", "timed_out"}

(* The queue is empty and no executor has a task of the execution, an      *)
(* evaluation or a publication in hand.                                    *)
AtRest == \A t \in Tasks : queue[t] = 0 /\ work[t] \notin Busy \cup Following

(* What Progress promises of the state that an execution comes to rest in: *)
(* nothing is left behind that has not a failed or a skipped task above it *)
(* (or was skipped itself), whatever was retried.                          *)
NothingLeftBehind ==
  cancel = "no" /\ faults = 0 /\ launch = "done" /\ AtRest =>
    \A t \in Tasks :
      \/ status[t] \in TerminalStates
      \/ \E s \in AncestorsOf(t) : status[s] \in {"failed", "timed_out"} \/ s \in skipped
=============================================================================

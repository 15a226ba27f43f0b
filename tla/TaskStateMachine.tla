-------------------------- MODULE TaskStateMachine --------------------------
(***************************************************************************)
(* The task state machine of packages/shared (state-machine.ts) and the    *)
(* statuses of types.ts.  Every service consults these operators, always   *)
(* on a status it read earlier: none of the UPDATE statements repeats the  *)
(* check, which is what the modules that extend this one are about.        *)
(***************************************************************************)

TaskStatus == {"pending", "running", "completed", "failed", "cancelled",
               "timed_out", "skipped"}

(* 'skipped' is not terminal in the code: it is in no row of the map below *)
(* either, so a skipped task can neither move nor count as finished.       *)
TerminalStates == {"completed", "failed", "cancelled", "timed_out"}

ValidTransitions ==
  [s \in TaskStatus |->
    CASE s = "pending" -> {"running", "cancelled"}
      [] s = "running" -> {"completed", "failed", "cancelled", "timed_out"}
      [] OTHER         -> {}]

(* Mutant: the terminal check is dropped and 'running' always accepted.    *)
LaxTransition(from, to) == to \in ValidTransitions[from] \cup {"running"}

CanTransition(from, to) ==
  from \notin TerminalStates /\ to \in ValidTransitions[from]

=============================================================================

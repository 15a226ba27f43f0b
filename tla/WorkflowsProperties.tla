------------------------- MODULE WorkflowsProperties -------------------------
(***************************************************************************)
(* What transactions, row locks and foreign keys make of concurrent        *)
(* updates, deletions and launches of a workflow.                          *)
(***************************************************************************)
EXTENDS Workflows

(* One update at a time is under way, on a workflow that exists.  A launch *)
(* has task states left to insert only of definitions that it read.        *)
TypeOK ==
  /\ row \in Accepted \cup {None, Gone}
  /\ defs \subseteq Definitions
  /\ request \in [Requests -> {"new", "locked", "emptied", "filled", "done",
                               "error", "not found", "rejected"}]
  /\ dropped \in [Requests -> SUBSET Definitions]
  /\ deletion \in [Deletions -> {"new", "checked", "conflict", "done", "error"}]
  /\ launch \in [Launches -> {"new", "found", "created", "read", "batch", "queued",
                              "running", "error"}]
  /\ read \in [Launches -> SUBSET Definitions]
  /\ left \in [Launches -> SUBSET Definitions]
  /\ status \in [Launches -> {"none", "pending", "running", "over"}]
  /\ tasks \in [Launches -> SUBSET Definitions]
  /\ faults \in Nat
  /\ \A q, r \in Open : q = r
  /\ Open # {} => Exists /\ Open \subseteq Accepted
  /\ \A e \in Launches : left[e] \subseteq read[e]

(* The values of a workflow and its task definitions stem from one request,*)
(* whatever other updates and deletions run beside it or fail half-way;    *)
(* nothing is left of a workflow that is not there.                        *)
VersionsUnmixed == defs = IF Exists THEN Body(row) ELSE {}

(* The workflow of an execution exists, although deleteWorkflow looks for  *)
(* executions before it deletes and execute for the workflow before it     *)
(* inserts.  Task states reference definitions of the workflow as it is,   *)
(* although definitions are read long before task states are inserted and  *)
(* an update may have replaced them: an execution that ran has one for     *)
(* each, one that was launched through the API has one for each or none.   *)
LaunchIsConsistent ==
  \A e \in Launches :
    /\ status[e] # "none" => Exists
    /\ tasks[e] \subseteq defs
    /\ status[e] \in {"running", "over"} => tasks[e] = defs
    /\ e \notin Scheduled => tasks[e] \in {{}, defs}
=============================================================================

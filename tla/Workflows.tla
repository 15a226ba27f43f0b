------------------------------ MODULE Workflows ------------------------------
(***************************************************************************)
(* One workflow and its task definitions, as WorkflowController and        *)
(* WorkflowRepository write them and as the launches of ExecutionController*)
(* and ScheduleEvaluator read and reference them.  A step is a statement,  *)
(* or the end of a transaction, at READ COMMITTED: what a transaction has  *)
(* written shows when it commits.  Row locks and foreign keys are those of *)
(* the migrations: an UPDATE of the workflow waits for the one before it,  *)
(* a referenced row is not deleted, and one whose deletion is not yet      *)
(* committed keeps the rows that want to reference it waiting.             *)
(***************************************************************************)
EXTENDS Integers, FiniteSets

CONSTANTS
  Requests,    \* POST and PUT requests
  Accepted,    \* those whose bodies are workflows and whose graphs are DAGs
  Tasks(_),    \* the tasks of a body
  Edged,       \* the requests whose bodies have edges
  Launches,    \* executions of the workflow
  Scheduled,   \* the ones that ScheduleEvaluator launches
  Deletions,   \* DELETE requests
  None, Gone,  \* the workflow is not yet, or no longer, there
  MaxFaults    \* bound of the model

ASSUME RequestAssumption ==
  /\ None \notin Requests /\ Gone \notin Requests /\ None # Gone
  /\ Edged \subseteq Requests /\ Accepted \subseteq Requests
  /\ \A r \in Accepted : Tasks(r) # {}
ASSUME LaunchAssumption == Scheduled \subseteq Launches
ASSUME FaultAssumption == MaxFaults \in Nat

Body(r) == {<<r, t>> : t \in Tasks(r)}
Definitions == UNION {Body(r) : r \in Requests}

VARIABLES
  row,       \* the row in workflows: the request whose values it has
  defs,      \* task_definitions
  request,   \* where a request stands
  dropped,   \* the definitions that it has deleted, committed or not
  deletion,  \* where a DELETE request stands
  launch,    \* where a launch stands
  read,      \* the task definitions that it read
  left,      \* those of which it has not yet inserted the task state
  status,    \* executions
  tasks,     \* task_states: the definitions they reference
  faults

vars == <<row, defs, request, dropped, deletion, launch, read, left, status, tasks, faults>>
launching == <<launch, read, left, status, tasks>>

Init ==
  /\ row = None
  /\ defs = {}
  /\ request = [r \in Requests |-> "new"]
  /\ dropped = [r \in Requests |-> {}]
  /\ deletion = [x \in Deletions |-> "new"]
  /\ launch = [e \in Launches |-> "new"]
  /\ read = [e \in Launches |-> {}]
  /\ left = [e \in Launches |-> {}]
  /\ status = [e \in Launches |-> "none"]
  /\ tasks = [e \in Launches |-> {}]
  /\ faults = 0

Exists == row \in Requests

Answer(r, from, to) ==
  /\ request[r] = from
  /\ request' = [request EXCEPT ![r] = to]
  /\ UNCHANGED <<deletion, launching, faults>>

(* validateWorkflowBody and validateDAG of both handlers; module Dag says  *)
(* what the latter accepts.                                                *)
Reject(r) ==
  /\ r \notin Accepted
  /\ Answer(r, "new", "rejected")
  /\ UNCHANGED <<row, defs, dropped>>

-----------------------------------------------------------------------------
(* WorkflowRepository.create.  Until it commits nobody knows the id.       *)

Create(r) ==
  /\ row = None
  /\ r \in Accepted \ Edged
  /\ Answer(r, "new", "done")
  /\ row' = r
  /\ defs' = Body(r)
  /\ UNCHANGED dropped

(* An edge names its tasks as the body does; the columns want the ids that *)
(* the INSERTs have just generated.  The transaction is rolled back.       *)
CreateRefused(r) ==
  /\ row = None
  /\ r \in Accepted \cap Edged
  /\ Answer(r, "new", "error")
  /\ UNCHANGED <<row, defs, dropped>>

-----------------------------------------------------------------------------
(* WorkflowRepository.update                                               *)

Open == {r \in Requests : request[r] \in {"locked", "emptied", "filled"}}

(* Mutant: the row is updated last, and nothing locks it before.           *)
LockNothing(r) ==
  /\ r \in Accepted /\ Exists
  /\ Answer(r, "new", "locked")
  /\ UNCHANGED <<row, defs, dropped>>

(* Mutant: an update that finds no row goes on.                            *)
LockMissing(r) ==
  /\ r \in Accepted /\ row # None
  /\ Open = {}
  /\ Answer(r, "new", "locked")
  /\ UNCHANGED <<row, defs, dropped>>

(* UPDATE workflows                                                        *)
Lock(r) ==
  /\ r \in Accepted /\ Exists
  /\ Open = {}
  /\ Answer(r, "new", "locked")
  /\ UNCHANGED <<row, defs, dropped>>

NotFound(r) ==
  /\ r \in Accepted /\ row = Gone
  /\ Answer(r, "new", "not found")
  /\ UNCHANGED <<row, defs, dropped>>

(* Definitions that an uncommitted task state references.                  *)
Shared == UNION {read[e] \ left[e] : e \in {f \in Launches \ Scheduled : launch[f] = "batch"}}
Referenced == UNION {tasks[e] : e \in Launches}

(* DELETE FROM edges, which is empty, and task_definitions.                *)
DeleteDefinitions(r) ==
  /\ defs \cap (Shared \cup Referenced) = {}
  /\ Answer(r, "locked", "emptied")
  /\ dropped' = [dropped EXCEPT ![r] = defs]
  /\ UNCHANGED <<row, defs>>

DeleteRefused(r) ==
  /\ defs \cap Shared = {}
  /\ defs \cap Referenced # {}
  /\ Answer(r, "locked", "error")
  /\ UNCHANGED <<row, defs, dropped>>

InsertDefinitions(r) ==
  /\ Answer(r, "emptied", IF r \in Edged THEN "error" ELSE "filled")
  /\ UNCHANGED <<row, defs, dropped>>

Commit(r) ==
  /\ Answer(r, "filled", "done")
  /\ row' = r
  /\ defs' = (defs \ dropped[r]) \cup Body(r)
  /\ UNCHANGED dropped

-----------------------------------------------------------------------------
(* deleteWorkflow: hasActiveExecutions, then DELETE, which the foreign key *)
(* of executions refuses and the other ones follow.                        *)

Turn(x, from, to) ==
  /\ deletion[x] = from
  /\ deletion' = [deletion EXCEPT ![x] = to]
  /\ UNCHANGED <<request, dropped, launching, faults>>

CheckActive(x) ==
  /\ row # None
  /\ Turn(x, "new", IF \E e \in Launches : status[e] \in {"pending", "running"}
                        THEN "conflict" ELSE "checked")
  /\ UNCHANGED <<row, defs>>

DeleteWorkflow(x) ==
  /\ Open = {}
  /\ Turn(x, "checked", "done")
  /\ \A e \in Launches : status[e] = "none"
  /\ row' = Gone
  /\ defs' = {}

DeleteWorkflowRefused(x) ==
  /\ Open = {}
  /\ Turn(x, "checked", "error")
  /\ \E e \in Launches : status[e] # "none"
  /\ UNCHANGED <<row, defs>>

-----------------------------------------------------------------------------
(* ExecutionController.execute and, for Scheduled, what evaluate does with *)
(* a row.  execute reads first and inserts the task states in one          *)
(* transaction; evaluate inserts the execution first.                      *)

Step(e, from, to) ==
  /\ launch[e] = from
  /\ launch' = [launch EXCEPT ![e] = to]
  /\ UNCHANGED <<row, defs, request, dropped, deletion, faults>>

FindWorkflow(e) ==
  /\ e \notin Scheduled
  /\ Exists
  /\ Step(e, "new", "found")
  /\ UNCHANGED <<read, left, status, tasks>>

ReadDefinitions(e) ==
  /\ IF e \in Scheduled THEN Step(e, "created", "batch") ELSE Step(e, "found", "read")
  /\ read' = [read EXCEPT ![e] = defs]
  /\ left' = [left EXCEPT ![e] = defs]
  /\ UNCHANGED <<status, tasks>>

InsertExecution(e) ==
  /\ Exists
  /\ IF e \in Scheduled THEN Step(e, "new", "created") ELSE Step(e, "read", "batch")
  /\ status' = [status EXCEPT ![e] = "pending"]
  /\ UNCHANGED <<read, left, tasks>>

ExecutionRefused(e) ==
  /\ row = Gone
  /\ Step(e, IF e \in Scheduled THEN "new" ELSE "read", "error")
  /\ UNCHANGED <<read, left, status, tasks>>

Emptied == \E r \in Requests : request[r] \in {"emptied", "filled"}

InsertTask(e, d) ==
  /\ Step(e, "batch", "batch")
  /\ d \in left[e] \cap defs
  /\ ~Emptied
  /\ left' = [left EXCEPT ![e] = @ \ {d}]
  /\ tasks' = IF e \in Scheduled THEN [tasks EXCEPT ![e] = @ \cup {d}] ELSE tasks
  /\ UNCHANGED <<read, status>>

(* Mutant: a task state that cannot be inserted is left out.               *)
TaskSkipped(e, d) ==
  /\ Step(e, "batch", "batch")
  /\ d \in left[e] \ defs
  /\ left' = [left EXCEPT ![e] = @ \ {d}]
  /\ UNCHANGED <<read, status, tasks>>

TaskRefused(e, d) ==
  /\ Step(e, "batch", "error")
  /\ d \in left[e] \ defs
  /\ UNCHANGED <<read, left, status, tasks>>

CommitBatch(e) ==
  /\ Step(e, "batch", "queued")
  /\ left[e] = {}
  /\ tasks' = [tasks EXCEPT ![e] = read[e]]
  /\ UNCHANGED <<read, left, status>>

MarkRunning(e) ==
  /\ Step(e, "queued", "running")
  /\ status' = [status EXCEPT ![e] = "running"]
  /\ UNCHANGED <<read, left, tasks>>

(* Module Execution says when, and that nobody can cancel before.          *)
Complete(e) ==
  /\ status[e] = "running"
  /\ status' = [status EXCEPT ![e] = "over"]
  /\ UNCHANGED <<row, defs, request, dropped, deletion, launch, read, left, tasks, faults>>

-----------------------------------------------------------------------------
(* A statement fails, the connection or the process is lost, or PostgreSQL *)
(* breaks a deadlock: what is not committed is rolled back.                *)

Fault == faults < MaxFaults /\ faults' = faults + 1

RequestFails(r) ==
  /\ Fault
  /\ r \in Open
  /\ request' = [request EXCEPT ![r] = "error"]
  /\ UNCHANGED <<row, defs, dropped, deletion, launching>>

LaunchFails(e) ==
  /\ Fault
  /\ launch[e] \notin {"new", "running", "error"}
  /\ launch' = [launch EXCEPT ![e] = "error"]
  /\ UNCHANGED <<row, defs, request, dropped, deletion, read, left, status, tasks>>

-----------------------------------------------------------------------------
Next ==
  \/ \E r \in Requests :
       \/ Reject(r) \/ Create(r) \/ CreateRefused(r) \/ Lock(r) \/ NotFound(r)
       \/ DeleteDefinitions(r) \/ DeleteRefused(r) \/ InsertDefinitions(r)
       \/ Commit(r) \/ RequestFails(r)
  \/ \E x \in Deletions : CheckActive(x) \/ DeleteWorkflow(x) \/ DeleteWorkflowRefused(x)
  \/ \E e \in Launches :
       \/ FindWorkflow(e) \/ ReadDefinitions(e) \/ InsertExecution(e)
       \/ ExecutionRefused(e) \/ CommitBatch(e) \/ MarkRunning(e)
       \/ Complete(e) \/ LaunchFails(e)
       \/ \E d \in Definitions : InsertTask(e, d) \/ TaskRefused(e, d)

Spec == Init /\ [][Next]_vars
=============================================================================

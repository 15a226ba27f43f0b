----------------------------- MODULE SlaMonitor ------------------------------
(***************************************************************************)
(* SLAChecker of sla-checker.ts, with AlertManager and the table alerts.   *)
(* setInterval starts a check every five seconds whether or not the one    *)
(* before it is over; Checks are the calls of check that can be under way  *)
(* in one process.  What happens between two awaits is one step.  The      *)
(* replicas of the service share nothing that any of them reads.           *)
(***************************************************************************)
EXTENDS Integers, FiniteSets

CONSTANTS
  Executions, Checks,
  MaxFaults   \* bound of the model

ASSUME ExecutionsAssumption == Executions # {}
ASSUME FaultAssumption == MaxFaults \in Nat

Severities == {"warning", "critical"}
Pairs == Executions \X Severities

VARIABLES
  status, level,   \* executions: their status and the threshold passed
  configured,      \* sla_configs has a row for their workflow
  alerts,          \* the table alerts: execution and severity of its rows
  memory,          \* alertedExecutions, {} is no entry
  pc,              \* where a check stands
  active,          \* the running executions that it read
  todo,            \* those not yet visited, with the levels it computed
  target, held,    \* the alert it creates, and alertedSet before the await
  excused,   \* pairs not safe from a second alert: the memory of them was
             \* cleared, an answer was lost, or two checks overlapped
  faults

database == <<status, level, configured, alerts>>
vars == <<database, memory, pc, active, todo, target, held, excused, faults>>

NoRows == [x \in {} |-> 0]
NoAlert == CHOOSE p \in Pairs : TRUE

Init ==
  /\ status = [x \in Executions |-> "pending"]
  /\ level = [x \in Executions |-> 0]
  /\ configured = FALSE
  /\ alerts = {}
  /\ memory = [x \in Executions |-> {}]
  /\ pc = [c \in Checks |-> "idle"]
  /\ active = [c \in Checks |-> {}]
  /\ todo = [c \in Checks |-> NoRows]
  /\ target = [c \in Checks |-> NoAlert]
  /\ held = [c \in Checks |-> {}]
  /\ excused = {}
  /\ faults = 0

-----------------------------------------------------------------------------
(* The rest of the system, and time.                                       *)

checker == <<memory, pc, active, todo, target, held, excused, faults>>

Configure ==
  /\ ~configured
  /\ configured' = TRUE
  /\ UNCHANGED <<status, level, alerts, checker>>

Begin(x) ==
  /\ status[x] = "pending"
  /\ status' = [status EXCEPT ![x] = "running"]
  /\ UNCHANGED <<level, configured, alerts, checker>>

End(x) ==
  /\ status[x] = "running"
  /\ status' = [status EXCEPT ![x] = "over"]
  /\ UNCHANGED <<level, configured, alerts, checker>>

(* Level 1 is the warning threshold, level 2 the limit.                    *)
Age(x) ==
  /\ status[x] # "pending" /\ level[x] < 2
  /\ level' = [level EXCEPT ![x] = @ + 1]
  /\ UNCHANGED <<status, configured, alerts, checker>>

-----------------------------------------------------------------------------
(* The checker                                                             *)

Others(c) == {d \in Checks \ {c} : pc[d] # "idle"}

(* Mutant: a critical alert is repeated by every check.                    *)
NeedsAgain(l, known) ==
  CASE l = 2 -> {"critical"}
    [] l = 1 /\ "warning" \notin known -> {"warning"}
    [] OTHER -> {}

(* The alert that an execution at level l needs: the critical one first,   *)
(* a warning also when the critical one is out.                            *)
Needs(l, known) ==
  CASE l = 2 /\ "critical" \notin known -> {"critical"}
    [] l >= 1 /\ (l < 2 \/ "critical" \in known) /\ "warning" \notin known -> {"warning"}
    [] OTHER -> {}

(* findAll and the query.                                                  *)
Query(c) ==
  /\ pc[c] = "idle" /\ configured
  /\ active' = [active EXCEPT ![c] = {x \in Executions : status[x] = "running"}]
  /\ pc' = [pc EXCEPT ![c] = "query"]
  /\ excused' = IF Others(c) = {} THEN excused ELSE Pairs
  /\ UNCHANGED <<database, memory, todo, target, held, faults>>

Idle(c) ==
  /\ pc' = [pc EXCEPT ![c] = "idle"]
  /\ active' = [active EXCEPT ![c] = {}]
  /\ todo' = [todo EXCEPT ![c] = NoRows]
  /\ target' = [target EXCEPT ![c] = NoAlert]
  /\ held' = [held EXCEPT ![c] = {}]

Satisfied(rest, known) == {x \in DOMAIN rest : Needs(rest[x], known[x]) = {}}

(* The loop up to the next await: the rows before the next alert are       *)
(* passed over; without one, the check ends with the clean-up.             *)
CreateAlert(c, rest, known) ==
  \E x \in DOMAIN rest, sev \in Severities, passed \in SUBSET Satisfied(rest, known) :
    /\ sev \in Needs(rest[x], known[x])
    /\ todo' = [todo EXCEPT ![c] =
                  [y \in DOMAIN rest \ (passed \cup {x}) |-> rest[y]]]
    /\ target' = [target EXCEPT ![c] = <<x, sev>>]
    /\ held' = [held EXCEPT ![c] = known[x]]
    /\ pc' = [pc EXCEPT ![c] = "insert"]
    /\ memory' = known
    /\ UNCHANGED active

(* Mutant: nothing is cleaned up.                                          *)
FinishKeeping(c, rest, known) ==
  /\ DOMAIN rest = Satisfied(rest, known)
  /\ memory' = known
  /\ Idle(c)

Finish(c, rest, known) ==
  /\ DOMAIN rest = Satisfied(rest, known)
  /\ memory' = [x \in Executions |-> IF x \in active[c] THEN known[x] ELSE {}]
  /\ Idle(c)

Loop(c, rest, known) == CreateAlert(c, rest, known) \/ Finish(c, rest, known)

(* The rows arrive, and the clock is read.                                 *)
Rows(c) ==
  /\ pc[c] = "query"
  /\ Loop(c, [x \in active[c] |-> level[x]], memory)
  /\ UNCHANGED <<database, excused, faults>>

(* INSERT INTO alerts                                                      *)
Insert(c) ==
  /\ pc[c] = "insert"
  /\ alerts' = alerts \cup {target[c]}
  /\ pc' = [pc EXCEPT ![c] = "answer"]
  /\ UNCHANGED <<status, level, configured, memory, active, todo, target,
                 held, excused, faults>>

(* Mutant: each alert is remembered in a set of its own.                   *)
KnownAlone(c) == {{target[c][2]}}

(* The set that is put into the map is the one taken from it before the    *)
(* await, which other checks may share, or a new one.                      *)
Known(c) ==
  {held[c] \cup {target[c][2]}} \cup
  IF held[c] = {} THEN {} ELSE {memory[target[c][1]] \cup held[c] \cup {target[c][2]}}

Answered(c) ==
  /\ pc[c] = "answer"
  /\ \E known \in Known(c) :
       Loop(c, todo[c], [memory EXCEPT ![target[c][1]] = known])
  /\ excused' = IF Others(c) = {} THEN excused \ {target[c]} ELSE excused
  /\ UNCHANGED <<database, faults>>

-----------------------------------------------------------------------------
(* Faults: a rejected statement or a lost answer ends the check without    *)
(* the clean-up.                                                           *)

Fault == faults < MaxFaults /\ faults' = faults + 1

(* Mutant: an alert is remembered before it is created.                    *)
RememberedButFails(c) ==
  /\ Fault
  /\ pc[c] \in {"query", "insert", "answer"}
  /\ Idle(c)
  /\ memory' = IF pc[c] = "query" THEN memory
               ELSE [memory EXCEPT ![target[c][1]] = @ \cup {target[c][2]}]
  /\ excused' = IF pc[c] = "answer" THEN excused \cup {target[c]} ELSE excused
  /\ UNCHANGED database

CheckFails(c) ==
  /\ Fault
  /\ pc[c] \in {"query", "insert", "answer"}
  /\ Idle(c)
  /\ excused' = IF pc[c] = "answer" THEN excused \cup {target[c]} ELSE excused
  /\ UNCHANGED <<database, memory>>

(* stop and start: the checks under way go on.                             *)
Restart ==
  /\ Fault
  /\ memory' = [x \in Executions |-> {}]
  /\ excused' = Pairs
  /\ UNCHANGED <<database, pc, active, todo, target, held>>

Crash ==
  /\ Fault
  /\ memory' = [x \in Executions |-> {}]
  /\ excused' = Pairs
  /\ pc' = [c \in Checks |-> "idle"]
  /\ active' = [c \in Checks |-> {}]
  /\ todo' = [c \in Checks |-> NoRows]
  /\ target' = [c \in Checks |-> NoAlert]
  /\ held' = [c \in Checks |-> {}]
  /\ UNCHANGED database

-----------------------------------------------------------------------------
Next ==
  \/ Configure \/ Restart \/ Crash
  \/ \E x \in Executions : Begin(x) \/ End(x) \/ Age(x)
  \/ \E c \in Checks : Query(c) \/ Rows(c) \/ Insert(c) \/ Answered(c) \/ CheckFails(c)

Spec == Init /\ [][Next]_vars

(* The timer keeps firing, and every statement is answered or fails.       *)
FairSpec ==
  Spec /\ \A c \in Checks : WF_vars(Query(c) \/ Rows(c) \/ Insert(c) \/ Answered(c))
=============================================================================

---------------------------- MODULE SlaProperties ----------------------------
(***************************************************************************)
(* What SLAChecker promises: every breach is reported, and, as long as the *)
(* checks do not overlap and nothing fails, only once.                     *)
(***************************************************************************)
EXTENDS SlaMonitor

(* A check under way visits executions that it read as running, an alert   *)
(* is about one of them, and a set that is in the map is never empty.      *)
TypeOK ==
  /\ status \in [Executions -> {"pending", "running", "over"}]
  /\ level \in [Executions -> 0..2]
  /\ configured \in BOOLEAN
  /\ alerts \subseteq Pairs /\ excused \subseteq Pairs
  /\ memory \in [Executions -> SUBSET Severities]
  /\ pc \in [Checks -> {"idle", "query", "insert", "answer"}]
  /\ active \in [Checks -> SUBSET Executions]
  /\ DOMAIN todo = Checks
  /\ target \in [Checks -> Pairs]
  /\ held \in [Checks -> SUBSET Severities]
  /\ faults \in Nat
  /\ \A c \in Checks :
       /\ todo[c] \in [DOMAIN todo[c] -> 0..2]
       /\ DOMAIN todo[c] \subseteq active[c]
       /\ pc[c] = "idle" => active[c] = {}
       /\ pc[c] \in {"insert", "answer"} =>
            /\ target[c][1] \in active[c] \ DOMAIN todo[c]
            /\ target[c][2] \notin held[c]
       /\ pc[c] = "answer" => target[c] \in alerts

(* No execution gets a second alert of one severity, although an alert is  *)
(* remembered only after it was stored, a clean-up goes by the rows that a *)
(* check read at its start, and a set may have left the map when it is put *)
(* back.  Excused are pairs touched by overlapping checks, by a restart or *)
(* by a lost answer, until one check alone has stored and remembered them. *)
AlertedOnce ==
  [][\A c \in Checks :
       pc[c] = "insert" /\ pc'[c] = "answer" /\ target[c] \in alerts =>
         target[c] \in excused]_vars

(* Again and again every execution that has run past its limit, and still  *)
(* runs, has its critical alert: a failed INSERT, of this alert or of one  *)
(* before it in the loop, is made good by a later check.                   *)
BreachIsReported ==
  []<>(\A x \in Executions :
         configured /\ status[x] = "running" /\ level[x] = 2 => <<x, "critical">> \in alerts)

(* Again and again the map holds no execution that is over, although a     *)
(* check that read one as running puts its entry back after another check  *)
(* has removed it.                                                         *)
MemoryDrains == []<>(\A x \in Executions : status[x] = "over" => memory[x] = {})
=============================================================================

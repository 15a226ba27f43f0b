--------------------------- MODULE ExecutorProofs ---------------------------
(***************************************************************************)
(* Theorems about the executor service, for any number of executors and    *)
(* tasks, any retry policies and any number of pushes, crashes and faults: *)
(* its types and its locks and, as long as no lock lapses under an         *)
(* executor that renews it, mutual exclusion of task bodies and finality   *)
(* of terminal statuses.  The argument is ExclusionInv of                  *)
(* ExecutorProperties: first the lock, then the persisted status keeps the *)
(* others out.                                                             *)
(***************************************************************************)
EXTENDS ExecutorProperties, SequenceTheorems, FiniteSetTheorems, TLAPS

USE DEF Task, Await

-----------------------------------------------------------------------------
(* Type correctness                                                        *)

(* The initial state is well typed.                                        *)
LEMMA InitTyped == Init => TypeOK
BY NoneAssumption, BoundAssumption
   DEF Init, TypeOK, TaskStatus, Claims, NoClaim, ClaimOf, PCs, Awaiting,
       HasCurrentTask, Engaged, Releasing

(* The part of TypeOK about an executor's own state.                       *)
ControlTyped ==
  /\ pc \in [Executors -> PCs]
  /\ claimed \in [Executors -> Claims]
  /\ \A e \in Executors :
       pc[e] \in Awaiting \ {"claim"} => claimed[e].task \in Tasks

(* Replacing an executor's claim and the call it awaits.                   *)
LEMMA ClaimUpdated ==
  ASSUME TypeOK, NEW e \in Executors, NEW c \in Claims, NEW call \in PCs,
         claimed' = [claimed EXCEPT ![e] = c], Await(e, call),
         call \in Awaiting \ {"claim"} => c.task \in Tasks
  PROVE  ControlTyped'
BY DEF TypeOK, ControlTyped

(* The updates of single fields of a claim that the actions make.          *)
LEMMA TaskUpdated ==
  ASSUME TypeOK, NEW e \in Executors, NEW t \in Tasks, NEW call \in PCs,
         claimed' = [claimed EXCEPT ![e] = ClaimOf(t)], Await(e, call)
  PROVE  ControlTyped'
<1>1. ClaimOf(t) \in Claims /\ ClaimOf(t).task = t
  BY DEF ClaimOf, Claims
<1> QED BY <1>1, ClaimUpdated

LEMMA RenewingUpdated ==
  ASSUME TypeOK, NEW e \in Executors, NEW b \in BOOLEAN, NEW call \in PCs,
         claimed' = [claimed EXCEPT ![e].renewing = b], Await(e, call),
         claimed[e].task \in Tasks
  PROVE  ControlTyped'
<1> DEFINE c == [claimed[e] EXCEPT !.renewing = b]
<1>1. c \in Claims /\ c.task = claimed[e].task
  BY DEF TypeOK, Claims
<1>2. claimed' = [claimed EXCEPT ![e] = c]
  BY DEF TypeOK
<1> HIDE DEF c
<1> QED BY <1>1, <1>2, ClaimUpdated

LEMMA SeenUpdated ==
  ASSUME TypeOK, NEW e \in Executors, NEW n \in Int, NEW call \in PCs,
         claimed' = [claimed EXCEPT ![e].seen = n], Await(e, call),
         claimed[e].task \in Tasks
  PROVE  ControlTyped'
<1> DEFINE c == [claimed[e] EXCEPT !.seen = n]
<1>1. c \in Claims /\ c.task = claimed[e].task
  BY DEF TypeOK, Claims
<1>2. claimed' = [claimed EXCEPT ![e] = c]
  BY DEF TypeOK
<1> HIDE DEF c
<1> QED BY <1>1, <1>2, ClaimUpdated

LEMMA AgainUpdated ==
  ASSUME TypeOK, NEW e \in Executors, NEW call \in PCs,
         claimed' = [claimed EXCEPT ![e].renewing = FALSE, ![e].again = TRUE],
         Await(e, call), claimed[e].task \in Tasks
  PROVE  ControlTyped'
<1> DEFINE c == [claimed[e] EXCEPT !.renewing = FALSE, !.again = TRUE]
<1>1. c \in Claims /\ c.task = claimed[e].task
  BY DEF TypeOK, Claims
<1>2. claimed' = [claimed EXCEPT ![e] = c]
  BY DEF TypeOK
<1> HIDE DEF c
<1> QED BY <1>1, <1>2, ClaimUpdated

(* Polling again, or sleeping forever after an exception.                  *)
LEMMA NextPollTyped ==
  ASSUME TypeOK, NEW e \in Executors, NextPoll(e)
  PROVE  ControlTyped'
BY DEF NextPoll, TypeOK, ControlTyped, Claims, NoClaim, ClaimOf, PCs, Awaiting,
       HasCurrentTask, Engaged, Releasing

LEMMA ThrowTyped ==
  ASSUME TypeOK, NEW e \in Executors, Throw(e)
  PROVE  ControlTyped'
<1>1. CASE pc[e] \in HasCurrentTask
  BY <1>1 DEF Throw, TypeOK, ControlTyped, PCs, Awaiting, HasCurrentTask,
              Engaged, Releasing
<1>2. CASE pc[e] \notin HasCurrentTask
  BY <1>2, NextPollTyped DEF Throw
<1> QED BY <1>1, <1>2

(* Taking an element from a non-empty queue.                               *)
LEMMA PopTyped ==
  ASSUME TypeOK, Brpoplpush
  PROVE  /\ Head(queue) \in Tasks
         /\ queue' \in Seq(Tasks)
         /\ processing' \in [Tasks -> Nat]
<1>1. Head(queue) \in Tasks /\ Tail(queue) \in Seq(Tasks)
  BY HeadTailProperties DEF TypeOK, Brpoplpush
<1> QED BY SMTT(30), <1>1 DEF TypeOK, Brpoplpush

(* Every step of an executor, every disturbance and every step of the      *)
(* environment keeps the variables well typed.                             *)
LEMMA StepTyped ==
  ASSUME TypeOK, NEW e \in Executors, Step(e)
  PROVE  TypeOK'
<1> USE DEF PCs, Awaiting, HasCurrentTask, Engaged, Releasing
<1>0. pc[e] \in Awaiting \ {"claim"} => claimed[e].task \in Tasks
  BY DEF TypeOK
<1>1. CASE Claim(e)
  <2>1. ControlTyped'
    BY <1>1, PopTyped, TaskUpdated DEF Claim
  <2> QED BY <1>1, <2>1, PopTyped DEF Claim, TypeOK, ControlTyped, env
<1>2. CASE AcquireLock(e)
  <2>1. lock' \in [Tasks -> Executors \cup {None}]
    BY <1>2 DEF AcquireLock, SetNx, TypeOK
  <2>2. ControlTyped'
    BY <1>0, <1>2, RenewingUpdated DEF AcquireLock
  <2> QED BY <1>2, <2>1, <2>2 DEF AcquireLock, TypeOK, ControlTyped, env
<1>3. CASE LockTaken(e)
  BY <1>3 DEF LockTaken, TypeOK, Claims, store, env
<1>4. CASE RequeueRemove(e)
  BY <1>4 DEF RequeueRemove, Lrem, TypeOK, Claims, env
<1>5. CASE RequeuePush(e)
  BY <1>5, NextPollTyped, AppendProperties
     DEF RequeuePush, Lpush, TypeOK, ControlTyped, env
<1>6. CASE ExitLoop(e)
  BY <1>6 DEF ExitLoop, TypeOK, store, env
<1>7. CASE LoadPending(e)
  <2>1. attempts[claimed[e].task] \in Int
    BY <1>0, <1>7 DEF LoadPending, TypeOK
  <2>2. ControlTyped'
    BY <1>0, <1>7, <2>1, SeenUpdated DEF LoadPending
  <2> QED BY <1>7, <2>2 DEF LoadPending, TypeOK, ControlTyped, store, env
<1>8. CASE LoadRejected(e)
  <2>1. ControlTyped'
    BY <1>0, <1>8, RenewingUpdated DEF LoadRejected, Release
  <2> QED BY <1>8, <2>1
          DEF LoadRejected, Release, TypeOK, ControlTyped, store, env
<1>9. CASE MarkRunning(e)
  <2>0. runs' \in [Tasks -> Nat]
    <3>1. runs' = runs \/ runs' = [runs EXCEPT ![claimed[e].task] = @ + 1]
      BY <1>9 DEF MarkRunning
    <3>2. runs[claimed[e].task] + 1 \in Nat
      BY <1>0, <1>9 DEF MarkRunning, TypeOK
    <3> QED BY <3>1, <3>2 DEF TypeOK
  <2>1. status' \in [Tasks -> TaskStatus]
    BY <1>9 DEF MarkRunning, SetStatus, TypeOK, TaskStatus
  <2>2. CASE claimed[e].aborted
    BY <1>9, <2>0, <2>1, <2>2, NextPollTyped
       DEF MarkRunning, TypeOK, ControlTyped, env
  <2>3. CASE ~claimed[e].aborted
    BY <1>9, <2>0, <2>1, <2>3 DEF MarkRunning, TypeOK, env
  <2> QED BY <2>2, <2>3
<1>10. CASE TimeOut(e)
  BY <1>10 DEF TimeOut, TypeOK, store, env
<1>11. CASE Abandon(e)
  BY <1>11, NextPollTyped DEF Abandon, TypeOK, ControlTyped, store, env
<1>12. CASE Succeed(e)
  BY <1>12 DEF Succeed, TypeOK, store, env
<1>13. CASE Fail(e)
  BY <1>13 DEF Fail, TypeOK, store, env
<1>14. ASSUME NEW call \in {"markTimedOut", "markCompleted", "markFailed"},
              NEW final \in TaskStatus, Finish(e, call, final)
       PROVE  TypeOK'
  <2>1. status' \in [Tasks -> TaskStatus]
    BY <1>14 DEF Finish, SetStatus, TypeOK
  <2>2. claimed[e].task \in Tasks
    BY <1>0, <1>14 DEF Finish
  <2>3. ControlTyped'
    BY <1>14, <2>2, RenewingUpdated DEF Finish, Release
  <2> QED BY <1>14, <2>1, <2>3 DEF Finish, Release, TypeOK, ControlTyped, env
<1>15. CASE MarkTimedOut(e) \/ MarkCompleted(e) \/ MarkFailed(e)
  BY <1>14, <1>15 DEF MarkTimedOut, MarkCompleted, MarkFailed, TaskStatus
<1>16. CASE BumpAttempt(e)
  BY SMTT(30), <1>16 DEF BumpAttempt, SetAttempts, TypeOK, Claims, env
<1>17. CASE DeadLetter(e)
  BY <1>17 DEF DeadLetter, InsertDeadLetter, TypeOK, env
<1>18. CASE WaitAbandoned(e)
  BY <1>18, NextPollTyped DEF WaitAbandoned, TypeOK, ControlTyped, store, env
<1>19. CASE WaitOver(e)
  BY <1>19 DEF WaitOver, TypeOK, store, env
<1>20. CASE MarkPending(e)
  <2>1. status' \in [Tasks -> TaskStatus]
    BY <1>20 DEF MarkPending, SetStatus, TypeOK, TaskStatus
  <2>2. ControlTyped'
    BY <1>0, <1>20, AgainUpdated DEF MarkPending
  <2> QED BY <1>20, <2>1, <2>2 DEF MarkPending, TypeOK, ControlTyped, env
<1>21. CASE Unlock(e)
  BY <1>21 DEF Unlock, DelIfOwner, TypeOK, env
<1>22. CASE Unlist(e)
  <2>1. processing' \in [Tasks -> Nat]
    BY <1>22 DEF Unlist, Lrem, TypeOK
  <2>2. CASE claimed[e].again
    <3>1. ControlTyped'
      BY <1>0, <1>22, <2>2, TaskUpdated DEF Unlist
    <3> QED BY <1>22, <2>1, <3>1 DEF Unlist, TypeOK, ControlTyped, env
  <2>3. CASE ~claimed[e].again
    BY <1>22, <2>1, <2>3, NextPollTyped
       DEF Unlist, TypeOK, ControlTyped, env
  <2> QED BY <2>2, <2>3
<1>23. CASE Enqueue(e)
  BY <1>23, NextPollTyped, AppendProperties
     DEF Enqueue, Lpush, TypeOK, ControlTyped, env
<1> QED
  BY <1>1, <1>2, <1>3, <1>4, <1>5, <1>6, <1>7, <1>8, <1>9, <1>10, <1>11,
     <1>12, <1>13, <1>15, <1>16, <1>17, <1>18, <1>19, <1>20, <1>21, <1>22,
     <1>23 DEF Step

LEMMA ReplyLostTyped ==
  ASSUME TypeOK, NEW e \in Executors, ReplyLost(e)
  PROVE  TypeOK'
<1> USE DEF Awaiting, HasCurrentTask, Engaged, Releasing
<1>1. ControlTyped' /\ faults' \in Nat
  BY ThrowTyped DEF ReplyLost, TypeOK
<1>2. pc[e] \in Awaiting \ {"claim"} => claimed[e].task \in Tasks
  BY DEF TypeOK
<1> SUFFICES /\ status' \in [Tasks -> TaskStatus]
             /\ attempts' \in [Tasks -> Int]
             /\ dlq' \in [Tasks -> Nat]
             /\ queue' \in Seq(Tasks)
             /\ processing' \in [Tasks -> Nat]
             /\ lock' \in [Tasks -> Executors \cup {None}]
  BY <1>1 DEF ReplyLost, TypeOK, ControlTyped
<1>3. CASE pc[e] = "claim" /\ Brpoplpush
  BY <1>3, PopTyped DEF ReplyLost, TypeOK
<1>4. CASE pc[e] \in {"requeueRem", "unlist"}
  <2>1. Lrem(Task(e)) /\ UNCHANGED <<status, attempts, dlq, queue, lock>>
    BY <1>4 DEF ReplyLost
  <2> QED BY <1>2, <1>4, <2>1 DEF Lrem, TypeOK
<1>5. CASE pc[e] \in {"requeuePush", "enqueue"}
  <2>1. Lpush(Task(e)) /\ UNCHANGED <<status, attempts, dlq, processing, lock>>
    BY <1>5 DEF ReplyLost
  <2> QED BY <1>2, <1>5, <2>1, AppendProperties DEF Lpush, TypeOK
<1>6. CASE pc[e] \in {"acquire", "unlock"}
  BY <1>2, <1>6 DEF ReplyLost, SetNx, DelIfOwner, TypeOK
<1>7. CASE pc[e] \in {"markRunning", "markTimedOut", "markCompleted",
                      "markFailed", "markPending"}
  <2>1. \E s \in TaskStatus : status' = [status EXCEPT ![claimed[e].task] = s]
    BY <1>7 DEF ReplyLost, SetStatus, TaskStatus
  <2> QED BY <1>7, <2>1 DEF ReplyLost, TypeOK
<1>8. CASE pc[e] = "bumpAttempt"
  <2>1. claimed[e].seen + 1 \in Int
    BY DEF TypeOK, Claims
  <2> QED BY <1>2, <1>8, <2>1 DEF ReplyLost, SetAttempts, TypeOK
<1>9. CASE pc[e] = "deadLetter"
  <2>1. /\ InsertDeadLetter(Task(e))
        /\ UNCHANGED <<status, attempts, queue, processing, lock>>
    BY <1>9 DEF ReplyLost
  <2> QED BY <1>2, <1>9, <2>1 DEF InsertDeadLetter, TypeOK
<1> QED BY <1>3, <1>4, <1>5, <1>6, <1>7, <1>8, <1>9 DEF ReplyLost

LEMMA DisturbTyped ==
  ASSUME TypeOK, NEW e \in Executors, Disturb(e)
  PROVE  TypeOK'
<1>1. ASSUME claimed' = [claimed EXCEPT ![e].renewing = FALSE,
                                       ![e].aborted = TRUE], UNCHANGED pc
      PROVE  ControlTyped'
  <2> DEFINE c == [claimed[e] EXCEPT !.renewing = FALSE, !.aborted = TRUE]
  <2>1. c \in Claims /\ c.task = claimed[e].task
    BY DEF TypeOK, Claims
  <2>2. claimed' = [claimed EXCEPT ![e] = c]
    BY <1>1 DEF TypeOK
  <2> HIDE DEF c
  <2> QED BY <1>1, <2>1, <2>2 DEF TypeOK, ControlTyped
<1>2. CASE RenewalRefused(e)
  BY <1>1, <1>2 DEF RenewalRefused, TypeOK, ControlTyped, store, env
<1>3. CASE RenewalError(e)
  BY <1>1, <1>3 DEF RenewalError, TypeOK, ControlTyped, store
<1>4. CASE CallFails(e)
  BY <1>4, ThrowTyped DEF CallFails, TypeOK, ControlTyped, store
<1>5. CASE ReplyLost(e)
  BY <1>5, ReplyLostTyped
<1>6. CASE Stop(e)
  <2> DEFINE c == [claimed[e] EXCEPT !.renewing = FALSE]
  <2>1. c \in Claims /\ c.task = claimed[e].task
    BY DEF TypeOK, Claims
  <2>2. claimed' = [claimed EXCEPT ![e] = c]
    BY <1>6 DEF Stop, TypeOK
  <2> HIDE DEF c
  <2>3. ControlTyped'
    BY <1>6, <2>1, <2>2 DEF Stop, TypeOK, ControlTyped
  <2> QED BY <1>6, <2>3 DEF Stop, TypeOK, ControlTyped, store, env
<1>7. CASE Crash(e)
  <2>1. NoClaim \in Claims
    BY DEF NoClaim, ClaimOf, Claims
  <2>2. "down" \in PCs /\ "down" \notin Awaiting
    BY DEF PCs, Awaiting, HasCurrentTask, Engaged, Releasing
  <2>3. ControlTyped'
    BY <1>7, <2>1, <2>2, ClaimUpdated DEF Crash
  <2> QED BY <1>7, <2>3 DEF Crash, TypeOK, ControlTyped, store
<1>8. CASE Restart(e)
  BY <1>8 DEF Restart, TypeOK, PCs, Awaiting, store, env
<1> QED BY <1>2, <1>3, <1>4, <1>5, <1>6, <1>7, <1>8 DEF Disturb

LEMMA EnvironmentTyped ==
  ASSUME TypeOK, NEW t \in Tasks, Environment(t)
  PROVE  TypeOK'
<1>1. CASE LockLapses(t)
  BY <1>1 DEF LockLapses, TypeOK, env
<1>2. CASE Push(t)
  BY <1>2, AppendProperties DEF Push, Lpush, TypeOK
<1>3. CASE CancelRead(t)
  BY <1>3 DEF CancelRead, TypeOK, store
<1>4. CASE CancelWrite(t)
  BY <1>4 DEF CancelWrite, SetStatus, TypeOK, TaskStatus
<1> QED BY <1>1, <1>2, <1>3, <1>4 DEF Environment

LEMMA NextTyped == TypeOK /\ [Next]_vars => TypeOK'
<1> SUFFICES ASSUME TypeOK, [Next]_vars PROVE TypeOK'
  OBVIOUS
<1>1. CASE UNCHANGED vars
  BY <1>1 DEF vars, store, env, TypeOK
<1> QED BY <1>1, StepTyped, DisturbTyped, EnvironmentTyped DEF Next

(* In every reachable state every variable has its type, and an executor   *)
(* that awaits any call but the first has a task to work on.               *)
THEOREM TypeCorrect == Spec => []TypeOK
<1> QED BY InitTyped, NextTyped, PTL DEF Spec

-----------------------------------------------------------------------------
(* Steps by what they do to the invariant                                  *)

OthersUntouched(e) ==
  \A f \in Executors \ {e} :
    pc'[f] = pc[f] /\ claimed'[f].task = claimed[f].task

LocksOfOthersStay(e) ==
  \A t \in Tasks : lock[t] \in Executors \ {e} => lock'[t] = lock[t]

(* An executor that is, after its step, neither between SET NX and its     *)
(* status check nor between the check and the final update: it may have    *)
(* written the status of the task it had entered, and no other.            *)
LEMMA LeavePreserves ==
  ASSUME TypeOK, ExclusionInv, NEW e \in Executors,
         OthersUntouched(e), LocksOfOthersStay(e),
         pc'[e] \notin {"load"} \cup Entered,
         \A t \in Tasks :
           status'[t] = status[t] \/ (pc[e] \in Entered /\ t = claimed[e].task),
         UNCHANGED cancel
  PROVE  ExclusionInv'
<1> USE DEF Entered, Engaged
<1>0. \A f \in Executors :
        pc[f] \in {"load"} \cup Entered => claimed[f].task \in Tasks
  BY DEF TypeOK, Awaiting, HasCurrentTask
<1>1. LockGuards'
  BY <1>0 DEF ExclusionInv, LockGuards, OthersUntouched, LocksOfOthersStay
<1>2. \A f \in Executors \ {e} :
        pc[f] \in Entered => status'[claimed[f].task] = status[claimed[f].task]
  BY <1>0 DEF ExclusionInv, OneEntered
<1>3. StatusGuards'
  BY <1>2 DEF ExclusionInv, StatusGuards, Stands, OthersUntouched
<1>4. OneEntered'
  BY DEF ExclusionInv, OneEntered, OthersUntouched
<1> QED BY <1>1, <1>3, <1>4 DEF ExclusionInv

(* An executor that has marked its task running and goes on with it.       *)
LEMMA GoOnPreserves ==
  ASSUME TypeOK, ExclusionInv, NEW e \in Executors,
         OthersUntouched(e), pc[e] \in Engaged, pc'[e] \in Engaged,
         UNCHANGED <<claimed, status, lock, cancel>>
  PROVE  ExclusionInv'
<1> USE DEF Entered, Engaged
<1>1. LockGuards'
  BY DEF ExclusionInv, LockGuards, OthersUntouched
<1>2. StatusGuards'
  BY DEF ExclusionInv, StatusGuards, Stands, OthersUntouched
<1>3. OneEntered'
  BY DEF ExclusionInv, OneEntered, OthersUntouched
<1> QED BY <1>1, <1>2, <1>3 DEF ExclusionInv

(* Steps that change neither what an executor awaits nor its task, nor the *)
(* statuses and locks.                                                     *)
LEMMA QuietPreserves ==
  ASSUME ExclusionInv, UNCHANGED <<pc, status, lock, cancel>>,
         \A f \in Executors : claimed'[f].task = claimed[f].task
  PROVE  ExclusionInv'
BY DEF ExclusionInv, LockGuards, StatusGuards, Stands, OneEntered

(* After NextPoll, Release and Throw an executor has left its task.        *)
LEMMA NextPollLeaves ==
  ASSUME TypeOK, NEW e \in Executors, NextPoll(e)
  PROVE  OthersUntouched(e) /\ pc'[e] \in {"claim", "stopped"}
BY DEF NextPoll, OthersUntouched, TypeOK

LEMMA ReleaseLeaves ==
  ASSUME TypeOK, NEW e \in Executors, Release(e)
  PROVE  OthersUntouched(e) /\ pc'[e] = "unlock"
BY DEF Release, OthersUntouched, TypeOK

LEMMA ThrowLeaves ==
  ASSUME TypeOK, NEW e \in Executors, Throw(e)
  PROVE  OthersUntouched(e) /\ pc'[e] \in {"claim", "stopped", "wedged"}
<1>1. CASE pc[e] \in HasCurrentTask
  BY <1>1 DEF Throw, OthersUntouched, TypeOK
<1>2. CASE pc[e] \notin HasCurrentTask
  BY <1>2, NextPollLeaves DEF Throw
<1> QED BY <1>1, <1>2

-----------------------------------------------------------------------------
(* One lemma per class of actions                                          *)

LEMMA StepExclusion ==
  ASSUME TypeOK, ExclusionInv, NEW e \in Executors, Step(e)
  PROVE  ExclusionInv'
<1> USE DEF env, store
<1>e. "claim" \notin {"load"} \cup Entered /\ "stopped" \notin {"load"} \cup Entered
      /\ "unlock" \notin {"load"} \cup Entered
  BY DEF Entered, Engaged
<1>1. CASE Claim(e)
  BY <1>1, LeavePreserves
     DEF Claim, OthersUntouched, LocksOfOthersStay, TypeOK, Entered, Engaged
<1>2. CASE AcquireLock(e)
  <2>1. claimed[e].task \in Tasks
    BY <1>2 DEF AcquireLock, TypeOK, Awaiting
  <2>2. lock'[claimed[e].task] = e /\ pc'[e] = "load"
    BY <1>2, <2>1 DEF AcquireLock, SetNx, TypeOK
  <2>3. LocksOfOthersStay(e)
    BY <1>2, <2>1, NoneAssumption
       DEF AcquireLock, SetNx, TypeOK, LocksOfOthersStay
  <2>4. /\ OthersUntouched(e) /\ claimed'[e].task = claimed[e].task
        /\ pc'[e] = "load"
    BY <1>2 DEF AcquireLock, OthersUntouched, TypeOK, Claims
  <2>5. \A f \in Executors :
          pc[f] \in {"load", "markRunning"} => claimed[f].task \in Tasks
    BY DEF TypeOK, Awaiting, HasCurrentTask
  <2>6. LockGuards'
    BY <2>2, <2>3, <2>4, <2>5
       DEF ExclusionInv, LockGuards, OthersUntouched, LocksOfOthersStay
  <2>7. StatusGuards' /\ OneEntered'
    BY <1>2, <2>4
       DEF AcquireLock, ExclusionInv, StatusGuards, Stands, OneEntered,
           OthersUntouched, Entered, Engaged
  <2> QED BY <2>6, <2>7 DEF ExclusionInv
<1>3. CASE LockTaken(e)
  BY <1>3, LeavePreserves
     DEF LockTaken, OthersUntouched, LocksOfOthersStay, TypeOK, Entered, Engaged
<1>4. CASE RequeueRemove(e)
  BY <1>4, LeavePreserves
     DEF RequeueRemove, OthersUntouched, LocksOfOthersStay, TypeOK, Entered,
         Engaged
<1>5. CASE RequeuePush(e) \/ Abandon(e) \/ WaitAbandoned(e) \/ Enqueue(e)
  BY <1>5, <1>e, NextPollLeaves, LeavePreserves
     DEF RequeuePush, Abandon, WaitAbandoned, Enqueue, LocksOfOthersStay
<1>6. CASE ExitLoop(e)
  BY <1>6, <1>e, LeavePreserves
     DEF ExitLoop, OthersUntouched, LocksOfOthersStay, TypeOK
<1>7. CASE LoadPending(e)
  <2>1. /\ OthersUntouched(e) /\ claimed'[e].task = claimed[e].task
        /\ pc'[e] = "markRunning"
    BY <1>7 DEF LoadPending, OthersUntouched, TypeOK, Claims
  <2>2. status[claimed[e].task] = "pending" /\ lock[claimed[e].task] = e
    <3>1. claimed[e].task \in Tasks
      BY <1>7 DEF LoadPending, TypeOK, Awaiting, HasCurrentTask
    <3>2. status[claimed[e].task] \in TaskStatus
      BY <3>1 DEF TypeOK
    <3>3. status[claimed[e].task] = "pending"
      BY <1>7, <3>2
         DEF LoadPending, CanTransition, ValidTransitions, TerminalStates,
             TaskStatus
    <3> QED BY <1>7, <3>3 DEF LoadPending, ExclusionInv, LockGuards
  <2>3. LockGuards'
    BY <1>7, <2>1, <2>2
       DEF LoadPending, ExclusionInv, LockGuards, OthersUntouched
  <2>4. StatusGuards'
    BY <1>7, <2>1, <2>2
       DEF LoadPending, ExclusionInv, StatusGuards, Stands, OthersUntouched,
           Engaged
  <2>5. \A f \in Executors \ {e} :
          pc[f] \in Entered => claimed[f].task # claimed[e].task
    BY <1>7, <2>2
       DEF LoadPending, ExclusionInv, LockGuards, StatusGuards, Stands, Entered
  <2>6. OneEntered'
    BY <2>1, <2>5 DEF ExclusionInv, OneEntered, OthersUntouched
  <2> QED BY <2>3, <2>4, <2>6 DEF ExclusionInv
<1>8. CASE LoadRejected(e)
  BY <1>8, <1>e, ReleaseLeaves, LeavePreserves
     DEF LoadRejected, LocksOfOthersStay
<1>9. CASE MarkRunning(e)
  <2>1. CASE claimed[e].aborted
    <3>1. \A t \in Tasks : status'[t] = status[t] \/ t = claimed[e].task
      BY <1>9 DEF MarkRunning, SetStatus, TypeOK
    <3> QED BY <1>9, <1>e, <2>1, <3>1, NextPollLeaves, LeavePreserves
            DEF MarkRunning, LocksOfOthersStay, Entered
  <2>2. CASE ~claimed[e].aborted
    <3>1. OthersUntouched(e) /\ pc[e] = "markRunning" /\ pc'[e] = "execute"
      BY <1>9, <2>2 DEF MarkRunning, OthersUntouched, TypeOK
    <3>2. UNCHANGED <<claimed, lock, cancel>>
      BY <1>9, <2>2 DEF MarkRunning
    <3>3. claimed[e].task \in Tasks
      BY <3>1 DEF TypeOK, Awaiting, HasCurrentTask
    <3>4. /\ status'[claimed[e].task] = "running"
          /\ \A t \in Tasks : t # claimed[e].task => status'[t] = status[t]
      BY <1>9, <3>3 DEF MarkRunning, SetStatus, TypeOK
    <3>5. \A f \in Executors \ {e} :
            pc[f] \in Entered => /\ claimed[f].task \in Tasks
                                 /\ claimed[f].task # claimed[e].task
      <4>1. \A f \in Executors : pc[f] \in Entered => claimed[f].task \in Tasks
        BY DEF TypeOK, Awaiting, HasCurrentTask, Entered, Engaged
      <4> QED BY <3>1, <4>1 DEF ExclusionInv, OneEntered, Entered
    <3>6. LockGuards'
      BY <3>1, <3>2 DEF ExclusionInv, LockGuards, OthersUntouched
    <3>7. StatusGuards'
      BY <3>1, <3>2, <3>4, <3>5
         DEF ExclusionInv, StatusGuards, Stands, OthersUntouched, Entered
    <3>8. OneEntered'
      BY <3>1, <3>2
         DEF ExclusionInv, OneEntered, OthersUntouched, Entered, Engaged
    <3> QED BY <3>6, <3>7, <3>8 DEF ExclusionInv
  <2> QED BY <2>1, <2>2
<1>10. CASE TimeOut(e) \/ Succeed(e) \/ Fail(e) \/ BumpAttempt(e)
            \/ DeadLetter(e) \/ WaitOver(e)
  BY <1>10, GoOnPreserves
     DEF TimeOut, Succeed, Fail, BumpAttempt, DeadLetter, WaitOver,
         OthersUntouched, Engaged, TypeOK
<1>11. ASSUME NEW call \in {"markTimedOut", "markCompleted", "markFailed"},
              NEW final, Finish(e, call, final)
       PROVE  ExclusionInv'
  <2>1. \A t \in Tasks : status'[t] = status[t] \/ t = claimed[e].task
    BY <1>11 DEF Finish, SetStatus, TypeOK
  <2>2. pc[e] \in Entered
    BY <1>11 DEF Finish, Entered, Engaged
  <2> QED BY <1>11, <1>e, <2>1, <2>2, ReleaseLeaves, LeavePreserves
          DEF Finish, LocksOfOthersStay
<1>12. CASE MarkTimedOut(e) \/ MarkCompleted(e) \/ MarkFailed(e)
  BY <1>11, <1>12 DEF MarkTimedOut, MarkCompleted, MarkFailed
<1>13. CASE MarkPending(e)
  <2>1. \A t \in Tasks : status'[t] = status[t] \/ t = claimed[e].task
    BY <1>13 DEF MarkPending, SetStatus, TypeOK
  <2>2. pc[e] \in Entered /\ OthersUntouched(e) /\ pc'[e] = "unlock"
    BY <1>13 DEF MarkPending, Entered, Engaged, OthersUntouched, TypeOK
  <2> QED BY <1>13, <1>e, <2>1, <2>2, LeavePreserves
          DEF MarkPending, LocksOfOthersStay
<1>14. CASE Unlock(e)
  <2>1. LocksOfOthersStay(e)
    BY <1>14 DEF Unlock, DelIfOwner, LocksOfOthersStay, TypeOK
  <2> QED BY <1>14, <2>1, LeavePreserves
          DEF Unlock, OthersUntouched, TypeOK, Entered, Engaged
<1>15. CASE Unlist(e)
  <2>1. OthersUntouched(e) /\ pc'[e] \in {"enqueue", "claim", "stopped"}
    BY <1>15, NextPollLeaves DEF Unlist, OthersUntouched, TypeOK
  <2> QED BY <1>15, <2>1, LeavePreserves
          DEF Unlist, LocksOfOthersStay, Entered, Engaged
<1> QED
  BY <1>1, <1>2, <1>3, <1>4, <1>5, <1>6, <1>7, <1>8, <1>9, <1>10, <1>12,
     <1>13, <1>14, <1>15 DEF Step

LEMMA DisturbExclusion ==
  ASSUME TypeOK, ExclusionInv, NEW e \in Executors, Disturb(e)
  PROVE  ExclusionInv'
<1> USE DEF env, store
<1>e. {"claim", "stopped", "wedged", "down"} \cap ({"load"} \cup Entered) = {}
  BY DEF Entered, Engaged
<1>1. CASE RenewalRefused(e) \/ RenewalError(e) \/ Stop(e)
  <2>1. \A f \in Executors : claimed'[f].task = claimed[f].task
    <3>1. CASE claimed' = [claimed EXCEPT ![e].renewing = FALSE]
      BY <3>1 DEF TypeOK, Claims
    <3>2. CASE claimed' = [claimed EXCEPT ![e].renewing = FALSE,
                                          ![e].aborted = TRUE]
      BY <3>2 DEF TypeOK, Claims
    <3> QED BY <1>1, <3>1, <3>2 DEF RenewalRefused, RenewalError, Stop
  <2> QED BY <1>1, <2>1, QuietPreserves DEF RenewalRefused, RenewalError, Stop
<1>2. CASE CallFails(e)
  BY <1>2, <1>e, ThrowLeaves, LeavePreserves DEF CallFails, LocksOfOthersStay
<1>3. CASE ReplyLost(e)
  <2>1. OthersUntouched(e) /\ pc'[e] \notin {"load"} \cup Entered
    BY <1>3, <1>e, ThrowLeaves DEF ReplyLost
  <2>2. LocksOfOthersStay(e)
    <3>1. \/ UNCHANGED lock
          \/ SetNx(claimed[e].task, e)
          \/ DelIfOwner(claimed[e].task, e)
      BY <1>3 DEF ReplyLost
    <3> QED BY <3>1, NoneAssumption
            DEF SetNx, DelIfOwner, LocksOfOthersStay, TypeOK
  <2>3. \A t \in Tasks :
          status'[t] = status[t] \/ (pc[e] \in Entered /\ t = claimed[e].task)
    <3>1. \/ UNCHANGED status
          \/ /\ pc[e] \in Entered
             /\ \E s : SetStatus(claimed[e].task, s)
      BY <1>3 DEF ReplyLost, Entered, Engaged
    <3> QED BY <3>1 DEF SetStatus, TypeOK
  <2> QED BY <1>3, <2>1, <2>2, <2>3, LeavePreserves DEF ReplyLost
<1>4. CASE Crash(e)
  BY <1>4, <1>e, LeavePreserves
     DEF Crash, OthersUntouched, LocksOfOthersStay, TypeOK
<1>5. CASE Restart(e)
  BY <1>5, <1>e, LeavePreserves
     DEF Restart, OthersUntouched, LocksOfOthersStay, TypeOK
<1> QED BY <1>1, <1>2, <1>3, <1>4, <1>5 DEF Disturb

LEMMA EnvironmentExclusion ==
  ASSUME TypeOK, ExclusionInv, ~LeaseLoss, NEW t \in Tasks, Environment(t)
  PROVE  ExclusionInv'
<1> USE DEF env, store
(* A lock that lapses is not one that LockGuards relies on.                *)
<1>1. CASE LockLapses(t)
  <2>1. \A e \in Executors :
          pc[e] \in {"load", "markRunning"} => claimed[e].task # t
    BY <1>1 DEF LockLapses, Protected, ExclusionInv, LockGuards
  <2>2. \A u \in Tasks \ {t} : lock'[u] = lock[u]
    BY <1>1 DEF LockLapses, TypeOK
  <2>3. \A e \in Executors :
          pc[e] \in {"load", "markRunning"} => claimed[e].task \in Tasks
    BY DEF TypeOK, Awaiting, HasCurrentTask
  <2>4. LockGuards'
    BY <1>1, <2>1, <2>2, <2>3 DEF LockLapses, ExclusionInv, LockGuards
  <2> QED BY <1>1, <2>4
          DEF LockLapses, ExclusionInv, StatusGuards, Stands, OneEntered
<1>2. CASE Push(t)
  BY <1>2, QuietPreserves DEF Push
<1>3. CASE CancelRead(t)
  <2>1. \A u \in Tasks : cancel[u] = "written" => cancel'[u] = "written"
    BY <1>3 DEF CancelRead, TypeOK
  <2>2. \A e \in Executors : pc[e] \in Entered => claimed[e].task \in Tasks
    BY DEF TypeOK, Awaiting, HasCurrentTask, Entered, Engaged
  <2> QED BY <1>3, <2>1, <2>2
          DEF CancelRead, ExclusionInv, LockGuards, StatusGuards, Stands,
              OneEntered, Entered
<1>4. CASE CancelWrite(t)
  <2>1. \A u \in Tasks : \A s : Stands(u, s) => Stands(u, s)'
    BY <1>4 DEF CancelWrite, SetStatus, Stands, TypeOK
  <2>2. \A e \in Executors : pc[e] \in Entered => claimed[e].task \in Tasks
    BY DEF TypeOK, Awaiting, HasCurrentTask, Entered, Engaged
  <2>3. StatusGuards'
    BY <1>4, <2>1, <2>2 DEF CancelWrite, ExclusionInv, StatusGuards, Entered
  <2> QED BY <1>4, <2>3
          DEF CancelWrite, ExclusionInv, LockGuards, OneEntered
<1> QED BY <1>1, <1>2, <1>3, <1>4 DEF Environment

LEMMA InitExclusion == Init => ExclusionInv
BY DEF Init, ExclusionInv, LockGuards, StatusGuards, OneEntered, Entered,
       Engaged

LEMMA NextExclusion ==
  ASSUME ~LeaseLoss
  PROVE  TypeOK /\ ExclusionInv /\ [Next]_vars => ExclusionInv'
<1> SUFFICES ASSUME TypeOK, ExclusionInv, [Next]_vars PROVE ExclusionInv'
  OBVIOUS
<1>1. CASE UNCHANGED vars
  BY <1>1, QuietPreserves DEF vars, store, env
<1> QED BY <1>1, StepExclusion, DisturbExclusion, EnvironmentExclusion
        DEF Next

-----------------------------------------------------------------------------
(* The results                                                             *)

(* Between the status check of a task and its last update there is one     *)
(* executor at most, and what it read of the task still stands.            *)
THEOREM Exclusion ==
  ASSUME ~LeaseLoss
  PROVE  Spec => []ExclusionInv
<1>1. TypeOK /\ ExclusionInv /\ [Next]_vars => ExclusionInv'
  BY NextExclusion
<1> QED BY <1>1, InitExclusion, TypeCorrect, PTL DEF Spec

(* The body of a task never runs on two executors at once, whatever        *)
(* crashes, failed calls, stops, duplicate entries and cancellations there *)
(* are, if locks lapse only when nobody renews them.                       *)
THEOREM MutualExclusion ==
  ASSUME ~LeaseLoss
  PROVE  Spec => []AtMostOneRunner
<1>1. ExclusionInv => AtMostOneRunner
  BY DEF ExclusionInv, OneEntered, AtMostOneRunner, Entered, Engaged
<1> QED BY <1>1, Exclusion, PTL

(* Only an executor that has entered a task, or a cancellation, writes the *)
(* status of the task.                                                     *)
LEMMA StatusWriters ==
  ASSUME TypeOK, [Next]_vars, NEW t \in Tasks, cancel[t] = "no",
         status'[t] # status[t]
  PROVE  \E e \in Executors : pc[e] \in Entered /\ claimed[e].task = t
<1> USE DEF store, env
<1>1. CASE \E e \in Executors : Step(e) \/ Disturb(e)
  <2>1. PICK e \in Executors : Step(e) \/ Disturb(e)
    BY <1>1
  <2>2. \/ UNCHANGED status
        \/ pc[e] \in Entered /\ \E s : SetStatus(claimed[e].task, s)
    <3>1. CASE Step(e)
      BY <3>1
         DEF Step, Claim, AcquireLock, LockTaken, RequeueRemove, RequeuePush,
             ExitLoop, LoadPending, LoadRejected, MarkRunning, TimeOut,
             Abandon, Succeed, Fail, MarkTimedOut, MarkCompleted, MarkFailed,
             Finish, BumpAttempt, DeadLetter, WaitAbandoned, WaitOver,
             MarkPending, Unlock, Unlist, Enqueue, Entered, Engaged
    <3>2. CASE Disturb(e)
      BY <3>2
         DEF Disturb, RenewalRefused, RenewalError, CallFails, ReplyLost, Stop,
             Crash, Restart, Entered, Engaged
    <3> QED BY <2>1, <3>1, <3>2
  <2> QED BY <2>2 DEF SetStatus, TypeOK
<1>2. CASE \E u \in Tasks : Environment(u)
  BY <1>2
     DEF Environment, LockLapses, Push, CancelRead, CancelWrite, SetStatus,
         TypeOK
<1>3. CASE UNCHANGED vars
  BY <1>3 DEF vars
<1> QED BY <1>1, <1>2, <1>3 DEF Next

(* A task that nobody decided to cancel never leaves a terminal status:    *)
(* whoever could write its status has seen it pending or made it running.  *)
THEOREM Finality ==
  ASSUME ~LeaseLoss
  PROVE  Spec => TerminalIsFinal
<1>1. ASSUME TypeOK, ExclusionInv, [Next]_vars
      PROVE  [\A t \in Tasks :
                status[t] \in TerminalStates /\ cancel[t] = "no" =>
                  status'[t] = status[t]]_vars
  <2>1. SUFFICES ASSUME NEW t \in Tasks, cancel[t] = "no",
                        status[t] \in TerminalStates,
                        status'[t] # status[t]
                 PROVE  FALSE
    OBVIOUS
  <2>2. PICK e \in Executors : pc[e] \in Entered /\ claimed[e].task = t
    BY <1>1, <2>1, StatusWriters
  <2> QED BY <1>1, <2>1, <2>2
          DEF ExclusionInv, StatusGuards, Stands, Entered, TerminalStates
<1>2. Spec => [](TypeOK /\ ExclusionInv)
  BY TypeCorrect, Exclusion, PTL
<1> QED BY <1>1, <1>2, PTL DEF Spec, TerminalIsFinal

-----------------------------------------------------------------------------
(* Ownership of locks                                                      *)

(* No executor takes away a lock that another one holds, whatever happens, *)
(* except that a key may lapse.                                            *)
THEOREM LocksAreOwned == Spec => LockBelongsToOwner
<1>1. ASSUME TypeOK, [Next]_vars
      PROVE  [\A e \in Executors, t \in Tasks :
                /\ pc'[e] # pc[e]
                /\ lock[t] \notin {None, e}
                => lock'[t] = lock[t]]_vars
  <2> SUFFICES ASSUME NEW e \in Executors, NEW t \in Tasks,
                      pc'[e] # pc[e], lock[t] \notin {None, e}
               PROVE  lock'[t] = lock[t]
    OBVIOUS
  <2> USE DEF store, env
  <2>1. ASSUME NEW f \in Executors, Step(f) \/ Disturb(f)
        PROVE  \A g \in Executors \ {f} : pc'[g] = pc[g]
    <3>1. NextPoll(f) \/ Release(f) \/ Throw(f) => OthersUntouched(f)
      BY <1>1, NextPollLeaves, ReleaseLeaves, ThrowLeaves
    <3>2. CASE ~(NextPoll(f) \/ Release(f) \/ Throw(f))
      <4>1. UNCHANGED pc \/ \E call : pc' = [pc EXCEPT ![f] = call]
        BY <2>1, <3>2
           DEF Step, Disturb, Claim, AcquireLock, LockTaken, RequeueRemove,
               RequeuePush, ExitLoop, LoadPending, LoadRejected, MarkRunning,
               TimeOut, Abandon, Succeed, Fail, MarkTimedOut, MarkCompleted,
               MarkFailed, Finish, BumpAttempt, DeadLetter, WaitAbandoned,
               WaitOver, MarkPending, Unlock, Unlist, Enqueue, RenewalRefused,
               RenewalError, CallFails, ReplyLost, Stop, Crash, Restart
      <4> QED
        BY <1>1, <4>1 DEF TypeOK
    <3> QED
      BY <3>1, <3>2 DEF OthersUntouched
  <2>2. Step(e) \/ Disturb(e)
    <3>1. pc' # pc
      OBVIOUS
    <3>2. \E f \in Executors : Step(f) \/ Disturb(f)
      BY <1>1, <3>1 DEF Next, Environment, LockLapses, Push, CancelRead,
                        CancelWrite, vars
    <3> QED
      BY <2>1, <3>2
  <2>3. \/ UNCHANGED lock
        \/ SetNx(claimed[e].task, e) \/ DelIfOwner(claimed[e].task, e)
    BY <2>2
       DEF Step, Disturb, Claim, AcquireLock, LockTaken, RequeueRemove,
           RequeuePush, ExitLoop, LoadPending, LoadRejected, MarkRunning,
           TimeOut, Abandon, Succeed, Fail, MarkTimedOut, MarkCompleted,
           MarkFailed, Finish, BumpAttempt, DeadLetter, WaitAbandoned,
           WaitOver, MarkPending, Unlock, Unlist, Enqueue, RenewalRefused,
           RenewalError, CallFails, ReplyLost, Stop, Crash, Restart
  <2> QED
    BY <1>1, <2>3 DEF SetNx, DelIfOwner, TypeOK
<1> QED
  BY <1>1, TypeCorrect, PTL DEF Spec, LockBelongsToOwner

-----------------------------------------------------------------------------
(***************************************************************************)
(* The bound on the number of times a task body is started, for every      *)
(* value of the constants for which no lock lapses under an executor that  *)
(* renews it.                                                              *)
(*                                                                         *)
(* The code decides on a retry by the attempt count that was loaded before *)
(* the run (retry-handler.ts line 55), so the argument is that this count  *)
(* is the number of runs: it is while a task is pending (CountsAgree), and *)
(* by ExclusionInv nobody but the executor that loaded it changes either   *)
(* until that executor has updated the status.                             *)
(***************************************************************************)

LEMMA LimitType ==
  /\ RunLimit \in [Tasks -> Nat]
  /\ \A t \in Tasks : RunLimit[t] >= 1
  /\ \A t \in Retriable : t \in Tasks /\ MaxAttempts[t] \in Int
BY PolicyAssumption DEF RunLimit

(* CountsAgree and RunsBounded, task by task and executor by executor; the *)
(* loaded count is moreover a natural number.                              *)
TaskAgrees(t) ==
  /\ status[t] = "pending" => runs[t] = attempts[t] /\ runs[t] < RunLimit[t]
  /\ runs[t] <= RunLimit[t]

ExecutorAgrees(e) ==
  LET t == Task(e)
      n == claimed[e].seen
  IN
  /\ pc[e] \in Entered => n \in Nat
  /\ pc[e] = "markRunning" =>
       runs[t] = n /\ attempts[t] = n /\ n < RunLimit[t]
  /\ pc[e] \in Engaged => runs[t] = n + 1
  /\ pc[e] = "bumpAttempt" => t \in Retriable
  /\ pc[e] \in {"deadLetter", "retryWait", "markPending"} =>
       t \in Retriable /\ attempts[t] = n + 1
  /\ pc[e] \in {"retryWait", "markPending"} => n + 1 < RunLimit[t]
  /\ pc[e] = "deadLetter" => n + 1 = RunLimit[t]

BoundInv ==
  /\ \A t \in Tasks : TaskAgrees(t)
  /\ \A e \in Executors : ExecutorAgrees(e)

LEMMA BoundInvSuffices == BoundInv => CountsAgree /\ RunsBounded
BY DEF BoundInv, TaskAgrees, ExecutorAgrees, CountsAgree, RunsBounded

-----------------------------------------------------------------------------
(* Steps by what they do to the invariant                                  *)

SameClaims(S) ==
  \A f \in S : /\ pc'[f] = pc[f]
               /\ claimed'[f].task = claimed[f].task
               /\ claimed'[f].seen = claimed[f].seen

(* An executor that has entered a task is alone in changing its counts.    *)
LEMMA OthersAgree ==
  ASSUME TypeOK, ExclusionInv, BoundInv, NEW e \in Executors,
         SameClaims(Executors \ {e}),
         \A t \in Tasks : \/ runs'[t] = runs[t] /\ attempts'[t] = attempts[t]
                          \/ pc[e] \in Entered /\ t = claimed[e].task
  PROVE  \A f \in Executors \ {e} : ExecutorAgrees(f)'
<1> SUFFICES ASSUME NEW f \in Executors \ {e} PROVE ExecutorAgrees(f)'
  OBVIOUS
<1>1. pc'[f] = pc[f] /\ claimed'[f].task = claimed[f].task
      /\ claimed'[f].seen = claimed[f].seen
  BY DEF SameClaims
<1>2. CASE pc[f] \notin Entered
  BY <1>1, <1>2 DEF ExecutorAgrees, Entered, Engaged
<1>3. CASE pc[f] \in Entered
  <2>1. claimed[f].task \in Tasks
    BY <1>3 DEF TypeOK, Awaiting, HasCurrentTask, Entered, Engaged
  <2>2. /\ runs'[claimed[f].task] = runs[claimed[f].task]
        /\ attempts'[claimed[f].task] = attempts[claimed[f].task]
    BY <1>3, <2>1 DEF ExclusionInv, OneEntered
  <2>3. ExecutorAgrees(f)
    BY DEF BoundInv
  <2> QED
    BY <1>1, <2>2, <2>3 DEF ExecutorAgrees
<1> QED
  BY <1>2, <1>3

(* An executor that is outside after its step; it may have made its task   *)
(* pending again, or only have bumped its attempt count.                   *)
LEMMA LeaveAgrees ==
  ASSUME TypeOK, ExclusionInv, BoundInv, NEW e \in Executors,
         SameClaims(Executors \ {e}), pc'[e] \notin Entered, UNCHANGED runs,
         \A t \in Tasks :
           /\ status'[t] = "pending" =>
                status[t] = "pending" \/ (pc[e] = "markPending" /\ t = claimed[e].task)
           /\ \/ attempts'[t] = attempts[t]
              \/ pc[e] \in Engaged \ {"markPending"} /\ t = claimed[e].task
  PROVE  BoundInv'
<1>1. ASSUME NEW t \in Tasks PROVE TaskAgrees(t)'
  <2>1. CASE status'[t] # "pending"
    BY <2>1 DEF BoundInv, TaskAgrees
  <2>2. CASE status[t] = "pending"
    <3>1. ~(pc[e] \in Engaged /\ t = claimed[e].task)
      BY <2>2 DEF ExclusionInv, StatusGuards, Stands
    <3> QED
      BY <2>2, <3>1 DEF BoundInv, TaskAgrees
  <2>3. CASE pc[e] = "markPending" /\ t = claimed[e].task
    BY <2>3 DEF BoundInv, TaskAgrees, ExecutorAgrees, Engaged
  <2> QED
    BY <2>1, <2>2, <2>3
<1>2. \A f \in Executors \ {e} : ExecutorAgrees(f)'
  BY OthersAgree DEF Entered
<1>3. ExecutorAgrees(e)'
  BY DEF ExecutorAgrees, Entered, Engaged
<1> QED
  BY <1>1, <1>2, <1>3 DEF BoundInv

(* Steps that change no count and no executor's claim.                     *)
LEMMA QuietAgrees ==
  ASSUME BoundInv, SameClaims(Executors), UNCHANGED <<runs, attempts>>,
         \A t \in Tasks : status'[t] = "pending" => status[t] = "pending"
  PROVE  BoundInv'
<1>1. \A t \in Tasks : TaskAgrees(t)'
  BY DEF BoundInv, TaskAgrees
<1>2. \A e \in Executors : ExecutorAgrees(e)'
  BY DEF BoundInv, ExecutorAgrees, SameClaims
<1> QED
  BY <1>1, <1>2 DEF BoundInv

(* An executor that goes on with the task it has marked running.           *)
LEMMA GoOnAgrees ==
  ASSUME TypeOK, ExclusionInv, BoundInv, NEW e \in Executors,
         SameClaims(Executors \ {e}), pc[e] \in Engaged,
         UNCHANGED <<claimed, status, runs>>,
         \A t \in Tasks : attempts'[t] = attempts[t] \/ t = claimed[e].task,
         ExecutorAgrees(e)'
  PROVE  BoundInv'
<1>1. ASSUME NEW t \in Tasks PROVE TaskAgrees(t)'
  <2>1. status[t] = "pending" => t # claimed[e].task
    BY DEF ExclusionInv, StatusGuards, Stands
  <2> QED
    BY <2>1 DEF BoundInv, TaskAgrees
<1>2. \A f \in Executors \ {e} : ExecutorAgrees(f)'
  BY OthersAgree DEF Entered
<1> QED
  BY <1>1, <1>2 DEF BoundInv

LEMMA NextPollClaims ==
  ASSUME TypeOK, NEW e \in Executors, NextPoll(e) \/ Release(e) \/ Throw(e)
  PROVE  SameClaims(Executors \ {e}) /\ pc'[e] \notin Entered
<1>1. NextPoll(e) \/ Release(e) => SameClaims(Executors \ {e})
  BY DEF NextPoll, Release, SameClaims, TypeOK, Claims
<1>2. Throw(e) => SameClaims(Executors \ {e})
  BY <1>1 DEF Throw, SameClaims, TypeOK
<1>3. pc'[e] \in {"claim", "stopped", "unlock", "wedged"}
  BY NextPollLeaves, ReleaseLeaves, ThrowLeaves
<1> QED
  BY <1>1, <1>2, <1>3 DEF Entered, Engaged

-----------------------------------------------------------------------------
(* One lemma per class of actions                                          *)

LEMMA StepAgrees ==
  ASSUME TypeOK, ExclusionInv, BoundInv, NEW e \in Executors, Step(e)
  PROVE  BoundInv'
<1> USE DEF env, store
<1>t. pc[e] \in Awaiting \ {"claim"} => claimed[e].task \in Tasks
  BY DEF TypeOK
<1>0. ExecutorAgrees(e)
  BY DEF BoundInv
<1>1. CASE Claim(e) \/ AcquireLock(e) \/ LockTaken(e) \/ RequeueRemove(e)
           \/ ExitLoop(e) \/ Unlock(e)
  <2>1. SameClaims(Executors \ {e}) /\ pc'[e] \notin Entered
    BY <1>1 DEF Claim, AcquireLock, LockTaken, RequeueRemove, ExitLoop,
                Unlock, SameClaims, TypeOK, Claims, Entered, Engaged
  <2>2. UNCHANGED <<runs, attempts, status>>
    BY <1>1 DEF Claim, AcquireLock, LockTaken, RequeueRemove, ExitLoop, Unlock
  <2> QED
    BY <2>1, <2>2, LeaveAgrees
<1>2. CASE RequeuePush(e) \/ LoadRejected(e) \/ Abandon(e)
           \/ WaitAbandoned(e) \/ Enqueue(e)
  BY <1>2, NextPollClaims, LeaveAgrees
     DEF RequeuePush, LoadRejected, Abandon, WaitAbandoned, Enqueue
<1>3. CASE Unlist(e)
  <2>1. SameClaims(Executors \ {e}) /\ pc'[e] \notin Entered
    <3>1. CASE claimed[e].again
      BY <1>3, <3>1 DEF Unlist, SameClaims, TypeOK, Entered, Engaged
    <3>2. CASE ~claimed[e].again
      BY <1>3, <3>2, NextPollClaims DEF Unlist
    <3> QED
      BY <3>1, <3>2
  <2> QED
    BY <1>3, <2>1, LeaveAgrees DEF Unlist
<1>4. CASE LoadPending(e)
  <2>1. claimed[e].task \in Tasks
    BY <1>4, <1>t DEF LoadPending, Awaiting, HasCurrentTask
  <2>2. status[claimed[e].task] = "pending"
    BY <1>4, <2>1
       DEF LoadPending, CanTransition, ValidTransitions, TerminalStates,
           TaskStatus, TypeOK
  <2>3. /\ SameClaims(Executors \ {e}) /\ pc'[e] = "markRunning"
        /\ claimed'[e].task = claimed[e].task
        /\ claimed'[e].seen = attempts[claimed[e].task]
        /\ UNCHANGED <<status, attempts, runs>>
    BY <1>4 DEF LoadPending, SameClaims, TypeOK, Claims
  <2>4. TaskAgrees(claimed[e].task) /\ runs[claimed[e].task] \in Nat
    BY <2>1 DEF BoundInv, TypeOK
  <2>5. ExecutorAgrees(e)'
    BY <2>2, <2>3, <2>4 DEF TaskAgrees, ExecutorAgrees, Engaged
  <2>6. \A t \in Tasks : TaskAgrees(t)'
    BY <2>3 DEF BoundInv, TaskAgrees
  <2> QED
    BY <2>3, <2>5, <2>6, OthersAgree DEF BoundInv
<1>5. CASE MarkRunning(e)
  <2>1. claimed[e].task \in Tasks
    BY <1>5, <1>t DEF MarkRunning, Awaiting, HasCurrentTask
  <2>2. /\ UNCHANGED attempts /\ status'[claimed[e].task] = "running"
        /\ \A t \in Tasks : t # claimed[e].task => status'[t] = status[t]
    BY <1>5, <2>1 DEF MarkRunning, SetStatus, TypeOK
  <2>3. CASE claimed[e].aborted
    BY <1>5, <2>2, <2>3, NextPollClaims, LeaveAgrees DEF MarkRunning
  <2>4. CASE ~claimed[e].aborted
    <3>1. /\ SameClaims(Executors \ {e})
          /\ pc[e] = "markRunning" /\ pc'[e] = "execute"
          /\ UNCHANGED claimed
          /\ runs'[claimed[e].task] = runs[claimed[e].task] + 1
          /\ \A t \in Tasks : t # claimed[e].task => runs'[t] = runs[t]
      BY <1>5, <2>1, <2>4 DEF MarkRunning, SameClaims, TypeOK
    <3>2. runs[claimed[e].task] < RunLimit[claimed[e].task]
      BY <1>0, <3>1 DEF ExecutorAgrees
    <3>3. ASSUME NEW t \in Tasks PROVE TaskAgrees(t)'
      <4>1. CASE t = claimed[e].task
        BY <2>1, <2>2, <3>1, <3>2, <4>1, LimitType DEF TaskAgrees, TypeOK
      <4>2. CASE t # claimed[e].task
        BY <2>2, <3>1, <4>2 DEF BoundInv, TaskAgrees
      <4> QED
        BY <4>1, <4>2
    <3>4. ExecutorAgrees(e)'
      BY <1>0, <3>1 DEF ExecutorAgrees, Entered, Engaged
    <3> QED
      BY <2>2, <3>1, <3>3, <3>4, OthersAgree DEF BoundInv, Entered
  <2> QED
    BY <2>3, <2>4
<1>6. CASE TimeOut(e) \/ Succeed(e) \/ Fail(e) \/ DeadLetter(e) \/ WaitOver(e)
  <2>1. /\ SameClaims(Executors \ {e}) /\ pc[e] \in Engaged
        /\ UNCHANGED <<claimed, status, runs, attempts>>
    BY <1>6 DEF TimeOut, Succeed, Fail, DeadLetter, WaitOver, SameClaims,
                TypeOK, Engaged
  <2>2. ExecutorAgrees(e)'
    BY <1>0, <1>6, <2>1
       DEF TimeOut, Succeed, Fail, DeadLetter, WaitOver, ExecutorAgrees,
           Entered, Engaged, TypeOK
  <2> QED
    BY <2>1, <2>2, GoOnAgrees
<1>7. CASE BumpAttempt(e)
  <2> DEFINE t == claimed[e].task
             n == claimed[e].seen
  <2>1. t \in Tasks /\ t \in Retriable /\ n \in Nat /\ runs[t] = n + 1
        /\ n + 1 <= RunLimit[t]
    BY <1>0, <1>7, <1>t
       DEF BumpAttempt, ExecutorAgrees, BoundInv, TaskAgrees, Entered, Engaged,
           Awaiting, HasCurrentTask
  <2>2. /\ SameClaims(Executors \ {e}) /\ pc[e] \in Engaged
        /\ UNCHANGED <<claimed, status, runs>>
        /\ attempts'[t] = n + 1
        /\ \A u \in Tasks : attempts'[u] = attempts[u] \/ u = t
        /\ pc'[e] = IF n + 1 < MaxAttempts[t] THEN "retryWait" ELSE "deadLetter"
    BY <1>7, <2>1
       DEF BumpAttempt, SetAttempts, ShouldRetry, SameClaims, TypeOK, Engaged
  <2>3. /\ n + 1 < MaxAttempts[t] => n + 1 < RunLimit[t]
        /\ ~(n + 1 < MaxAttempts[t]) => n + 1 = RunLimit[t]
    BY <2>1, LimitType DEF RunLimit
  <2>4. ExecutorAgrees(e)'
    BY <2>1, <2>2, <2>3 DEF ExecutorAgrees, Entered, Engaged
  <2> QED
    BY <2>2, <2>4, GoOnAgrees
<1>8. ASSUME NEW call \in {"markTimedOut", "markCompleted", "markFailed"},
             NEW final, final # "pending", Finish(e, call, final)
      PROVE  BoundInv'
  BY <1>8, NextPollClaims, LeaveAgrees DEF Finish, SetStatus, TypeOK
<1>9. CASE MarkTimedOut(e) \/ MarkCompleted(e) \/ MarkFailed(e)
  BY <1>8, <1>9 DEF MarkTimedOut, MarkCompleted, MarkFailed
<1>10. CASE MarkPending(e)
  <2>1. /\ SameClaims(Executors \ {e}) /\ pc'[e] = "unlock"
        /\ UNCHANGED <<runs, attempts>>
        /\ \A t \in Tasks : status'[t] = status[t] \/ t = claimed[e].task
    BY <1>10 DEF MarkPending, SetStatus, SameClaims, TypeOK
  <2> QED
    BY <1>10, <2>1, LeaveAgrees DEF MarkPending, Entered, Engaged
<1> QED
  BY <1>1, <1>2, <1>3, <1>4, <1>5, <1>6, <1>7, <1>9, <1>10 DEF Step

LEMMA DisturbAgrees ==
  ASSUME TypeOK, ExclusionInv, BoundInv, NEW e \in Executors, Disturb(e)
  PROVE  BoundInv'
<1> USE DEF env, store
<1>1. CASE RenewalRefused(e) \/ RenewalError(e) \/ Stop(e)
  <2>1. SameClaims(Executors)
    <3>1. CASE claimed' = [claimed EXCEPT ![e].renewing = FALSE]
      BY <1>1, <3>1
         DEF RenewalRefused, RenewalError, Stop, SameClaims, TypeOK, Claims
    <3>2. CASE claimed' = [claimed EXCEPT ![e].renewing = FALSE,
                                          ![e].aborted = TRUE]
      BY <1>1, <3>2
         DEF RenewalRefused, RenewalError, Stop, SameClaims, TypeOK, Claims
    <3> QED
      BY <1>1, <3>1, <3>2 DEF RenewalRefused, RenewalError, Stop
  <2> QED
    BY <1>1, <2>1, QuietAgrees DEF RenewalRefused, RenewalError, Stop
<1>2. CASE CallFails(e)
  BY <1>2, NextPollClaims, LeaveAgrees DEF CallFails
<1>3. CASE ReplyLost(e)
  <2>1. SameClaims(Executors \ {e}) /\ pc'[e] \notin Entered /\ UNCHANGED runs
    BY <1>3, NextPollClaims DEF ReplyLost
  <2>2. \A t \in Tasks : status'[t] = "pending" =>
          status[t] = "pending" \/ (pc[e] = "markPending" /\ t = claimed[e].task)
    BY <1>3 DEF ReplyLost, SetStatus, TypeOK
  <2>3. \A t \in Tasks :
          \/ attempts'[t] = attempts[t]
          \/ pc[e] \in Engaged \ {"markPending"} /\ t = claimed[e].task
    BY <1>3 DEF ReplyLost, SetAttempts, Engaged, TypeOK
  <2> QED
    BY <2>1, <2>2, <2>3, LeaveAgrees
<1>4. CASE Crash(e) \/ Restart(e)
  <2>1. SameClaims(Executors \ {e}) /\ pc'[e] \notin Entered
    BY <1>4 DEF Crash, Restart, SameClaims, TypeOK, Entered, Engaged
  <2> QED
    BY <1>4, <2>1, LeaveAgrees DEF Crash, Restart
<1> QED
  BY <1>1, <1>2, <1>3, <1>4 DEF Disturb

LEMMA EnvironmentAgrees ==
  ASSUME TypeOK, BoundInv, NEW t \in Tasks, Environment(t)
  PROVE  BoundInv'
<1>1. UNCHANGED <<pc, claimed, runs, attempts>>
  BY DEF Environment, LockLapses, Push, CancelRead, CancelWrite, store, env
<1>2. \A u \in Tasks : status'[u] = "pending" => status[u] = "pending"
  <2>1. UNCHANGED status \/ status' = [status EXCEPT ![t] = "cancelled"]
    BY DEF Environment, LockLapses, Push, CancelRead, CancelWrite, SetStatus,
           store
  <2> QED
    BY <2>1 DEF TypeOK
<1> QED
  BY <1>1, <1>2, QuietAgrees DEF SameClaims

-----------------------------------------------------------------------------
LEMMA BoundIsInvariant ==
  ASSUME ~LeaseLoss
  PROVE  Spec => [](TypeOK /\ ExclusionInv /\ BoundInv)
<1>1. Init => BoundInv
  BY LimitType
     DEF Init, BoundInv, TaskAgrees, ExecutorAgrees, Entered, Engaged
<1>2. TypeOK /\ ExclusionInv /\ BoundInv /\ [Next]_vars => BoundInv'
  <2> SUFFICES ASSUME TypeOK, ExclusionInv, BoundInv, [Next]_vars
               PROVE  BoundInv'
    OBVIOUS
  <2>1. CASE UNCHANGED vars
    BY <2>1, QuietAgrees DEF vars, store, SameClaims
  <2> QED
    BY <2>1, StepAgrees, DisturbAgrees, EnvironmentAgrees DEF Next
<1>3. Spec => [](TypeOK /\ ExclusionInv)
  BY TypeCorrect, Exclusion, PTL
<1> QED
  BY <1>1, <1>2, <1>3, PTL DEF Spec

(* The body of a task is started at most maxAttempts times, and once       *)
(* without a policy, whatever crashes, lost replies, duplicate entries and *)
(* cancellations there are, if locks lapse only when nobody renews them.   *)
THEOREM Bound ==
  ASSUME ~LeaseLoss
  PROVE  Spec => [](CountsAgree /\ RunsBounded)
BY BoundIsInvariant, BoundInvSuffices, PTL

-----------------------------------------------------------------------------
(* Dead letters                                                            *)

(* The attempt that is the last one, and only that, ends with the dead     *)
(* letter before the status.                                               *)
DeadInv ==
  /\ DeadLettersMatchFailures
  /\ \A e \in Executors :
       /\ pc[e] \in Engaged \ {"markFailed"} => dlq[Task(e)] = 0
       /\ pc[e] = "markFailed" /\ Task(e) \in Retriable => dlq[Task(e)] = 1

(* What a step of e may do to dead letters, runs and the status "failed".  *)
Burying(e) ==
  /\ SameClaims(Executors \ {e})
  /\ \A t \in Tasks :
       /\ \/ dlq'[t] = dlq[t]
          \/ /\ pc[e] = "deadLetter" /\ t = claimed[e].task
             /\ dlq'[t] = dlq[t] + 1
       /\ runs'[t] = runs[t] \/ (pc[e] = "markRunning" /\ t = claimed[e].task)
       /\ status'[t] = "failed" =>
            status[t] = "failed" \/ (pc[e] = "markFailed" /\ t = claimed[e].task)
  /\ pc'[e] \in Engaged =>
       /\ pc[e] \in Entered
       /\ claimed'[e].task = claimed[e].task
       /\ pc'[e] # "markFailed" => pc[e] \notin {"markFailed", "deadLetter"}
       /\ pc'[e] = "markFailed" /\ claimed[e].task \in Retriable =>
            /\ pc[e] = "deadLetter"
            /\ dlq'[claimed[e].task] = dlq[claimed[e].task] + 1

LEMMA BuryingPreserves ==
  ASSUME TypeOK, ExclusionInv, BoundInv, DeadInv, NEW e \in Executors,
         Burying(e)
  PROVE  DeadInv'
<1>1. \A f \in Executors : pc[f] \in Entered =>
        /\ claimed[f].task \in Tasks
        /\ f # e /\ pc[e] \in Entered => claimed[f].task # claimed[e].task
  BY DEF TypeOK, Awaiting, HasCurrentTask, Entered, Engaged, ExclusionInv,
         OneEntered
<1>2. pc[e] = "markRunning" =>
        /\ runs[claimed[e].task] < RunLimit[claimed[e].task]
        /\ dlq[claimed[e].task] = 0
  <2> SUFFICES ASSUME pc[e] = "markRunning"
               PROVE  /\ runs[claimed[e].task] < RunLimit[claimed[e].task]
                      /\ dlq[claimed[e].task] = 0
    OBVIOUS
  <2>1. claimed[e].task \in Tasks
    BY <1>1 DEF Entered
  <2>2. runs[claimed[e].task] < RunLimit[claimed[e].task]
    BY DEF BoundInv, ExecutorAgrees
  <2> QED
    <3>1. /\ dlq[claimed[e].task] \in Nat /\ dlq[claimed[e].task] <= 1
          /\ dlq[claimed[e].task] = 1 =>
               runs[claimed[e].task] = RunLimit[claimed[e].task]
      BY <2>1 DEF DeadInv, DeadLettersMatchFailures, TypeOK
    <3>2. runs[claimed[e].task] # RunLimit[claimed[e].task]
      BY <2>1, <2>2, LimitType DEF TypeOK
    <3> QED
      BY <2>2, <3>1, <3>2
<1>3. pc[e] = "deadLetter" =>
        /\ dlq[claimed[e].task] = 0 /\ claimed[e].task \in Retriable
        /\ runs[claimed[e].task] = RunLimit[claimed[e].task]
  BY DEF BoundInv, ExecutorAgrees, DeadInv, Engaged
<1>4. DeadLettersMatchFailures'
  <2> SUFFICES ASSUME NEW t \in Tasks
               PROVE  /\ dlq'[t] <= 1
                      /\ dlq'[t] = 1 => t \in Retriable /\ runs'[t] = RunLimit[t]
                      /\ status'[t] = "failed" /\ t \in Retriable => dlq'[t] = 1
    BY DEF DeadLettersMatchFailures, RunLimit
  <2>1. CASE dlq'[t] = dlq[t]
    BY <1>2, <2>1 DEF Burying, DeadInv, DeadLettersMatchFailures
  <2>2. CASE dlq'[t] # dlq[t]
    BY <1>3, <2>2 DEF Burying
  <2> QED
    BY <2>1, <2>2
<1>5. ASSUME NEW f \in Executors \ {e}
      PROVE  /\ pc'[f] \in Engaged \ {"markFailed"} => dlq'[claimed'[f].task] = 0
             /\ pc'[f] = "markFailed" /\ claimed'[f].task \in Retriable =>
                  dlq'[claimed'[f].task] = 1
  <2>1. pc'[f] = pc[f] /\ claimed'[f].task = claimed[f].task
    BY DEF Burying, SameClaims
  <2>2. CASE pc[f] \in Engaged
    <3>1. /\ claimed[f].task \in Tasks
          /\ dlq'[claimed[f].task] = dlq[claimed[f].task]
      BY <1>1, <2>2 DEF Burying, Entered, Engaged
    <3> QED
      BY <2>1, <3>1 DEF DeadInv
  <2> QED
    BY <2>1, <2>2 DEF Engaged
<1>6. /\ pc'[e] \in Engaged \ {"markFailed"} => dlq'[claimed'[e].task] = 0
      /\ pc'[e] = "markFailed" /\ claimed'[e].task \in Retriable =>
           dlq'[claimed'[e].task] = 1
  <2>1. CASE pc'[e] \in Engaged \ {"markFailed"}
    <3>1. /\ pc[e] \in Entered /\ pc[e] \notin {"markFailed", "deadLetter"}
          /\ claimed'[e].task = claimed[e].task /\ claimed[e].task \in Tasks
      BY <1>1, <2>1 DEF Burying
    <3> QED
      BY <1>2, <2>1, <3>1 DEF Burying, DeadInv, Entered
  <2>2. CASE pc'[e] = "markFailed"
    BY <1>3, <2>2 DEF Burying, Engaged
  <2> QED
    BY <2>1, <2>2
<1> QED
  BY <1>4, <1>5, <1>6 DEF DeadInv

(* Steps that change nothing the invariant is about.                       *)
LEMMA QuietDead ==
  ASSUME DeadInv, SameClaims(Executors), UNCHANGED <<dlq, runs>>,
         \A t \in Tasks : status'[t] = "failed" => status[t] = "failed"
  PROVE  DeadInv'
<1>1. DeadLettersMatchFailures'
  BY DEF DeadInv, DeadLettersMatchFailures, RunLimit
<1> QED
  BY <1>1 DEF DeadInv, SameClaims

LEMMA StepBuries ==
  ASSUME TypeOK, NEW e \in Executors, Step(e)
  PROVE  Burying(e)
<1> USE DEF env, store
<1>1. CASE Claim(e) \/ AcquireLock(e) \/ LockTaken(e) \/ RequeueRemove(e)
           \/ ExitLoop(e) \/ Unlock(e)
  <2>1. SameClaims(Executors \ {e}) /\ pc'[e] \notin Engaged
    BY <1>1 DEF Claim, AcquireLock, LockTaken, RequeueRemove, ExitLoop,
                Unlock, SameClaims, TypeOK, Claims, Engaged
  <2> QED
    BY <1>1, <2>1 DEF Claim, AcquireLock, LockTaken, RequeueRemove, ExitLoop,
                      Unlock, Burying
<1>2. CASE RequeuePush(e) \/ LoadRejected(e) \/ Abandon(e)
           \/ WaitAbandoned(e) \/ Enqueue(e)
  BY <1>2, NextPollClaims
     DEF RequeuePush, LoadRejected, Abandon, WaitAbandoned, Enqueue, Burying,
         Entered
<1>3. CASE Unlist(e)
  <2>1. SameClaims(Executors \ {e}) /\ pc'[e] \notin Engaged
    <3>1. CASE claimed[e].again
      BY <1>3, <3>1 DEF Unlist, SameClaims, TypeOK, Engaged
    <3>2. CASE ~claimed[e].again
      BY <1>3, <3>2, NextPollClaims DEF Unlist, Entered
    <3> QED
      BY <3>1, <3>2
  <2> QED
    BY <1>3, <2>1 DEF Unlist, Burying
<1>4. CASE LoadPending(e)
  <2>1. SameClaims(Executors \ {e}) /\ pc'[e] = "markRunning"
    BY <1>4 DEF LoadPending, SameClaims, TypeOK
  <2> QED
    BY <1>4, <2>1 DEF LoadPending, Burying, Engaged
<1>5. CASE MarkRunning(e)
  <2>1. /\ UNCHANGED dlq
        /\ \A t \in Tasks : status'[t] = "failed" => status[t] = "failed"
        /\ \A t \in Tasks : runs'[t] = runs[t] \/ t = claimed[e].task
    BY <1>5 DEF MarkRunning, SetStatus, TypeOK
  <2>2. CASE claimed[e].aborted
    BY <1>5, <2>1, <2>2, NextPollClaims DEF MarkRunning, Burying, Entered
  <2>3. CASE ~claimed[e].aborted
    BY <1>5, <2>1, <2>3
       DEF MarkRunning, Burying, SameClaims, Entered, Engaged, TypeOK
  <2> QED
    BY <2>2, <2>3
<1>6. CASE TimeOut(e) \/ Succeed(e) \/ Fail(e) \/ BumpAttempt(e) \/ WaitOver(e)
  <2>1. SameClaims(Executors \ {e}) /\ UNCHANGED <<claimed, status, runs, dlq>>
    BY <1>6 DEF TimeOut, Succeed, Fail, BumpAttempt, WaitOver, SameClaims,
                TypeOK
  <2>2. /\ pc[e] \in Engaged \ {"markFailed", "deadLetter"}
        /\ pc'[e] = "markFailed" => claimed[e].task \notin Retriable
    BY <1>6 DEF TimeOut, Succeed, Fail, BumpAttempt, WaitOver, Engaged, TypeOK
  <2> QED
    BY <2>1, <2>2 DEF Burying, Entered
<1>7. CASE DeadLetter(e)
  <2>1. claimed[e].task \in Tasks
    BY <1>7 DEF DeadLetter, TypeOK, Awaiting, HasCurrentTask, Engaged
  <2>2. /\ SameClaims(Executors \ {e}) /\ UNCHANGED <<claimed, status, runs>>
        /\ pc[e] = "deadLetter" /\ pc'[e] = "markFailed"
        /\ dlq' = [dlq EXCEPT ![claimed[e].task] = dlq[claimed[e].task] + 1]
    BY <1>7 DEF DeadLetter, InsertDeadLetter, SameClaims, TypeOK
  <2> QED
    BY <2>1, <2>2 DEF Burying, Entered, Engaged, TypeOK
<1>8. ASSUME NEW call \in {"markTimedOut", "markCompleted", "markFailed"},
             NEW final, final = "failed" => call = "markFailed",
             Finish(e, call, final)
      PROVE  Burying(e)
  BY <1>8, NextPollClaims DEF Finish, SetStatus, Burying, Entered, TypeOK
<1>9. CASE MarkTimedOut(e) \/ MarkCompleted(e) \/ MarkFailed(e)
  BY <1>8, <1>9 DEF MarkTimedOut, MarkCompleted, MarkFailed
<1>10. CASE MarkPending(e)
  <2>1. /\ SameClaims(Executors \ {e}) /\ pc'[e] = "unlock"
        /\ \A t \in Tasks : status'[t] = "failed" => status[t] = "failed"
    BY <1>10 DEF MarkPending, SetStatus, SameClaims, TypeOK
  <2> QED
    BY <1>10, <2>1 DEF MarkPending, Burying, Engaged
<1> QED
  BY <1>1, <1>2, <1>3, <1>4, <1>5, <1>6, <1>7, <1>9, <1>10 DEF Step

LEMMA DisturbDead ==
  ASSUME TypeOK, ExclusionInv, BoundInv, DeadInv, NEW e \in Executors,
         Disturb(e)
  PROVE  DeadInv'
<1> USE DEF env, store
<1>1. CASE RenewalRefused(e) \/ RenewalError(e) \/ Stop(e)
  <2>1. SameClaims(Executors)
    <3>1. CASE claimed' = [claimed EXCEPT ![e].renewing = FALSE]
      BY <1>1, <3>1
         DEF RenewalRefused, RenewalError, Stop, SameClaims, TypeOK, Claims
    <3>2. CASE claimed' = [claimed EXCEPT ![e].renewing = FALSE,
                                          ![e].aborted = TRUE]
      BY <1>1, <3>2
         DEF RenewalRefused, RenewalError, Stop, SameClaims, TypeOK, Claims
    <3> QED
      BY <1>1, <3>1, <3>2 DEF RenewalRefused, RenewalError, Stop
  <2> QED
    BY <1>1, <2>1, QuietDead DEF RenewalRefused, RenewalError, Stop
<1>2. CASE CallFails(e)
  BY <1>2, NextPollClaims, BuryingPreserves DEF CallFails, Burying, Entered
<1>3. CASE ReplyLost(e)
  <2>1. SameClaims(Executors \ {e}) /\ pc'[e] \notin Engaged /\ UNCHANGED runs
    BY <1>3, NextPollClaims DEF ReplyLost, Entered
  <2>2. \A t \in Tasks : status'[t] = "failed" =>
          status[t] = "failed" \/ (pc[e] = "markFailed" /\ t = claimed[e].task)
    BY <1>3 DEF ReplyLost, SetStatus, TypeOK
  <2>3. \A t \in Tasks :
          \/ dlq'[t] = dlq[t]
          \/ /\ pc[e] = "deadLetter" /\ t = claimed[e].task
             /\ dlq'[t] = dlq[t] + 1
    BY <1>3 DEF ReplyLost, InsertDeadLetter, TypeOK
  <2> QED
    BY <2>1, <2>2, <2>3, BuryingPreserves DEF Burying
<1>4. CASE Crash(e) \/ Restart(e)
  <2>1. SameClaims(Executors \ {e}) /\ pc'[e] \notin Engaged
    BY <1>4 DEF Crash, Restart, SameClaims, TypeOK, Engaged
  <2> QED
    BY <1>4, <2>1, BuryingPreserves DEF Crash, Restart, Burying
<1> QED
  BY <1>1, <1>2, <1>3, <1>4 DEF Disturb

LEMMA EnvironmentDead ==
  ASSUME TypeOK, DeadInv, NEW t \in Tasks, Environment(t)
  PROVE  DeadInv'
<1>1. UNCHANGED <<pc, claimed, runs, dlq>>
  BY DEF Environment, LockLapses, Push, CancelRead, CancelWrite, store, env
<1>2. \A u \in Tasks : status'[u] = "failed" => status[u] = "failed"
  <2>1. UNCHANGED status \/ status' = [status EXCEPT ![t] = "cancelled"]
    BY DEF Environment, LockLapses, Push, CancelRead, CancelWrite, SetStatus,
           store
  <2> QED
    BY <2>1 DEF TypeOK
<1> QED
  BY <1>1, <1>2, QuietDead DEF SameClaims

(* A task reaches the dead letter queue at most once, only after its last  *)
(* attempt, and every task with a policy that failed is in it, whatever    *)
(* crashes, lost replies and duplicate entries there are.                  *)
THEOREM DeadLetters ==
  ASSUME ~LeaseLoss
  PROVE  Spec => []DeadLettersMatchFailures
<1>1. Init => DeadInv
  BY DEF Init, DeadInv, DeadLettersMatchFailures, Engaged
<1>2. TypeOK /\ ExclusionInv /\ BoundInv /\ DeadInv /\ [Next]_vars => DeadInv'
  <2> SUFFICES ASSUME TypeOK, ExclusionInv, BoundInv, DeadInv, [Next]_vars
               PROVE  DeadInv'
    OBVIOUS
  <2>1. CASE UNCHANGED vars
    BY <2>1, QuietDead DEF vars, store, SameClaims
  <2> QED
    BY <2>1, StepBuries, BuryingPreserves, DisturbDead, EnvironmentDead
       DEF Next
<1>3. DeadInv => DeadLettersMatchFailures
  BY DEF DeadInv
<1> QED
  BY <1>1, <1>2, <1>3, BoundIsInvariant, PTL DEF Spec

-----------------------------------------------------------------------------
(* Refinement of TaskLifecycle                                             *)

LEMMA DisturbSame ==
  ASSUME TypeOK, NEW e \in Executors, Disturb(e)
  PROVE  SameClaims(Executors \ {e})
<1>1. CASE RenewalRefused(e) \/ RenewalError(e) \/ Stop(e)
  BY <1>1 DEF RenewalRefused, RenewalError, Stop, SameClaims, TypeOK
<1>2. CASE CallFails(e) \/ ReplyLost(e)
  BY <1>2, NextPollClaims DEF CallFails, ReplyLost
<1>3. CASE Crash(e) \/ Restart(e)
  BY <1>3 DEF Crash, Restart, SameClaims, TypeOK
<1> QED
  BY <1>1, <1>2, <1>3 DEF Disturb

(* With one executor at most in a task, Worker names the one that awaits   *)
(* the body.                                                               *)
WorkerNamed ==
  /\ Worker = [t \in Tasks |-> Worker[t]]
  /\ \A t \in Tasks :
       /\ Worker[t] \in Executors \cup {None}
       /\ \A e \in Executors :
            Worker[t] = e <=> pc[e] = "execute" /\ claimed[e].task = t

LEMMA WorkerIsNamed == ExclusionInv => WorkerNamed
<1> SUFFICES ASSUME ExclusionInv, NEW t \in Tasks
             PROVE  /\ Worker[t] \in Executors \cup {None}
                    /\ \A e \in Executors :
                         Worker[t] = e <=>
                           pc[e] = "execute" /\ claimed[e].task = t
  BY DEF WorkerNamed, Worker
<1>1. CASE \E e \in Executors : pc[e] = "execute" /\ claimed[e].task = t
  <2>1. /\ Worker[t] \in Executors
        /\ pc[Worker[t]] = "execute" /\ claimed[Worker[t]].task = t
    BY <1>1 DEF Worker
  <2> QED
    BY <2>1 DEF ExclusionInv, OneEntered, Entered, Engaged
<1>2. CASE ~\E e \in Executors : pc[e] = "execute" /\ claimed[e].task = t
  BY <1>2, NoneAssumption DEF Worker
<1> QED
  BY <1>1, <1>2

LEMMA WorkerIsNamedNext == ExclusionInv' => WorkerNamed'
BY WorkerIsNamed, PTL

(* What a step of e does to the workers: nothing, End or Begin.            *)
LEMMA WorkersStay ==
  ASSUME WorkerNamed, WorkerNamed', NEW e \in Executors,
         SameClaims(Executors \ {e}), pc[e] # "execute", pc'[e] # "execute"
  PROVE  Worker' = Worker
<1> SUFFICES ASSUME NEW t \in Tasks PROVE Worker'[t] = Worker[t]
  BY DEF WorkerNamed
<1>1. \A f \in Executors : Worker'[t] = f <=> Worker[t] = f
  BY DEF WorkerNamed, SameClaims
<1> QED
  BY <1>1, NoneAssumption DEF WorkerNamed

LEMMA WorkerEnds ==
  ASSUME WorkerNamed, WorkerNamed', NEW e \in Executors, NEW u \in Tasks,
         SameClaims(Executors \ {e}), pc[e] = "execute", pc'[e] # "execute",
         u = claimed[e].task
  PROVE  Worker[u] = e /\ Worker' = [Worker EXCEPT ![u] = None]
<1>1. Worker[u] = e
  BY DEF WorkerNamed
<1> SUFFICES ASSUME NEW t \in Tasks
             PROVE  Worker'[t] = IF t = u THEN None ELSE Worker[t]
  BY <1>1 DEF WorkerNamed
<1>2. \A f \in Executors : Worker'[t] = f <=> Worker[t] = f /\ f # e
  BY DEF WorkerNamed, SameClaims
<1>3. Worker[t] = e <=> t = u
  BY DEF WorkerNamed
<1> QED
  BY <1>1, <1>2, <1>3, NoneAssumption DEF WorkerNamed

LEMMA WorkerBegins ==
  ASSUME WorkerNamed, WorkerNamed', NEW e \in Executors, NEW u \in Tasks,
         SameClaims(Executors \ {e}), pc[e] # "execute", pc'[e] = "execute",
         u = claimed'[e].task, Worker[u] = None
  PROVE  /\ \A t \in Tasks : Worker[t] # e
         /\ Worker' = [Worker EXCEPT ![u] = e]
<1>1. \A t \in Tasks : Worker[t] # e
  BY DEF WorkerNamed
<1> SUFFICES ASSUME NEW t \in Tasks
             PROVE  Worker'[t] = IF t = u THEN e ELSE Worker[t]
  BY <1>1 DEF WorkerNamed
<1>2. Worker'[t] = e <=> t = u
  BY DEF WorkerNamed
<1>3. \A f \in Executors \ {e} : Worker'[t] = f <=> Worker[t] = f
  BY DEF WorkerNamed, SameClaims
<1> QED
  BY <1>1, <1>2, <1>3, NoneAssumption DEF WorkerNamed

(* Nobody else runs the body of a task that an executor has entered.       *)
LEMMA NoOtherWorker ==
  ASSUME TypeOK, ExclusionInv, WorkerNamed, NEW e \in Executors,
         pc[e] \in Entered \ {"execute"}
  PROVE  claimed[e].task \in Tasks /\ Worker[claimed[e].task] = None
<1>1. claimed[e].task \in Tasks
  BY DEF TypeOK, Awaiting, HasCurrentTask, Entered, Engaged
<1>2. \A f \in Executors : Worker[claimed[e].task] # f
  BY <1>1 DEF WorkerNamed, ExclusionInv, OneEntered, Entered, Engaged
<1> QED
  BY <1>1, <1>2 DEF WorkerNamed

-----------------------------------------------------------------------------
(* Every step is a step of TaskLifecycle or none                           *)

Visible == <<status, Worker, runs, cancel>>

LEMMA VisibleIs == Lifecycle!vars = Visible
BY DEF Lifecycle!vars, Visible

LEMMA MarkRunningMaps ==
  ASSUME TypeOK, ExclusionInv, BoundInv, WorkerNamed, WorkerNamed',
         NEW e \in Executors, MarkRunning(e)
  PROVE  Lifecycle!Next
<1> DEFINE t == claimed[e].task
<1>1. t \in Tasks /\ Worker[t] = None
  BY NoOtherWorker DEF MarkRunning, Entered, Engaged
<1>2. /\ status' = [status EXCEPT ![t] = "running"] /\ UNCHANGED cancel
      /\ pc[e] = "markRunning"
  BY DEF MarkRunning, SetStatus, env
<1>3. Lifecycle!Is(t, "pending")
  BY <1>2 DEF Lifecycle!Is, ExclusionInv, StatusGuards, Stands
<1>4. runs[t] < RunLimit[t]
  BY <1>2 DEF BoundInv, ExecutorAgrees
<1>5. CASE claimed[e].aborted
  <2>1. Worker' = Worker /\ UNCHANGED runs
    BY <1>2, <1>5, NextPollClaims, WorkersStay DEF MarkRunning, Entered, Engaged
  <2>2. Lifecycle!Mark(t)
    BY <1>1, <1>2, <1>3, <2>1 DEF Lifecycle!Mark
  <2> QED
    BY <1>1, <2>2 DEF Lifecycle!Next
<1>6. CASE ~claimed[e].aborted
  <2>1. /\ SameClaims(Executors \ {e}) /\ pc'[e] = "execute"
        /\ claimed'[e].task = t /\ runs' = [runs EXCEPT ![t] = runs[t] + 1]
    BY <1>6 DEF MarkRunning, SameClaims, TypeOK
  <2>2. /\ \A u \in Tasks : Worker[u] # e
        /\ Worker' = [Worker EXCEPT ![t] = e]
    BY <1>1, <1>2, <2>1, WorkerBegins
  <2>3. Lifecycle!Begin(t, e)
    BY <1>1, <1>2, <1>3, <1>4, <2>1, <2>2 DEF Lifecycle!Begin
  <2> QED
    BY <1>1, <2>3 DEF Lifecycle!Next
<1> QED
  BY <1>5, <1>6

(* The body ends, or its executor crashes.                                 *)
LEMMA EndMaps ==
  ASSUME TypeOK, WorkerNamed, WorkerNamed', NEW e \in Executors,
         SameClaims(Executors \ {e}), pc[e] = "execute", pc'[e] # "execute",
         UNCHANGED <<status, runs, cancel>>
  PROVE  Lifecycle!Next
<1>1. PICK t \in Tasks : t = claimed[e].task
  BY DEF TypeOK, Awaiting, HasCurrentTask, Engaged
<1>2. Worker[t] = e /\ Worker' = [Worker EXCEPT ![t] = None]
  BY <1>1, WorkerEnds
<1>3. Lifecycle!End(t)
  BY <1>2, NoneAssumption DEF Lifecycle!End
<1> QED
  BY <1>3 DEF Lifecycle!Next

(* An executor that has left the body persists its outcome.                *)
LEMMA SettleMaps ==
  ASSUME TypeOK, ExclusionInv, BoundInv, WorkerNamed, WorkerNamed',
         NEW e \in Executors, SameClaims(Executors \ {e}),
         pc'[e] # "execute", UNCHANGED <<runs, cancel>>,
         NEW s, status' = [status EXCEPT ![claimed[e].task] = s],
         \/ pc[e] = "markTimedOut" /\ s = "timed_out"
         \/ pc[e] = "markCompleted" /\ s = "completed"
         \/ pc[e] = "markFailed" /\ s = "failed"
         \/ pc[e] = "markPending" /\ s = "pending"
  PROVE  Lifecycle!Next
<1>1. PICK t \in Tasks : t = claimed[e].task /\ Worker[t] = None
  BY NoOtherWorker DEF Entered, Engaged
<1>2. Worker' = Worker
  BY WorkersStay
<1>3. Lifecycle!Is(t, "running")
  BY <1>1 DEF Lifecycle!Is, ExclusionInv, StatusGuards, Stands, Engaged
<1>4. pc[e] = "markPending" => runs[t] < RunLimit[t]
  BY <1>1 DEF BoundInv, ExecutorAgrees, Engaged
<1>5. s = "pending" => runs[t] < RunLimit[t]
  BY <1>4
<1>6. s # "pending" => s \in Lifecycle!TerminalStates \ {"cancelled"}
  BY DEF Lifecycle!TerminalStates
<1>7. Lifecycle!Settle(t)
  BY <1>1, <1>2, <1>3, <1>5, <1>6 DEF Lifecycle!Settle
<1> QED
  BY <1>7 DEF Lifecycle!Next

LEMMA QuietMaps ==
  ASSUME WorkerNamed, WorkerNamed', NEW e \in Executors,
         SameClaims(Executors \ {e}), pc[e] # "execute", pc'[e] # "execute",
         UNCHANGED <<status, runs, cancel>>
  PROVE  UNCHANGED Visible
BY WorkersStay DEF Visible

LEMMA StepMaps ==
  ASSUME TypeOK, ExclusionInv, BoundInv, WorkerNamed, WorkerNamed',
         NEW e \in Executors, Step(e)
  PROVE  Lifecycle!Next \/ UNCHANGED Visible
<1> USE DEF store, env
<1>0. SameClaims(Executors \ {e})
  BY StepBuries DEF Burying
<1>p. NextPoll(e) \/ Release(e) => pc'[e] # "execute"
  BY NextPollLeaves, ReleaseLeaves
<1>1. CASE MarkRunning(e)
  BY <1>1, MarkRunningMaps
<1>2. CASE TimeOut(e) \/ Succeed(e) \/ Fail(e) \/ Abandon(e)
  <2>1. /\ pc[e] = "execute" /\ pc'[e] # "execute"
        /\ UNCHANGED <<status, runs, cancel>>
    BY <1>2, <1>p DEF TimeOut, Succeed, Fail, Abandon, TypeOK
  <2> QED
    BY <1>0, <2>1, EndMaps
<1>3. CASE MarkTimedOut(e) \/ MarkCompleted(e) \/ MarkFailed(e)
  <2>1. pc'[e] # "execute" /\ UNCHANGED <<runs, cancel>>
    BY <1>3, <1>p DEF MarkTimedOut, MarkCompleted, MarkFailed, Finish
  <2>2. PICK s :
          /\ status' = [status EXCEPT ![claimed[e].task] = s]
          /\ \/ pc[e] = "markTimedOut" /\ s = "timed_out"
             \/ pc[e] = "markCompleted" /\ s = "completed"
             \/ pc[e] = "markFailed" /\ s = "failed"
    BY <1>3 DEF MarkTimedOut, MarkCompleted, MarkFailed, Finish, SetStatus
  <2> QED
    BY <1>0, <2>1, <2>2, SettleMaps
<1>4. CASE MarkPending(e)
  <2>1. /\ pc[e] = "markPending" /\ pc'[e] # "execute"
        /\ UNCHANGED <<runs, cancel>>
        /\ status' = [status EXCEPT ![claimed[e].task] = "pending"]
    BY <1>4 DEF MarkPending, SetStatus, TypeOK
  <2> QED
    BY <1>0, <2>1, SettleMaps
<1>5. CASE \/ Claim(e) \/ AcquireLock(e) \/ LockTaken(e) \/ RequeueRemove(e)
           \/ ExitLoop(e) \/ LoadPending(e) \/ BumpAttempt(e) \/ DeadLetter(e)
           \/ WaitOver(e) \/ Unlock(e)
  <2>1. /\ pc[e] # "execute" /\ pc'[e] # "execute"
        /\ UNCHANGED <<status, runs, cancel>>
    BY <1>5 DEF Claim, AcquireLock, LockTaken, RequeueRemove, ExitLoop,
                LoadPending, BumpAttempt, DeadLetter, WaitOver, Unlock, TypeOK
  <2> QED
    BY <1>0, <2>1, QuietMaps
<1>6. CASE RequeuePush(e) \/ LoadRejected(e) \/ WaitAbandoned(e) \/ Unlist(e)
           \/ Enqueue(e)
  <2>1. /\ pc[e] # "execute" /\ pc'[e] # "execute"
        /\ UNCHANGED <<status, runs, cancel>>
    BY <1>6, <1>p DEF RequeuePush, LoadRejected, WaitAbandoned, Unlist,
                      Enqueue, TypeOK
  <2> QED
    BY <1>0, <2>1, QuietMaps
<1> QED
  BY <1>1, <1>2, <1>3, <1>4, <1>5, <1>6 DEF Step

LEMMA DisturbMaps ==
  ASSUME TypeOK, ExclusionInv, BoundInv, WorkerNamed, WorkerNamed',
         NEW e \in Executors, Disturb(e)
  PROVE  Lifecycle!Next \/ UNCHANGED Visible
<1> USE DEF store, env
<1>0. SameClaims(Executors \ {e})
  BY DisturbSame
<1>p. Throw(e) => pc'[e] # "execute"
  BY ThrowLeaves
<1>1. CASE RenewalRefused(e) \/ RenewalError(e) \/ Stop(e)
  <2>1. UNCHANGED <<pc, status, runs, cancel>>
    BY <1>1 DEF RenewalRefused, RenewalError, Stop
  <2>3. claimed'[e].task = claimed[e].task
    <3>1. CASE claimed' = [claimed EXCEPT ![e].renewing = FALSE]
      BY <3>1 DEF TypeOK, Claims
    <3>2. CASE claimed' = [claimed EXCEPT ![e].renewing = FALSE,
                                          ![e].aborted = TRUE]
      BY <3>2 DEF TypeOK, Claims
    <3> QED
      BY <1>1, <3>1, <3>2 DEF RenewalRefused, RenewalError, Stop
  <2>2. Worker' = Worker
    <3> SUFFICES ASSUME NEW t \in Tasks PROVE Worker'[t] = Worker[t]
      BY DEF WorkerNamed
    <3>1. \A f \in Executors : Worker'[t] = f <=> Worker[t] = f
      BY <1>0, <2>1, <2>3 DEF WorkerNamed, SameClaims
    <3> QED
      BY <3>1, NoneAssumption DEF WorkerNamed
  <2> QED
    BY <2>1, <2>2 DEF Visible
<1>2. CASE Crash(e)
  <2>1. pc'[e] # "execute" /\ UNCHANGED <<status, runs, cancel>>
    BY <1>2 DEF Crash, TypeOK
  <2> QED
    BY <1>0, <2>1, EndMaps, QuietMaps
<1>3. CASE Restart(e) \/ CallFails(e)
  <2>1. /\ pc[e] # "execute" /\ pc'[e] # "execute"
        /\ UNCHANGED <<status, runs, cancel>>
    BY <1>3, <1>p DEF Restart, CallFails, TypeOK
  <2> QED
    BY <1>0, <2>1, QuietMaps
<1>4. CASE ReplyLost(e)
  <2>1. /\ pc[e] # "execute" /\ pc'[e] # "execute"
        /\ UNCHANGED <<runs, cancel>>
    BY <1>4, <1>p DEF ReplyLost
  <2>2. CASE UNCHANGED status
    BY <1>0, <2>1, <2>2, QuietMaps
  <2>3. CASE pc[e] = "markRunning" /\ SetStatus(claimed[e].task, "running")
    <3>1. PICK t \in Tasks : t = claimed[e].task /\ Worker[t] = None
      BY <2>3, NoOtherWorker DEF Entered
    <3>2. Lifecycle!Is(t, "pending")
      BY <2>3, <3>1 DEF Lifecycle!Is, ExclusionInv, StatusGuards, Stands
    <3>3. Worker' = Worker
      BY <1>0, <2>1, WorkersStay
    <3>4. Lifecycle!Mark(t)
      BY <2>1, <2>3, <3>1, <3>2, <3>3 DEF Lifecycle!Mark, SetStatus
    <3> QED
      BY <3>4 DEF Lifecycle!Next
  <2>4. CASE \/ pc[e] = "markTimedOut" /\ SetStatus(claimed[e].task, "timed_out")
             \/ pc[e] = "markCompleted" /\ SetStatus(claimed[e].task, "completed")
             \/ pc[e] = "markFailed" /\ SetStatus(claimed[e].task, "failed")
             \/ pc[e] = "markPending" /\ SetStatus(claimed[e].task, "pending")
    <3>1. PICK s :
            /\ status' = [status EXCEPT ![claimed[e].task] = s]
            /\ \/ pc[e] = "markTimedOut" /\ s = "timed_out"
               \/ pc[e] = "markCompleted" /\ s = "completed"
               \/ pc[e] = "markFailed" /\ s = "failed"
               \/ pc[e] = "markPending" /\ s = "pending"
      BY <2>4 DEF SetStatus
    <3> QED
      BY <1>0, <2>1, <3>1, SettleMaps
  <2> QED
    BY <1>4, <2>2, <2>3, <2>4 DEF ReplyLost
<1> QED
  BY <1>1, <1>2, <1>3, <1>4 DEF Disturb

LEMMA EnvironmentMaps ==
  ASSUME TypeOK, WorkerNamed, WorkerNamed', NEW t \in Tasks, Environment(t)
  PROVE  Lifecycle!Next \/ UNCHANGED Visible
<1>1. UNCHANGED <<pc, claimed, runs>>
  BY DEF Environment, LockLapses, Push, CancelRead, CancelWrite, store, env
<1>2. Worker' = Worker
  BY <1>1 DEF Worker
<1>3. CASE LockLapses(t) \/ Push(t)
  BY <1>1, <1>2, <1>3 DEF LockLapses, Push, Visible, env
<1>4. CASE CancelRead(t)
  <2>1. Lifecycle!DecideCancel(t)
    BY <1>1, <1>2, <1>4 DEF CancelRead, Lifecycle!DecideCancel, store
  <2> QED
    BY <2>1 DEF Lifecycle!Next
<1>5. CASE CancelWrite(t)
  <2>1. Lifecycle!Cancel(t)
    BY <1>1, <1>2, <1>5 DEF CancelWrite, SetStatus, Lifecycle!Cancel
  <2> QED
    BY <2>1 DEF Lifecycle!Next
<1> QED
  BY <1>3, <1>4, <1>5 DEF Environment

(* The executors together implement TaskLifecycle, for any numbers, if no  *)
(* lock lapses under an executor that renews it.                           *)
THEOREM Refinement ==
  ASSUME ~LeaseLoss
  PROVE  Spec => ImplementsLifecycle
<1>1. Init => Lifecycle!Init
  <2> SUFFICES ASSUME Init PROVE Lifecycle!Init
    OBVIOUS
  <2>1. Worker = [t \in Tasks |-> None]
    BY DEF Worker, Init
  <2> QED
    BY <2>1 DEF Init, Lifecycle!Init
<1>2. TypeOK /\ ExclusionInv /\ ExclusionInv' /\ BoundInv /\ [Next]_vars
        => [Lifecycle!Next]_Visible
  <2> SUFFICES ASSUME TypeOK, ExclusionInv, ExclusionInv', BoundInv,
                      [Next]_vars
               PROVE  Lifecycle!Next \/ UNCHANGED Visible
    OBVIOUS
  <2>1. WorkerNamed /\ WorkerNamed'
    BY WorkerIsNamed, WorkerIsNamedNext
  <2>2. CASE UNCHANGED vars
    BY <2>2 DEF vars, store, env, Visible, Worker
  <2> QED
    BY <2>1, <2>2, StepMaps, DisturbMaps, EnvironmentMaps DEF Next
<1>4. Lifecycle!vars = Visible
  BY VisibleIs
<1>5. [Lifecycle!Next]_Visible <=> [Lifecycle!Next]_(Lifecycle!vars)
  BY DEF Visible, Lifecycle!vars
<1> QED
  BY <1>1, <1>2, <1>5, BoundIsInvariant, PTL
     DEF Spec, ImplementsLifecycle, Lifecycle!Spec

-----------------------------------------------------------------------------
(***************************************************************************)
(* What the queue, the processing list and the locks say about the tasks   *)
(* in work: every handler is in the processing list, whatever happens, and *)
(* without faults nothing leaks and no task is lost.                       *)
(***************************************************************************)

-----------------------------------------------------------------------------
(* The processing list                                                     *)

(* What one step does to the entries of a task and to its handlers.        *)
Keeps(t) ==
  processing'[t] = processing[t] /\ Handlers(t)' \subseteq Handlers(t)
Drops(e, t) ==
  /\ e \in Handlers(t)
  /\ Handlers(t)' = Handlers(t) \ {e}
  /\ processing'[t] = IF processing[t] > 0 THEN processing[t] - 1 ELSE 0
Adds(e, t) ==
  /\ processing'[t] = processing[t] + 1
  /\ Handlers(t)' \subseteq Handlers(t) \cup {e}

LEMMA CoverageKept ==
  ASSUME IsFiniteSet(Executors), TypeOK, ProcessingCoversHandlers,
         \A t \in Tasks :
           Keeps(t) \/ \E e \in Executors : Drops(e, t) \/ Adds(e, t)
  PROVE  ProcessingCoversHandlers'
<1> SUFFICES ASSUME NEW t \in Tasks
             PROVE  processing'[t] >= Cardinality(Handlers(t)')
  BY DEF ProcessingCoversHandlers
<1>1. /\ IsFiniteSet(Handlers(t)) /\ Cardinality(Handlers(t)) \in Nat
      /\ IsFiniteSet(Handlers(t)') /\ Cardinality(Handlers(t)') \in Nat
  <2>1. Handlers(t) \in SUBSET Executors /\ Handlers(t)' \in SUBSET Executors
    BY DEF Handlers
  <2>2. IsFiniteSet(Handlers(t)) /\ IsFiniteSet(Handlers(t)')
    BY <2>1, FS_Subset
  <2> QED
    BY <2>2, FS_CardinalityType
<1>2. processing[t] >= Cardinality(Handlers(t)) /\ processing[t] \in Nat
  BY DEF ProcessingCoversHandlers, TypeOK
<1>3. CASE Keeps(t)
  <2>1. Cardinality(Handlers(t)') <= Cardinality(Handlers(t))
    BY <1>1, <1>3, FS_Subset DEF Keeps
  <2> QED
    BY <1>1, <1>2, <1>3, <2>1 DEF Keeps
<1>4. ASSUME NEW e, Drops(e, t) PROVE processing'[t] >= Cardinality(Handlers(t)')
  <2>1. Cardinality(Handlers(t)') = Cardinality(Handlers(t)) - 1
    BY <1>1, <1>4, FS_RemoveElement DEF Drops
  <2> QED
    BY <1>1, <1>2, <1>4, <2>1 DEF Drops
<1>5. ASSUME NEW e, Adds(e, t) PROVE processing'[t] >= Cardinality(Handlers(t)')
  <2>1. /\ IsFiniteSet(Handlers(t) \cup {e})
        /\ Cardinality(Handlers(t) \cup {e}) <= Cardinality(Handlers(t)) + 1
    <3>1. /\ IsFiniteSet(Handlers(t) \cup {e})
          /\ Cardinality(Handlers(t) \cup {e}) =
               IF e \in Handlers(t) THEN Cardinality(Handlers(t))
                                   ELSE Cardinality(Handlers(t)) + 1
      BY <1>1, FS_AddElement
    <3> QED
      BY <1>1, <3>1
  <2>2. Cardinality(Handlers(t)') <= Cardinality(Handlers(t) \cup {e})
    BY <1>5, <2>1, FS_Subset DEF Adds
  <2>3. Cardinality(Handlers(t) \cup {e}) \in Nat
    BY <2>1, FS_CardinalityType
  <2> QED
    BY <1>1, <1>2, <1>5, <2>1, <2>2, <2>3 DEF Adds
<1> QED
  BY <1>3, <1>4, <1>5

(* An executor that stays in the list of its handlers, or leaves it.       *)
LEMMA KeepsWhenUnlisted ==
  ASSUME NEW e \in Executors, SameClaims(Executors \ {e}), NEW t \in Tasks,
         processing'[t] = processing[t],
         pc'[e] \in Listed /\ claimed'[e].task = t =>
           pc[e] \in Listed /\ claimed[e].task = t
  PROVE  Keeps(t)
BY DEF Keeps, Handlers, SameClaims

(* An LREM by the handler of a task, which is then its handler no longer.  *)
LEMMA LremDrops ==
  ASSUME TypeOK, NEW e \in Executors, SameClaims(Executors \ {e}),
         pc[e] \in Listed, pc'[e] \notin Listed, Lrem(claimed[e].task),
         NEW t \in Tasks
  PROVE  Keeps(t) \/ Drops(e, t)
<1>1. CASE t = claimed[e].task
  BY <1>1 DEF Drops, Handlers, SameClaims, Lrem, TypeOK
<1>2. CASE t # claimed[e].task
  <2>1. processing'[t] = processing[t]
    BY <1>2 DEF Lrem, TypeOK
  <2> QED
    BY <2>1, KeepsWhenUnlisted
<1> QED
  BY <1>1, <1>2

(* A claim, whether its reply arrives or not.                              *)
LEMMA PopAdds ==
  ASSUME TypeOK, NEW e \in Executors, SameClaims(Executors \ {e}),
         Brpoplpush,
         pc'[e] \in Listed => claimed'[e].task = Head(queue),
         NEW t \in Tasks
  PROVE  Keeps(t) \/ Adds(e, t)
<1>1. CASE t = Head(queue)
  <2>1. processing'[t] = processing[t] + 1
    BY <1>1 DEF Brpoplpush, TypeOK
  <2>2. Handlers(t)' \subseteq Handlers(t) \cup {e}
    BY DEF Handlers, SameClaims
  <2> QED
    BY <2>1, <2>2 DEF Adds
<1>2. CASE t # Head(queue)
  <2>1. processing'[t] = processing[t]
    BY <1>2 DEF Brpoplpush, TypeOK
  <2> QED
    BY <1>2, <2>1, KeepsWhenUnlisted
<1> QED
  BY <1>1, <1>2

LEMMA StepCovers ==
  ASSUME TypeOK, NEW e \in Executors, Step(e) \/ Disturb(e), NEW t \in Tasks
  PROVE  Keeps(t) \/ Drops(e, t) \/ Adds(e, t)
<1> USE DEF store, env
<1>0. SameClaims(Executors \ {e})
  BY StepBuries, DisturbSame DEF Burying
<1>u. /\ {"claim", "stopped", "wedged", "down", "requeuePush", "enqueue"}
           \cap Listed = {}
      /\ {"acquire", "load", "markRunning", "requeueRem", "unlock", "unlist"}
           \cup Engaged \subseteq Listed
  BY DEF Listed, Awaiting, HasCurrentTask, Engaged, Releasing
<1>p. NextPoll(e) => pc'[e] \notin Listed
  BY <1>u, NextPollLeaves
<1>1. CASE Claim(e)
  <2>1. claimed'[e].task = Head(queue)
    BY <1>1 DEF Claim, ClaimOf, TypeOK
  <2> QED
    BY <1>0, <1>1, <2>1, PopAdds DEF Claim
<1>2. CASE RequeueRemove(e) \/ Unlist(e)
  <2>1. Lrem(claimed[e].task) /\ pc[e] \in Listed
    BY <1>2, <1>u DEF RequeueRemove, Unlist
  <2>2. pc'[e] \notin Listed
    BY <1>2, <1>u, <1>p DEF RequeueRemove, Unlist, TypeOK
  <2> QED
    BY <1>0, <2>1, <2>2, LremDrops
<1>3. CASE ReplyLost(e)
  <2>1. pc'[e] \notin Listed
    BY <1>3, <1>u, ThrowLeaves DEF ReplyLost
  <2>2. CASE pc[e] = "claim"
    BY <1>0, <1>3, <2>1, <2>2, PopAdds DEF ReplyLost
  <2>3. CASE pc[e] \in {"requeueRem", "unlist"}
    BY <1>0, <1>3, <1>u, <2>1, <2>3, LremDrops DEF ReplyLost
  <2>4. CASE pc[e] \notin {"claim", "requeueRem", "unlist"}
    BY <1>0, <1>3, <2>1, <2>4, KeepsWhenUnlisted DEF ReplyLost
  <2> QED
    BY <2>2, <2>3, <2>4
<1>4. CASE Crash(e) \/ Restart(e) \/ CallFails(e)
  <2>1. UNCHANGED processing /\ pc'[e] \notin Listed
    BY <1>4, <1>u, ThrowLeaves DEF Crash, Restart, CallFails, TypeOK
  <2> QED
    BY <1>0, <2>1, KeepsWhenUnlisted
<1>5. CASE RenewalRefused(e) \/ RenewalError(e) \/ Stop(e)
  <2>1. UNCHANGED <<processing, pc>> /\ claimed'[e].task = claimed[e].task
    BY <1>5 DEF RenewalRefused, RenewalError, Stop, TypeOK, Claims
  <2> QED
    BY <1>0, <2>1, KeepsWhenUnlisted
<1>6. CASE RequeuePush(e) \/ Abandon(e) \/ WaitAbandoned(e) \/ Enqueue(e)
           \/ ExitLoop(e)
  <2>1. UNCHANGED processing /\ pc'[e] \notin Listed
    BY <1>6, <1>u, <1>p DEF RequeuePush, Abandon, WaitAbandoned, Enqueue,
                            ExitLoop, TypeOK
  <2> QED
    BY <1>0, <2>1, KeepsWhenUnlisted
<1>7. CASE \/ AcquireLock(e) \/ LockTaken(e) \/ LoadPending(e)
           \/ LoadRejected(e) \/ TimeOut(e) \/ Succeed(e) \/ Fail(e)
           \/ MarkTimedOut(e) \/ MarkCompleted(e) \/ MarkFailed(e)
           \/ BumpAttempt(e) \/ DeadLetter(e) \/ WaitOver(e)
           \/ MarkPending(e) \/ Unlock(e)
  <2>1. UNCHANGED processing /\ pc[e] \in Listed
    BY <1>7, <1>u
       DEF AcquireLock, LockTaken, LoadPending, LoadRejected, TimeOut,
           Succeed, Fail, MarkTimedOut, MarkCompleted, MarkFailed, Finish,
           BumpAttempt, DeadLetter, WaitOver, MarkPending, Unlock, Engaged
  <2>2. claimed'[e].task = claimed[e].task
    BY <1>7
       DEF AcquireLock, LockTaken, LoadPending, LoadRejected, TimeOut,
           Succeed, Fail, MarkTimedOut, MarkCompleted, MarkFailed, Finish,
           BumpAttempt, DeadLetter, WaitOver, MarkPending, Unlock, Release,
           TypeOK, Claims
  <2> QED
    BY <1>0, <2>1, <2>2, KeepsWhenUnlisted
<1>8. CASE MarkRunning(e)
  <2>1. UNCHANGED processing /\ pc[e] \in Listed
    BY <1>8, <1>u DEF MarkRunning
  <2>2. pc'[e] \in Listed => claimed'[e].task = claimed[e].task
    BY <1>8, <1>p DEF MarkRunning
  <2> QED
    BY <1>0, <2>1, <2>2, KeepsWhenUnlisted
<1> QED
  BY <1>1, <1>2, <1>3, <1>4, <1>5, <1>6, <1>7, <1>8 DEF Step, Disturb

(* Every task that a live executor is handling is in the processing list,  *)
(* once per handler, even when a lease was lost, for finitely many         *)
(* executors.                                                              *)
THEOREM Coverage ==
  ASSUME IsFiniteSet(Executors)
  PROVE  Spec => []ProcessingCoversHandlers
<1>1. Init => ProcessingCoversHandlers
  <2> SUFFICES ASSUME Init, NEW t \in Tasks
               PROVE  processing[t] >= Cardinality(Handlers(t))
    BY DEF ProcessingCoversHandlers
  <2>1. Handlers(t) = {}
    BY DEF Init, Handlers, Listed
  <2> QED
    BY <2>1, FS_EmptySet DEF Init
<1>2. TypeOK /\ ProcessingCoversHandlers /\ [Next]_vars
        => ProcessingCoversHandlers'
  <2> SUFFICES ASSUME TypeOK, ProcessingCoversHandlers, [Next]_vars
               PROVE  ProcessingCoversHandlers'
    OBVIOUS
  <2>1. CASE \E e \in Executors : Step(e) \/ Disturb(e)
    BY <2>1, StepCovers, CoverageKept
  <2>2. CASE UNCHANGED vars \/ \E t \in Tasks : Environment(t)
    <3>1. UNCHANGED <<processing, pc, claimed>>
      BY <2>2 DEF vars, store, Environment, LockLapses, Push, CancelRead,
                  CancelWrite
    <3>2. \A t \in Tasks : Keeps(t)
      BY <3>1 DEF Keeps, Handlers
    <3> QED
      BY <3>2, CoverageKept
  <2> QED
    BY <2>1, <2>2 DEF Next
<1> QED
  BY <1>1, <1>2, TypeCorrect, PTL DEF Spec

-----------------------------------------------------------------------------
(* Without faults                                                          *)

Calm == ~LeaseLoss /\ MaxFaults = 0 /\ MaxCrashes = 0

(* The calls during which the claimer renews the lock.                     *)
Holding == {"load", "markRunning"} \cup Engaged

(* A lock that is being renewed is held, a lock that is held is held by    *)
(* the executor that works on the task, and nobody aborts or stalls.       *)
CalmInv ==
  /\ \A e \in Executors :
       /\ ~claimed[e].aborted
       /\ pc[e] \notin {"wedged", "down"}
       /\ claimed[e].renewing => pc[e] \in Holding /\ lock[Task(e)] = e
  /\ \A t \in Tasks : lock[t] # None =>
       /\ Task(lock[t]) = t
       /\ pc[lock[t]] \in HasCurrentTask \ {"unlist"}

(* What executor e does, and stop(), when there are no faults.             *)
CalmStep(e) == Step(e) \/ Stop(e)

LEMMA CalmNext ==
  ASSUME Calm, TypeOK, CalmInv, Next
  PROVE  \/ \E e \in Executors : CalmStep(e)
         \/ \E t \in Tasks : Environment(t)
<1>1. ASSUME NEW e \in Executors, Disturb(e) PROVE Stop(e)
  <2>1. ~(faults < MaxFaults) /\ ~(crashes < MaxCrashes)
    BY DEF Calm, TypeOK
  <2>2. ~RenewalError(e) /\ ~CallFails(e) /\ ~ReplyLost(e) /\ ~Crash(e)
    BY <2>1 DEF RenewalError, CallFails, ReplyLost, Crash
  <2>3. ~RenewalRefused(e) /\ ~Restart(e)
    BY DEF CalmInv, RenewalRefused, Restart
  <2> QED
    BY <1>1, <2>2, <2>3 DEF Disturb
<1> QED
  BY <1>1 DEF Next, CalmStep

(* An executor changes its own locals only.                                *)
Alone(e) ==
  \A f \in Executors \ {e} : pc'[f] = pc[f] /\ claimed'[f] = claimed[f]

LEMMA NextPollIsAlone ==
  ASSUME TypeOK, NEW e \in Executors, NextPoll(e)
  PROVE  /\ Alone(e) /\ pc'[e] \in {"claim", "stopped"}
         /\ claimed'[e] = NoClaim
BY DEF NextPoll, Alone, TypeOK

LEMMA ReleaseIsAlone ==
  ASSUME TypeOK, NEW e \in Executors, Release(e)
  PROVE  /\ Alone(e) /\ pc'[e] = "unlock"
         /\ claimed'[e] = [claimed[e] EXCEPT !.renewing = FALSE]
BY DEF Release, Alone, TypeOK

LEMMA CalmStepIsAlone ==
  ASSUME TypeOK, NEW e \in Executors, CalmStep(e)
  PROVE  Alone(e)
<1>1. CASE NextPoll(e) \/ Release(e)
  BY <1>1, NextPollIsAlone, ReleaseIsAlone
<1>2. CASE ~(NextPoll(e) \/ Release(e))
  <2>1. /\ UNCHANGED pc \/ \E call : pc' = [pc EXCEPT ![e] = call]
        /\ \/ UNCHANGED claimed \/ \E c : claimed' = [claimed EXCEPT ![e] = c]
    BY <1>2
       DEF CalmStep, Step, Claim, AcquireLock, LockTaken, RequeueRemove,
           RequeuePush, ExitLoop, LoadPending, LoadRejected, MarkRunning,
           TimeOut, Abandon, Succeed, Fail, MarkTimedOut, MarkCompleted,
           MarkFailed, Finish, BumpAttempt, DeadLetter, WaitAbandoned,
           WaitOver, MarkPending, Unlock, Unlist, Enqueue, Stop, TypeOK
  <2> QED
    BY <2>1 DEF Alone, TypeOK
<1> QED
  BY <1>1, <1>2

(* The invariant survives a step of e that leaves the locks of others.     *)
LEMMA CalmKept ==
  ASSUME TypeOK, CalmInv, NEW e \in Executors, Alone(e), LocksOfOthersStay(e),
         \A t \in Tasks : lock'[t] \in {lock[t], None, e},
         ~claimed'[e].aborted, pc'[e] \notin {"wedged", "down"},
         claimed'[e].renewing =>
           pc'[e] \in Holding /\ lock'[claimed'[e].task] = e,
         \A t \in Tasks : lock'[t] = e =>
           claimed'[e].task = t /\ pc'[e] \in HasCurrentTask \ {"unlist"}
  PROVE  CalmInv'
<1>1. ASSUME NEW f \in Executors
      PROVE  /\ ~claimed'[f].aborted
             /\ pc'[f] \notin {"wedged", "down"}
             /\ claimed'[f].renewing =>
                  pc'[f] \in Holding /\ lock'[claimed'[f].task] = f
  <2>1. CASE f = e
    BY <2>1
  <2>2. CASE f # e
    <3>1. claimed[f].renewing => claimed[f].task \in Tasks
      BY DEF CalmInv, TypeOK, Awaiting, HasCurrentTask, Holding,
              Engaged
    <3> QED
      BY <2>2, <3>1 DEF CalmInv, Alone, LocksOfOthersStay
  <2> QED
    BY <2>1, <2>2
<1>2. ASSUME NEW t \in Tasks, lock'[t] # None
      PROVE  /\ claimed'[lock'[t]].task = t
             /\ pc'[lock'[t]] \in HasCurrentTask \ {"unlist"}
  <2>1. CASE lock'[t] = e
    BY <2>1
  <2>2. CASE lock'[t] # e
    BY <1>2, <2>2 DEF CalmInv, Alone, TypeOK
  <2> QED
    BY <2>1, <2>2
<1> QED
  BY <1>1, <1>2 DEF CalmInv

LEMMA StepCalm ==
  ASSUME TypeOK, CalmInv, NEW e \in Executors, CalmStep(e)
  PROVE  CalmInv'
<1> USE DEF store, env
<1>0. Alone(e)
  BY CalmStepIsAlone
<1>t. pc[e] \in HasCurrentTask \cup {"acquire"} => claimed[e].task \in Tasks
  BY DEF TypeOK, Awaiting, HasCurrentTask, Engaged, Releasing
<1>m. \A t \in Tasks : lock[t] = e =>
        claimed[e].task = t /\ pc[e] \in HasCurrentTask \ {"unlist"}
  BY NoneAssumption DEF CalmInv
<1>1. CASE AcquireLock(e)
  <2>1. /\ lock' = [lock EXCEPT ![claimed[e].task] = e]
        /\ lock[claimed[e].task] = None
        /\ claimed[e].task \in Tasks
    BY <1>1, <1>t DEF AcquireLock, SetNx
  <2>2. /\ claimed'[e].task = claimed[e].task /\ ~claimed'[e].aborted
        /\ pc'[e] = "load" /\ pc[e] = "acquire"
    BY <1>1 DEF AcquireLock, TypeOK, Claims, CalmInv
  <2>3. LocksOfOthersStay(e)
    BY <2>1, NoneAssumption DEF LocksOfOthersStay, TypeOK
  <2>4. pc[e] \notin HasCurrentTask
    BY <2>2 DEF HasCurrentTask, Engaged, Releasing
  <2>5. \A t \in Tasks : lock'[t] = e => t = claimed[e].task
    BY <1>m, <2>1, <2>4 DEF TypeOK
  <2>6. /\ pc'[e] \in HasCurrentTask \ {"unlist"}
        /\ pc'[e] \in Holding /\ pc'[e] \notin {"wedged", "down"}
    BY <2>2 DEF HasCurrentTask, Holding
  <2> QED
    BY <1>0, <2>1, <2>2, <2>3, <2>5, <2>6, CalmKept DEF TypeOK
<1>2. CASE Unlock(e)
  <2>1. /\ pc[e] = "unlock" /\ pc'[e] = "unlist" /\ UNCHANGED claimed
        /\ claimed[e].task \in Tasks
        /\ lock' = [lock EXCEPT ![claimed[e].task] =
                      IF lock[claimed[e].task] = e THEN None
                      ELSE lock[claimed[e].task]]
    BY <1>2, <1>t DEF Unlock, DelIfOwner, TypeOK, HasCurrentTask, Releasing
  <2>2. LocksOfOthersStay(e) /\ \A t \in Tasks : lock'[t] # e
    BY <1>m, <2>1, NoneAssumption DEF LocksOfOthersStay, TypeOK
  <2>3. \A t \in Tasks : lock'[t] \in {lock[t], None, e}
    BY <2>1 DEF TypeOK
  <2>4. ~claimed[e].renewing
    BY <2>1 DEF CalmInv, Holding, Engaged
  <2> QED
    BY <1>0, <2>1, <2>2, <2>3, <2>4, CalmKept DEF CalmInv
<1>3. ASSUME UNCHANGED lock, ~claimed'[e].aborted,
             pc'[e] \notin {"wedged", "down"},
             claimed'[e].renewing =>
               /\ pc'[e] \in Holding /\ claimed[e].renewing
               /\ claimed'[e].task = claimed[e].task,
             pc[e] \in HasCurrentTask \ {"unlist"} =>
               /\ pc'[e] \in HasCurrentTask \ {"unlist"}
               /\ claimed'[e].task = claimed[e].task
      PROVE  CalmInv'
  <2>1. LocksOfOthersStay(e) /\ \A t \in Tasks : lock'[t] \in {lock[t], None, e}
    BY <1>3 DEF LocksOfOthersStay
  <2>2. claimed'[e].renewing => lock'[claimed'[e].task] = e
    BY <1>3 DEF CalmInv
  <2>3. \A t \in Tasks : lock'[t] = e =>
          claimed'[e].task = t /\ pc'[e] \in HasCurrentTask \ {"unlist"}
    BY <1>3, <1>m
  <2> QED
    BY <1>0, <1>3, <2>1, <2>2, <2>3, CalmKept
<1>4. CASE \/ Claim(e) \/ LockTaken(e) \/ RequeueRemove(e) \/ RequeuePush(e)
           \/ ExitLoop(e) \/ Unlist(e) \/ Enqueue(e)
  <2>1. UNCHANGED lock /\ pc[e] \notin HasCurrentTask \ {"unlist"}
    BY <1>4 DEF Claim, LockTaken, RequeueRemove, RequeuePush, ExitLoop, Unlist,
                Enqueue, HasCurrentTask, Engaged, Releasing, CalmInv
  <2>2. ~claimed[e].renewing /\ ~claimed[e].aborted
    BY <2>1 DEF CalmInv, Holding, HasCurrentTask, Engaged
  <2>3. \/ claimed'[e] = claimed[e]
        \/ \E t : claimed'[e] = ClaimOf(t)
    BY <1>4 DEF Claim, LockTaken, RequeueRemove, RequeuePush, ExitLoop, Unlist,
                Enqueue, NextPoll, NoClaim, TypeOK
  <2>4. ~claimed'[e].renewing /\ ~claimed'[e].aborted
    <3>1. CASE claimed'[e] = claimed[e]
      BY <2>2, <3>1
    <3>2. ASSUME NEW t, claimed'[e] = ClaimOf(t)
          PROVE  ~claimed'[e].renewing /\ ~claimed'[e].aborted
      BY <3>2 DEF ClaimOf
    <3> QED
      BY <2>3, <3>1, <3>2
  <2>5. pc'[e] \notin {"wedged", "down"}
    BY <1>4 DEF Claim, LockTaken, RequeueRemove, RequeuePush, ExitLoop, Unlist,
                Enqueue, NextPoll, TypeOK
  <2> QED
    BY <1>3, <2>1, <2>4, <2>5
<1>5. CASE \/ LoadPending(e) \/ MarkRunning(e) \/ TimeOut(e) \/ Succeed(e)
           \/ Fail(e) \/ BumpAttempt(e) \/ DeadLetter(e) \/ WaitOver(e)
  <2>0. ~claimed[e].aborted
    BY DEF CalmInv
  <2>1. /\ claimed'[e].task = claimed[e].task
        /\ claimed'[e].renewing = claimed[e].renewing
        /\ claimed'[e].aborted = claimed[e].aborted
    BY <1>5, <2>0
       DEF LoadPending, MarkRunning, TimeOut, Succeed, Fail, BumpAttempt,
           DeadLetter, WaitOver, TypeOK, Claims
  <2>2. UNCHANGED lock
    BY <1>5 DEF LoadPending, MarkRunning, TimeOut, Succeed, Fail, BumpAttempt,
                DeadLetter, WaitOver
  <2>3. pc'[e] \in Holding
    BY <1>5 DEF LoadPending, MarkRunning, TimeOut, Succeed, Fail, BumpAttempt,
                DeadLetter, WaitOver, CalmInv, TypeOK, Holding, Engaged
  <2>4. /\ Holding \subseteq HasCurrentTask \ {"unlist"}
        /\ "wedged" \notin Holding /\ "down" \notin Holding
    BY DEF Holding, HasCurrentTask, Engaged
  <2> QED
    BY <1>3, <2>0, <2>1, <2>2, <2>3, <2>4
<1>6. CASE \/ LoadRejected(e) \/ MarkTimedOut(e) \/ MarkCompleted(e)
           \/ MarkFailed(e) \/ MarkPending(e)
  <2>1. UNCHANGED lock /\ pc'[e] = "unlock"
    BY <1>6 DEF LoadRejected, MarkTimedOut, MarkCompleted, MarkFailed, Finish,
                MarkPending, Release, TypeOK
  <2>2. /\ claimed'[e].task = claimed[e].task
        /\ claimed'[e].renewing = FALSE
        /\ claimed'[e].aborted = claimed[e].aborted
    BY <1>6 DEF LoadRejected, MarkTimedOut, MarkCompleted, MarkFailed, Finish,
                MarkPending, Release, TypeOK, Claims
  <2>3. ~claimed'[e].renewing /\ ~claimed'[e].aborted
    BY <2>2 DEF CalmInv
  <2> QED
    BY <1>3, <2>1, <2>2, <2>3 DEF HasCurrentTask, Releasing
<1>7. CASE Stop(e)
  <2>1. /\ UNCHANGED <<lock, pc>>
        /\ claimed'[e].task = claimed[e].task
        /\ ~claimed'[e].renewing /\ ~claimed'[e].aborted
    BY <1>7 DEF Stop, TypeOK, Claims, CalmInv
  <2> QED
    BY <1>3, <2>1 DEF CalmInv
<1>8. ~Abandon(e) /\ ~WaitAbandoned(e)
  BY DEF CalmInv, Abandon, WaitAbandoned
<1> QED
  BY <1>1, <1>2, <1>4, <1>5, <1>6, <1>7, <1>8 DEF CalmStep, Step

LEMMA EnvironmentCalm ==
  ASSUME Calm, TypeOK, CalmInv, NEW t \in Tasks, Environment(t)
  PROVE  CalmInv'
<1>1. CASE LockLapses(t)
  <2>1. lock' = [lock EXCEPT ![t] = None] /\ UNCHANGED <<pc, claimed>>
    BY <1>1 DEF LockLapses
  <2>2. \A e \in Executors : claimed[e].renewing => claimed[e].task # t
    BY <1>1 DEF LockLapses, Protected, Calm, CalmInv
  <2>3. \A e \in Executors : claimed[e].renewing => claimed[e].task \in Tasks
    BY DEF CalmInv, TypeOK, Awaiting, HasCurrentTask, Holding,
              Engaged
  <2> QED
    BY <2>1, <2>2, <2>3 DEF CalmInv, TypeOK
<1>2. CASE Push(t) \/ CancelRead(t) \/ CancelWrite(t)
  <2>1. UNCHANGED <<lock, pc, claimed>>
    BY <1>2 DEF Push, CancelRead, CancelWrite, store
  <2> QED
    BY <2>1 DEF CalmInv
<1> QED
  BY <1>1, <1>2 DEF Environment

LEMMA CalmIsInvariant ==
  ASSUME Calm
  PROVE  Spec => [](TypeOK /\ CalmInv)
<1>1. Init => CalmInv
  BY NoneAssumption DEF Init, CalmInv, NoClaim, ClaimOf
<1>2. TypeOK /\ CalmInv /\ [Next]_vars => CalmInv'
  <2> SUFFICES ASSUME TypeOK, CalmInv, [Next]_vars PROVE CalmInv'
    OBVIOUS
  <2>1. CASE UNCHANGED vars
    BY <2>1 DEF vars, store, CalmInv
  <2> QED
    BY <2>1, CalmNext, StepCalm, EnvironmentCalm
<1> QED
  BY <1>1, <1>2, TypeCorrect, PTL DEF Spec

(* Without faults the processing list holds one entry for each handler.    *)
Exact == \A t \in Tasks : processing[t] = Cardinality(Handlers(t))

LEMMA ExactKept ==
  ASSUME IsFiniteSet(Executors), TypeOK, CalmInv, Exact, NEW e \in Executors,
         CalmStep(e)
  PROVE  Exact'
<1> USE DEF store, env
<1>0. SameClaims(Executors \ {e})
  BY CalmStepIsAlone DEF Alone, SameClaims
<1> SUFFICES ASSUME NEW t \in Tasks
             PROVE  processing'[t] = Cardinality(Handlers(t)')
  BY DEF Exact
<1>1. /\ IsFiniteSet(Handlers(t)) /\ Cardinality(Handlers(t)) \in Nat
      /\ processing[t] = Cardinality(Handlers(t))
  <2>1. Handlers(t) \in SUBSET Executors
    BY DEF Handlers
  <2>2. IsFiniteSet(Handlers(t))
    BY <2>1, FS_Subset
  <2> QED
    BY <2>2, FS_CardinalityType DEF Exact
<1>u. /\ {"claim", "stopped", "wedged", "down", "requeuePush", "enqueue"}
           \cap Listed = {}
      /\ {"acquire", "load", "markRunning", "requeueRem", "unlock", "unlist"}
           \cup Engaged \subseteq Listed
  BY DEF Listed, Awaiting, HasCurrentTask, Engaged, Releasing
<1>2. ASSUME Handlers(t)' = Handlers(t) \cup {e}, e \notin Handlers(t),
             processing'[t] = processing[t] + 1
      PROVE  processing'[t] = Cardinality(Handlers(t)')
  BY <1>1, <1>2, FS_AddElement
<1>3. ASSUME Handlers(t)' = Handlers(t) \ {e}, e \in Handlers(t),
             processing'[t] = IF processing[t] > 0 THEN processing[t] - 1 ELSE 0
      PROVE  processing'[t] = Cardinality(Handlers(t)')
  <2>1. Cardinality(Handlers(t)') = Cardinality(Handlers(t)) - 1
    BY <1>1, <1>3, FS_RemoveElement
  <2>2. Cardinality(Handlers(t)) # 0
    BY <1>1, <1>3, FS_EmptySet
  <2> QED
    BY <1>1, <1>3, <2>1, <2>2
<1>4. ASSUME pc'[e] \in Listed <=> pc[e] \in Listed,
             pc[e] \in Listed => claimed'[e].task = claimed[e].task,
             processing'[t] = processing[t]
      PROVE  processing'[t] = Cardinality(Handlers(t)')
  <2>1. Handlers(t)' = Handlers(t)
    BY <1>0, <1>4 DEF Handlers, SameClaims
  <2> QED
    BY <1>1, <1>4, <2>1
<1>5. CASE Claim(e)
  <2>1. /\ pc[e] = "claim" /\ pc'[e] = "acquire"
        /\ claimed'[e].task = Head(queue)
    BY <1>5 DEF Claim, ClaimOf, TypeOK
  <2>2. e \notin Handlers(t) /\ (e \in Handlers(t)' <=> t = Head(queue))
    BY <1>u, <2>1 DEF Handlers
  <2>3. \A f \in Executors \ {e} : f \in Handlers(t)' <=> f \in Handlers(t)
    BY <1>0 DEF Handlers, SameClaims
  <2>4. Handlers(t) \subseteq Executors /\ Handlers(t)' \subseteq Executors
    BY DEF Handlers
  <2>5. CASE t = Head(queue)
    BY <1>2, <1>5, <2>2, <2>3, <2>4, <2>5 DEF Claim, Brpoplpush, TypeOK
  <2>6. CASE t # Head(queue)
    <3>1. Handlers(t)' = Handlers(t)
      BY <2>2, <2>3, <2>4, <2>6
    <3>2. processing'[t] = processing[t]
      BY <1>5, <2>6 DEF Claim, Brpoplpush, TypeOK
    <3> QED
      BY <1>1, <3>1, <3>2
  <2> QED
    BY <2>5, <2>6
<1>6. CASE RequeueRemove(e) \/ Unlist(e)
  <2>1. pc[e] \in Listed /\ Lrem(claimed[e].task)
    BY <1>6, <1>u DEF RequeueRemove, Unlist
  <2>2. pc'[e] \notin Listed
    BY <1>6, <1>u, NextPollIsAlone DEF RequeueRemove, Unlist, TypeOK
  <2>3. CASE t = claimed[e].task
    <3>1. Handlers(t)' = Handlers(t) \ {e} /\ e \in Handlers(t)
      BY <1>0, <2>1, <2>2, <2>3 DEF Handlers, SameClaims
    <3>2. processing'[t] = IF processing[t] > 0 THEN processing[t] - 1 ELSE 0
      BY <2>1, <2>3 DEF Lrem, TypeOK
    <3> QED
      BY <1>3, <3>1, <3>2
  <2>4. CASE t # claimed[e].task
    <3>1. Handlers(t)' = Handlers(t)
      BY <1>0, <2>1, <2>2, <2>4 DEF Handlers, SameClaims
    <3>2. processing'[t] = processing[t]
      BY <2>1, <2>4 DEF Lrem, TypeOK
    <3> QED
      BY <1>1, <3>1, <3>2
  <2> QED
    BY <2>3, <2>4
<1>7. CASE RequeuePush(e) \/ Enqueue(e) \/ ExitLoop(e)
  <2>1. UNCHANGED processing /\ pc[e] \notin Listed /\ pc'[e] \notin Listed
    BY <1>7, <1>u, NextPollIsAlone DEF RequeuePush, Enqueue, ExitLoop, TypeOK
  <2> QED
    BY <1>4, <2>1
<1>8. CASE \/ AcquireLock(e) \/ LockTaken(e) \/ LoadPending(e)
           \/ LoadRejected(e) \/ TimeOut(e) \/ Succeed(e) \/ Fail(e)
           \/ MarkTimedOut(e) \/ MarkCompleted(e) \/ MarkFailed(e)
           \/ BumpAttempt(e) \/ DeadLetter(e) \/ WaitOver(e)
           \/ MarkPending(e) \/ Unlock(e) \/ MarkRunning(e)
  <2>1. UNCHANGED processing /\ pc[e] \in Listed
    BY <1>8, <1>u
       DEF AcquireLock, LockTaken, LoadPending, LoadRejected, TimeOut,
           Succeed, Fail, MarkTimedOut, MarkCompleted, MarkFailed, Finish,
           BumpAttempt, DeadLetter, WaitOver, MarkPending, Unlock,
           MarkRunning, Engaged
  <2>2. claimed'[e].task = claimed[e].task
    BY <1>8
       DEF AcquireLock, LockTaken, LoadPending, LoadRejected, TimeOut,
           Succeed, Fail, MarkTimedOut, MarkCompleted, MarkFailed, Finish,
           BumpAttempt, DeadLetter, WaitOver, MarkPending, Unlock, Release,
           MarkRunning, TypeOK, Claims, CalmInv
  <2>3. CASE LoadRejected(e) \/ MarkTimedOut(e) \/ MarkCompleted(e)
             \/ MarkFailed(e)
    <3>1. pc'[e] = "unlock"
      BY <2>3, ReleaseIsAlone
         DEF LoadRejected, MarkTimedOut, MarkCompleted, MarkFailed, Finish
    <3> QED
      BY <1>4, <1>u, <2>1, <2>2, <3>1
  <2>4. CASE ~(LoadRejected(e) \/ MarkTimedOut(e) \/ MarkCompleted(e)
               \/ MarkFailed(e))
    <3>1. pc'[e] \in {"load", "markRunning", "requeueRem", "unlock", "unlist"}
                       \cup Engaged
      BY <1>8, <2>4
         DEF AcquireLock, LockTaken, LoadPending, TimeOut, Succeed, Fail,
             BumpAttempt, DeadLetter, WaitOver, MarkPending, Unlock,
             MarkRunning, TypeOK, CalmInv, Engaged
    <3> QED
      BY <1>4, <1>u, <2>1, <2>2, <3>1
  <2> QED
    BY <2>3, <2>4
<1>9. CASE Stop(e)
  <2>1. UNCHANGED <<processing, pc>> /\ claimed'[e].task = claimed[e].task
    BY <1>9 DEF Stop, TypeOK, Claims
  <2> QED
    BY <1>4, <2>1
<1>10. ~Abandon(e) /\ ~WaitAbandoned(e)
  BY DEF CalmInv, Abandon, WaitAbandoned
<1> QED
  BY <1>5, <1>6, <1>7, <1>8, <1>9, <1>10 DEF CalmStep, Step

(* Without faults the processing list holds nothing but one entry for each *)
(* handler, and a lock is held by a handler of its task only.              *)
THEOREM NoLeak ==
  ASSUME Calm, IsFiniteSet(Executors)
  PROVE  Spec => []NothingLeaks
<1>1. Init => Exact
  <2> SUFFICES ASSUME Init, NEW t \in Tasks
               PROVE  processing[t] = Cardinality(Handlers(t))
    BY DEF Exact
  <2>1. Handlers(t) = {}
    BY DEF Init, Handlers, Listed
  <2> QED
    BY <2>1, FS_EmptySet DEF Init
<1>2. TypeOK /\ CalmInv /\ Exact /\ [Next]_vars => Exact'
  <2> SUFFICES ASSUME TypeOK, CalmInv, Exact, [Next]_vars PROVE Exact'
    OBVIOUS
  <2>1. CASE UNCHANGED vars \/ \E t \in Tasks : Environment(t)
    <3>1. UNCHANGED <<processing, pc, claimed>>
      BY <2>1 DEF vars, store, Environment, LockLapses, Push, CancelRead,
                  CancelWrite
    <3> QED
      BY <3>1 DEF Exact, Handlers
  <2> QED
    BY <2>1, CalmNext, ExactKept
<1>3. TypeOK /\ CalmInv /\ Exact => NothingLeaks
  <2> SUFFICES ASSUME TypeOK, CalmInv, Exact, NEW t \in Tasks, lock[t] # None
               PROVE  lock[t] \in Handlers(t)
    BY DEF NothingLeaks, Exact
  <2> QED
    BY DEF CalmInv, Handlers, Listed, Awaiting, HasCurrentTask, Engaged,
           Releasing, TypeOK
<1> QED
  BY <1>1, <1>2, <1>3, CalmIsInvariant, PTL DEF Spec

-----------------------------------------------------------------------------
(* No task is lost                                                         *)

(* Where a task is that has to be run (again): an executor has claimed it  *)
(* and not marked it running yet, or will put it back into the queue.      *)
Carries(e, t) ==
  /\ Task(e) = t
  /\ \/ pc[e] \in {"acquire", "requeueRem", "requeuePush", "load",
                   "markRunning", "enqueue"}
     \/ pc[e] \in Releasing /\ claimed[e].again

Runs(e, t) == pc[e] \in Engaged /\ Task(e) = t

LostInv ==
  \A t \in Tasks :
    /\ status[t] = "pending" /\ pushed[t] > 0 =>
         InQueue(t) \/ \E e \in Executors : Carries(e, t)
    /\ status[t] = "running" => \E e \in Executors : Runs(e, t)
    /\ status[t] # "skipped"

LEMMA LostInvSuffices ==
  ASSUME TypeOK, LostInv
  PROVE  NoTaskLost
<1> SUFFICES ASSUME NEW t \in Tasks, pushed[t] > 0,
                    status[t] \notin TerminalStates
             PROVE  \/ InQueue(t)
                    \/ \E e \in Executors :
                         Task(e) = t /\ pc[e] \in Awaiting \ {"claim"}
  BY DEF NoTaskLost
<1>1. status[t] \in {"pending", "running"}
  BY DEF TypeOK, TaskStatus, TerminalStates, LostInv
<1>2. \A e \in Executors : Carries(e, t) \/ Runs(e, t) =>
        Task(e) = t /\ pc[e] \in Awaiting \ {"claim"}
  BY DEF Carries, Runs, Awaiting, HasCurrentTask, Engaged, Releasing
<1> QED
  BY <1>1, <1>2 DEF LostInv

(* What a step of e does to a task that it holds, or that is in the queue. *)
Forwards(e, t) ==
  /\ status'[t] = "pending" /\ pushed[t] > 0 =>
       \/ InQueue(t)' \/ Carries(e, t)'
       \/ status[t] = "pending" /\ ~InQueue(t) /\ ~Carries(e, t)
  /\ status'[t] = "running" =>
       Runs(e, t)' \/ (status[t] = "running" /\ ~Runs(e, t))
  /\ status'[t] # "skipped"

LEMMA ForwardsKeeps ==
  ASSUME TypeOK, LostInv, NEW e \in Executors, Alone(e), UNCHANGED pushed,
         \A t \in Tasks : Forwards(e, t)
  PROVE  LostInv'
<1> SUFFICES ASSUME NEW t \in Tasks
             PROVE  /\ status'[t] = "pending" /\ pushed[t] > 0 =>
                         InQueue(t)' \/ \E f \in Executors : Carries(f, t)'
                    /\ status'[t] = "running" =>
                         \E f \in Executors : Runs(f, t)'
                    /\ status'[t] # "skipped"
  BY DEF LostInv
<1>1. \A f \in Executors \ {e} :
        /\ Carries(f, t) => Carries(f, t)'
        /\ Runs(f, t) => Runs(f, t)'
  BY DEF Alone, Carries, Runs
<1>2. Forwards(e, t)
  OBVIOUS
<1> QED
  BY <1>1, <1>2 DEF LostInv, Forwards

LEMMA AppendQueues ==
  ASSUME queue \in Seq(Tasks), NEW t \in Tasks, Lpush(t)
  PROVE  InQueue(t)' /\ \A u \in Tasks : InQueue(u) => InQueue(u)'
<1>1. /\ Len(queue') = Len(queue) + 1
      /\ queue'[Len(queue) + 1] = t
      /\ \A i \in 1..Len(queue) : queue'[i] = queue[i]
      /\ Len(queue) \in Nat
  BY DEF Lpush
<1> QED
  BY <1>1 DEF InQueue

LEMMA TailQueues ==
  ASSUME queue \in Seq(Tasks), Brpoplpush
  PROVE  \A u \in Tasks : InQueue(u) => InQueue(u)' \/ u = Head(queue)
<1> SUFFICES ASSUME NEW i \in 1..Len(queue), queue[i] # Head(queue)
             PROVE  \E j \in 1..Len(queue') : queue'[j] = queue[i]
  BY DEF InQueue
<1>1. /\ Len(queue) \in Nat /\ Len(queue') = Len(queue) - 1
      /\ \A j \in 1..Len(queue') : queue'[j] = queue[j + 1]
      /\ Head(queue) = queue[1]
  BY DEF Brpoplpush
<1>2. i - 1 \in 1..Len(queue') /\ queue'[i - 1] = queue[i]
  BY <1>1
<1> QED
  BY <1>2

LEMMA StepPushesNothing ==
  ASSUME NEW e \in Executors, CalmStep(e)
  PROVE  UNCHANGED pushed
BY DEF CalmStep, Step, Claim, AcquireLock, LockTaken, RequeueRemove,
       RequeuePush, ExitLoop, LoadPending, LoadRejected, MarkRunning,
       TimeOut, Abandon, Succeed, Fail, MarkTimedOut, MarkCompleted,
       MarkFailed, Finish, BumpAttempt, DeadLetter, WaitAbandoned,
       WaitOver, MarkPending, Unlock, Unlist, Enqueue, Stop, store, env

LEMMA StepForwards ==
  ASSUME TypeOK, CalmInv, LostInv, NEW e \in Executors, CalmStep(e),
         NEW t \in Tasks
  PROVE  Forwards(e, t)
<1> USE DEF store, env
<1>0. status[t] # "skipped" /\ queue \in Seq(Tasks)
  BY DEF LostInv, TypeOK
<1>a. ~claimed[e].aborted /\ claimed[e].task = Task(e)
  BY DEF CalmInv
<1>t. pc[e] \in Awaiting \ {"claim"} => claimed[e].task \in Tasks
  BY DEF TypeOK
<1>i. UNCHANGED queue => (InQueue(t)' <=> InQueue(t))
  BY DEF InQueue
<1>1. CASE Claim(e)
  <2>1. InQueue(t) => InQueue(t)' \/ t = Head(queue)
    BY <1>0, <1>1, TailQueues DEF Claim
  <2>2. /\ pc[e] = "claim" /\ pc'[e] = "acquire"
        /\ claimed'[e].task = Head(queue)
        /\ UNCHANGED <<status, pushed>>
    BY <1>1 DEF Claim, ClaimOf, TypeOK
  <2>3. ~Carries(e, t) /\ ~Runs(e, t) /\ (t = Head(queue) => Carries(e, t)')
    BY <2>2 DEF Carries, Runs, Engaged, Releasing
  <2> QED
    BY <1>0, <2>1, <2>2, <2>3 DEF Forwards
<1>2. CASE RequeuePush(e) \/ Enqueue(e)
  <2>1. claimed[e].task \in Tasks
    BY <1>2, <1>t DEF RequeuePush, Enqueue, Awaiting
  <2>u. PICK u \in Tasks : u = claimed[e].task /\ Lpush(u)
    BY <1>2, <2>1 DEF RequeuePush, Enqueue
  <2>2. InQueue(u)' /\ (InQueue(t) => InQueue(t)')
    BY <1>0, <2>u, AppendQueues
  <2>3. ~Runs(e, t) /\ UNCHANGED <<status, pushed>>
    BY <1>2 DEF RequeuePush, Enqueue, Runs, Engaged
  <2>4. Carries(e, t) => InQueue(t)'
    BY <2>2, <2>u DEF Carries
  <2> QED
    BY <1>0, <2>2, <2>3, <2>4 DEF Forwards
<1>3. CASE AcquireLock(e) \/ LockTaken(e) \/ RequeueRemove(e) \/ ExitLoop(e)
           \/ LoadPending(e) \/ Unlock(e) \/ Stop(e)
  <2>1. /\ UNCHANGED <<status, queue, pushed>>
        /\ claimed'[e].task = claimed[e].task
        /\ claimed'[e].again = claimed[e].again
    BY <1>3 DEF AcquireLock, LockTaken, RequeueRemove, ExitLoop, LoadPending,
                Unlock, Stop, TypeOK, Claims
  <2>2. Carries(e, t) => Carries(e, t)'
    BY <1>3, <2>1
       DEF AcquireLock, LockTaken, RequeueRemove, ExitLoop, LoadPending,
           Unlock, Stop, Carries, Releasing, TypeOK
  <2>3. Runs(e, t) => Runs(e, t)'
    BY <1>3, <2>1
       DEF AcquireLock, LockTaken, RequeueRemove, ExitLoop, LoadPending,
           Unlock, Stop, Runs, Engaged, TypeOK
  <2> QED
    BY <1>0, <1>i, <2>1, <2>2, <2>3 DEF Forwards
<1>4. CASE LoadRejected(e)
  <2>1. /\ pc[e] = "load" /\ UNCHANGED <<status, queue, pushed>>
        /\ status[claimed[e].task] # "pending"
    BY <1>4 DEF LoadRejected, CanTransition, ValidTransitions,
                TerminalStates, TaskStatus
  <2>2. ~Runs(e, t) /\ (Carries(e, t) => status[t] # "pending")
    BY <2>1 DEF Runs, Engaged, Carries
  <2> QED
    BY <1>0, <1>i, <2>1, <2>2 DEF Forwards
<1>5. CASE MarkRunning(e)
  <2>1. /\ pc[e] = "markRunning" /\ pc'[e] = "execute"
        /\ UNCHANGED <<queue, pushed, claimed>>
        /\ status' = [status EXCEPT ![claimed[e].task] = "running"]
    BY <1>5, <1>a DEF MarkRunning, SetStatus, TypeOK
  <2>2. claimed[e].task = t => status'[t] = "running" /\ Runs(e, t)'
    BY <2>1 DEF Runs, Engaged, TypeOK
  <2>3. claimed[e].task # t =>
          status'[t] = status[t] /\ ~Runs(e, t) /\ ~Carries(e, t)
    BY <2>1 DEF Runs, Carries, TypeOK
  <2> QED
    BY <1>0, <1>i, <2>1, <2>2, <2>3 DEF Forwards
<1>6. CASE \/ TimeOut(e) \/ Succeed(e) \/ Fail(e) \/ BumpAttempt(e)
           \/ DeadLetter(e) \/ WaitOver(e)
  <2>1. /\ pc[e] \in Engaged /\ UNCHANGED <<status, queue, pushed, claimed>>
        /\ pc'[e] \in Engaged
    BY <1>6 DEF TimeOut, Succeed, Fail, BumpAttempt, DeadLetter, WaitOver,
                Engaged, TypeOK
  <2>2. ~Carries(e, t) /\ (Runs(e, t) => Runs(e, t)')
    BY <2>1 DEF Carries, Runs, Engaged, Releasing
  <2> QED
    BY <1>0, <1>i, <2>1, <2>2 DEF Forwards
<1>7. CASE MarkTimedOut(e) \/ MarkCompleted(e) \/ MarkFailed(e)
  <2>1. PICK final \in {"timed_out", "completed", "failed"} :
          status' = [status EXCEPT ![claimed[e].task] = final]
    BY <1>7 DEF MarkTimedOut, MarkCompleted, MarkFailed, Finish, SetStatus
  <2>2. pc[e] \in Engaged /\ UNCHANGED <<queue, pushed>>
    BY <1>7 DEF MarkTimedOut, MarkCompleted, MarkFailed, Finish, Engaged
  <2>3. claimed[e].task = t => status'[t] = final
    BY <2>1 DEF TypeOK
  <2>4. claimed[e].task # t => status'[t] = status[t] /\ ~Runs(e, t)
    BY <2>1 DEF Runs, TypeOK
  <2>5. ~Carries(e, t)
    BY <2>2 DEF Carries, Engaged, Releasing
  <2> QED
    BY <1>0, <1>i, <2>1, <2>2, <2>3, <2>4, <2>5 DEF Forwards
<1>8. CASE MarkPending(e)
  <2>1. /\ pc[e] = "markPending" /\ pc'[e] = "unlock"
        /\ UNCHANGED <<queue, pushed>>
        /\ claimed'[e].task = claimed[e].task /\ claimed'[e].again = TRUE
        /\ status' = [status EXCEPT ![claimed[e].task] = "pending"]
    BY <1>8 DEF MarkPending, SetStatus, TypeOK, Claims
  <2>2. claimed[e].task = t => status'[t] = "pending" /\ Carries(e, t)'
    BY <2>1 DEF Carries, Releasing, TypeOK
  <2>3. claimed[e].task # t => status'[t] = status[t] /\ ~Runs(e, t)
    BY <2>1 DEF Runs, TypeOK
  <2>4. ~Carries(e, t)
    BY <2>1 DEF Carries, Releasing
  <2> QED
    BY <1>0, <1>i, <2>1, <2>2, <2>3, <2>4 DEF Forwards
<1>9. CASE Unlist(e)
  <2>1. pc[e] = "unlist" /\ UNCHANGED <<status, queue, pushed>>
    BY <1>9 DEF Unlist
  <2>2. ~Runs(e, t)
    BY <2>1 DEF Runs, Engaged
  <2>3. ASSUME Carries(e, t) PROVE Carries(e, t)'
    <3>1. claimed[e].again /\ claimed[e].task = t
      BY <2>1, <2>3 DEF Carries
    <3>2. pc'[e] = "enqueue" /\ claimed'[e].task = t
      BY <1>9, <3>1 DEF Unlist, ClaimOf, TypeOK
    <3> QED
      BY <3>2 DEF Carries
  <2> QED
    BY <1>0, <1>i, <2>1, <2>2, <2>3 DEF Forwards
<1>10. ~Abandon(e) /\ ~WaitAbandoned(e)
  BY DEF CalmInv, Abandon, WaitAbandoned
<1> QED
  BY <1>1, <1>2, <1>3, <1>4, <1>5, <1>6, <1>7, <1>8, <1>9, <1>10
     DEF CalmStep, Step

LEMMA EnvironmentForwards ==
  ASSUME TypeOK, LostInv, NEW t \in Tasks, Environment(t)
  PROVE  LostInv'
<1> USE DEF store, env
<1>1. UNCHANGED <<pc, claimed>>
  BY DEF Environment, LockLapses, Push, CancelRead, CancelWrite
<1>2. \A e \in Executors, u \in Tasks :
        Carries(e, u)' = Carries(e, u) /\ Runs(e, u)' = Runs(e, u)
  BY <1>1 DEF Carries, Runs
<1>3. CASE Push(t)
  <2>1. InQueue(t)' /\ \A u \in Tasks : InQueue(u) => InQueue(u)'
    BY <1>3, AppendQueues DEF Push, TypeOK
  <2>2. UNCHANGED status /\ \A u \in Tasks : u # t => pushed'[u] = pushed[u]
    BY <1>3 DEF Push, TypeOK
  <2> QED
    BY <1>2, <2>1, <2>2 DEF LostInv
<1>4. CASE LockLapses(t) \/ CancelRead(t) \/ CancelWrite(t)
  <2>1. UNCHANGED <<queue, pushed>>
    BY <1>4 DEF LockLapses, CancelRead, CancelWrite
  <2>2. \A u \in Tasks : status'[u] = status[u] \/ status'[u] = "cancelled"
    BY <1>4 DEF LockLapses, CancelRead, CancelWrite, SetStatus, TypeOK
  <2>3. \A u \in Tasks : InQueue(u)' = InQueue(u)
    BY <2>1 DEF InQueue
  <2> QED
    BY <1>2, <2>1, <2>2, <2>3 DEF LostInv
<1> QED
  BY <1>3, <1>4 DEF Environment

(* Without faults a task that was pushed and has not finished is in the    *)
(* queue or in the hands of an executor.                                   *)
THEOREM NoLoss ==
  ASSUME Calm
  PROVE  Spec => []NoTaskLost
<1>1. Init => LostInv
  BY DEF Init, LostInv
<1>2. TypeOK /\ CalmInv /\ LostInv /\ [Next]_vars => LostInv'
  <2> SUFFICES ASSUME TypeOK, CalmInv, LostInv, [Next]_vars PROVE LostInv'
    OBVIOUS
  <2>1. CASE UNCHANGED vars
    <3>1. UNCHANGED <<status, queue, pushed, pc, claimed>>
      BY <2>1 DEF vars, store, env
    <3>2. \A t \in Tasks : InQueue(t) => InQueue(t)'
      BY <3>1 DEF InQueue
    <3>3. \A t \in Tasks, e \in Executors :
            /\ Carries(e, t) => Carries(e, t)'
            /\ Runs(e, t) => Runs(e, t)'
      BY <3>1 DEF Carries, Runs
    <3> SUFFICES ASSUME NEW t \in Tasks
                 PROVE  /\ status[t] = "pending" /\ pushed[t] > 0 =>
                             InQueue(t)' \/ \E e \in Executors : Carries(e, t)'
                        /\ status[t] = "running" =>
                             \E e \in Executors : Runs(e, t)'
                        /\ status[t] # "skipped"
      BY <3>1 DEF LostInv
    <3> QED
      BY <3>2, <3>3 DEF LostInv
  <2>2. ASSUME NEW e \in Executors, CalmStep(e) PROVE LostInv'
    BY <2>2, CalmStepIsAlone, StepPushesNothing, StepForwards, ForwardsKeeps
  <2>3. ASSUME NEW t \in Tasks, Environment(t) PROVE LostInv'
    BY <2>3, EnvironmentForwards
  <2> QED
    BY <2>1, <2>2, <2>3, CalmNext
<1> QED
  BY <1>1, <1>2, CalmIsInvariant, LostInvSuffices, PTL DEF Spec

=============================================================================

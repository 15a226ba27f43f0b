------------------------------ MODULE Heartbeat ------------------------------
(***************************************************************************)
(* HeartbeatEmitter of one executor, the key that HeartbeatStore keeps for *)
(* it in Redis, and what ExecutorHealthTracker makes of the key.  Time     *)
(* passes in units; a call to Redis is answered, or fails, within the unit *)
(* in which it was made, and a timer that is due does not wait for the     *)
(* next one.  Executors have keys of their own.                            *)
(***************************************************************************)
EXTENDS Integers, FiniteSets

CONSTANTS
  Initial, Period,     \* initialTimeout and interval of the emitter
  Ttl, Threshold,      \* DEFAULT_TTL_SECONDS and HEALTHY_THRESHOLD_MS
  Refresh,             \* interval of the tracker
  Timers,              \* intervals, those that nobody clears included
  Off,                 \* no timer, no key, no time to live
  MaxStarts, MaxFaults \* bounds of the model

ASSUME TimeAssumption ==
  /\ {Initial, Period, Ttl, Threshold, Refresh} \subseteq Nat \ {0}
  /\ Initial <= Period
ASSUME OffAssumption == Off \notin Nat /\ Off \notin Timers
ASSUME BoundAssumption ==
  {MaxStarts, MaxFaults} \subseteq Nat /\ Cardinality(Timers) = MaxStarts

VARIABLES
  up,        \* the process runs
  running, initial, interval,   \* fields of the emitter
  timers,    \* the intervals: time left
  calls,     \* sends under way: of an interval or of the initial timeout
  age, ttl,  \* the key: time since its timestamp, time to live
  snapshot, refresh,   \* the tracker: its verdict, time left
  missed,    \* heartbeats in a row that failed, 2 also before the first
  listed,    \* the tracker has seen a heartbeat of this start
  starts, faults

emitter == <<up, running, initial, interval, timers, calls>>
tracker == <<snapshot, refresh>>
vars == <<emitter, age, ttl, tracker, missed, listed, starts, faults>>

First == "first"

Init ==
  /\ up = TRUE /\ running = FALSE
  /\ initial = Off /\ interval = Off
  /\ timers = [t \in Timers |-> Off]
  /\ calls = [c \in Timers \cup {First} |-> "none"]
  /\ age = Off /\ ttl = Off
  /\ snapshot = "unknown" /\ refresh = 0
  /\ missed = 2 /\ listed = FALSE
  /\ starts = 0 /\ faults = 0

Less(n) == IF n = Off THEN Off ELSE n - 1

(* A key lives for Ttl; past the threshold all ages are alike.             *)
Tick ==
  /\ initial # 0 /\ refresh # 0
  /\ \A t \in Timers : timers[t] # 0
  /\ \A c \in DOMAIN calls : calls[c] = "none"
  /\ initial' = Less(initial) /\ refresh' = Less(refresh)
  /\ timers' = [t \in Timers |-> Less(timers[t])]
  /\ age' = IF age = Off \/ ttl = 1 THEN Off
            ELSE IF age > Threshold THEN age ELSE age + 1
  /\ ttl' = IF ttl = 1 THEN Off ELSE Less(ttl)
  /\ UNCHANGED <<up, running, interval, calls, snapshot, missed, listed, starts, faults>>

-----------------------------------------------------------------------------
(* HeartbeatEmitter.start and stop                                         *)

Start ==
  /\ up /\ ~running
  /\ starts < MaxStarts
  /\ starts' = starts + 1
  /\ running' = TRUE
  /\ initial' = Initial
  /\ missed' = 2 /\ listed' = FALSE
  /\ UNCHANGED <<up, interval, timers, calls, age, ttl, tracker, faults>>

(* Mutant: the handle of the cleared interval stays.                       *)
StopKeepsHandle ==
  /\ up /\ running
  /\ running' = FALSE
  /\ initial' = Off
  /\ timers' = [t \in Timers |-> IF t = interval THEN Off ELSE timers[t]]
  /\ UNCHANGED <<up, interval, calls, age, ttl, tracker, missed, listed, starts, faults>>

Stop ==
  /\ up /\ running
  /\ running' = FALSE
  /\ initial' = Off
  /\ interval' = Off
  /\ timers' = [t \in Timers |-> IF t = interval THEN Off ELSE timers[t]]
  /\ UNCHANGED <<up, calls, age, ttl, tracker, missed, listed, starts, faults>>

(* The callback of the timeout: sendHeartbeat is awaited.                  *)
InitialFires ==
  /\ initial = 0
  /\ initial' = Off
  /\ calls' = [calls EXCEPT ![First] = "hset"]
  /\ UNCHANGED <<up, running, interval, timers, age, ttl, tracker, missed, listed,
                 starts, faults>>

(* Mutant: sendHeartbeat does not look at running.                         *)
FiresRegardless(t) ==
  /\ timers[t] = 0
  /\ timers' = [timers EXCEPT ![t] = Period]
  /\ calls' = [calls EXCEPT ![t] = "hset"]
  /\ UNCHANGED <<up, running, initial, interval, age, ttl, tracker, missed, listed,
                 starts, faults>>

IntervalFires(t) ==
  /\ timers[t] = 0
  /\ timers' = [timers EXCEPT ![t] = Period]
  /\ calls' = IF running THEN [calls EXCEPT ![t] = "hset"] ELSE calls
  /\ UNCHANGED <<up, running, initial, interval, age, ttl, tracker, missed, listed,
                 starts, faults>>

-----------------------------------------------------------------------------
(* HeartbeatStore.send                                                     *)

(* HSET leaves the time to live of a key that exists as it is.             *)
Hset(c) ==
  /\ calls[c] = "hset"
  /\ calls' = [calls EXCEPT ![c] = "expire"]
  /\ age' = 0
  /\ UNCHANGED <<up, running, initial, interval, timers, ttl, tracker, missed,
                 listed, starts, faults>>

(* The await of the first heartbeat ends with setInterval, whether or not  *)
(* stop was called in the meantime.                                        *)
Sent(c) ==
  /\ calls' = [calls EXCEPT ![c] = "none"]
  /\ IF c = First
       THEN \E t \in Timers :
              /\ timers[t] = Off
              /\ timers' = [timers EXCEPT ![t] = Period]
              /\ interval' = t
       ELSE UNCHANGED <<timers, interval>>
  /\ UNCHANGED <<up, running, initial, tracker, starts>>

(* Mutant: the time to live is set once.                                   *)
ExpireOnce(c) ==
  /\ calls[c] = "expire"
  /\ ttl' = IF ttl = Off THEN Ttl ELSE ttl
  /\ missed' = 0
  /\ Sent(c)
  /\ UNCHANGED <<age, listed, faults>>

Expire(c) ==
  /\ calls[c] = "expire"
  /\ ttl' = IF age = Off THEN Off ELSE Ttl
  /\ missed' = 0
  /\ Sent(c)
  /\ UNCHANGED <<age, listed, faults>>

Fault == faults < MaxFaults /\ faults' = faults + 1

(* Either call fails; the error is caught.                                 *)
SendFails(c) ==
  /\ Fault
  /\ calls[c] # "none"
  /\ missed' = IF missed = 2 THEN 2 ELSE missed + 1
  /\ listed' = (listed /\ missed = 0)
  /\ Sent(c)
  /\ UNCHANGED <<age, ttl>>

Crash ==
  /\ up
  /\ up' = FALSE /\ running' = FALSE
  /\ initial' = Off /\ interval' = Off
  /\ timers' = [t \in Timers |-> Off]
  /\ calls' = [c \in DOMAIN calls |-> "none"]
  /\ UNCHANGED <<age, ttl, tracker, missed, listed, starts, faults>>

-----------------------------------------------------------------------------
(* ExecutorHealthTracker.refreshHealth, by its interval or because the     *)
(* snapshot is empty.                                                      *)

Verdict == IF age = Off THEN "unknown"
           ELSE IF age <= Threshold THEN "healthy" ELSE "unhealthy"

RefreshHealth ==
  /\ refresh = 0 \/ snapshot = "unknown"
  /\ snapshot' = Verdict
  /\ refresh' = IF refresh = 0 THEN Refresh ELSE refresh
  /\ listed' = (listed \/ (running /\ missed = 0))
  /\ UNCHANGED <<emitter, age, ttl, missed, starts, faults>>

RefreshFails ==
  /\ Fault
  /\ refresh = 0
  /\ refresh' = Refresh
  /\ UNCHANGED <<emitter, age, ttl, snapshot, missed, listed, starts>>

-----------------------------------------------------------------------------
Next ==
  \/ Tick \/ Start \/ Stop \/ Crash \/ InitialFires \/ RefreshHealth \/ RefreshFails
  \/ \E t \in Timers : IntervalFires(t)
  \/ \E c \in Timers \cup {First} : Hset(c) \/ Expire(c) \/ SendFails(c)

Spec == Init /\ [][Next]_vars

(* Time passes, timers fire and calls are answered or fail.                *)
FairSpec ==
  /\ Spec
  /\ WF_vars(Tick) /\ WF_vars(InitialFires) /\ WF_vars(refresh = 0 /\ RefreshHealth)
  /\ \A t \in Timers : WF_vars(IntervalFires(t))
  /\ \A c \in Timers \cup {First} : WF_vars(Hset(c)) /\ WF_vars(Expire(c))
=============================================================================

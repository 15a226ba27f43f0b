--------------------------- MODULE HeartbeatProofs ---------------------------
(***************************************************************************)
(* Theorems about the heartbeats of an executor, for any intervals, any    *)
(* number of starts and any number of failed calls.  That one lost         *)
(* heartbeat is tolerated rests on two inequalities between the constants  *)
(* of heartbeat-emitter.ts, heartbeat-store.ts and                         *)
(* executor-health-tracker.ts, which they never state.                     *)
(***************************************************************************)
EXTENDS HeartbeatProperties, FiniteSetTheorems, TLAPS

(* Two intervals of the emitter fit into the time to live of the key and   *)
(* into the threshold: 60 seconds, against 90 and 90.                      *)
TwoBeatsFit == 2 * Period < Ttl /\ 2 * Period <= Threshold

(* Time since the last EXPIRE that was answered.                           *)
Lag == Ttl - ttl

(* A heartbeat is sent in d units of time.                                 *)
Due(d) ==
  \/ d = 0 /\ \E c \in Timers \cup {First} : calls[c] # "none"
  \/ d = initial
  \/ \E t \in Timers : d = timers[t]

(* The next heartbeat comes within an interval of the last one that was    *)
(* answered, or within two of them when one has failed since.              *)
Allowed(n) == IF n = 0 THEN Period ELSE 2 * Period

BeatInv ==
  running /\ missed <= 1 =>
    /\ age # Off /\ ttl # Off /\ age <= Lag
    /\ \E d \in 0..Period : Due(d) /\ Lag + d <= Allowed(missed)

(* A call follows its HSET at once; when its own interval was cleared and  *)
(* the emitter runs again, the timeout of the new start is still whole.    *)
CallInv ==
  \A c \in Timers \cup {First} :
    /\ calls[c] = "expire" => age = 0
    /\ calls[c] # "none" /\ c # First =>
         timers[c] = Period \/ (running => initial = Initial)

ListedInv == listed => missed <= 1

BeatsInv == BeatInv /\ CallInv /\ ListedInv /\ MissedBeatTolerated

-----------------------------------------------------------------------------
(* Type correctness                                                        *)

(* The part of TypeOK about the emitter and its timers.                    *)
EmitterTyped ==
  /\ up \in BOOLEAN /\ running \in BOOLEAN
  /\ initial \in Remaining(Initial)
  /\ interval \in Timers \cup {Off}
  /\ timers \in [Timers -> Remaining(Period)]
  /\ calls \in [Timers \cup {First} -> {"none", "hset", "expire"}]
  /\ running => up /\ (initial # Off \/ calls[First] # "none" \/ interval # Off)
  /\ interval # Off => timers[interval] # Off
  /\ starts \in 0..MaxStarts

(* The part about the key and the tracker.                                 *)
KeyTyped ==
  /\ age \in Remaining(Threshold + 1) /\ ttl \in Remaining(Ttl) \ {0}
  /\ ttl # Off => age # Off
  /\ snapshot \in {"unknown", "healthy", "unhealthy"} /\ refresh \in 0..Refresh
  /\ missed \in 0..2 /\ faults \in 0..MaxFaults
  /\ listed \in BOOLEAN

LEMMA TypedByParts == TypeOK <=> EmitterTyped /\ KeyTyped
BY DEF TypeOK, EmitterTyped, KeyTyped

LEMMA TypedByPartsNext == TypeOK' <=> EmitterTyped' /\ KeyTyped'
BY TypedByParts, PTL

LEMMA BoundTypes ==
  /\ Initial \in Nat \ {0} /\ Period \in Nat \ {0} /\ Ttl \in Nat \ {0}
  /\ Threshold \in Nat \ {0} /\ Refresh \in Nat \ {0}
  /\ MaxStarts \in Nat /\ MaxFaults \in Nat
  /\ Initial <= Period
  /\ Off \notin Nat
BY TimeAssumption, BoundAssumption, OffAssumption

(* Time left, when a unit of it passes and it has not run out.             *)
LEMMA LessRemaining ==
  ASSUME NEW n \in Nat, NEW r \in Remaining(n), r # 0
  PROVE  /\ Less(r) \in Remaining(n)
         /\ Less(r) = Off <=> r = Off
         /\ r # Off => r \in 1..n /\ Less(r) = r - 1
BY OffAssumption DEF Remaining, Less

LEMMA InitTyped == Init => TypeOK
<1> SUFFICES ASSUME Init PROVE TypeOK
  OBVIOUS
<1>1. /\ Off \in Remaining(Initial) /\ Off \in Remaining(Period)
      /\ Off \in Remaining(Threshold + 1) /\ Off \in Remaining(Ttl) \ {0}
  BY BoundTypes DEF Remaining
<1>2. EmitterTyped
  <2>1. up \in BOOLEAN /\ running \in BOOLEAN
    BY DEF Init
  <2>2. starts \in 0..MaxStarts
    BY BoundTypes DEF Init
  <2> QED
    BY <1>1, <2>1, <2>2 DEF Init, EmitterTyped
<1>3. KeyTyped
  <2>1. listed \in BOOLEAN
    BY DEF Init
  <2>2. refresh \in 0..Refresh /\ missed \in 0..2 /\ faults \in 0..MaxFaults
    BY BoundTypes DEF Init
  <2> QED
    BY <1>1, <2>1, <2>2 DEF Init, KeyTyped
<1> QED
  BY <1>2, <1>3, TypedByParts

LEMMA TickTyped == ASSUME TypeOK, Tick PROVE TypeOK'
<1>1. /\ initial # 0 /\ refresh # 0 /\ \A t \in Timers : timers[t] # 0
      /\ initial' = Less(initial) /\ refresh' = Less(refresh)
      /\ timers' = [t \in Timers |-> Less(timers[t])]
      /\ UNCHANGED <<up, running, interval, calls, snapshot, missed, listed,
                     starts, faults>>
  BY DEF Tick
<1>2. Less(initial) \in Remaining(Initial) /\ (Less(initial) = Off <=> initial = Off)
  BY <1>1, BoundTypes, LessRemaining DEF TypeOK
<1>3. \A t \in Timers : /\ Less(timers[t]) \in Remaining(Period)
                        /\ Less(timers[t]) = Off <=> timers[t] = Off
  BY <1>1, BoundTypes, LessRemaining DEF TypeOK
<1>4. refresh' \in 0..Refresh
  <2>1. refresh \in 1..Refresh /\ refresh # Off
    BY <1>1, BoundTypes DEF TypeOK
  <2> QED
    BY <1>1, <2>1, BoundTypes DEF Less
<1>5. EmitterTyped'
  <2>1. /\ initial' \in Remaining(Initial) /\ (initial' = Off <=> initial = Off)
        /\ timers' \in [Timers -> Remaining(Period)]
        /\ \A t \in Timers : timers'[t] = Off <=> timers[t] = Off
    BY <1>1, <1>2, <1>3
  <2> QED
    BY <1>1, <2>1, TypedByParts DEF EmitterTyped
<1>6. age' \in Remaining(Threshold + 1)
      /\ (age' = Off <=> age = Off \/ ttl = 1)
  <2>1. age' = IF age = Off \/ ttl = 1 THEN Off
               ELSE IF age > Threshold THEN age ELSE age + 1
    BY DEF Tick
  <2>2. age \in 0..Threshold + 1 \cup {Off}
    BY DEF TypeOK, Remaining
  <2>3. CASE age = Off \/ ttl = 1
    BY <2>1, <2>3 DEF Remaining
  <2>4. CASE ~(age = Off \/ ttl = 1)
    <3>1. age \in 0..Threshold + 1
      BY <2>2, <2>4
    <3>2. age' \in 0..Threshold + 1
      BY <2>1, <2>4, <3>1, BoundTypes
    <3> QED
      BY <2>4, <3>2, BoundTypes DEF Remaining
  <2> QED
    BY <2>3, <2>4
<1>7. ttl' \in Remaining(Ttl) \ {0} /\ (ttl' = Off <=> ttl = Off \/ ttl = 1)
  <2>1. ttl' = IF ttl = 1 THEN Off ELSE Less(ttl)
    BY DEF Tick
  <2>2. /\ ttl \in Remaining(Ttl) /\ ttl # 0
    BY DEF TypeOK
  <2>3. /\ Less(ttl) \in Remaining(Ttl) /\ (Less(ttl) = Off <=> ttl = Off)
        /\ ttl # Off => ttl \in 1..Ttl /\ Less(ttl) = ttl - 1
    BY <2>2, BoundTypes, LessRemaining
  <2>4. Off \in Remaining(Ttl) /\ Off # 0
    BY BoundTypes DEF Remaining
  <2>5. CASE ttl = 1
    BY <2>1, <2>4, <2>5
  <2>6. CASE ttl # 1 /\ ttl = Off
    BY <2>1, <2>3, <2>4, <2>6
  <2>7. CASE ttl # 1 /\ ttl # Off
    <3>1. ttl - 1 # 0
      BY <2>3, <2>7, BoundTypes
    <3> QED
      BY <2>1, <2>3, <2>7, <3>1
  <2> QED
    BY <2>5, <2>6, <2>7
<1>8. KeyTyped'
  BY <1>1, <1>4, <1>6, <1>7, TypedByParts DEF KeyTyped
<1> QED
  BY <1>5, <1>8, TypedByPartsNext

LEMMA StartTyped == ASSUME TypeOK, Start PROVE TypeOK'
<1>1. /\ up /\ starts < MaxStarts /\ starts' = starts + 1
      /\ running' = TRUE /\ initial' = Initial /\ missed' = 2 /\ listed' = FALSE
      /\ UNCHANGED <<up, interval, timers, calls, age, ttl, tracker, faults>>
  BY DEF Start
<1>2. starts' \in 0..MaxStarts
  BY <1>1, BoundTypes DEF TypeOK
<1>3. initial' \in Remaining(Initial) /\ initial' # Off
  BY <1>1, BoundTypes DEF Remaining
<1>4. EmitterTyped'
  BY <1>1, <1>2, <1>3, TypedByParts DEF EmitterTyped
<1>5. missed' \in 0..2
  BY <1>1
<1>6. listed' \in BOOLEAN
  BY <1>1
<1>7. KeyTyped'
  BY <1>1, <1>5, <1>6, TypedByParts DEF KeyTyped, tracker
<1> QED
  BY <1>4, <1>7, TypedByPartsNext

LEMMA StopTyped == ASSUME TypeOK, Stop \/ Crash PROVE TypeOK'
<1>1. /\ running' = FALSE /\ initial' = Off /\ interval' = Off
      /\ UNCHANGED <<age, ttl, tracker, missed, listed, starts, faults>>
  BY DEF Stop, Crash
<1>2. up' \in BOOLEAN
  BY DEF Stop, Crash, TypeOK
<1>3. /\ Off \in Remaining(Initial) /\ Off \in Remaining(Period)
  BY DEF Remaining
<1>4. timers' \in [Timers -> Remaining(Period)]
  BY <1>3 DEF Stop, Crash, TypeOK
<1>5. calls' \in [Timers \cup {First} -> {"none", "hset", "expire"}]
  BY DEF Stop, Crash, TypeOK
<1>6. EmitterTyped'
  BY <1>1, <1>2, <1>3, <1>4, <1>5, TypedByParts DEF EmitterTyped
<1>7. KeyTyped'
  BY <1>1, TypedByParts DEF KeyTyped, tracker
<1> QED
  BY <1>6, <1>7, TypedByPartsNext

LEMMA InitialFiresTyped == ASSUME TypeOK, InitialFires PROVE TypeOK'
<1>1. /\ initial' = Off /\ calls' = [calls EXCEPT ![First] = "hset"]
      /\ UNCHANGED <<up, running, interval, timers, age, ttl, tracker, missed,
                     listed, starts, faults>>
  BY DEF InitialFires
<1>2. /\ calls' \in [Timers \cup {First} -> {"none", "hset", "expire"}]
      /\ calls'[First] = "hset"
  BY <1>1 DEF TypeOK
<1>3. Off \in Remaining(Initial)
  BY DEF Remaining
<1>4. EmitterTyped'
  BY <1>1, <1>2, <1>3, TypedByParts DEF EmitterTyped
<1>5. KeyTyped'
  BY <1>1, TypedByParts DEF KeyTyped, tracker
<1> QED
  BY <1>4, <1>5, TypedByPartsNext

LEMMA IntervalFiresTyped ==
  ASSUME TypeOK, NEW t \in Timers, IntervalFires(t) PROVE TypeOK'
<1>1. /\ timers' = [timers EXCEPT ![t] = Period]
      /\ calls' = IF running THEN [calls EXCEPT ![t] = "hset"] ELSE calls
      /\ UNCHANGED <<up, running, initial, interval, age, ttl, tracker, missed,
                     listed, starts, faults>>
  BY DEF IntervalFires
<1>2. Period \in Remaining(Period) /\ Period # Off
  BY BoundTypes DEF Remaining
<1>3. /\ timers' \in [Timers -> Remaining(Period)]
      /\ \A u \in Timers : timers'[u] = timers[u] \/ timers'[u] # Off
  BY <1>1, <1>2 DEF TypeOK
<1>4. /\ calls' \in [Timers \cup {First} -> {"none", "hset", "expire"}]
      /\ calls'[First] = calls[First] \/ calls'[First] = "hset"
  BY <1>1 DEF TypeOK
<1>5. EmitterTyped'
  BY <1>1, <1>3, <1>4, TypedByParts DEF EmitterTyped
<1>6. KeyTyped'
  BY <1>1, TypedByParts DEF KeyTyped, tracker
<1> QED
  BY <1>5, <1>6, TypedByPartsNext

(* The end of a call, answered or not.                                     *)
LEMMA SentTyped ==
  ASSUME TypeOK, NEW c \in Timers \cup {First}, Sent(c)
  PROVE  EmitterTyped'
<1>1. /\ calls' \in [Timers \cup {First} -> {"none", "hset", "expire"}]
      /\ c # First => calls'[First] = calls[First]
      /\ UNCHANGED <<up, running, initial, tracker, starts>>
  BY DEF Sent, TypeOK
<1>2. Period \in Remaining(Period) /\ Period # Off
  BY BoundTypes DEF Remaining
<1>3. CASE c = First
  <2>1. PICK t \in Timers : /\ timers' = [timers EXCEPT ![t] = Period]
                            /\ interval' = t
    BY <1>3 DEF Sent
  <2>2. /\ timers' \in [Timers -> Remaining(Period)]
        /\ timers'[t] # Off /\ interval' # Off
    BY <1>2, <2>1, OffAssumption DEF TypeOK
  <2> QED
    BY <1>1, <2>1, <2>2, TypedByParts DEF EmitterTyped
<1>4. CASE c # First
  <2>1. UNCHANGED <<timers, interval>>
    BY <1>4 DEF Sent
  <2> QED
    BY <1>1, <1>4, <2>1, TypedByParts DEF EmitterTyped
<1> QED
  BY <1>3, <1>4

LEMMA CallsTyped ==
  ASSUME TypeOK, NEW c \in Timers \cup {First}, Hset(c) \/ Expire(c) \/ SendFails(c)
  PROVE  TypeOK'
<1>1. CASE Hset(c)
  <2>1. /\ calls' = [calls EXCEPT ![c] = "expire"] /\ age' = 0
        /\ UNCHANGED <<up, running, initial, interval, timers, ttl, tracker,
                       missed, listed, starts, faults>>
    BY <1>1 DEF Hset
  <2>2. /\ calls' \in [Timers \cup {First} -> {"none", "hset", "expire"}]
        /\ calls'[First] = calls[First] \/ calls'[First] = "expire"
    BY <2>1 DEF TypeOK
  <2>3. 0 \in Remaining(Threshold + 1) /\ 0 # Off
    BY BoundTypes DEF Remaining
  <2>4. EmitterTyped' /\ KeyTyped'
    BY <2>1, <2>2, <2>3, TypedByParts DEF EmitterTyped, KeyTyped, tracker
  <2> QED
    BY <2>4, TypedByPartsNext
<1>2. CASE Expire(c)
  <2>1. /\ ttl' = IF age = Off THEN Off ELSE Ttl
        /\ missed' = 0 /\ Sent(c) /\ UNCHANGED <<age, listed, faults>>
    BY <1>2 DEF Expire
  <2>2. tracker' = tracker
    BY <2>1 DEF Sent
  <2>3. Off \in Remaining(Ttl) \ {0} /\ Ttl \in Remaining(Ttl) \ {0}
    BY BoundTypes DEF Remaining
  <2>4. KeyTyped'
    BY <2>1, <2>2, <2>3, TypedByParts DEF KeyTyped, tracker
  <2> QED
    BY <2>1, <2>4, SentTyped, TypedByPartsNext
<1>3. CASE SendFails(c)
  <2>1. /\ faults < MaxFaults /\ faults' = faults + 1
        /\ missed' = IF missed = 2 THEN 2 ELSE missed + 1
        /\ listed' = (listed /\ missed = 0)
        /\ Sent(c) /\ UNCHANGED <<age, ttl>>
    BY <1>3 DEF SendFails, Fault
  <2>2. tracker' = tracker
    BY <2>1 DEF Sent
  <2>3. faults' \in 0..MaxFaults /\ missed' \in 0..2
    BY <2>1, BoundTypes DEF TypeOK
  <2>4. listed' \in BOOLEAN
    BY <2>1
  <2>5. KeyTyped'
    BY <2>1, <2>2, <2>3, <2>4, TypedByParts DEF KeyTyped, tracker
  <2> QED
    BY <2>1, <2>5, SentTyped, TypedByPartsNext
<1> QED
  BY <1>1, <1>2, <1>3

LEMMA TrackerTyped == ASSUME TypeOK, RefreshHealth \/ RefreshFails PROVE TypeOK'
<1>1. UNCHANGED <<emitter, age, ttl, missed, starts>>
  BY DEF RefreshHealth, RefreshFails
<1>2. EmitterTyped'
  BY <1>1, TypedByParts DEF EmitterTyped, emitter
<1>3. snapshot' \in {"unknown", "healthy", "unhealthy"}
  BY DEF RefreshHealth, RefreshFails, Verdict, TypeOK
<1>4. refresh' \in 0..Refresh
  BY BoundTypes DEF RefreshHealth, RefreshFails, TypeOK
<1>5. faults' \in 0..MaxFaults
  BY BoundTypes DEF RefreshHealth, RefreshFails, Fault, TypeOK
<1>6. listed' \in BOOLEAN
  <2>1. CASE RefreshHealth
    BY <2>1 DEF RefreshHealth
  <2>2. CASE RefreshFails
    BY <2>2 DEF RefreshFails, TypeOK
  <2> QED
    BY <2>1, <2>2
<1>7. KeyTyped'
  BY <1>1, <1>3, <1>4, <1>5, <1>6, TypedByParts DEF KeyTyped
<1> QED
  BY <1>2, <1>7, TypedByPartsNext

LEMMA NextTyped == TypeOK /\ [Next]_vars => TypeOK'
<1> SUFFICES ASSUME TypeOK, [Next]_vars PROVE TypeOK'
  OBVIOUS
<1>1. CASE UNCHANGED vars
  <2>1. EmitterTyped' /\ KeyTyped'
    BY <1>1, TypedByParts DEF vars, emitter, tracker, EmitterTyped, KeyTyped
  <2> QED
    BY <2>1, TypedByPartsNext
<1>2. CASE Next
  BY <1>2, TickTyped, StartTyped, StopTyped, InitialFiresTyped,
     IntervalFiresTyped, CallsTyped, TrackerTyped DEF Next
<1> QED
  BY <1>1, <1>2

(* Every variable stays in its range, the emitter never runs without a     *)
(* timer or a call that leads to the next heartbeat, its handle is that of *)
(* a live interval, and a key that is gone has no time to live.            *)
THEOREM TypeCorrect == Spec => []TypeOK
BY InitTyped, NextTyped, PTL DEF Spec

-----------------------------------------------------------------------------
(* A lost heartbeat                                                        *)

LEMMA InitBeats == Init => BeatsInv
BY DEF Init, BeatsInv, BeatInv, CallInv, ListedInv, MissedBeatTolerated

(* The times of a key that has both.                                       *)
LEMMA KeyTimes ==
  ASSUME TypeOK, age # Off, ttl # Off
  PROVE  age \in Nat /\ ttl \in 1..Ttl /\ Lag \in Nat /\ Lag = Ttl - ttl
BY BoundTypes DEF TypeOK, Remaining, Lag

(* The key outlives the unit, since it lives longer than two intervals.    *)
LEMMA TickBeat ==
  ASSUME TypeOK, BeatInv, TwoBeatsFit, Tick PROVE BeatInv'
<1>1. /\ initial # 0 /\ \A t \in Timers : timers[t] # 0
      /\ \A c \in Timers \cup {First} : calls[c] = "none"
      /\ initial' = Less(initial)
      /\ timers' = [t \in Timers |-> Less(timers[t])]
      /\ age' = IF age = Off \/ ttl = 1 THEN Off
                ELSE IF age > Threshold THEN age ELSE age + 1
      /\ ttl' = IF ttl = 1 THEN Off ELSE Less(ttl)
      /\ UNCHANGED <<running, missed>>
  BY DEF Tick, TypeOK
<1> SUFFICES ASSUME running, missed <= 1
             PROVE  /\ age' # Off /\ ttl' # Off /\ age' <= Lag'
                    /\ \E d \in 0..Period : Due(d)' /\ Lag' + d <= Allowed(missed)
  BY <1>1 DEF BeatInv, Allowed
<1>2. PICK d \in 0..Period : Due(d) /\ Lag + d <= Allowed(missed)
  BY DEF BeatInv
<1>3. age # Off /\ ttl # Off /\ age <= Lag
  BY DEF BeatInv
<1>4. age \in Nat /\ ttl \in 1..Ttl /\ Lag \in Nat /\ Lag = Ttl - ttl
  BY <1>3, KeyTimes
<1>5. d \in 1..Period /\ d # Off
  BY <1>1, <1>2, BoundTypes DEF Due
<1>6. Lag + d <= 2 * Period
  BY <1>2, <1>4, BoundTypes DEF Allowed
<1>7. ttl # 1
  BY <1>4, <1>5, <1>6, BoundTypes DEF TwoBeatsFit
<1>8. ttl' = ttl - 1 /\ ttl' # Off
  BY <1>1, <1>3, <1>4, <1>7, BoundTypes DEF Less
<1>9. Lag' = Lag + 1
  BY <1>4, <1>8, BoundTypes DEF Lag
<1>10. age' \in {age, age + 1} /\ age' # Off
  BY <1>1, <1>3, <1>4, <1>7, BoundTypes
<1>11. Due(d - 1)'
  <2>1. CASE d = initial
    BY <1>1, <1>5, <2>1 DEF Due, Less
  <2>2. ASSUME NEW t \in Timers, d = timers[t] PROVE Due(d - 1)'
    <3>1. timers'[t] = d - 1
      BY <1>1, <1>5, <2>2 DEF Less
    <3> QED
      BY <3>1 DEF Due
  <2> QED
    BY <1>1, <1>2, <2>1, <2>2 DEF Due
<1>12. d - 1 \in 0..Period /\ Lag' + (d - 1) <= Allowed(missed)
  BY <1>2, <1>4, <1>5, <1>9, BoundTypes DEF Allowed
<1>13. age' <= Lag'
  BY <1>3, <1>4, <1>9, <1>10
<1> QED
  BY <1>8, <1>10, <1>11, <1>12, <1>13

(* A timer that fires becomes a call, and the other timers stay.           *)
LEMMA FiresBeat ==
  ASSUME TypeOK, BeatInv, InitialFires \/ \E t \in Timers : IntervalFires(t)
  PROVE  BeatInv'
<1>1. UNCHANGED <<running, age, ttl, missed>>
  BY DEF InitialFires, IntervalFires
<1>2. ASSUME running, NEW d \in 0..Period, Due(d) PROVE Due(d)'
  <2>1. CASE InitialFires
    <3>1. /\ initial = 0 /\ calls'[First] = "hset" /\ timers' = timers
          /\ \A c \in Timers : c # First => calls'[c] = calls[c]
      BY <2>1 DEF InitialFires, TypeOK
    <3> QED
      BY <1>2, <3>1 DEF Due
  <2>2. ASSUME NEW t \in Timers, IntervalFires(t) PROVE Due(d)'
    <3>1. /\ timers[t] = 0 /\ initial' = initial
          /\ \A u \in Timers \ {t} : timers'[u] = timers[u]
          /\ calls'[t] = "hset"
          /\ \A c \in (Timers \cup {First}) \ {t} : calls'[c] = calls[c]
      BY <1>2, <2>2 DEF IntervalFires, TypeOK
    <3> QED
      BY <1>2, <3>1 DEF Due
  <2> QED
    BY <2>1, <2>2
<1> QED
  BY <1>1, <1>2 DEF BeatInv, Lag

(* After a call a timer is left that fires within an interval.             *)
LEMMA SentDue ==
  ASSUME TypeOK, CallInv, running, NEW c \in Timers \cup {First},
         calls[c] # "none", Sent(c)
  PROVE  \E d \in 0..Period : Due(d)'
<1>1. CASE c = First
  <2>1. PICK t \in Timers : timers' = [timers EXCEPT ![t] = Period]
    BY <1>1 DEF Sent
  <2>2. timers'[t] = Period
    BY <2>1 DEF TypeOK
  <2> QED
    BY <2>2, BoundTypes DEF Due
<1>2. CASE c # First
  <2>1. timers' = timers /\ initial' = initial /\ c \in Timers
    BY <1>2 DEF Sent
  <2>2. timers[c] = Period \/ initial = Initial
    BY <1>2 DEF CallInv
  <2>3. Period \in 0..Period /\ Initial \in 0..Period
    BY BoundTypes
  <2> QED
    BY <2>1, <2>2, <2>3 DEF Due
<1> QED
  BY <1>1, <1>2

LEMMA HsetBeat ==
  ASSUME TypeOK, BeatInv, NEW c \in Timers \cup {First}, Hset(c) PROVE BeatInv'
<1>1. /\ calls' = [calls EXCEPT ![c] = "expire"] /\ age' = 0
      /\ UNCHANGED <<running, initial, timers, ttl, missed>>
  BY DEF Hset
<1> SUFFICES ASSUME running, missed <= 1
             PROVE  /\ age' # Off /\ ttl' # Off /\ age' <= Lag'
                    /\ \E d \in 0..Period : Due(d)' /\ Lag' + d <= Allowed(missed)
  BY <1>1 DEF BeatInv, Allowed
<1>2. age # Off /\ ttl # Off
  BY DEF BeatInv
<1>3. Lag \in Nat /\ Lag' = Lag
  BY <1>1, <1>2, KeyTimes DEF Lag
<1>4. PICK d \in 0..Period : Due(d) /\ Lag + d <= Allowed(missed)
  BY DEF BeatInv
<1>5. Due(d)'
  <2>1. \A x \in Timers \cup {First} : calls[x] # "none" => calls'[x] # "none"
    BY <1>1 DEF TypeOK
  <2> QED
    BY <1>1, <1>4, <2>1 DEF Due
<1>6. 0 # Off /\ 0 <= Lag'
  BY <1>3, OffAssumption
<1> QED
  BY <1>1, <1>2, <1>3, <1>4, <1>5, <1>6

LEMMA ExpireBeat ==
  ASSUME TypeOK, BeatInv, CallInv, NEW c \in Timers \cup {First}, Expire(c)
  PROVE  BeatInv'
<1>1. /\ calls[c] = "expire" /\ Sent(c) /\ missed' = 0
      /\ ttl' = IF age = Off THEN Off ELSE Ttl
      /\ UNCHANGED <<age, running>>
  BY DEF Expire, Sent
<1>2. age = 0 /\ 0 # Off
  BY <1>1, OffAssumption DEF CallInv
<1>3. ttl' = Ttl /\ Ttl # Off /\ Lag' = 0
  BY <1>1, <1>2, BoundTypes DEF Lag
<1>4. ASSUME running PROVE \E d \in 0..Period : Due(d)'
  BY <1>1, <1>4, SentDue
<1>5. \A d \in 0..Period : Lag' + d <= Allowed(missed')
  BY <1>1, <1>3, BoundTypes DEF Allowed
<1>6. age' # Off /\ ttl' # Off /\ age' <= Lag'
  BY <1>1, <1>2, <1>3
<1>7. running' /\ missed' <= 1 =>
        /\ age' # Off /\ ttl' # Off /\ age' <= Lag'
        /\ \E d \in 0..Period : Due(d)' /\ Lag' + d <= Allowed(missed')
  BY <1>1, <1>4, <1>5, <1>6
<1> QED
  BY <1>7 DEF BeatInv, Allowed

(* One failure leaves room for a second interval.                          *)
LEMMA FailBeat ==
  ASSUME TypeOK, BeatInv, CallInv, NEW c \in Timers \cup {First}, SendFails(c)
  PROVE  BeatInv'
<1>1. /\ calls[c] # "none" /\ Sent(c)
      /\ missed' = IF missed = 2 THEN 2 ELSE missed + 1
      /\ UNCHANGED <<age, ttl, running>>
  BY DEF SendFails, Sent
<1> SUFFICES ASSUME running, missed' <= 1
             PROVE  /\ age # Off /\ ttl # Off /\ age <= Lag
                    /\ \E d \in 0..Period : Due(d)' /\ Lag + d <= 2 * Period
  <2>1. missed' <= 1 => missed' = 1
    BY <1>1 DEF TypeOK
  <2> QED
    BY <1>1, <2>1 DEF BeatInv, Allowed, Lag
<1>2. missed = 0
  BY <1>1 DEF TypeOK
<1>3. PICK d \in 0..Period : Lag + d <= Period
  BY <1>2 DEF BeatInv, Allowed
<1>4. age # Off /\ ttl # Off /\ age <= Lag /\ Lag \in Nat
  BY <1>2, KeyTimes DEF BeatInv
<1>5. PICK n \in 0..Period : Due(n)'
  BY <1>1, SentDue
<1>6. Lag + n <= 2 * Period
  BY <1>3, <1>4, BoundTypes
<1> QED
  BY <1>4, <1>5, <1>6

LEMMA NextBeat ==
  ASSUME TypeOK, BeatInv, CallInv, TwoBeatsFit, [Next]_vars PROVE BeatInv'
<1>1. CASE Tick
  BY <1>1, TickBeat
<1>2. CASE Start \/ Stop \/ Crash
  BY <1>2 DEF Start, Stop, Crash, BeatInv
<1>3. CASE InitialFires \/ \E t \in Timers : IntervalFires(t)
  BY <1>3, FiresBeat
<1>4. ASSUME NEW c \in Timers \cup {First}, Hset(c) \/ Expire(c) \/ SendFails(c)
      PROVE  BeatInv'
  BY <1>4, HsetBeat, ExpireBeat, FailBeat
<1>5. CASE RefreshHealth \/ RefreshFails \/ UNCHANGED vars
  <2>1. UNCHANGED <<running, initial, timers, calls, age, ttl, missed>>
    BY <1>5 DEF RefreshHealth, RefreshFails, vars, emitter
  <2> QED
    BY <2>1 DEF BeatInv, Due, Lag, Allowed
<1> QED
  BY <1>1, <1>2, <1>3, <1>4, <1>5 DEF Next

LEMMA NextCalls == ASSUME TypeOK, CallInv, [Next]_vars PROVE CallInv'
<1> SUFFICES ASSUME NEW c \in Timers \cup {First}
             PROVE  /\ calls'[c] = "expire" => age' = 0
                    /\ calls'[c] # "none" /\ c # First =>
                         timers'[c] = Period \/ (running' => initial' = Initial)
  BY DEF CallInv
<1>1. CASE Tick
  BY <1>1 DEF Tick, TypeOK
<1>2. CASE Start
  BY <1>2 DEF Start, CallInv
<1>3. CASE Stop
  BY <1>3 DEF Stop, CallInv
<1>4. CASE Crash
  <2>1. calls'[c] = "none"
    BY <1>4 DEF Crash, TypeOK
  <2> QED
    BY <2>1
<1>5. CASE InitialFires
  <2>1. /\ initial = 0 /\ age' = age /\ timers' = timers /\ running' = running
        /\ c # First => calls'[c] = calls[c]
        /\ calls'[First] = "hset"
    BY <1>5 DEF InitialFires, TypeOK
  <2>2. initial # Initial
    BY <2>1, BoundTypes
  <2> QED
    BY <2>1, <2>2 DEF CallInv
<1>6. ASSUME NEW t \in Timers, IntervalFires(t)
      PROVE  /\ calls'[c] = "expire" => age' = 0
             /\ calls'[c] # "none" /\ c # First =>
                  timers'[c] = Period \/ (running' => initial' = Initial)
  <2>1. /\ age' = age /\ initial' = initial /\ running' = running
        /\ timers'[t] = Period
        /\ c # t => calls'[c] = calls[c]
        /\ \A u \in Timers \ {t} : timers'[u] = timers[u]
        /\ calls'[t] = "hset" \/ calls'[t] = calls[t]
    BY <1>6 DEF IntervalFires, TypeOK
  <2> QED
    BY <2>1 DEF CallInv
<1>7. ASSUME NEW d \in Timers \cup {First}, Hset(d)
      PROVE  /\ calls'[c] = "expire" => age' = 0
             /\ calls'[c] # "none" /\ c # First =>
                  timers'[c] = Period \/ (running' => initial' = Initial)
  <2>1. /\ age' = 0 /\ UNCHANGED <<initial, running, timers>>
        /\ calls[d] = "hset" /\ (c # d => calls'[c] = calls[c])
    BY <1>7 DEF Hset, TypeOK
  <2> QED
    BY <2>1 DEF CallInv
<1>8. ASSUME NEW d \in Timers \cup {First}, Expire(d) \/ SendFails(d)
      PROVE  /\ calls'[c] = "expire" => age' = 0
             /\ calls'[c] # "none" /\ c # First =>
                  timers'[c] = Period \/ (running' => initial' = Initial)
  <2>1. Sent(d) /\ age' = age
    BY <1>8 DEF Expire, SendFails
  <2>2. /\ UNCHANGED <<initial, running>>
        /\ calls'[d] = "none" /\ (c # d => calls'[c] = calls[c])
    BY <2>1 DEF Sent, TypeOK
  <2>3. \A u \in Timers : timers'[u] = timers[u] \/ timers'[u] = Period
    BY <2>1 DEF Sent, TypeOK
  <2> QED
    BY <2>1, <2>2, <2>3 DEF CallInv
<1>9. CASE RefreshHealth \/ RefreshFails \/ UNCHANGED vars
  <2>1. UNCHANGED <<running, initial, timers, calls, age>>
    BY <1>9 DEF RefreshHealth, RefreshFails, vars, emitter
  <2> QED
    BY <2>1 DEF CallInv
<1> QED
  BY <1>1, <1>2, <1>3, <1>4, <1>5, <1>6, <1>7, <1>8, <1>9 DEF Next

LEMMA NextListed == ASSUME TypeOK, ListedInv, [Next]_vars PROVE ListedInv'
<1>1. CASE Tick \/ Stop \/ Crash \/ InitialFires \/ RefreshFails \/ UNCHANGED vars
  BY <1>1 DEF Tick, Stop, Crash, InitialFires, RefreshFails, vars, ListedInv
<1>2. CASE Start
  BY <1>2 DEF Start, ListedInv
<1>3. CASE RefreshHealth
  <2>1. (listed' => listed \/ missed = 0) /\ missed' = missed
    BY <1>3 DEF RefreshHealth
  <2> QED
    BY <2>1 DEF ListedInv
<1>4. ASSUME NEW t \in Timers, IntervalFires(t) PROVE ListedInv'
  BY <1>4 DEF IntervalFires, ListedInv
<1>5. ASSUME NEW c \in Timers \cup {First}, Hset(c) \/ Expire(c) \/ SendFails(c)
      PROVE  ListedInv'
  <2>1. CASE Hset(c) \/ Expire(c)
    <3>1. listed' = listed /\ missed' \in {missed, 0}
      BY <2>1 DEF Hset, Expire
    <3> QED
      BY <3>1 DEF ListedInv
  <2>2. CASE SendFails(c)
    <3>1. /\ listed' => missed = 0
          /\ missed' = IF missed = 2 THEN 2 ELSE missed + 1
      BY <2>2 DEF SendFails
    <3> QED
      BY <3>1 DEF ListedInv
  <2> QED
    BY <1>5, <2>1, <2>2
<1> QED
  BY <1>1, <1>2, <1>3, <1>4, <1>5 DEF Next

(* The key of an executor that is listed is there and not too old.         *)
LEMMA VerdictHealthy ==
  ASSUME TypeOK, BeatInv, TwoBeatsFit, running, missed <= 1
  PROVE  Verdict = "healthy"
<1>1. age # Off /\ age <= Lag /\ age \in Nat /\ Lag \in Nat
  BY KeyTimes DEF BeatInv
<1>2. PICK d \in 0..Period : Lag + d <= Allowed(missed)
  BY DEF BeatInv
<1>3. Lag <= 2 * Period
  BY <1>1, <1>2, BoundTypes DEF Allowed
<1>4. age <= Threshold
  BY <1>1, <1>3, BoundTypes DEF TwoBeatsFit
<1> QED
  BY <1>1, <1>4 DEF Verdict

LEMMA NextTolerated ==
  ASSUME TypeOK, BeatInv, ListedInv, MissedBeatTolerated, TwoBeatsFit, [Next]_vars
  PROVE  MissedBeatTolerated'
<1>1. CASE RefreshHealth
  <2>1. /\ snapshot' = Verdict /\ running' = running
        /\ listed' => listed \/ (running /\ missed = 0)
    BY <1>1 DEF RefreshHealth, emitter
  <2>2. running /\ (listed \/ missed = 0) => Verdict = "healthy"
    BY VerdictHealthy DEF ListedInv
  <2> QED
    BY <2>1, <2>2 DEF MissedBeatTolerated
<1>2. CASE Start \/ Stop \/ Crash
  BY <1>2 DEF Start, Stop, Crash, MissedBeatTolerated
<1>3. CASE Tick \/ InitialFires \/ RefreshFails \/ UNCHANGED vars
  BY <1>3 DEF Tick, InitialFires, RefreshFails, vars, emitter, tracker,
              MissedBeatTolerated
<1>4. ASSUME NEW t \in Timers, IntervalFires(t) PROVE MissedBeatTolerated'
  BY <1>4 DEF IntervalFires, tracker, MissedBeatTolerated
<1>5. ASSUME NEW c \in Timers \cup {First}, Hset(c) \/ Expire(c) \/ SendFails(c)
      PROVE  MissedBeatTolerated'
  BY <1>5 DEF Hset, Expire, SendFails, Sent, tracker, MissedBeatTolerated
<1> QED
  BY <1>1, <1>2, <1>3, <1>4, <1>5 DEF Next

LEMMA NextBeats ==
  ASSUME TwoBeatsFit PROVE TypeOK /\ BeatsInv /\ [Next]_vars => BeatsInv'
BY NextBeat, NextCalls, NextListed, NextTolerated DEF BeatsInv

(* When two intervals fit into the time to live and into the threshold, an *)
(* executor that the tracker has seen stays healthy unless two heartbeats  *)
(* in a row fail, whatever stop and start leave behind, and whether it is  *)
(* the HSET or the EXPIRE that fails.                                      *)
THEOREM LostBeat ==
  ASSUME TwoBeatsFit
  PROVE  Spec => []MissedBeatTolerated
<1>1. TypeOK /\ BeatsInv /\ [Next]_vars => BeatsInv'
  BY NextBeats
<1>2. BeatsInv => MissedBeatTolerated
  BY DEF BeatsInv
<1> QED
  BY <1>1, <1>2, InitBeats, TypeCorrect, PTL DEF Spec
=============================================================================

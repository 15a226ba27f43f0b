------------------------------ MODULE SlaProofs ------------------------------
(***************************************************************************)
(* Theorems about the SLA checker, for any executions, any number of       *)
(* overlapping checks and any number of faults.  As long as a pair is not  *)
(* excused at most one check is under way (Overlaps), so what it took from *)
(* the map before an await is what is there after it (Remembered).         *)
(***************************************************************************)
EXTENDS SlaProperties, TLAPS

(* Two checks that are under way together excuse every pair.               *)
Overlaps ==
  \A c, d \in Checks :
    c # d /\ pc[c] # "idle" /\ pc[d] # "idle" => excused = Pairs

(* Only an execution that was running gets into a check or an alert.       *)
WasRunning ==
  /\ \A c \in Checks : \A x \in active[c] : status[x] # "pending"
  /\ \A p \in alerts : status[p[1]] # "pending"

Answering(p) == \E c \in Checks : pc[c] = "answer" /\ target[c] = p

(* No check visits x, or will.                                             *)
Settled(x) == status[x] = "over" /\ \A c \in Checks : x \notin active[c]

Remembered(x, sev) ==
  /\ sev \in memory[x] \/ Answering(<<x, sev>>) \/ Settled(x)
  /\ \A c \in Checks :
       /\ pc[c] \in {"insert", "answer"} /\ target[c][1] = x =>
            sev \in held[c] \/ (pc[c] = "answer" /\ target[c][2] = sev)
       /\ pc[c] # "idle" /\ x \notin active[c] => status[x] = "over"

OnceInv ==
  /\ Overlaps
  /\ WasRunning
  /\ \A x \in Executions, sev \in Severities :
       <<x, sev>> \in alerts /\ <<x, sev>> \notin excused => Remembered(x, sev)

-----------------------------------------------------------------------------
(* Type correctness                                                        *)

FieldsTyped ==
  /\ status \in [Executions -> {"pending", "running", "over"}]
  /\ level \in [Executions -> 0..2]
  /\ configured \in BOOLEAN
  /\ alerts \subseteq Pairs /\ excused \subseteq Pairs
  /\ memory \in [Executions -> SUBSET Severities]
  /\ pc \in [Checks -> {"idle", "query", "insert", "answer"}]
  /\ active \in [Checks -> SUBSET Executions]
  /\ DOMAIN todo = Checks
  /\ target \in [Checks -> Pairs]
  /\ held \in [Checks -> SUBSET Severities]
  /\ faults \in Nat

(* The part of TypeOK about one check.                                     *)
CheckTyped(c) ==
  /\ todo[c] \in [DOMAIN todo[c] -> 0..2]
  /\ DOMAIN todo[c] \subseteq active[c]
  /\ pc[c] = "idle" => active[c] = {}
  /\ pc[c] \in {"insert", "answer"} =>
       /\ target[c][1] \in active[c] \ DOMAIN todo[c]
       /\ target[c][2] \notin held[c]
  /\ pc[c] = "answer" => target[c] \in alerts

LEMMA TypedByParts == TypeOK <=> FieldsTyped /\ \A c \in Checks : CheckTyped(c)
BY DEF TypeOK, FieldsTyped, CheckTyped

LEMMA TypedByPartsNext == TypeOK' <=> FieldsTyped' /\ \A c \in Checks : CheckTyped(c)'
BY DEF TypeOK, FieldsTyped, CheckTyped

(* An alert is needed only while its severity is not in the set.           *)
LEMMA NeedsUnknown ==
  ASSUME NEW l \in 0..2, NEW known \in SUBSET Severities,
         NEW sev \in Needs(l, known)
  PROVE  sev \in Severities /\ sev \notin known
BY DEF Needs, Severities

LEMMA NoAlertType == NoAlert \in Pairs
<1>1. PICK x : x \in Executions
  BY ExecutionsAssumption
<1>2. <<x, "warning">> \in Pairs
  BY <1>1 DEF Pairs, Severities
<1> QED
  BY <1>2 DEF NoAlert

(* A step of check c leaves the others as they are.                        *)
SameOthers(c) ==
  \A d \in Checks \ {c} :
    /\ pc'[d] = pc[d] /\ active'[d] = active[d] /\ todo'[d] = todo[d]
    /\ target'[d] = target[d] /\ held'[d] = held[d]

LEMMA OthersTyped ==
  ASSUME TypeOK, NEW c \in Checks, SameOthers(c), alerts \subseteq alerts',
         NEW d \in Checks \ {c}
  PROVE  CheckTyped(d)'
BY TypedByParts DEF SameOthers, CheckTyped

LEMMA IdleTyped ==
  ASSUME TypeOK, NEW c \in Checks, Idle(c)
  PROVE  /\ SameOthers(c) /\ CheckTyped(c)'
         /\ pc'[c] = "idle" /\ active'[c] = {}
         /\ pc' \in [Checks -> {"idle", "query", "insert", "answer"}]
         /\ active' \in [Checks -> SUBSET Executions]
         /\ DOMAIN todo' = Checks
         /\ target' \in [Checks -> Pairs]
         /\ held' \in [Checks -> SUBSET Severities]
<1>1. /\ pc'[c] = "idle" /\ active'[c] = {}
      /\ pc' \in [Checks -> {"idle", "query", "insert", "answer"}]
      /\ active' \in [Checks -> SUBSET Executions]
      /\ DOMAIN todo' = Checks
      /\ target' \in [Checks -> Pairs]
      /\ held' \in [Checks -> SUBSET Severities]
  BY NoAlertType DEF Idle, TypeOK
<1>2. SameOthers(c)
  BY DEF Idle, TypeOK, SameOthers
<1>3. todo'[c] = NoRows
  BY DEF Idle, TypeOK
<1>4. NoRows \in [DOMAIN NoRows -> 0..2] /\ DOMAIN NoRows = {}
  BY DEF NoRows
<1> QED
  BY <1>1, <1>2, <1>3, <1>4 DEF CheckTyped

(* The loop of the rows of a check, with what it knows when it goes on.    *)
LEMMA LoopTyped ==
  ASSUME TypeOK, NEW c \in Checks, NEW rest, NEW known,
         rest \in [DOMAIN rest -> 0..2], DOMAIN rest \subseteq active[c],
         known \in [Executions -> SUBSET Severities],
         Loop(c, rest, known)
  PROVE  /\ SameOthers(c)
         /\ memory' \in [Executions -> SUBSET Severities]
         /\ pc' \in [Checks -> {"idle", "query", "insert", "answer"}]
         /\ pc'[c] \in {"idle", "insert"}
         /\ active' \in [Checks -> SUBSET Executions]
         /\ DOMAIN todo' = Checks
         /\ target' \in [Checks -> Pairs]
         /\ held' \in [Checks -> SUBSET Severities]
         /\ CheckTyped(c)'
<1>1. CASE Finish(c, rest, known)
  <2>1. memory' \in [Executions -> SUBSET Severities] /\ Idle(c)
    BY <1>1 DEF Finish
  <2> QED
    BY <2>1, IdleTyped
<1>2. CASE CreateAlert(c, rest, known)
  <2>1. PICK x \in DOMAIN rest, sev \in Severities,
             passed \in SUBSET Satisfied(rest, known) :
          /\ sev \in Needs(rest[x], known[x])
          /\ todo' = [todo EXCEPT ![c] =
                        [y \in DOMAIN rest \ (passed \cup {x}) |-> rest[y]]]
          /\ target' = [target EXCEPT ![c] = <<x, sev>>]
          /\ held' = [held EXCEPT ![c] = known[x]]
          /\ pc' = [pc EXCEPT ![c] = "insert"]
          /\ memory' = known
          /\ active' = active
    BY <1>2 DEF CreateAlert
  <2>2. x \in active[c] /\ x \in Executions /\ rest[x] \in 0..2
        /\ known[x] \in SUBSET Severities
    BY DEF TypeOK
  <2>3. sev \notin known[x]
    BY <2>1, <2>2, NeedsUnknown
  <2>4. <<x, sev>> \in Pairs
    BY <2>2 DEF Pairs
  <2>5. /\ memory' \in [Executions -> SUBSET Severities]
        /\ pc' \in [Checks -> {"idle", "query", "insert", "answer"}]
        /\ pc'[c] = "insert"
        /\ active' \in [Checks -> SUBSET Executions] /\ active'[c] = active[c]
        /\ DOMAIN todo' = Checks
        /\ target' \in [Checks -> Pairs] /\ target'[c] = <<x, sev>>
        /\ held' \in [Checks -> SUBSET Severities] /\ held'[c] = known[x]
    BY <2>1, <2>2, <2>4 DEF TypeOK
  <2>6. SameOthers(c)
    BY <2>1 DEF TypeOK, SameOthers
  <2> DEFINE visit == DOMAIN rest \ (passed \cup {x})
             rows == [y \in visit |-> rest[y]]
  <2>7. todo'[c] = rows
    BY <2>1 DEF TypeOK
  <2>8. rows \in [DOMAIN rows -> 0..2] /\ DOMAIN rows = visit
    OBVIOUS
  <2>9. visit \subseteq active[c] /\ x \notin visit
    OBVIOUS
  <2> HIDE DEF rows, visit
  <2>10. CheckTyped(c)'
    BY <2>2, <2>3, <2>5, <2>7, <2>8, <2>9 DEF CheckTyped
  <2> QED
    BY <2>5, <2>6, <2>10
<1> QED
  BY <1>1, <1>2 DEF Loop

LEMMA InitTyped == Init => TypeOK
<1> SUFFICES ASSUME Init PROVE TypeOK
  OBVIOUS
<1>1. NoRows \in [DOMAIN NoRows -> 0..2] /\ DOMAIN NoRows = {}
  BY DEF NoRows
<1>2. FieldsTyped
  <2>1. /\ status \in [Executions -> {"pending", "running", "over"}]
        /\ level \in [Executions -> 0..2]
        /\ alerts \subseteq Pairs /\ excused \subseteq Pairs
        /\ memory \in [Executions -> SUBSET Severities] /\ faults \in Nat
    BY DEF Init
  <2>3. configured \in BOOLEAN
    BY DEF Init
  <2>2. /\ pc \in [Checks -> {"idle", "query", "insert", "answer"}]
        /\ active \in [Checks -> SUBSET Executions]
        /\ DOMAIN todo = Checks
        /\ target \in [Checks -> Pairs]
        /\ held \in [Checks -> SUBSET Severities]
    BY NoAlertType DEF Init
  <2> QED
    BY <2>1, <2>2, <2>3 DEF FieldsTyped
<1>3. \A c \in Checks : CheckTyped(c)
  BY <1>1 DEF Init, CheckTyped
<1> QED
  BY <1>2, <1>3, TypedByParts

(* The rest of the system does not touch the checks.                       *)
LEMMA RestTyped ==
  ASSUME TypeOK,
         \/ Configure
         \/ \E x \in Executions : Begin(x) \/ End(x) \/ Age(x)
  PROVE  TypeOK'
<1>1. /\ UNCHANGED checker /\ alerts' = alerts
      /\ status' \in [Executions -> {"pending", "running", "over"}]
      /\ level' \in [Executions -> 0..2]
      /\ configured' \in BOOLEAN
  <2>1. CASE Configure
    BY <2>1 DEF Configure, TypeOK
  <2>2. ASSUME NEW x \in Executions, Begin(x) \/ End(x)
        PROVE  /\ UNCHANGED checker /\ alerts' = alerts
               /\ status' \in [Executions -> {"pending", "running", "over"}]
               /\ level' \in [Executions -> 0..2]
               /\ configured' \in BOOLEAN
    BY <2>2 DEF Begin, End, TypeOK
  <2>3. ASSUME NEW x \in Executions, Age(x)
        PROVE  /\ UNCHANGED checker /\ alerts' = alerts
               /\ status' \in [Executions -> {"pending", "running", "over"}]
               /\ level' \in [Executions -> 0..2]
               /\ configured' \in BOOLEAN
    <3>1. level[x] \in 0..2 /\ level[x] < 2
      BY <2>3 DEF Age, TypeOK
    <3>2. level[x] + 1 \in 0..2
      BY <3>1
    <3> QED
      BY <2>3, <3>2 DEF Age, TypeOK
  <2> QED
    BY <2>1, <2>2, <2>3
<1>2. FieldsTyped'
  BY <1>1 DEF TypeOK, FieldsTyped, checker
<1>3. \A c \in Checks : CheckTyped(c)'
  BY <1>1, TypedByParts DEF CheckTyped, checker
<1> QED
  BY <1>2, <1>3, TypedByPartsNext

LEMMA QueryTyped == ASSUME TypeOK, NEW c \in Checks, Query(c) PROVE TypeOK'
<1>1. FieldsTyped'
  BY DEF Query, database, TypeOK, FieldsTyped
<1>2. SameOthers(c) /\ alerts' = alerts
  BY DEF Query, database, SameOthers, TypeOK
<1>3. DOMAIN todo[c] = {}
  BY TypedByParts DEF Query, CheckTyped
<1>4. pc'[c] = "query" /\ todo' = todo
  BY DEF Query, TypeOK
<1>5. CheckTyped(c)'
  BY <1>3, <1>4, TypedByParts DEF CheckTyped
<1> QED
  BY <1>1, <1>2, <1>5, OthersTyped, TypedByPartsNext

LEMMA RowsTyped == ASSUME TypeOK, NEW c \in Checks, Rows(c) PROVE TypeOK'
<1> DEFINE rest == [x \in active[c] |-> level[x]]
<1>1. rest \in [DOMAIN rest -> 0..2] /\ DOMAIN rest \subseteq active[c]
  BY DEF TypeOK
<1>2. Loop(c, rest, memory) /\ UNCHANGED <<database, excused, faults>>
  BY DEF Rows
<1> HIDE DEF rest
<1>3. memory \in [Executions -> SUBSET Severities]
  BY DEF TypeOK
<1>4. /\ SameOthers(c)
      /\ memory' \in [Executions -> SUBSET Severities]
      /\ pc' \in [Checks -> {"idle", "query", "insert", "answer"}]
      /\ active' \in [Checks -> SUBSET Executions]
      /\ DOMAIN todo' = Checks
      /\ target' \in [Checks -> Pairs]
      /\ held' \in [Checks -> SUBSET Severities]
      /\ CheckTyped(c)'
  BY <1>1, <1>2, <1>3, LoopTyped
<1>5. FieldsTyped'
  BY <1>2, <1>4 DEF TypeOK, FieldsTyped, database
<1>6. alerts \subseteq alerts'
  BY <1>2 DEF database
<1> QED
  BY <1>4, <1>5, <1>6, OthersTyped, TypedByPartsNext

LEMMA InsertTyped == ASSUME TypeOK, NEW c \in Checks, Insert(c) PROVE TypeOK'
<1>1. FieldsTyped' /\ alerts \subseteq alerts' /\ SameOthers(c)
  BY DEF Insert, TypeOK, FieldsTyped, SameOthers
<1>2. /\ pc[c] = "insert" /\ pc'[c] = "answer" /\ target[c] \in alerts'
      /\ UNCHANGED <<active, todo, target, held>>
  BY DEF Insert, TypeOK
<1>3. CheckTyped(c)'
  BY <1>2, TypedByParts DEF CheckTyped
<1> QED
  BY <1>1, <1>3, OthersTyped, TypedByPartsNext

(* What a check puts into the map when its alert is stored.                *)
LEMMA KnownType ==
  ASSUME TypeOK, NEW c \in Checks, NEW known \in Known(c)
  PROVE  /\ target[c] \in Pairs /\ target[c][1] \in Executions
         /\ target[c][2] \in Severities
         /\ known \in SUBSET Severities
         /\ held[c] \subseteq known /\ target[c][2] \in known
         /\ [memory EXCEPT ![target[c][1]] = known]
              \in [Executions -> SUBSET Severities]
<1>1. target[c] \in Pairs
  BY DEF TypeOK
<1>2. target[c][1] \in Executions /\ target[c][2] \in Severities
  BY <1>1 DEF Pairs
<1>3. held[c] \subseteq Severities /\ memory[target[c][1]] \subseteq Severities
  BY <1>2 DEF TypeOK
<1>4. /\ known \in SUBSET Severities
      /\ held[c] \subseteq known /\ target[c][2] \in known
  BY <1>2, <1>3 DEF Known
<1>5. memory \in [Executions -> SUBSET Severities]
  BY DEF TypeOK
<1> QED
  BY <1>1, <1>2, <1>4, <1>5

LEMMA AnsweredTyped == ASSUME TypeOK, NEW c \in Checks, Answered(c) PROVE TypeOK'
<1>1. PICK known \in Known(c) :
        Loop(c, todo[c], [memory EXCEPT ![target[c][1]] = known])
  BY DEF Answered
<1>2. todo[c] \in [DOMAIN todo[c] -> 0..2] /\ DOMAIN todo[c] \subseteq active[c]
  BY TypedByParts DEF CheckTyped
<1>3. /\ SameOthers(c)
      /\ memory' \in [Executions -> SUBSET Severities]
      /\ pc' \in [Checks -> {"idle", "query", "insert", "answer"}]
      /\ active' \in [Checks -> SUBSET Executions]
      /\ DOMAIN todo' = Checks
      /\ target' \in [Checks -> Pairs]
      /\ held' \in [Checks -> SUBSET Severities]
      /\ CheckTyped(c)'
  BY <1>1, <1>2, KnownType, LoopTyped
<1>4. UNCHANGED <<database, faults>> /\ excused' \subseteq excused
  BY DEF Answered
<1>5. FieldsTyped'
  BY <1>3, <1>4 DEF TypeOK, FieldsTyped, database
<1>6. alerts \subseteq alerts'
  BY <1>4 DEF database
<1> QED
  BY <1>3, <1>5, <1>6, OthersTyped, TypedByPartsNext

LEMMA CheckFailsTyped ==
  ASSUME TypeOK, NEW c \in Checks, CheckFails(c) PROVE TypeOK'
<1>1. /\ Idle(c) /\ UNCHANGED <<database, memory>>
      /\ faults' \in Nat
      /\ excused' \subseteq Pairs
  BY DEF CheckFails, Fault, TypeOK
<1>2. /\ SameOthers(c) /\ CheckTyped(c)'
      /\ pc' \in [Checks -> {"idle", "query", "insert", "answer"}]
      /\ active' \in [Checks -> SUBSET Executions]
      /\ DOMAIN todo' = Checks
      /\ target' \in [Checks -> Pairs]
      /\ held' \in [Checks -> SUBSET Severities]
  BY <1>1, IdleTyped
<1>3. FieldsTyped' /\ alerts \subseteq alerts'
  BY <1>1, <1>2 DEF TypeOK, FieldsTyped, database
<1> QED
  BY <1>2, <1>3, OthersTyped, TypedByPartsNext

LEMMA RestartTyped == ASSUME TypeOK, Restart PROVE TypeOK'
<1>1. /\ UNCHANGED <<database, pc, active, todo, target, held>>
      /\ memory' \in [Executions -> SUBSET Severities]
      /\ excused' \subseteq Pairs /\ faults' \in Nat
  BY DEF Restart, Fault, TypeOK
<1>2. FieldsTyped'
  BY <1>1 DEF TypeOK, FieldsTyped, database
<1>3. \A c \in Checks : CheckTyped(c)'
  BY <1>1, TypedByParts DEF CheckTyped, database
<1> QED
  BY <1>2, <1>3, TypedByPartsNext

LEMMA CrashTyped == ASSUME TypeOK, Crash PROVE TypeOK'
<1>1. /\ UNCHANGED database
      /\ memory' \in [Executions -> SUBSET Severities]
      /\ excused' \subseteq Pairs /\ faults' \in Nat
  BY DEF Crash, Fault, TypeOK
<1>2. /\ pc' \in [Checks -> {"idle", "query", "insert", "answer"}]
      /\ active' \in [Checks -> SUBSET Executions]
      /\ DOMAIN todo' = Checks
      /\ target' \in [Checks -> Pairs]
      /\ held' \in [Checks -> SUBSET Severities]
  BY NoAlertType DEF Crash
<1>3. FieldsTyped'
  BY <1>1, <1>2 DEF TypeOK, FieldsTyped, database
<1>4. NoRows \in [DOMAIN NoRows -> 0..2] /\ DOMAIN NoRows = {}
  BY DEF NoRows
<1>5. \A c \in Checks : CheckTyped(c)'
  BY <1>4 DEF Crash, CheckTyped
<1> QED
  BY <1>3, <1>5, TypedByPartsNext

LEMMA NextTyped == TypeOK /\ [Next]_vars => TypeOK'
<1> SUFFICES ASSUME TypeOK, [Next]_vars PROVE TypeOK'
  OBVIOUS
<1>1. CASE UNCHANGED vars
  <2>1. FieldsTyped'
    BY <1>1 DEF vars, database, TypeOK, FieldsTyped
  <2>2. \A c \in Checks : CheckTyped(c)'
    BY <1>1, TypedByParts DEF vars, database, CheckTyped
  <2> QED
    BY <2>1, <2>2, TypedByPartsNext
<1>2. CASE Next
  BY <1>2, RestTyped, QueryTyped, RowsTyped, InsertTyped, AnsweredTyped,
     CheckFailsTyped, RestartTyped, CrashTyped DEF Next
<1> QED
  BY <1>1, <1>2

(* Every variable stays in its range, a check under way visits executions  *)
(* that it read, and it never creates an alert that its set knows of.      *)
THEOREM TypeCorrect == Spec => []TypeOK
BY InitTyped, NextTyped, PTL DEF Spec

-----------------------------------------------------------------------------
(* One alert of a severity                                                 *)

(* What OnceInv says of the alerts that are not excused.                   *)
AllRemembered ==
  \A x \in Executions, sev \in Severities :
    <<x, sev>> \in alerts /\ <<x, sev>> \notin excused => Remembered(x, sev)

LEMMA OnceByParts == OnceInv <=> Overlaps /\ WasRunning /\ AllRemembered
BY DEF OnceInv, AllRemembered

LEMMA OnceByPartsNext == OnceInv' <=> Overlaps' /\ WasRunning' /\ AllRemembered'
BY OnceByParts, PTL

LEMMA ExcusedAll ==
  ASSUME excused' = Pairs PROVE Overlaps' /\ AllRemembered'
<1>1. \A x \in Executions, sev \in Severities : <<x, sev>> \in excused'
  BY DEF Pairs
<1> QED
  BY <1>1 DEF Overlaps, AllRemembered

LEMMA OverlapsKept ==
  ASSUME Overlaps, excused = Pairs => excused' = Pairs,
         \A d \in Checks : pc'[d] # "idle" => pc[d] # "idle"
  PROVE  Overlaps'
BY DEF Overlaps

LEMMA WasRunningKept ==
  ASSUME TypeOK, WasRunning,
         \A x \in Executions : status[x] # "pending" => status'[x] # "pending",
         \A d \in Checks : active'[d] \subseteq active[d],
         \A p \in alerts' : p \in alerts \/ \E c \in Checks : p[1] \in active[c]
  PROVE  WasRunning'
<1>1. ASSUME NEW d \in Checks, NEW x \in active'[d] PROVE status'[x] # "pending"
  BY <1>1 DEF WasRunning, TypeOK
<1>2. ASSUME NEW p \in alerts' PROVE status'[p[1]] # "pending"
  <2>1. CASE p \in alerts
    <3>1. p[1] \in Executions
      BY <2>1 DEF TypeOK, Pairs
    <3> QED
      BY <2>1, <3>1 DEF WasRunning
  <2>2. ASSUME NEW c \in Checks, p[1] \in active[c] PROVE status'[p[1]] # "pending"
    <3>1. p[1] \in Executions
      BY <2>2 DEF TypeOK
    <3> QED
      BY <2>2, <3>1 DEF WasRunning
  <2> QED
    BY <1>2, <2>1, <2>2
<1> QED
  BY <1>1, <1>2 DEF WasRunning

(* While a pair is not excused, a check that is under way is alone.        *)
LEMMA Alone ==
  ASSUME TypeOK, Overlaps, excused # Pairs, NEW c \in Checks, pc[c] # "idle",
         NEW d \in Checks \ {c}
  PROVE  pc[d] = "idle" /\ active[d] = {}
<1>1. pc[d] = "idle"
  BY DEF Overlaps
<1> QED
  BY <1>1 DEF TypeOK

LEMMA InitOnce == Init => OnceInv
<1> SUFFICES ASSUME Init PROVE OnceInv
  OBVIOUS
<1>1. alerts = {} /\ \A c \in Checks : pc[c] = "idle" /\ active[c] = {}
  BY DEF Init
<1> QED
  BY <1>1 DEF OnceInv, Overlaps, WasRunning

LEMMA RestOnce ==
  ASSUME TypeOK, OnceInv,
         \/ Configure
         \/ \E x \in Executions : Begin(x) \/ End(x) \/ Age(x)
  PROVE  OnceInv'
<1>1. /\ UNCHANGED checker /\ alerts' = alerts
      /\ \A x \in Executions :
           /\ status[x] # "pending" => status'[x] # "pending"
           /\ status[x] = "over" => status'[x] = "over"
  <2>1. CASE Configure
    BY <2>1 DEF Configure
  <2>2. CASE \E x \in Executions : Begin(x) \/ End(x) \/ Age(x)
    BY <2>2 DEF Begin, End, Age, TypeOK
  <2> QED
    BY <2>1, <2>2
<1>2. Overlaps' /\ WasRunning'
  BY <1>1, OnceByParts, OverlapsKept, WasRunningKept DEF checker
<1>3. ASSUME NEW x \in Executions, NEW sev \in Severities, Remembered(x, sev)
      PROVE  Remembered(x, sev)'
  BY <1>1, <1>3 DEF Remembered, Answering, Settled, checker
<1>4. AllRemembered'
  BY <1>1, <1>3, OnceByParts DEF AllRemembered, checker
<1> QED
  BY <1>2, <1>4, OnceByPartsNext

(* The query reads every execution that an alert can still be about.       *)
LEMMA QueryOnce == ASSUME TypeOK, OnceInv, NEW c \in Checks, Query(c) PROVE OnceInv'
<1>1. /\ pc[c] = "idle" /\ pc' = [pc EXCEPT ![c] = "query"]
      /\ active' = [active EXCEPT ![c] = {x \in Executions : status[x] = "running"}]
      /\ UNCHANGED <<status, alerts, memory, target, held>>
  BY DEF Query, database
<1>2. WasRunning'
  BY <1>1, OnceByParts DEF WasRunning, TypeOK
<1>3. CASE Others(c) # {}
  <2>1. excused' = Pairs
    BY <1>3 DEF Query
  <2> QED
    BY <1>2, <2>1, ExcusedAll, OnceByPartsNext
<1>4. CASE Others(c) = {}
  <2>1. excused' = excused
    BY <1>4 DEF Query
  <2>2. \A d \in Checks \ {c} : pc[d] = "idle" /\ active[d] = {}
    BY <1>4 DEF Others, TypeOK
  <2>3. /\ pc'[c] = "query"
        /\ active'[c] = {x \in Executions : status[x] = "running"}
        /\ \A d \in Checks \ {c} : pc'[d] = "idle" /\ active'[d] = {}
    BY <1>1, <2>2 DEF TypeOK
  <2>4. Overlaps'
    BY <2>3 DEF Overlaps
  <2>5. ASSUME NEW x \in Executions, NEW sev \in Severities,
               <<x, sev>> \in alerts, Remembered(x, sev)
        PROVE  Remembered(x, sev)'
    <3>1. status[x] # "pending"
      <4>1. <<x, sev>>[1] = x
        OBVIOUS
      <4> QED
        BY <2>5, <4>1, OnceByParts DEF WasRunning
    <3>2. x \notin active'[c] => status'[x] = "over"
      BY <1>1, <2>3, <3>1 DEF TypeOK
    <3>3. ~Answering(<<x, sev>>)
      BY <1>1, <2>2 DEF Answering
    <3>4. sev \in memory'[x] \/ Settled(x)'
      <4>1. CASE sev \in memory[x]
        BY <1>1, <4>1
      <4>2. CASE Settled(x)
        <5>1. status[x] = "over"
          BY <4>2 DEF Settled
        <5>2. \A d \in Checks : x \notin active'[d]
          BY <2>3, <5>1
        <5> QED
          BY <1>1, <5>1, <5>2 DEF Settled
      <4> QED
        BY <2>5, <3>3, <4>1, <4>2 DEF Remembered
    <3> QED
      BY <2>3, <3>2, <3>4 DEF Remembered
  <2>6. AllRemembered'
    BY <1>1, <2>1, <2>5, OnceByParts DEF AllRemembered
  <2> QED
    BY <1>2, <2>4, <2>6, OnceByPartsNext
<1> QED
  BY <1>3, <1>4

(* The loop keeps what was known: an execution that the check visits is in *)
(* active, so neither the clean-up nor the next alert forgets it.          *)
LEMMA LoopOnce ==
  ASSUME TypeOK, OnceInv, NEW c \in Checks, pc[c] # "idle",
         NEW rest, NEW known,
         rest \in [DOMAIN rest -> 0..2], DOMAIN rest \subseteq active[c],
         known \in [Executions -> SUBSET Severities],
         Loop(c, rest, known), UNCHANGED database,
         excused' # Pairs => \A d \in Checks \ {c} : pc[d] = "idle",
         \A x \in Executions, sev \in Severities :
           <<x, sev>> \in alerts /\ <<x, sev>> \notin excused' =>
             /\ sev \in known[x] \/ Settled(x)
             /\ x \notin active[c] => status[x] = "over"
  PROVE  OnceInv'
<1>1. SameOthers(c) /\ pc'[c] \in {"idle", "insert"}
  BY LoopTyped
<1>2. status' = status /\ alerts' = alerts
  BY DEF database
<1>3. \A d \in Checks : active'[d] \subseteq active[d]
  BY DEF Loop, Finish, CreateAlert, Idle, TypeOK
<1>4. WasRunning'
  BY <1>2, <1>3, OnceByParts, WasRunningKept
<1>5. CASE excused' = Pairs
  BY <1>4, <1>5, ExcusedAll, OnceByPartsNext
<1>6. CASE excused' # Pairs
  <2>1. \A d \in Checks \ {c} : pc'[d] = "idle" /\ active'[d] = {}
    BY <1>1, <1>6 DEF SameOthers, TypeOK
  <2>2. Overlaps'
    BY <2>1 DEF Overlaps
  <2>3. ASSUME NEW x \in Executions, NEW sev \in Severities,
               <<x, sev>> \in alerts, <<x, sev>> \notin excused'
        PROVE  Remembered(x, sev)'
    <3>1. /\ sev \in known[x] \/ Settled(x)
          /\ x \notin active[c] => status[x] = "over"
      BY <2>3
    <3>2. CASE Finish(c, rest, known)
      <4>1. /\ memory'[x] = IF x \in active[c] THEN known[x] ELSE {}
            /\ pc'[c] = "idle" /\ active'[c] = {}
        BY <3>2, IdleTyped DEF Finish
      <4>2. \A d \in Checks : pc'[d] = "idle" /\ active'[d] = {}
        BY <2>1, <4>1
      <4>3. sev \in memory'[x] \/ Settled(x)'
        BY <1>2, <3>1, <4>1, <4>2 DEF Settled
      <4> QED
        BY <4>2, <4>3 DEF Remembered
    <3>3. CASE CreateAlert(c, rest, known)
      <4>1. PICK y \in DOMAIN rest, other \in Severities :
              /\ target' = [target EXCEPT ![c] = <<y, other>>]
              /\ held' = [held EXCEPT ![c] = known[y]]
              /\ memory' = known
              /\ active' = active
        BY <3>3 DEF CreateAlert
      <4>2. target'[c] = <<y, other>> /\ held'[c] = known[y]
        BY <4>1 DEF TypeOK
      <4>3. sev \in memory'[x] \/ Settled(x)'
        BY <1>2, <3>1, <4>1 DEF Settled
      <4>4. y = x => sev \in known[x]
        BY <3>1 DEF Settled
      <4>5. target'[c][1] = x => sev \in held'[c]
        BY <4>2, <4>4
      <4>6. x \notin active'[c] => status'[x] = "over"
        BY <1>2, <3>1, <4>1
      <4> QED
        BY <2>1, <4>3, <4>5, <4>6 DEF Remembered
    <3> QED
      BY <3>2, <3>3 DEF Loop
  <2>4. AllRemembered'
    BY <1>2, <2>3 DEF AllRemembered
  <2> QED
    BY <1>4, <2>2, <2>4, OnceByPartsNext
<1> QED
  BY <1>5, <1>6

LEMMA RowsOnce == ASSUME TypeOK, OnceInv, NEW c \in Checks, Rows(c) PROVE OnceInv'
<1> DEFINE rest == [x \in active[c] |-> level[x]]
<1>1. rest \in [DOMAIN rest -> 0..2] /\ DOMAIN rest \subseteq active[c]
  BY DEF TypeOK
<1>2. Loop(c, rest, memory) /\ UNCHANGED database /\ excused' = excused
      /\ pc[c] = "query"
  BY DEF Rows
<1> HIDE DEF rest
<1>3. memory \in [Executions -> SUBSET Severities]
  BY DEF TypeOK
<1>4. excused # Pairs => \A d \in Checks \ {c} : pc[d] = "idle"
  BY <1>2, OnceByParts, Alone
<1>5. ASSUME NEW x \in Executions, NEW sev \in Severities,
             <<x, sev>> \in alerts, <<x, sev>> \notin excused
      PROVE  /\ sev \in memory[x] \/ Settled(x)
             /\ x \notin active[c] => status[x] = "over"
  <2>1. Remembered(x, sev)
    BY <1>5, OnceByParts DEF AllRemembered
  <2>2. ~Answering(<<x, sev>>)
    <3>1. <<x, sev>> \in Pairs
      BY DEF Pairs
    <3> QED
      BY <1>2, <1>4, <1>5, <3>1 DEF Answering
  <2> QED
    BY <1>2, <2>1, <2>2 DEF Remembered
<1> QED
  BY <1>1, <1>2, <1>3, <1>4, <1>5, LoopOnce

LEMMA InsertOnce == ASSUME TypeOK, OnceInv, NEW c \in Checks, Insert(c) PROVE OnceInv'
<1>1. /\ pc[c] = "insert" /\ pc' = [pc EXCEPT ![c] = "answer"]
      /\ alerts' = alerts \cup {target[c]}
      /\ UNCHANGED <<status, memory, active, target, held, excused>>
  BY DEF Insert
<1>2. Overlaps'
  BY <1>1, OnceByParts, OverlapsKept DEF TypeOK
<1>3. WasRunning'
  <2>1. target[c][1] \in active[c]
    BY <1>1 DEF TypeOK
  <2> QED
    BY <1>1, <2>1, OnceByParts, WasRunningKept
<1>4. CASE excused = Pairs
  BY <1>1, <1>3, <1>4, ExcusedAll, OnceByPartsNext
<1>5. CASE excused # Pairs
  <2>1. /\ pc'[c] = "answer"
        /\ \A d \in Checks \ {c} : pc'[d] = "idle" /\ active[d] = {}
    BY <1>1, <1>5, OnceByParts, Alone DEF TypeOK
  <2>2. PICK y \in Executions, new \in Severities : target[c] = <<y, new>>
    BY DEF TypeOK, Pairs
  <2>3. y \in active[c]
    BY <1>1, <2>2 DEF TypeOK
  <2>4. ASSUME NEW x \in Executions, NEW sev \in Severities,
               <<x, sev>> \in alerts', <<x, sev>> \notin excused
        PROVE  Remembered(x, sev)'
    <3>1. CASE <<x, sev>> = target[c]
      <4>1. Answering(<<x, sev>>)'
        BY <1>1, <2>1, <3>1 DEF Answering
      <4>2. x = y /\ sev = new
        BY <2>2, <3>1
      <4> QED
        BY <1>1, <2>1, <2>2, <2>3, <4>1, <4>2 DEF Remembered
    <3>2. CASE <<x, sev>> # target[c]
      <4>1. Remembered(x, sev)
        BY <1>1, <2>4, <3>2, OnceByParts DEF AllRemembered
      <4>2. ~Answering(<<x, sev>>)
        BY <1>1, <2>1, <3>2 DEF Answering, TypeOK
      <4>3. sev \in memory'[x] \/ Settled(x)'
        BY <1>1, <4>1, <4>2 DEF Remembered, Settled
      <4>4. target[c][1] = x => sev \in held[c]
        BY <1>1, <4>1 DEF Remembered
      <4>5. x \notin active[c] => status[x] = "over"
        BY <1>1, <4>1 DEF Remembered
      <4> QED
        BY <1>1, <2>1, <4>3, <4>4, <4>5 DEF Remembered
    <3> QED
      BY <3>1, <3>2
  <2>5. AllRemembered'
    BY <1>1, <2>4 DEF AllRemembered
  <2> QED
    BY <1>2, <1>3, <2>5, OnceByPartsNext
<1> QED
  BY <1>4, <1>5

(* A check that is alone puts back what it took from the map and the new   *)
(* severity, so the pair need not be excused any longer.                   *)
LEMMA AnsweredOnce ==
  ASSUME TypeOK, OnceInv, NEW c \in Checks, Answered(c) PROVE OnceInv'
<1>1. /\ pc[c] = "answer" /\ UNCHANGED database
      /\ excused' = IF Others(c) = {} THEN excused \ {target[c]} ELSE excused
  BY DEF Answered
<1>2. PICK known \in Known(c) :
        Loop(c, todo[c], [memory EXCEPT ![target[c][1]] = known])
  BY DEF Answered
<1>3. PICK y \in Executions, new \in Severities : target[c] = <<y, new>>
  BY DEF TypeOK, Pairs
<1>4. PICK after : after = [memory EXCEPT ![y] = known]
  OBVIOUS
<1>5. /\ after \in [Executions -> SUBSET Severities]
      /\ after[y] = known /\ \A x \in Executions \ {y} : after[x] = memory[x]
      /\ held[c] \subseteq known /\ new \in known
      /\ Loop(c, todo[c], after)
  BY <1>2, <1>3, <1>4, KnownType DEF TypeOK
<1>6. todo[c] \in [DOMAIN todo[c] -> 0..2] /\ DOMAIN todo[c] \subseteq active[c]
  BY TypedByParts DEF CheckTyped
<1>7. y \in active[c]
  BY <1>1, <1>3 DEF TypeOK
<1>8. excused' # Pairs => \A d \in Checks \ {c} : pc[d] = "idle"
  <2>1. CASE Others(c) = {}
    BY <2>1 DEF Others
  <2>2. CASE Others(c) # {}
    BY <1>1, <2>2, OnceByParts, Alone
  <2> QED
    BY <2>1, <2>2
<1>9. ASSUME NEW x \in Executions, NEW sev \in Severities,
             <<x, sev>> \in alerts, <<x, sev>> \notin excused'
      PROVE  /\ sev \in after[x] \/ Settled(x)
             /\ x \notin active[c] => status[x] = "over"
  <2>1. CASE x = y /\ sev = new
    BY <1>5, <1>7, <2>1
  <2>2. CASE ~(x = y /\ sev = new)
    <3>1. <<x, sev>> # target[c]
      BY <1>3, <2>2
    <3>2. Remembered(x, sev)
      BY <1>1, <1>9, <3>1, OnceByParts DEF AllRemembered
    <3>3. x \notin active[c] => status[x] = "over"
      BY <1>1, <3>2 DEF Remembered
    <3>4. CASE x = y
      <4>1. target[c][1] = x /\ target[c][2] # sev
        BY <1>3, <2>2, <3>4
      <4>2. sev \in held[c]
        BY <1>1, <3>2, <4>1 DEF Remembered
      <4> QED
        BY <1>5, <3>3, <3>4, <4>2
    <3>5. CASE x # y
      <4>1. <<x, sev>> \in Pairs
        BY DEF Pairs
      <4>2. ~Answering(<<x, sev>>)
        BY <1>8, <1>9, <3>1, <4>1 DEF Answering
      <4> QED
        BY <1>5, <3>2, <3>3, <3>5, <4>2 DEF Remembered
    <3> QED
      BY <3>4, <3>5
  <2> QED
    BY <2>1, <2>2
<1> QED
  BY <1>1, <1>5, <1>6, <1>8, <1>9, LoopOnce

(* A lost answer excuses the pair, since the alert may have been stored.   *)
LEMMA CheckFailsOnce ==
  ASSUME TypeOK, OnceInv, NEW c \in Checks, CheckFails(c) PROVE OnceInv'
<1>1. /\ pc[c] # "idle" /\ Idle(c)
      /\ UNCHANGED <<status, alerts, memory>>
      /\ excused' = IF pc[c] = "answer" THEN excused \cup {target[c]} ELSE excused
  BY DEF CheckFails, database
<1>2. pc'[c] = "idle" /\ active'[c] = {} /\ SameOthers(c)
  BY <1>1, IdleTyped
<1>3. excused' \subseteq Pairs /\ excused \subseteq excused'
  BY <1>1 DEF TypeOK
<1>4. Overlaps'
  BY <1>2, <1>3, OnceByParts, OverlapsKept DEF SameOthers
<1>5. WasRunning'
  BY <1>1, <1>2, OnceByParts, WasRunningKept DEF SameOthers
<1>6. ASSUME NEW x \in Executions, NEW sev \in Severities,
             <<x, sev>> \in alerts, <<x, sev>> \notin excused'
      PROVE  Remembered(x, sev)'
  <2>1. Remembered(x, sev)
    BY <1>3, <1>6, OnceByParts DEF AllRemembered
  <2>2. <<x, sev>> \in Pairs
    BY DEF Pairs
  <2>3. \A d \in Checks \ {c} : pc[d] = "idle" /\ active[d] = {}
    BY <1>1, <1>3, <1>6, <2>2, OnceByParts, Alone
  <2>4. \A d \in Checks : pc'[d] = "idle" /\ active'[d] = {}
    BY <1>2, <2>3 DEF SameOthers
  <2>5. ~Answering(<<x, sev>>)
    BY <1>1, <1>6, <2>3 DEF Answering
  <2>6. sev \in memory'[x] \/ Settled(x)'
    BY <1>1, <2>1, <2>4, <2>5 DEF Remembered, Settled
  <2> QED
    BY <2>4, <2>6 DEF Remembered
<1>7. AllRemembered'
  BY <1>1, <1>6 DEF AllRemembered
<1> QED
  BY <1>4, <1>5, <1>7, OnceByPartsNext

LEMMA RestartOnce == ASSUME TypeOK, OnceInv, Restart \/ Crash PROVE OnceInv'
<1>1. /\ excused' = Pairs /\ UNCHANGED database
      /\ \A d \in Checks : active'[d] \subseteq active[d]
  BY DEF Restart, Crash
<1>2. WasRunning'
  BY <1>1, OnceByParts, WasRunningKept DEF database
<1> QED
  BY <1>1, <1>2, ExcusedAll, OnceByPartsNext

LEMMA NextOnce == TypeOK /\ OnceInv /\ [Next]_vars => OnceInv'
<1> SUFFICES ASSUME TypeOK, OnceInv, [Next]_vars PROVE OnceInv'
  OBVIOUS
<1>1. CASE UNCHANGED vars
  BY <1>1 DEF vars, database, OnceInv, Overlaps, WasRunning, Remembered,
              Answering, Settled
<1>2. CASE Next
  BY <1>2, RestOnce, QueryOnce, RowsOnce, InsertOnce, AnsweredOnce,
     CheckFailsOnce, RestartOnce DEF Next
<1> QED
  BY <1>1, <1>2

(* Until a pair is excused, its memory outlives every clean-up, and every  *)
(* set that is put back contains it.                                       *)
THEOREM MemoryKept == Spec => []OnceInv
BY InitOnce, NextOnce, TypeCorrect, PTL DEF Spec

(* An alert that is being created is not in the set taken from the map, so *)
(* by OnceInv it is stored already only if it is excused.                  *)
LEMMA OnceStep ==
  ASSUME TypeOK, OnceInv, NEW c \in Checks, pc[c] = "insert", target[c] \in alerts
  PROVE  target[c] \in excused
<1>1. PICK x \in Executions, sev \in Severities : target[c] = <<x, sev>>
  BY DEF TypeOK, Pairs
<1>2. SUFFICES ASSUME <<x, sev>> \notin excused PROVE FALSE
  BY <1>1
<1>3. Remembered(x, sev)
  BY <1>1, <1>2, OnceByParts DEF AllRemembered
<1>4. sev \in held[c]
  BY <1>1, <1>3 DEF Remembered
<1>5. sev \notin held[c]
  BY <1>1 DEF TypeOK
<1> QED
  BY <1>4, <1>5

(* No execution gets a second alert of one severity while its first one is *)
(* neither touched by overlapping checks nor by a restart or a lost answer.*)
THEOREM OneAlert == Spec => AlertedOnce
<1>1. TypeOK /\ OnceInv =>
        [\A c \in Checks :
           pc[c] = "insert" /\ pc'[c] = "answer" /\ target[c] \in alerts =>
             target[c] \in excused]_vars
  BY OnceStep
<1> QED
  BY <1>1, TypeCorrect, MemoryKept, PTL DEF AlertedOnce
=============================================================================

--------------------------- MODULE WorkflowsProofs ---------------------------
(***************************************************************************)
(* TypeOK, VersionsUnmixed and LaunchIsConsistent for all requests, bodies,*)
(* launches and deletions.                                                 *)
(*                                                                         *)
(* The definitions in the table are those of one body, what a launch reads *)
(* is one body, and bodies are disjoint: a launch that has inserted a task *)
(* state for everything it read has read the definitions as they are.  An  *)
(* update that has deleted the definitions met none that was referenced,   *)
(* and since there are some, no launch has got as far as a task state.     *)
(***************************************************************************)
EXTENDS WorkflowsProperties, TLAPS

Rows == row \in Accepted \cup {None, Gone} /\ faults \in Nat
RequestStates ==
  request \in [Requests -> {"new", "locked", "emptied", "filled", "done", "error", "not found",
                           "rejected"}]
DeletionStates == deletion \in [Deletions -> {"new", "checked", "conflict", "done", "error"}]
LaunchStates ==
  /\ launch \in [Launches -> {"new", "found", "created", "read", "batch", "queued",
                              "running", "error"}]
  /\ read \in [Launches -> SUBSET Definitions]
  /\ left \in [Launches -> SUBSET Definitions]
  /\ status \in [Launches -> {"none", "pending", "running", "over"}]
  /\ tasks \in [Launches -> SUBSET Definitions]

OneUpdate ==
  /\ \A q, r \in Open : q = r
  /\ Open # {} => Exists /\ Open \subseteq Accepted

(* Nothing references the definitions that an update has deleted.          *)
Free(e) ==
  /\ tasks[e] = {}
  /\ launch[e] = "batch" /\ e \notin Scheduled => read[e] \ left[e] = {}
Dropped ==
  /\ dropped \in [Requests -> SUBSET Definitions]
  /\ \A r \in Requests :
       request[r] \in {"emptied", "filled"} =>
         dropped[r] = defs /\ \A e \in Launches : Free(e)

(* What a launch has read, inserted and committed.                         *)
Reads(e) ==
  /\ left[e] \subseteq read[e]
  /\ launch[e] \in {"found", "read"} => row # None
  /\ launch[e] = "read" =>
       /\ left[e] = read[e]
       /\ (read[e] = {} /\ row = Gone) \/ \E r \in Accepted : read[e] = Body(r)
  /\ launch[e] = "batch" =>
       /\ \E r \in Accepted : read[e] = Body(r)
       /\ e \in Scheduled => tasks[e] = read[e] \ left[e]
       /\ e \notin Scheduled => tasks[e] = {} /\ read[e] \ left[e] \subseteq defs
Stands(e) ==
  /\ launch[e] \in {"new", "found", "read"} => status[e] = "none"
  /\ launch[e] \in {"created", "batch", "queued"} => status[e] = "pending"
  /\ launch[e] = "created" => tasks[e] = {}
  /\ launch[e] = "queued" \/ status[e] \in {"running", "over"} => tasks[e] = defs
  /\ status[e] = "none" => tasks[e] = {}
  /\ status[e] # "none" => Exists
  /\ tasks[e] \subseteq defs
  /\ e \notin Scheduled => tasks[e] \in {{}, defs}

IInv ==
  /\ Rows /\ RequestStates /\ DeletionStates /\ LaunchStates
  /\ OneUpdate /\ Dropped /\ VersionsUnmixed
  /\ \A e \in Launches : Reads(e) /\ Stands(e)

-----------------------------------------------------------------------------
LEMMA IInvImplies == IInv => TypeOK /\ LaunchIsConsistent
<1>1. IInv => defs \subseteq Definitions
  BY DEF IInv, VersionsUnmixed, Exists, Definitions
<1>2. QED
  BY <1>1 DEF IInv, Rows, RequestStates, DeletionStates, LaunchStates, OneUpdate, Dropped,
              Reads, Stands, TypeOK, LaunchIsConsistent

(* Bodies are disjoint, those of accepted requests not empty.              *)
LEMMA Bodies ==
  /\ \A r \in Accepted : r \in Requests /\ Body(r) # {} /\ Body(r) \subseteq Definitions
  /\ \A q, r \in Requests : Body(q) \cap Body(r) # {} => q = r
<1>1. ASSUME NEW r \in Accepted
      PROVE  r \in Requests /\ Body(r) # {} /\ Body(r) \subseteq Definitions
  <2>1. PICK t \in Tasks(r) : TRUE
    BY RequestAssumption
  <2>2. <<r, t>> \in Body(r)
    BY <2>1 DEF Body
  <2>3. QED BY <2>2, RequestAssumption DEF Definitions
<1>2. ASSUME NEW q \in Requests, NEW r \in Requests, Body(q) \cap Body(r) # {}
      PROVE  q = r
  <2>1. PICK d : d \in Body(q) /\ d \in Body(r)
    BY <1>2
  <2>2. QED BY <2>1 DEF Body
<1>3. QED BY <1>1, <1>2

LEMMA InitIInv == Init => IInv
<1> SUFFICES ASSUME Init PROVE IInv
  OBVIOUS
<1>1. Open = {} /\ ~Exists
  BY RequestAssumption DEF Init, Open, Exists
<1>2. Rows /\ RequestStates /\ DeletionStates /\ LaunchStates
  BY FaultAssumption DEF Init, Rows, RequestStates, DeletionStates, LaunchStates
<1>3. OneUpdate /\ VersionsUnmixed
  BY <1>1 DEF Init, OneUpdate, VersionsUnmixed
<1>4. Dropped
  BY DEF Init, Dropped
<1>5. \A e \in Launches : Reads(e) /\ Stands(e)
  BY DEF Init, Reads, Stands
<1>6. QED BY <1>2, <1>3, <1>4, <1>5 DEF IInv

-----------------------------------------------------------------------------
(* Updates.  A step that leaves the tables alone can only harm itself.     *)
LEMMA AnswerKeeps ==
  ASSUME IInv, NEW r \in Requests, NEW s \in {"locked", "emptied", "filled", "done", "error",
                                              "not found", "rejected"},
         request' = [request EXCEPT ![r] = s], faults' \in Nat,
         UNCHANGED <<row, defs, deletion, launching>>,
         s \in {"locked", "emptied", "filled"} => r \in Accepted /\ Exists /\ Open \subseteq {r},
         dropped' \in [Requests -> SUBSET Definitions],
         \A q \in Requests \ {r} : dropped'[q] = dropped[q],
         s \in {"emptied", "filled"} => dropped'[r] = defs /\ \A e \in Launches : Free(e)
  PROVE  IInv'
<1>1. \A q \in Requests : request'[q] = IF q = r THEN s ELSE request[q]
  BY DEF IInv, RequestStates
<1>2. (Rows /\ RequestStates /\ DeletionStates /\ LaunchStates)'
  BY DEF IInv, Rows, RequestStates, DeletionStates, LaunchStates, launching
<1>3. (\A e \in Launches : Reads(e) /\ Stands(e))'
  BY DEF IInv, Reads, Stands, Exists, launching
<1>4. VersionsUnmixed'
  BY DEF IInv, VersionsUnmixed, Exists
<1>5. OneUpdate'
  <2>1. CASE s \in {"locked", "emptied", "filled"}
    <3>1. Open' \subseteq {r} /\ Exists' /\ r \in Accepted
      BY <1>1, <2>1 DEF Open, Exists
    <3>2. QED BY <3>1 DEF OneUpdate
  <2>2. CASE s \notin {"locked", "emptied", "filled"}
    <3>1. Open' \subseteq Open /\ (Exists => Exists')
      BY <1>1, <2>2 DEF Open, Exists
    <3>2. QED BY <3>1 DEF IInv, OneUpdate
  <2>3. QED BY <2>1, <2>2
<1>6. (\A e \in Launches : Free(e)) => (\A e \in Launches : Free(e))'
  BY DEF Free, launching
<1>7. Dropped'
  BY <1>1, <1>6 DEF IInv, Dropped
<1>8. QED BY <1>2, <1>3, <1>4, <1>5, <1>7 DEF IInv

(* Open is the update that gets on.                                        *)
LEMMA TheUpdate ==
  ASSUME IInv, NEW r \in Requests, request[r] \in {"locked", "emptied", "filled"}
  PROVE  r \in Accepted /\ Exists /\ Open = {r}
BY DEF IInv, OneUpdate, Open

LEMMA DefsTypes == IInv => defs \subseteq Definitions
BY DEF IInv, VersionsUnmixed, Exists, Definitions

LEMMA RequestStep ==
  ASSUME IInv, NEW r \in Requests,
         \/ Reject(r) \/ CreateRefused(r) \/ Lock(r) \/ NotFound(r)
         \/ DeleteRefused(r) \/ InsertDefinitions(r) \/ RequestFails(r)
  PROVE  IInv'
<1>1. dropped' = dropped /\ dropped \in [Requests -> SUBSET Definitions] /\ faults' \in Nat
  <2>1. dropped \in [Requests -> SUBSET Definitions] /\ faults \in Nat
    BY DEF IInv, Rows, Dropped
  <2>2. CASE RequestFails(r)
    BY <2>1, <2>2 DEF RequestFails, Fault
  <2>3. CASE ~RequestFails(r)
    BY <2>1, <2>3 DEF Reject, CreateRefused, Lock, NotFound, DeleteRefused, InsertDefinitions, Answer
  <2>4. QED BY <2>2, <2>3
<1>2. CASE Reject(r) \/ CreateRefused(r) \/ NotFound(r) \/ DeleteRefused(r) \/ RequestFails(r)
  BY <1>1, <1>2, AnswerKeeps DEF Reject, CreateRefused, NotFound, DeleteRefused, RequestFails, Answer
<1>3. CASE Lock(r)
  BY <1>1, <1>3, AnswerKeeps DEF Lock, Answer
<1>4. CASE InsertDefinitions(r)
  <2>1. request[r] = "emptied" /\ UNCHANGED <<row, defs, deletion, launching>>
    BY <1>4 DEF InsertDefinitions, Answer
  <2>2. r \in Accepted /\ Exists /\ Open \subseteq {r} /\ dropped[r] = defs /\ \A e \in Launches : Free(e)
    BY <2>1, TheUpdate DEF IInv, Dropped
  <2>3. CASE r \in Edged
    BY <1>1, <1>4, <2>1, <2>2, <2>3, AnswerKeeps DEF InsertDefinitions, Answer
  <2>4. CASE r \notin Edged
    BY <1>1, <1>4, <2>1, <2>2, <2>4, AnswerKeeps DEF InsertDefinitions, Answer
  <2>5. QED BY <2>3, <2>4
<1>5. QED BY <1>2, <1>3, <1>4

LEMMA CreateStep ==
  ASSUME IInv, NEW r \in Requests, Create(r)
  PROVE  IInv'
<1>1. r \in Accepted /\ ~Exists /\ Open = {} /\ row' = r /\ Exists' /\ defs' = Body(r)
  BY RequestAssumption DEF IInv, OneUpdate, Create, Exists
<1>2. \A q \in Requests : request'[q] = IF q = r THEN "done" ELSE request[q]
  BY DEF IInv, RequestStates, Create, Answer
<1>3. (Rows /\ RequestStates /\ DeletionStates /\ LaunchStates)'
  BY DEF IInv, Rows, RequestStates, DeletionStates, LaunchStates, launching, Create, Answer
<1>4. (\A e \in Launches : Reads(e) /\ Stands(e))'
  <2> SUFFICES ASSUME NEW e \in Launches PROVE Reads(e)' /\ Stands(e)'
    OBVIOUS
  <2>1. status[e] = "none" /\ tasks[e] = {} /\ launch[e] \notin {"found", "read", "created", "batch", "queued"}
    BY <1>1 DEF IInv, Reads, Stands, Create
  <2>2. QED BY <2>1 DEF IInv, Reads, Stands, launching, Create, Answer
<1>5. OneUpdate' /\ VersionsUnmixed'
  BY <1>1, <1>2 DEF OneUpdate, Open, VersionsUnmixed
<1>6. Dropped'
  BY <1>1, <1>2 DEF IInv, Dropped, Open, Create
<1>7. QED BY <1>3, <1>4, <1>5, <1>6 DEF IInv

LEMMA DeleteDefinitionsStep ==
  ASSUME IInv, NEW r \in Requests, DeleteDefinitions(r)
  PROVE  IInv'
<1>1. r \in Accepted /\ Exists /\ Open = {r}
  BY TheUpdate DEF DeleteDefinitions, Answer
<1>2. ASSUME NEW e \in Launches PROVE Free(e)
  <2>1. tasks[e] \subseteq Referenced /\ tasks[e] \subseteq defs
    BY DEF Referenced, IInv, Stands
  <2>2. ASSUME launch[e] = "batch", e \notin Scheduled
        PROVE  read[e] \ left[e] \subseteq Shared /\ read[e] \ left[e] \subseteq defs
    BY <2>2 DEF Shared, IInv, Reads
  <2>3. QED BY <2>1, <2>2 DEF Free, DeleteDefinitions
<1>3. /\ dropped' \in [Requests -> SUBSET Definitions]
      /\ \A q \in Requests \ {r} : dropped'[q] = dropped[q]
      /\ dropped'[r] = defs
  BY DefsTypes DEF IInv, Dropped, DeleteDefinitions
<1>4. QED BY <1>1, <1>2, <1>3, AnswerKeeps DEF IInv, Rows, DeleteDefinitions, Answer

(* Once definitions are deleted no launch is further than its reads.       *)
LEMMA Emptiness ==
  ASSUME IInv, NEW r \in Requests, request[r] \in {"emptied", "filled"}
  PROVE  /\ defs # {}
         /\ \A e \in Launches :
              tasks[e] = {} /\ launch[e] # "queued" /\ status[e] \notin {"running", "over"}
<1>1. defs = Body(row) /\ row \in Accepted
  BY TheUpdate, RequestAssumption DEF Rows, IInv, VersionsUnmixed, Exists
<1>2. QED BY <1>1, Bodies DEF IInv, Dropped, Free, Stands

LEMMA CommitStep ==
  ASSUME IInv, NEW r \in Requests, Commit(r)
  PROVE  IInv'
<1>1. r \in Accepted /\ Exists /\ Open = {r} /\ request[r] = "filled" /\ dropped[r] = defs
  BY TheUpdate DEF IInv, Dropped, Commit, Answer
<1>2. row' = r /\ r \in Accepted /\ Exists' /\ defs' = Body(r)
  BY <1>1 DEF Commit, Exists
<1>3. \A q \in Requests : request'[q] = IF q = r THEN "done" ELSE request[q]
  BY DEF IInv, RequestStates, Commit, Answer
<1>4. (Rows /\ RequestStates /\ DeletionStates /\ LaunchStates)'
  BY <1>2 DEF IInv, Rows, RequestStates, DeletionStates, LaunchStates, launching, Commit, Answer
<1>5. (\A e \in Launches : Reads(e) /\ Stands(e))'
  <2> SUFFICES ASSUME NEW e \in Launches PROVE Reads(e)' /\ Stands(e)'
    OBVIOUS
  <2>1. /\ Free(e) /\ tasks[e] = {} /\ launch[e] # "queued" /\ status[e] \notin {"running", "over"}
        /\ Reads(e) /\ Stands(e)
    BY <1>1, Emptiness DEF IInv, Dropped
  <2>2. UNCHANGED launching /\ row # Gone /\ row # None /\ row' # None
    BY <1>1, <1>2, RequestAssumption DEF Commit, Answer, Exists
  <2>3. QED BY <1>2, <2>1, <2>2 DEF Reads, Stands, Free, launching
<1>6. OneUpdate' /\ VersionsUnmixed'
  BY <1>1, <1>2, <1>3 DEF OneUpdate, Open, VersionsUnmixed
<1>7. Dropped'
  BY <1>1, <1>3 DEF IInv, Dropped, Open, Commit
<1>8. QED BY <1>4, <1>5, <1>6, <1>7 DEF IInv

-----------------------------------------------------------------------------
(* Deletions.  What leaves all but their own states alone harms nothing.   *)
LEMMA Unmoved ==
  ASSUME IInv, UNCHANGED <<row, defs, request, dropped, launching, faults>>, DeletionStates'
  PROVE  IInv'
<1>1. UNCHANGED <<launch, read, left, status, tasks>>
  BY DEF launching
<1>2. Rows' /\ RequestStates' /\ LaunchStates'
  BY <1>1 DEF IInv, Rows, RequestStates, LaunchStates
<1>3. Open' = Open /\ Exists' = Exists
  BY DEF Open, Exists
<1>4. OneUpdate' /\ VersionsUnmixed'
  BY <1>3 DEF IInv, OneUpdate, VersionsUnmixed
<1>5. \A e \in Launches : Free(e)' = Free(e) /\ Reads(e)' = Reads(e) /\ Stands(e)' = Stands(e)
  BY <1>1, <1>3 DEF Free, Reads, Stands
<1>6. Dropped'
  BY <1>5 DEF IInv, Dropped
<1>7. QED BY <1>2, <1>4, <1>5, <1>6 DEF IInv

LEMMA CheckStep ==
  ASSUME IInv, NEW x \in Deletions, CheckActive(x) \/ DeleteWorkflowRefused(x)
  PROVE  IInv'
<1>1. UNCHANGED <<row, defs, request, dropped, launching, faults>>
  BY DEF CheckActive, DeleteWorkflowRefused, Turn
<1>2. DeletionStates'
  BY DEF IInv, DeletionStates, CheckActive, DeleteWorkflowRefused, Turn
<1>3. QED BY <1>1, <1>2, Unmoved

LEMMA DeleteWorkflowStep ==
  ASSUME IInv, NEW x \in Deletions, DeleteWorkflow(x)
  PROVE  IInv'
<1>1. Open = {} /\ row' = Gone /\ ~Exists' /\ defs' = {} /\ Gone # None
  BY RequestAssumption DEF DeleteWorkflow, Exists
<1>2. UNCHANGED <<request, dropped, launching, faults>>
  BY DEF DeleteWorkflow, Turn
<1>3. (Rows /\ RequestStates /\ DeletionStates /\ LaunchStates)'
  BY <1>1, <1>2 DEF IInv, Rows, RequestStates, DeletionStates, LaunchStates, launching,
                    DeleteWorkflow, Turn
<1>4. (\A e \in Launches : Reads(e) /\ Stands(e))'
  <2> SUFFICES ASSUME NEW e \in Launches PROVE Reads(e)' /\ Stands(e)'
    OBVIOUS
  <2>1. /\ status[e] = "none" /\ tasks[e] = {} /\ launch[e] \notin {"created", "batch", "queued"}
        /\ Reads(e) /\ Stands(e)
    BY DEF IInv, Reads, Stands, DeleteWorkflow
  <2>2. QED BY <1>1, <1>2, <2>1 DEF Reads, Stands, launching
<1>5. Open' = {} /\ OneUpdate' /\ VersionsUnmixed'
  BY <1>1, <1>2 DEF OneUpdate, Open, VersionsUnmixed
<1>6. Dropped'
  BY <1>1, <1>2 DEF IInv, Dropped, Open
<1>7. QED BY <1>3, <1>4, <1>5, <1>6 DEF IInv

-----------------------------------------------------------------------------
(* Launches.  Each step is the step of one.                                *)
Alike(e) ==
  /\ launch'[e] = launch[e] /\ read'[e] = read[e] /\ left'[e] = left[e]
  /\ status'[e] = status[e] /\ tasks'[e] = tasks[e]

LEMMA LaunchKeeps ==
  ASSUME IInv, NEW e \in Launches, UNCHANGED <<row, defs, request, dropped, deletion>>,
         faults' \in Nat, LaunchStates', \A f \in Launches \ {e} : Alike(f),
         Reads(e)', Stands(e)', Emptied => Free(e)'
  PROVE  IInv'
<1>1. (Rows /\ RequestStates /\ DeletionStates)'
  BY DEF IInv, Rows, RequestStates, DeletionStates
<1>2. ASSUME NEW f \in Launches PROVE Reads(f)' /\ Stands(f)'
  <2>1. CASE f = e
    BY <2>1
  <2>2. CASE f # e
    BY <2>2 DEF IInv, Reads, Stands, Exists, Alike
  <2>3. QED BY <2>1, <2>2
<1>3. OneUpdate' /\ VersionsUnmixed'
  BY DEF IInv, OneUpdate, Open, VersionsUnmixed, Exists
<1>4. Dropped'
  <2> SUFFICES ASSUME NEW r \in Requests, request[r] \in {"emptied", "filled"},
                      NEW f \in Launches
               PROVE  Free(f)'
    BY DEF IInv, Dropped
  <2>1. Emptied /\ Free(f)
    BY DEF IInv, Dropped, Emptied
  <2>2. CASE f = e
    BY <2>1, <2>2
  <2>3. CASE f # e
    BY <2>1, <2>3 DEF Free, Alike
  <2>4. QED BY <2>2, <2>3
<1>5. QED BY <1>1, <1>2, <1>3, <1>4 DEF IInv

(* A launch that gets on, and a launch that stays as it is.                *)
LEMMA StepKeeps ==
  ASSUME IInv, NEW e \in Launches,
         NEW from \in {"new", "found", "created", "read", "batch", "queued"},
         NEW to \in {"found", "created", "read", "batch", "queued", "running", "error"},
         Step(e, from, to)
  PROVE  /\ launch[e] = from /\ UNCHANGED <<row, defs, request, dropped, deletion>>
         /\ faults' \in Nat
         /\ launch' \in [Launches -> {"new", "found", "created", "read", "batch", "queued",
                                      "running", "error"}]
         /\ \A f \in Launches : launch'[f] = IF f = e THEN to ELSE launch[f]
         /\ Reads(e) /\ Stands(e)
BY DEF IInv, Rows, LaunchStates, Step

LEMMA Undone == IInv => \A e \in Launches : Emptied => Free(e)
BY DEF IInv, Dropped, Emptied

LEMMA FindWorkflowStep ==
  ASSUME IInv, NEW e \in Launches, FindWorkflow(e)
  PROVE  IInv'
<1>1. Step(e, "new", "found") /\ Exists /\ UNCHANGED <<read, left, status, tasks>>
  BY DEF FindWorkflow
<1>2. LaunchStates' /\ \A f \in Launches \ {e} : Alike(f)
  BY <1>1, StepKeeps DEF IInv, LaunchStates, Alike
<1>3. Reads(e)' /\ Stands(e)'
  BY <1>1, StepKeeps, RequestAssumption DEF Reads, Stands, Exists
<1>4. Emptied => Free(e)'
  BY <1>1, StepKeeps, Undone DEF Free
<1>5. QED BY <1>1, <1>2, <1>3, <1>4, StepKeeps, LaunchKeeps

LEMMA ReadDefinitionsStep ==
  ASSUME IInv, NEW e \in Launches, ReadDefinitions(e)
  PROVE  IInv'
<1> DEFINE from == IF e \in Scheduled THEN "created" ELSE "found"
           to == IF e \in Scheduled THEN "batch" ELSE "read"
<1>1. /\ Step(e, from, to) /\ UNCHANGED <<status, tasks>>
      /\ from \in {"created", "found"} /\ to \in {"batch", "read"}
      /\ to = "batch" <=> e \in Scheduled
  BY DEF ReadDefinitions
<1> HIDE DEF from, to
<1>2. /\ launch[e] = from /\ UNCHANGED <<row, defs, request, dropped, deletion>>
      /\ faults' \in Nat /\ Reads(e) /\ Stands(e)
      /\ \A f \in Launches : launch'[f] = IF f = e THEN to ELSE launch[f]
  BY <1>1, StepKeeps
<1>3. \A f \in Launches : /\ read'[f] = IF f = e THEN defs ELSE read[f]
                          /\ left'[f] = IF f = e THEN defs ELSE left[f]
  BY DEF IInv, LaunchStates, ReadDefinitions
<1>4. LaunchStates'
  BY <1>1, StepKeeps, DefsTypes DEF IInv, LaunchStates, ReadDefinitions
<1>5. \A f \in Launches \ {e} : Alike(f)
  BY <1>1, <1>2, <1>3 DEF Alike
<1>6. (\E r \in Accepted : defs = Body(r)) \/ (defs = {} /\ row = Gone /\ from = "found")
  <2>1. CASE Exists
    BY <2>1, RequestAssumption DEF Rows, IInv, VersionsUnmixed, Exists
  <2>2. CASE ~Exists
    BY <1>1, <1>2, <2>2, RequestAssumption DEF IInv, Rows, VersionsUnmixed, Exists, Reads, Stands
  <2>3. QED BY <2>1, <2>2
<1>7. from = "created" <=> to = "batch"
  BY DEF from, to
<1>8. Reads(e)' /\ Stands(e)'
  BY <1>1, <1>2, <1>3, <1>6, <1>7 DEF Reads, Stands, Exists
<1>9. Emptied => Free(e)'
  BY <1>1, <1>2, <1>3, Undone DEF Free
<1>10. QED BY <1>2, <1>4, <1>5, <1>8, <1>9, LaunchKeeps

LEMMA InsertExecutionStep ==
  ASSUME IInv, NEW e \in Launches, InsertExecution(e)
  PROVE  IInv'
<1> DEFINE from == IF e \in Scheduled THEN "new" ELSE "read"
           to == IF e \in Scheduled THEN "created" ELSE "batch"
<1>1. /\ Step(e, from, to) /\ Exists /\ UNCHANGED <<read, left, tasks>>
      /\ from \in {"new", "read"} /\ to \in {"created", "batch"}
      /\ to = "batch" => e \notin Scheduled /\ from = "read"
      /\ to = "created" => e \in Scheduled
  BY DEF InsertExecution
<1> HIDE DEF from, to
<1>2. /\ launch[e] = from /\ UNCHANGED <<row, defs, request, dropped, deletion>>
      /\ faults' \in Nat /\ Reads(e) /\ Stands(e)
      /\ \A f \in Launches : launch'[f] = IF f = e THEN to ELSE launch[f]
  BY <1>1, StepKeeps
<1>3. \A f \in Launches : status'[f] = IF f = e THEN "pending" ELSE status[f]
  BY DEF IInv, LaunchStates, InsertExecution
<1>4. LaunchStates'
  BY <1>1, StepKeeps DEF IInv, LaunchStates, InsertExecution
<1>5. \A f \in Launches \ {e} : Alike(f)
  BY <1>1, <1>2, <1>3 DEF Alike
<1>6. tasks[e] = {} /\ row # Gone
  BY <1>1, <1>2, RequestAssumption DEF Stands, Exists
<1>7. Reads(e)'
  BY <1>1, <1>2, <1>6 DEF Reads
<1>8. Stands(e)'
  BY <1>1, <1>2, <1>3, <1>6 DEF Stands, Exists
<1>9. Emptied => Free(e)'
  BY <1>1, <1>2, <1>6 DEF Free, Reads
<1>10. QED BY <1>2, <1>4, <1>5, <1>7, <1>8, <1>9, LaunchKeeps

(* A launch that ends here leaves what it has written.                     *)
LEMMA Ends ==
  ASSUME IInv, NEW e \in Launches, launch' = [launch EXCEPT ![e] = "error"],
         launch[e] # "running", faults' \in Nat,
         UNCHANGED <<row, defs, request, dropped, deletion, read, left, status, tasks>>
  PROVE  IInv'
<1>1. LaunchStates' /\ \A f \in Launches \ {e} : Alike(f)
  BY DEF IInv, LaunchStates, Alike
<1>2. launch'[e] = "error" /\ Reads(e) /\ Stands(e)
  BY DEF IInv, LaunchStates
<1>3. Reads(e)' /\ Stands(e)'
  BY <1>2 DEF Reads, Stands, Exists
<1>4. Emptied => Free(e)'
  BY <1>2, Undone DEF Free
<1>5. QED BY <1>1, <1>3, <1>4, LaunchKeeps

LEMMA InsertTaskStep ==
  ASSUME IInv, NEW e \in Launches, NEW d \in Definitions, InsertTask(e, d)
  PROVE  IInv'
<1>1. /\ Step(e, "batch", "batch") /\ d \in left[e] /\ d \in defs /\ ~Emptied
      /\ UNCHANGED <<read, status>>
  BY DEF InsertTask
<1>2. /\ launch[e] = "batch" /\ UNCHANGED <<row, defs, request, dropped, deletion>>
      /\ faults' \in Nat /\ Reads(e) /\ Stands(e) /\ launch' = launch
  BY <1>1, StepKeeps DEF Step, IInv, LaunchStates
<1>3. /\ \A f \in Launches : left'[f] = IF f = e THEN left[f] \ {d} ELSE left[f]
      /\ \A f \in Launches :
           tasks'[f] = IF f = e /\ e \in Scheduled THEN tasks[f] \cup {d} ELSE tasks[f]
  BY DEF IInv, LaunchStates, InsertTask
<1>4. LaunchStates'
  BY <1>2 DEF IInv, LaunchStates, InsertTask
<1>5. \A f \in Launches \ {e} : Alike(f)
  BY <1>1, <1>2, <1>3 DEF Alike
<1>6. Reads(e)' /\ Stands(e)'
  BY <1>1, <1>2, <1>3 DEF Reads, Stands, Exists
<1>7. QED BY <1>1, <1>2, <1>4, <1>5, <1>6, LaunchKeeps

(* Everything it read is still there: it has read the present definitions. *)
LEMMA CommitBatchStep ==
  ASSUME IInv, NEW e \in Launches, CommitBatch(e)
  PROVE  IInv'
<1>1. Step(e, "batch", "queued") /\ left[e] = {} /\ UNCHANGED <<read, left, status>>
  BY DEF CommitBatch
<1>2. /\ launch[e] = "batch" /\ UNCHANGED <<row, defs, request, dropped, deletion>>
      /\ faults' \in Nat /\ Reads(e) /\ Stands(e)
      /\ \A f \in Launches : launch'[f] = IF f = e THEN "queued" ELSE launch[f]
  BY <1>1, StepKeeps
<1>3. \A f \in Launches : tasks'[f] = IF f = e THEN read[e] ELSE tasks[f]
  BY DEF IInv, LaunchStates, CommitBatch
<1>4. PICK r \in Accepted : read[e] = Body(r)
  BY <1>2 DEF Reads
<1>5. read[e] \subseteq defs /\ Exists
  BY <1>1, <1>2 DEF Reads, Stands
<1>6. read[e] = defs /\ defs # {}
  BY <1>4, <1>5, Bodies, RequestAssumption DEF IInv, Rows, VersionsUnmixed, Exists
<1>7. ~Emptied
  BY <1>1, <1>2, <1>6, Undone DEF Free, Reads
<1>8. LaunchStates'
  BY <1>1, StepKeeps DEF IInv, LaunchStates, CommitBatch
<1>9. \A f \in Launches \ {e} : Alike(f)
  BY <1>1, <1>2, <1>3 DEF Alike
<1>10. Reads(e)' /\ Stands(e)'
  BY <1>1, <1>2, <1>3, <1>6 DEF Reads, Stands, Exists
<1>11. QED BY <1>2, <1>7, <1>8, <1>9, <1>10, LaunchKeeps

LEMMA MarkRunningStep ==
  ASSUME IInv, NEW e \in Launches, MarkRunning(e)
  PROVE  IInv'
<1>1. Step(e, "queued", "running") /\ UNCHANGED <<read, left, tasks>>
  BY DEF MarkRunning
<1>2. /\ launch[e] = "queued" /\ UNCHANGED <<row, defs, request, dropped, deletion>>
      /\ faults' \in Nat /\ Reads(e) /\ Stands(e)
      /\ \A f \in Launches : launch'[f] = IF f = e THEN "running" ELSE launch[f]
  BY <1>1, StepKeeps
<1>3. \A f \in Launches : status'[f] = IF f = e THEN "running" ELSE status[f]
  BY DEF IInv, LaunchStates, MarkRunning
<1>4. LaunchStates' /\ \A f \in Launches \ {e} : Alike(f)
  BY <1>1, <1>2, <1>3, StepKeeps DEF IInv, LaunchStates, MarkRunning, Alike
<1>5. Reads(e)' /\ Stands(e)'
  BY <1>1, <1>2, <1>3 DEF Reads, Stands, Exists
<1>6. Emptied => Free(e)'
  BY <1>1, <1>2, Undone DEF Free
<1>7. QED BY <1>2, <1>4, <1>5, <1>6, LaunchKeeps

LEMMA CompleteStep ==
  ASSUME IInv, NEW e \in Launches, Complete(e)
  PROVE  IInv'
<1>1. /\ \A f \in Launches : status'[f] = IF f = e THEN "over" ELSE status[f]
      /\ LaunchStates' /\ status[e] = "running" /\ Reads(e) /\ Stands(e)
      /\ UNCHANGED <<row, defs, request, dropped, deletion, launch, read, left, tasks>>
      /\ faults' \in Nat
  BY DEF IInv, Rows, LaunchStates, Complete
<1>2. \A f \in Launches \ {e} : Alike(f)
  BY <1>1 DEF Alike
<1>3. Reads(e)' /\ Stands(e)'
  BY <1>1 DEF Reads, Stands, Exists
<1>4. Emptied => Free(e)'
  BY <1>1, Undone DEF Free
<1>5. QED BY <1>1, <1>2, <1>3, <1>4, LaunchKeeps

-----------------------------------------------------------------------------
LEMMA NextIInv == IInv /\ [Next]_vars => IInv'
<1> SUFFICES ASSUME IInv, [Next]_vars PROVE IInv'
  OBVIOUS
<1>1. ASSUME NEW r \in Requests,
             \/ Reject(r) \/ Create(r) \/ CreateRefused(r) \/ Lock(r) \/ NotFound(r)
             \/ DeleteDefinitions(r) \/ DeleteRefused(r) \/ InsertDefinitions(r)
             \/ Commit(r) \/ RequestFails(r)
      PROVE  IInv'
  BY <1>1, CreateStep, RequestStep, DeleteDefinitionsStep, CommitStep
<1>2. ASSUME NEW x \in Deletions,
             CheckActive(x) \/ DeleteWorkflow(x) \/ DeleteWorkflowRefused(x)
      PROVE  IInv'
  BY <1>2, CheckStep, DeleteWorkflowStep
<1>3. ASSUME NEW e \in Launches,
             \/ FindWorkflow(e) \/ ReadDefinitions(e) \/ InsertExecution(e)
             \/ CommitBatch(e) \/ MarkRunning(e) \/ Complete(e)
      PROVE  IInv'
  BY <1>3, FindWorkflowStep, ReadDefinitionsStep, InsertExecutionStep, CommitBatchStep,
     MarkRunningStep, CompleteStep
<1>4. ASSUME NEW e \in Launches, LaunchFails(e)
      PROVE  IInv'
  <2>1. faults' \in Nat
    BY <1>4 DEF IInv, Rows, LaunchFails, Fault
  <2>2. QED BY <1>4, <2>1, Ends DEF LaunchFails
<1>5. ASSUME NEW e \in Launches, ExecutionRefused(e)
      PROVE  IInv'
  BY <1>5, Ends DEF ExecutionRefused, Step, IInv, Rows
<1>6. ASSUME NEW e \in Launches, NEW d \in Definitions, InsertTask(e, d) \/ TaskRefused(e, d)
      PROVE  IInv'
  <2>1. CASE InsertTask(e, d)
    BY <2>1, InsertTaskStep
  <2>2. CASE TaskRefused(e, d)
    BY <2>2, Ends DEF TaskRefused, Step, IInv, Rows
  <2>3. QED BY <1>6, <2>1, <2>2
<1>7. CASE UNCHANGED vars
  <2>1. UNCHANGED <<row, defs, request, dropped, launching, faults, deletion>>
    BY <1>7 DEF vars, launching
  <2>2. DeletionStates'
    BY <2>1 DEF IInv, DeletionStates
  <2>3. QED BY <2>1, <2>2, Unmoved
<1>8. QED BY <1>1, <1>2, <1>3, <1>4, <1>5, <1>6, <1>7 DEF Next

LEMMA SpecIInv == Spec => []IInv
BY InitIInv, NextIInv, PTL DEF Spec

(* One update at a time, on a workflow that exists.                        *)
THEOREM TypeCorrect == Spec => []TypeOK
BY SpecIInv, IInvImplies, PTL

(* The row and the definitions of a workflow stem from one request.        *)
THEOREM VersionsAreUnmixed == Spec => []VersionsUnmixed
<1>1. IInv => VersionsUnmixed
  BY DEF IInv
<1>2. QED BY <1>1, SpecIInv, PTL

(* No execution without its workflow, and no task state of a definition    *)
(* that is not the workflow's; whatever ran has all of them.               *)
THEOREM LaunchesAreConsistent == Spec => []LaunchIsConsistent
BY SpecIInv, IInvImplies, PTL
=============================================================================

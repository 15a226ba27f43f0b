------------------------- MODULE HeartbeatProperties -------------------------
(***************************************************************************)
(* What heartbeats promise: who beats is listed as healthy, who does not   *)
(* beat any more is not for long.                                          *)
(***************************************************************************)
EXTENDS Heartbeat

Remaining(n) == 0..n \cup {Off}

(* While the emitter runs, a timer or an awaited call leads to the next    *)
(* heartbeat, the handle is that of a live interval, and only keys that    *)
(* exist have a time to live.                                              *)
TypeOK ==
  /\ up \in BOOLEAN /\ running \in BOOLEAN /\ listed \in BOOLEAN
  /\ initial \in Remaining(Initial)
  /\ interval \in Timers \cup {Off}
  /\ timers \in [Timers -> Remaining(Period)]
  /\ calls \in [Timers \cup {First} -> {"none", "hset", "expire"}]
  /\ age \in Remaining(Threshold + 1) /\ ttl \in Remaining(Ttl) \ {0}
  /\ snapshot \in {"unknown", "healthy", "unhealthy"} /\ refresh \in 0..Refresh
  /\ missed \in 0..2 /\ starts \in 0..MaxStarts /\ faults \in 0..MaxFaults
  /\ running => up /\ (initial # Off \/ calls[First] # "none" \/ interval # Off)
  /\ interval # Off => timers[interval] # Off
  /\ ttl # Off => age # Off

(* An executor that the tracker has seen since its start stays healthy as  *)
(* long as no two heartbeats in a row fail: neither the time to live nor   *)
(* the threshold runs out over one that is lost, or over an EXPIRE that    *)
(* failed after its HSET.                                                  *)
MissedBeatTolerated == running /\ listed => snapshot = "healthy"

(* An executor that was stopped, or crashed, does not stay healthy in the  *)
(* tracker's eyes: whatever timers and calls stop leaves behind, and       *)
(* whether or not its key has a time to live.                              *)
SilenceShows == ~running ~> (running \/ snapshot # "healthy")
=============================================================================

----------------------------- MODULE MCHeartbeat -----------------------------
(* Units of five seconds, so that all intervals are those of the code.     *)
EXTENDS HeartbeatProperties
=============================================================================

-------------------------------- MODULE MCSla --------------------------------
(* Two executions, so that one can be in a check's way to the other, and   *)
(* two checks, so that they can overlap.                                   *)
EXTENDS SlaProperties
=============================================================================

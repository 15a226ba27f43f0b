-------------------------------- MODULE MCDag --------------------------------
(* Every graph over three tasks, self-loops and references to a fourth,    *)
(* undefined task included, and every loop-free graph over four tasks in   *)
(* which the fourth has no successor.                                      *)
EXTENDS DagProperties

FourIds == 1..4

SmallRequests ==
  {[tasks |-> 1..3, edges |-> E] :
     E \in SUBSET ((1..3) \X (1..3) \cup {<<1, 4>>, <<4, 1>>})}

WideRequests ==
  {[tasks |-> 1..4, edges |-> E] :
     E \in SUBSET {e \in (1..3) \X (1..4) : e[1] # e[2]}}

AllRequests == SmallRequests \cup WideRequests
=============================================================================

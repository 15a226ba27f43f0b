----------------------------- MODULE MCExecutor -----------------------------
(* Values for the constants of Executor in the TLC runs.                   *)
EXTENDS ExecutorProperties, TLC

(* Every retriable task may be attempted twice.                            *)
TwoAttempts == [t \in Retriable |-> 2]
ThreeAttempts == [t \in Retriable |-> 3]

Symmetry == Permutations(Executors)
=============================================================================

----------------------------- MODULE MCExecution -----------------------------
(* Three tasks, numbered in topological order, under every workflow of at  *)
(* most three edges in which each edge is absent, plain or conditional.    *)
EXTENDS ExecutionProperties

ThreeTasks == 1..3
ForwardEdges == {<<1, 2>>, <<1, 3>>, <<2, 3>>}

AllGraphs ==
  UNION {{[edges |-> E, conditional |-> C] : C \in SUBSET E} :
           E \in SUBSET ForwardEdges}

(* The workflows in which two paths meet in task 3.                        *)
Joins ==
  {g \in AllGraphs : Cardinality({e \in g.edges : e[2] = 3}) = 2}
=============================================================================

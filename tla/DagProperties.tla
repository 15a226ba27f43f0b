---------------------------- MODULE DagProperties ----------------------------
(***************************************************************************)
(* What the graph algorithms compute, against definitions that do not      *)
(* mention how: a graph has a cycle when some non-empty set of its nodes   *)
(* contains a predecessor of each of its members.                          *)
(***************************************************************************)
EXTENDS Dag

HasCycle ==
  \E X \in SUBSET tasks :
    X # {} /\ \A u \in X : \E s \in X : <<s, u>> \in edges

(* Gray nodes are on the path, in the order of the calls, unless a cycle   *)
(* was found; black nodes are in postOrder, each once.                     *)
TypeOK ==
  /\ tasks \subseteq Ids /\ edges \subseteq Ids \X Ids
  /\ invalid \subseteq Ids \X Ids
  /\ caller \in {"validateDAG", "topologicalSort"}
  /\ phase \in {"references", "visit", "reach", "done"}
  /\ color \in [Ids -> {"white", "gray", "black", "undefined"}]
  /\ \A n \in Ids : color[n] = "undefined" <=> n \notin tasks
  /\ path \in Seq(Ids)
  /\ \A i \in 1..Len(path) : color[path[i]] = "gray"
  /\ todo \in [Ids -> SUBSET Ids]
  /\ cycleNodes \subseteq Ids \cup {Undefined}
  /\ postOrder \in Seq(Ids)
  /\ \A n \in Ids :
       color[n] = "black" <=> \E i \in 1..Len(postOrder) : postOrder[i] = n
  /\ visited \subseteq tasks /\ frontier \subseteq tasks

Requested == edges \cup invalid

(* validateDAG accepts exactly the requests whose edges connect tasks of   *)
(* the request and whose graph has no cycle; in particular the             *)
(* reachability check never rejects what the cycle check let pass.         *)
VerdictCorrect ==
  phase = "done" /\ caller = "validateDAG" =>
    (Valid <=> Requested \subseteq tasks \X tasks /\ ~HasCycle)

(* topologicalSort finds an order exactly for the graphs without a cycle;  *)
(* it lists every task once, the source of each edge before its target.    *)
SortCorrect ==
  phase = "done" /\ caller = "topologicalSort" =>
    /\ Valid <=> ~HasCycle
    /\ Valid =>
         /\ \A n \in tasks : \E i \in 1..Len(Order) : Order[i] = n
         /\ \A i, j \in 1..Len(Order) :
              /\ Order[i] = Order[j] => i = j
              /\ <<Order[i], Order[j]>> \in edges => i < j

(* Both functions end on every graph, those with several cycles included.  *)
Terminates == <>(phase = "done")
=============================================================================

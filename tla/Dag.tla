--------------------------------- MODULE Dag ---------------------------------
(***************************************************************************)
(* The graph algorithms of packages/shared (dag-validator.ts and           *)
(* topological-sorter.ts): validateDAG, which every workflow passes before *)
(* it is stored, and topologicalSort.  Both walk the graph depth first     *)
(* with white, gray and black nodes; one step is one neighbour looked at.  *)
(* Tasks and edges are visited in any order: the code takes that of the    *)
(* request, and nothing may depend on it.                                  *)
(***************************************************************************)
EXTENDS Integers, Sequences

CONSTANTS
  Ids,        \* task identifiers that a request may mention
  Requests,   \* requests considered: [tasks, edges]
  Undefined   \* the value of an array outside its bounds

(* createWorkflow uses the names of the tasks as identifiers: two tasks of *)
(* one name are one node here as they are in the maps of the code.         *)
ASSUME RequestAssumption ==
  \A r \in Requests : r.tasks \subseteq Ids /\ r.edges \subseteq Ids \X Ids
ASSUME UndefinedAssumption == Undefined \notin Ids

VARIABLES
  caller,      \* "validateDAG" or "topologicalSort"
  tasks,       \* identifiers of the task definitions, fixed
  edges,       \* pairs of a source and a target; validateDAG drops some
  phase,       \* what the function is doing
  invalid,     \* edges that name an unknown task
  color,       \* white, gray or black, undefined for an unknown task
  path,        \* the calls of dfs that are active, innermost last
  todo,        \* neighbours that the call for a node has still to look at
  cycleNodes,  \* nodes reported to be on a cycle
  postOrder,   \* nodes in the order in which they became black
  visited,     \* nodes that the breadth-first search has reached
  frontier     \* nodes in its queue

input == <<caller, tasks>>
walk  == <<color, path, todo, cycleNodes, postOrder>>
reach == <<visited, frontier>>
vars  == <<input, edges, phase, invalid, walk, reach>>

Neighbors(n) == {v \in Ids : n \in tasks /\ <<n, v>> \in edges}
Roots == {n \in tasks : \A s \in Ids : <<s, n>> \notin edges}

Init ==
  /\ \E r \in Requests : tasks = r.tasks /\ edges = r.edges
  /\ caller \in {"validateDAG", "topologicalSort"}
  /\ phase = IF caller = "validateDAG" THEN "references" ELSE "visit"
  /\ invalid = {}
  /\ color = [n \in Ids |-> IF n \in tasks THEN "white" ELSE "undefined"]
  /\ path = << >>
  /\ todo = [n \in Ids |-> {}]
  /\ cycleNodes = {}
  /\ postOrder = << >>
  /\ visited = {}
  /\ frontier = {}

-----------------------------------------------------------------------------
(* validateEdgeReferences; the rest of validateDAG sees valid edges only.  *)

ValidateEdgeReferences ==
  /\ phase = "references"
  /\ invalid' = {e \in edges : e[1] \notin tasks \/ e[2] \notin tasks}
  /\ edges' = edges \ invalid'
  /\ phase' = "visit"
  /\ UNCHANGED <<input, walk, reach>>

-----------------------------------------------------------------------------
(* dfs                                                                     *)

Top == path[Len(path)]

(* The active call looks at its next neighbour.                            *)
Looks(v) == phase = "visit" /\ path # << >> /\ v \in todo[Top]

CallRoot(n) ==
  /\ phase = "visit"
  /\ path = << >>
  /\ color[n] = "white"
  /\ color' = [color EXCEPT ![n] = "gray"]
  /\ path' = <<n>>
  /\ todo' = [todo EXCEPT ![n] = Neighbors(n)]
  /\ UNCHANGED <<input, edges, phase, invalid, cycleNodes, postOrder, reach>>

Call(v) ==
  /\ Looks(v)
  /\ color[v] = "white"
  /\ color' = [color EXCEPT ![v] = "gray"]
  /\ path' = Append(path, v)
  /\ todo' = [todo EXCEPT ![Top] = @ \ {v}, ![v] = Neighbors(v)]
  /\ UNCHANGED <<input, edges, phase, invalid, cycleNodes, postOrder, reach>>

(* Mutant: two colors, a node on the path passes for a finished one.       *)
PassVisited(v) ==
  /\ Looks(v)
  /\ color[v] # "white"
  /\ todo' = [todo EXCEPT ![Top] = @ \ {v}]
  /\ UNCHANGED <<input, edges, phase, invalid, color, path, cycleNodes,
                 postOrder, reach>>

Pass(v) ==
  /\ Looks(v)
  /\ color[v] \in {"black", "undefined"}
  /\ todo' = [todo EXCEPT ![Top] = @ \ {v}]
  /\ UNCHANGED <<input, edges, phase, invalid, color, path, cycleNodes,
                 postOrder, reach>>

(* path.indexOf(v) is -1 for a gray node that an earlier, aborted visit    *)
(* left behind: the loop then starts before the array and adds undefined   *)
(* and the whole path.                                                     *)
OnPath(v) == \E i \in 1..Len(path) : path[i] = v

CycleThrough(v) ==
  IF OnPath(v)
  THEN {path[i] : i \in {k \in 1..Len(path) : \E j \in 1..k : path[j] = v}}
  ELSE {path[i] : i \in 1..Len(path)} \cup {v, Undefined}

(* A gray neighbour: every active call returns true, without turning its   *)
(* node black.  detectCycles then goes on with the next white task,        *)
(* topologicalSort returns.                                                *)
FindCycle(v) ==
  /\ Looks(v)
  /\ color[v] = "gray"
  /\ cycleNodes' = cycleNodes \cup CycleThrough(v)
  /\ path' = << >>
  /\ phase' = IF caller = "validateDAG" THEN "visit" ELSE "done"
  /\ UNCHANGED <<input, edges, invalid, color, todo, postOrder, reach>>

Pop(s) == SubSeq(s, 1, Len(s) - 1)

(* Mutant: the finished node stays on the path.                            *)
ReturnToItself ==
  /\ phase = "visit"
  /\ path # << >>
  /\ todo[Top] = {}
  /\ color[Top] = "gray"
  /\ color' = [color EXCEPT ![Top] = "black"]
  /\ path' = IF Len(path) = 1 THEN << >> ELSE path
  /\ postOrder' = Append(postOrder, Top)
  /\ UNCHANGED <<input, edges, phase, invalid, todo, cycleNodes, reach>>

Return ==
  /\ phase = "visit"
  /\ path # << >>
  /\ todo[Top] = {}
  /\ color' = [color EXCEPT ![Top] = "black"]
  /\ path' = Pop(path)
  /\ postOrder' = Append(postOrder, Top)
  /\ UNCHANGED <<input, edges, phase, invalid, todo, cycleNodes, reach>>

(* Mutant: the loop waits for every task to turn black.                    *)
EndVisitsBlack ==
  /\ phase = "visit"
  /\ path = << >>
  /\ \A n \in tasks : color[n] = "black"
  /\ IF caller = "validateDAG" /\ cycleNodes = {}
     THEN phase' = "reach" /\ frontier' = Roots
     ELSE phase' = "done" /\ UNCHANGED frontier
  /\ UNCHANGED <<input, edges, invalid, walk, visited>>

(* No white task is left.  Reachability is checked if there is no cycle.   *)
EndVisits ==
  /\ phase = "visit"
  /\ path = << >>
  /\ \A n \in tasks : color[n] # "white"
  /\ IF caller = "validateDAG" /\ cycleNodes = {}
     THEN phase' = "reach" /\ frontier' = Roots
     ELSE phase' = "done" /\ UNCHANGED frontier
  /\ UNCHANGED <<input, edges, invalid, walk, visited>>

-----------------------------------------------------------------------------
(* checkReachability                                                       *)

Reach(n) ==
  /\ phase = "reach"
  /\ n \in frontier
  /\ visited' = visited \cup {n}
  /\ frontier' = (frontier \cup Neighbors(n)) \ visited'
  /\ UNCHANGED <<input, edges, phase, invalid, walk>>

EndReach ==
  /\ phase = "reach"
  /\ frontier = {}
  /\ phase' = "done"
  /\ UNCHANGED <<input, edges, invalid, walk, reach>>

-----------------------------------------------------------------------------
(* The results                                                             *)

Unreachable == tasks \ visited

Valid ==
  /\ invalid = {}
  /\ cycleNodes = {}
  /\ caller = "validateDAG" => Unreachable = {}

(* Mutant: the post-order itself.                                          *)
PostOrder == postOrder

Order == [i \in 1..Len(postOrder) |-> postOrder[Len(postOrder) + 1 - i]]

-----------------------------------------------------------------------------
Step(n) == CallRoot(n) \/ Call(n) \/ Pass(n) \/ FindCycle(n) \/ Reach(n)

Next ==
  \/ ValidateEdgeReferences \/ Return \/ EndVisits \/ EndReach
  \/ \E n \in Ids : Step(n)

Spec == Init /\ [][Next]_vars

(* The functions run to their end in one turn of the event loop.           *)
FairSpec == Spec /\ WF_vars(Next)
=============================================================================

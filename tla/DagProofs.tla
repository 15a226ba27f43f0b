------------------------------ MODULE DagProofs ------------------------------
(***************************************************************************)
(* validateDAG and topologicalSort are right for every graph: the verdict  *)
(* of the one and the order of the other, for any identifiers and any      *)
(* order of visits.  The argument is the classical one for three colors:   *)
(* a node turns black when all its neighbours are black, so no set of      *)
(* black nodes contains a predecessor of each of its members; and as long  *)
(* as no cycle was found the gray nodes are those on the path, so a gray   *)
(* neighbour closes a cycle.  Every step leaves less to do than there was. *)
(***************************************************************************)
EXTENDS DagProperties, SequenceTheorems, FiniteSetTheorems, TLAPS

Black == {n \in Ids : color[n] = "black"}

Settled(v) == color[v] \in {"black", "undefined"}

(* Edges are fixed once their references were checked.                     *)
EdgesInv ==
  /\ caller = "validateDAG" /\ phase # "references" =>
       /\ edges \subseteq tasks \X tasks
       /\ \A e \in invalid : e \notin tasks \X tasks
  /\ caller = "topologicalSort" => invalid = {} /\ phase # "references"
  /\ phase = "references" =>
       /\ \A n \in Ids : color[n] \in {"white", "undefined"}
       /\ path = << >> /\ postOrder = << >> /\ cycleNodes = {}

(* The path is a walk without repetition; what a call on it has looked at  *)
(* is settled, save the node that it called.                               *)
PathInv ==
  /\ phase # "visit" => path = << >>
  /\ \A i, j \in 1..Len(path) : path[i] = path[j] => i = j
  /\ \A i \in 1..Len(path) :
       /\ todo[path[i]] \subseteq Neighbors(path[i])
       /\ i < Len(path) => path[i + 1] \in Neighbors(path[i])
       /\ \A v \in Neighbors(path[i]) \ todo[path[i]] :
            Settled(v) \/ (i < Len(path) /\ v = path[i + 1])
  /\ cycleNodes = {} => \A n \in Ids : color[n] = "gray" => OnPath(n)

(* Black nodes have black neighbours only, contain no cycle, and are       *)
(* listed in postOrder after their neighbours.                             *)
BlackInv ==
  /\ \A n \in Black : \A v \in Neighbors(n) : Settled(v)
  /\ \A X \in SUBSET Black :
       X # {} => \E u \in X : \A s \in X : <<s, u>> \notin edges
  /\ \A i, j \in 1..Len(postOrder) :
       /\ postOrder[i] = postOrder[j] => i = j
       /\ <<postOrder[i], postOrder[j]>> \in edges => j < i

(* A cycle is reported only when there is one, and when none is reported   *)
(* every task is black in the end.                                         *)
CycleInv ==
  /\ cycleNodes # {} => HasCycle
  /\ phase \in {"reach", "done"} /\ cycleNodes = {} => tasks \subseteq Black

(* The breadth-first search starts at the roots and omits no neighbour.    *)
ReachInv ==
  /\ phase = "reach" => caller = "validateDAG" /\ cycleNodes = {}
  /\ phase \in {"references", "visit"} => visited = {} /\ frontier = {}
  /\ phase \in {"reach", "done"} /\ caller = "validateDAG" /\ cycleNodes = {} =>
       /\ Roots \subseteq visited \cup frontier
       /\ \A n \in visited : Neighbors(n) \subseteq visited \cup frontier
       /\ phase = "done" => frontier = {}

IInv == TypeOK /\ EdgesInv /\ PathInv /\ BlackInv /\ CycleInv /\ ReachInv

-----------------------------------------------------------------------------
(* The sequences that the walk builds.                                     *)
LEMMA AppendFacts ==
  ASSUME NEW S, NEW s \in Seq(S), NEW v \in S
  PROVE  /\ Append(s, v) \in Seq(S)
         /\ Len(s) \in Nat /\ Len(Append(s, v)) = Len(s) + 1
         /\ \A i \in 1..Len(s) : Append(s, v)[i] = s[i]
         /\ Append(s, v)[Len(s) + 1] = v
OBVIOUS

LEMMA PopFacts ==
  ASSUME NEW S, NEW s \in Seq(S), s # << >>
  PROVE  /\ Pop(s) \in Seq(S)
         /\ Len(s) \in Nat \ {0} /\ Len(Pop(s)) = Len(s) - 1
         /\ \A i \in 1..Len(s) - 1 : Pop(s)[i] = s[i]
         /\ s[Len(s)] \in S
BY SubSeqProperties DEF Pop

LEMMA TopFacts ==
  ASSUME TypeOK, path # << >>
  PROVE  /\ Len(path) \in Nat \ {0} /\ Top = path[Len(path)]
         /\ Top \in Ids /\ Top \in tasks /\ color[Top] = "gray"
BY DEF TypeOK, Top

(* Nothing that these are made of changes when edges and tasks do not.     *)
LEMMA SameGraph ==
  ASSUME UNCHANGED <<tasks, edges>>
  PROVE  /\ \A n : Neighbors(n)' = Neighbors(n)
         /\ Roots' = Roots
         /\ HasCycle' = HasCycle
BY DEF Neighbors, Roots, HasCycle

-----------------------------------------------------------------------------
(* The initial states.                                                     *)
LEMMA InitIInv == Init => IInv
<1> SUFFICES ASSUME Init PROVE IInv
  OBVIOUS
<1>1. TypeOK
  BY RequestAssumption DEF Init, TypeOK
<1>2. EdgesInv
  BY DEF Init, EdgesInv
<1>3. PathInv
  BY DEF Init, PathInv
<1>4. BlackInv
  <2>1. Black = {}
    BY DEF Init, Black
  <2> QED
    BY <2>1 DEF Init, BlackInv
<1>5. CycleInv
  BY DEF Init, CycleInv
<1>6. ReachInv
  BY DEF Init, ReachInv
<1> QED
  BY <1>1, <1>2, <1>3, <1>4, <1>5, <1>6 DEF IInv

-----------------------------------------------------------------------------
(* The steps.                                                              *)
LEMMA ReferencesStep == IInv /\ ValidateEdgeReferences => IInv'
<1> SUFFICES ASSUME IInv, ValidateEdgeReferences PROVE IInv'
  OBVIOUS
<1> USE DEF IInv
<1>0. /\ UNCHANGED <<input, walk, reach>>
      /\ caller = "validateDAG" /\ phase = "references" /\ phase' = "visit"
      /\ invalid' = {e \in edges : e[1] \notin tasks \/ e[2] \notin tasks}
      /\ edges' = edges \ invalid'
  BY DEF ValidateEdgeReferences, EdgesInv, TypeOK
<1>1. TypeOK'
  BY <1>0 DEF TypeOK, input, walk, reach
<1>2. EdgesInv'
  BY <1>0 DEF TypeOK, EdgesInv, input, walk, reach
<1>3. PathInv'
  BY <1>0 DEF PathInv, EdgesInv, input, walk, reach
<1>4. BlackInv'
  <2>1. Black' = {}
    BY <1>0 DEF EdgesInv, Black, walk
  <2> QED
    BY <1>0, <2>1 DEF BlackInv, EdgesInv, walk
<1>5. CycleInv'
  BY <1>0 DEF CycleInv, EdgesInv, walk
<1>6. ReachInv'
  BY <1>0 DEF ReachInv, reach
<1> QED
  BY <1>1, <1>2, <1>3, <1>4, <1>5, <1>6

LEMMA CallRootStep == ASSUME NEW n \in Ids PROVE IInv /\ CallRoot(n) => IInv'
<1> SUFFICES ASSUME IInv, CallRoot(n) PROVE IInv'
  OBVIOUS
<1> USE DEF IInv
<1>0. /\ UNCHANGED <<caller, tasks, edges, phase, invalid, cycleNodes,
                     postOrder, visited, frontier>>
      /\ phase = "visit" /\ path = << >> /\ path' = <<n>>
      /\ color[n] = "white" /\ color' = [color EXCEPT ![n] = "gray"]
      /\ todo' = [todo EXCEPT ![n] = Neighbors(n)]
  BY DEF CallRoot, input, reach
<1>1. /\ color \in [Ids -> {"white", "gray", "black", "undefined"}]
      /\ todo \in [Ids -> SUBSET Ids]
  BY DEF TypeOK
<1>2. /\ \A m : Neighbors(m)' = Neighbors(m)
      /\ Roots' = Roots /\ HasCycle' = HasCycle
  BY <1>0, SameGraph
<1>3. /\ \A u \in Ids : Settled(u) => Settled(u)'
      /\ Black' = Black
  BY <1>0, <1>1 DEF Settled, Black
<1>4. /\ path' \in Seq(Ids) /\ Len(path') = 1 /\ path'[1] = n
  BY <1>0
<1>5. TypeOK'
  <2>1. \A i \in 1..Len(path') : color'[path'[i]] = "gray"
    BY <1>0, <1>1, <1>4
  <2>2. todo' \in [Ids -> SUBSET Ids]
    BY <1>0, <1>1 DEF Neighbors
  <2> QED
    BY <1>0, <1>4, <2>1, <2>2 DEF TypeOK
<1>6. EdgesInv'
  BY <1>0 DEF EdgesInv
<1>7. PathInv'
  <2>1. \A i \in 1..Len(path') : i = 1 /\ path'[i] = n
    BY <1>4
  <2>2. todo'[n] = Neighbors(n)
    BY <1>0, <1>1
  <2>3. cycleNodes = {} => \A u \in Ids : color'[u] = "gray" => OnPath(u)'
    <3>1. OnPath(n)'
      BY <1>4 DEF OnPath
    <3>2. cycleNodes = {} => \A u \in Ids : color[u] # "gray"
      BY <1>0 DEF PathInv, OnPath
    <3> QED
      BY <1>0, <1>1, <3>1, <3>2
  <2> QED
    BY <1>0, <1>2, <1>4, <2>1, <2>2, <2>3 DEF PathInv
<1>8. BlackInv'
  <2>1. \A u \in Black : \A v \in Neighbors(u) : Settled(v)'
    BY <1>3 DEF BlackInv, Neighbors
  <2> QED
    BY <1>0, <1>2, <1>3, <2>1 DEF BlackInv
<1>9. CycleInv'
  BY <1>0, <1>2 DEF CycleInv
<1>10. ReachInv'
  BY <1>0 DEF ReachInv
<1> QED
  BY <1>5, <1>6, <1>7, <1>8, <1>9, <1>10

LEMMA CallStep == ASSUME NEW n \in Ids PROVE IInv /\ Call(n) => IInv'
<1> SUFFICES ASSUME IInv, Call(n) PROVE IInv'
  OBVIOUS
<1> USE DEF IInv
<1>0. /\ UNCHANGED <<caller, tasks, edges, phase, invalid, cycleNodes,
                     postOrder, visited, frontier>>
      /\ phase = "visit" /\ path # << >> /\ path' = Append(path, n)
      /\ color[n] = "white" /\ color' = [color EXCEPT ![n] = "gray"]
      /\ n \in todo[Top]
      /\ todo' = [todo EXCEPT ![Top] = @ \ {n}, ![n] = Neighbors(n)]
  BY DEF Call, Looks, input, reach
<1>1. /\ color \in [Ids -> {"white", "gray", "black", "undefined"}]
      /\ todo \in [Ids -> SUBSET Ids]
      /\ path \in Seq(Ids)
      /\ \A i \in 1..Len(path) : path[i] \in Ids /\ color[path[i]] = "gray"
  BY DEF TypeOK
<1>2. /\ \A m : Neighbors(m)' = Neighbors(m)
      /\ Roots' = Roots /\ HasCycle' = HasCycle
  BY <1>0, SameGraph
<1>3. /\ \A u \in Ids : Settled(u) => Settled(u)'
      /\ Black' = Black
  BY <1>0, <1>1 DEF Settled, Black
<1>4. /\ path' \in Seq(Ids) /\ Len(path) \in Nat /\ Len(path') = Len(path) + 1
      /\ \A i \in 1..Len(path) : path'[i] = path[i]
      /\ path'[Len(path) + 1] = n
  BY <1>0, <1>1, AppendFacts
<1>5. /\ Len(path) \in Nat \ {0} /\ Top = path[Len(path)]
      /\ Top \in Ids /\ Top # n
  BY <1>0, TopFacts
<1>6. TypeOK'
  <2>1. \A i \in 1..Len(path') : color'[path'[i]] = "gray"
    <3> SUFFICES ASSUME NEW i \in 1..Len(path')
                 PROVE  color'[path'[i]] = "gray"
      OBVIOUS
    <3>1. CASE i = Len(path) + 1
      BY <1>0, <1>1, <1>4, <3>1
    <3>2. CASE i # Len(path) + 1
      BY <1>0, <1>1, <1>4, <3>2
    <3> QED
      BY <3>1, <3>2
  <2>2. todo' \in [Ids -> SUBSET Ids]
    BY <1>0, <1>1, <1>5 DEF Neighbors
  <2>3. /\ color' \in [Ids -> {"white", "gray", "black", "undefined"}]
        /\ \A u \in Ids : color'[u] = "undefined" <=> color[u] = "undefined"
        /\ \A u \in Ids : color'[u] = "black" <=> color[u] = "black"
    BY <1>0, <1>1
  <2> QED
    BY SMTT(30), <1>0, <1>4, <2>1, <2>2, <2>3 DEF TypeOK
<1>7. EdgesInv'
  BY <1>0 DEF EdgesInv
<1>8. PathInv'
  <2>1. \A i \in 1..Len(path') :
          \/ i = Len(path) + 1 /\ path'[i] = n /\ todo'[path'[i]] = Neighbors(n)
          \/ /\ i = Len(path) /\ path'[i] = Top /\ path'[i + 1] = n
             /\ todo'[path'[i]] = todo[Top] \ {n}
          \/ /\ i \in 1..Len(path) - 1
             /\ path'[i] = path[i] /\ path'[i + 1] = path[i + 1]
             /\ todo'[path'[i]] = todo[path[i]]
    <3> SUFFICES ASSUME NEW i \in 1..Len(path')
                 PROVE  \/ /\ i = Len(path) + 1 /\ path'[i] = n
                           /\ todo'[path'[i]] = Neighbors(n)
                        \/ /\ i = Len(path) /\ path'[i] = Top
                           /\ path'[i + 1] = n
                           /\ todo'[path'[i]] = todo[Top] \ {n}
                        \/ /\ i \in 1..Len(path) - 1
                           /\ path'[i] = path[i] /\ path'[i + 1] = path[i + 1]
                           /\ todo'[path'[i]] = todo[path[i]]
      OBVIOUS
    <3>1. CASE i = Len(path) + 1
      BY <1>0, <1>1, <1>4, <3>1
    <3>2. CASE i = Len(path)
      BY <1>0, <1>1, <1>4, <1>5, <3>2
    <3>3. CASE i < Len(path)
      <4>1. path[i] # Top /\ path[i] # n /\ path[i] \in Ids
        BY <1>0, <1>1, <1>5, <3>3 DEF PathInv
      <4> QED
        BY <1>0, <1>1, <1>4, <1>5, <3>3, <4>1
    <3> QED
      BY <1>4, <1>5, <3>1, <3>2, <3>3
  <2>2. \A i, j \in 1..Len(path') : path'[i] = path'[j] => i = j
    <3>1. \A i \in 1..Len(path) : path[i] # n
      BY <1>0, <1>1
    <3> QED
      BY <1>4, <1>5, <3>1 DEF PathInv
  <2>3. ASSUME NEW i \in 1..Len(path')
        PROVE  /\ todo'[path'[i]] \subseteq Neighbors(path'[i])
               /\ i < Len(path') => path'[i + 1] \in Neighbors(path'[i])
               /\ \A v \in Neighbors(path'[i]) \ todo'[path'[i]] :
                    Settled(v)' \/ (i < Len(path') /\ v = path'[i + 1])
    <3>1. CASE i = Len(path) + 1
      BY <1>4, <1>5, <2>1, <3>1
    <3>2. CASE i = Len(path)
      <4>1. /\ todo[Top] \subseteq Neighbors(Top)
            /\ \A v \in Neighbors(Top) \ todo[Top] : Settled(v)
        BY <1>5 DEF PathInv
      <4>2. \A v \in Neighbors(Top) \ todo[Top] : Settled(v)'
        BY <1>3, <4>1 DEF Neighbors
      <4>3. /\ path'[i] = Top /\ path'[i + 1] = n
            /\ todo'[Top] = todo[Top] \ {n} /\ i < Len(path')
        BY <1>4, <1>5, <2>1, <3>2
      <4> QED
        BY <1>0, <4>1, <4>2, <4>3
    <3>3. CASE i < Len(path)
      <4>1. /\ todo[path[i]] \subseteq Neighbors(path[i])
            /\ path[i + 1] \in Neighbors(path[i])
            /\ \A v \in Neighbors(path[i]) \ todo[path[i]] :
                 Settled(v) \/ v = path[i + 1]
        BY <1>5, <3>3 DEF PathInv
      <4>2. \A v \in Neighbors(path[i]) \ todo[path[i]] :
              Settled(v)' \/ v = path[i + 1]
        BY <1>3, <4>1 DEF Neighbors
      <4> QED
        BY <1>4, <1>5, <2>1, <3>3, <4>1, <4>2
    <3> QED
      BY <1>4, <1>5, <3>1, <3>2, <3>3
  <2>4. cycleNodes = {} => \A u \in Ids : color'[u] = "gray" => OnPath(u)'
    <3>1. OnPath(n)'
      BY <1>4, <1>5 DEF OnPath
    <3>2. \A u \in Ids : OnPath(u) => OnPath(u)'
      BY <1>4, <1>5 DEF OnPath
    <3> QED
      BY <1>0, <1>1, <3>1, <3>2 DEF PathInv
  <2> QED
    BY <1>0, <1>2, <2>2, <2>3, <2>4 DEF PathInv
<1>9. BlackInv'
  <2>1. \A u \in Black : \A v \in Neighbors(u) : Settled(v)'
    BY <1>3 DEF BlackInv, Neighbors
  <2> QED
    BY <1>0, <1>2, <1>3, <2>1 DEF BlackInv
<1>10. CycleInv'
  BY <1>0, <1>2 DEF CycleInv
<1>11. ReachInv'
  BY <1>0 DEF ReachInv
<1> QED
  BY <1>6, <1>7, <1>8, <1>9, <1>10, <1>11

LEMMA PassStep == ASSUME NEW n \in Ids PROVE IInv /\ Pass(n) => IInv'
<1> SUFFICES ASSUME IInv, Pass(n) PROVE IInv'
  OBVIOUS
<1> USE DEF IInv
<1>0. /\ UNCHANGED <<caller, tasks, edges, phase, invalid, color, path,
                     cycleNodes, postOrder, visited, frontier>>
      /\ phase = "visit" /\ path # << >> /\ Settled(n)
      /\ todo' = [todo EXCEPT ![Top] = @ \ {n}]
  BY DEF Pass, Looks, Settled, input, reach
<1>1. todo \in [Ids -> SUBSET Ids] /\ path \in Seq(Ids)
  BY DEF TypeOK
<1>2. /\ \A m : Neighbors(m)' = Neighbors(m)
      /\ Roots' = Roots /\ HasCycle' = HasCycle
  BY <1>0, SameGraph
<1>3. \A u : (Settled(u)' <=> Settled(u)) /\ (OnPath(u)' <=> OnPath(u))
  BY <1>0 DEF Settled, OnPath
<1>4. Black' = Black
  BY <1>0 DEF Black
<1>5. TypeOK'
  BY <1>0, <1>1 DEF TypeOK
<1>6. EdgesInv'
  BY <1>0 DEF EdgesInv
<1>7. PathInv'
  <2>1. \A i \in 1..Len(path) :
          /\ todo'[path[i]] \subseteq todo[path[i]]
          /\ todo[path[i]] \ todo'[path[i]] \subseteq {n}
    BY <1>0, <1>1
  <2>2. ASSUME NEW i \in 1..Len(path)
        PROVE  /\ todo'[path[i]] \subseteq Neighbors(path[i])
               /\ i < Len(path) => path[i + 1] \in Neighbors(path[i])
               /\ \A v \in Neighbors(path[i]) \ todo'[path[i]] :
                    Settled(v) \/ (i < Len(path) /\ v = path[i + 1])
    BY <1>0, <2>1 DEF PathInv
  <2> QED
    BY <1>0, <1>2, <1>3, <2>2 DEF PathInv
<1>8. BlackInv'
  BY <1>0, <1>2, <1>3, <1>4 DEF BlackInv
<1>9. CycleInv'
  BY <1>0, <1>2 DEF CycleInv
<1>10. ReachInv'
  BY <1>0 DEF ReachInv
<1> QED
  BY <1>5, <1>6, <1>7, <1>8, <1>9, <1>10

(* A gray neighbour on the path closes a cycle: the path from it to the    *)
(* top.                                                                    *)
LEMMA GrayClosesCycle ==
  ASSUME IInv, NEW n \in Ids, path # << >>, n \in todo[Top], OnPath(n)
  PROVE  HasCycle
<1> USE DEF IInv
<1>1. PICK k \in 1..Len(path) : path[k] = n
  BY DEF OnPath
<1>2. /\ Len(path) \in Nat \ {0} /\ Top = path[Len(path)]
      /\ \A i \in 1..Len(path) : path[i] \in tasks
  BY TopFacts DEF TypeOK
<1> DEFINE X == {path[i] : i \in k..Len(path)}
<1>3. X \in SUBSET tasks /\ X # {}
  <2>1. k \in k..Len(path) /\ k..Len(path) \subseteq 1..Len(path)
    BY <1>1, <1>2
  <2> QED
    BY <1>2, <2>1
<1>4. ASSUME NEW u \in X PROVE \E s \in X : <<s, u>> \in edges
  <2>1. PICK i \in k..Len(path) : path[i] = u
    OBVIOUS
  <2>2. CASE i = k
    <3>1. <<Top, n>> \in edges
      <4>1. Len(path) \in 1..Len(path)
        BY <1>2
      <4>2. todo[Top] \subseteq Neighbors(Top)
        BY <1>2, <4>1 DEF PathInv
      <4> QED
        BY <4>2 DEF Neighbors
    <3>2. Top \in X
      <4>1. Len(path) \in k..Len(path)
        BY <1>1, <1>2
      <4> QED
        BY <1>2, <4>1
    <3> QED
      BY <1>1, <2>1, <2>2, <3>1, <3>2
  <2>3. CASE i # k
    <3>1. i - 1 \in k..Len(path) /\ i - 1 \in 1..Len(path) /\ i - 1 < Len(path)
      BY <1>1, <1>2, <2>3
    <3>2. path[(i - 1) + 1] \in Neighbors(path[i - 1]) /\ (i - 1) + 1 = i
      BY <3>1 DEF PathInv
    <3> QED
      BY <2>1, <3>1, <3>2 DEF Neighbors
  <2> QED
    BY <2>2, <2>3
<1> QED
  BY <1>3, <1>4 DEF HasCycle

LEMMA FindCycleStep == ASSUME NEW n \in Ids PROVE IInv /\ FindCycle(n) => IInv'
<1> SUFFICES ASSUME IInv, FindCycle(n) PROVE IInv'
  OBVIOUS
<1> USE DEF IInv
<1>0. /\ UNCHANGED <<caller, tasks, edges, invalid, color, todo,
                     postOrder, visited, frontier>>
      /\ phase = "visit" /\ phase' \in {"visit", "done"}
      /\ phase' = "done" => caller = "topologicalSort"
      /\ path # << >> /\ path' = << >>
      /\ color[n] = "gray" /\ n \in todo[Top]
      /\ cycleNodes' = cycleNodes \cup CycleThrough(n)
  BY DEF FindCycle, Looks, TypeOK, input, reach
<1>1. path \in Seq(Ids) /\ cycleNodes \subseteq Ids \cup {Undefined}
  BY DEF TypeOK
<1>2. /\ \A m : Neighbors(m)' = Neighbors(m)
      /\ Roots' = Roots /\ HasCycle' = HasCycle
  BY <1>0, SameGraph
<1>3. \A u : Settled(u)' <=> Settled(u)
  BY <1>0 DEF Settled
<1>4. Black' = Black
  BY <1>0 DEF Black
<1>5. n \in cycleNodes' /\ cycleNodes' \subseteq Ids \cup {Undefined}
  <2>1. \A i \in 1..Len(path) : path[i] \in Ids
    BY <1>1
  <2>2. CycleThrough(n) \subseteq Ids \cup {Undefined}
    BY <2>1 DEF CycleThrough
  <2>3. n \in CycleThrough(n)
    <3>1. CASE OnPath(n)
      <4>1. PICK k \in 1..Len(path) : path[k] = n
        BY <3>1 DEF OnPath
      <4>2. k \in 1..k
        BY <1>1, <4>1
      <4> QED
        BY <3>1, <4>1, <4>2 DEF CycleThrough
    <3>2. CASE ~OnPath(n)
      BY <3>2 DEF CycleThrough
    <3> QED
      BY <3>1, <3>2
  <2> QED
    BY <1>0, <1>1, <2>2, <2>3
<1>6. HasCycle
  <2>1. CASE cycleNodes # {}
    BY <2>1 DEF CycleInv
  <2>2. CASE cycleNodes = {}
    BY <1>0, <2>2, GrayClosesCycle DEF PathInv
  <2> QED
    BY <2>1, <2>2
<1>7. TypeOK'
  BY <1>0, <1>5 DEF TypeOK
<1>8. EdgesInv'
  BY <1>0 DEF EdgesInv
<1>9. PathInv'
  BY <1>0, <1>5 DEF PathInv
<1>10. BlackInv'
  BY <1>0, <1>2, <1>3, <1>4 DEF BlackInv
<1>11. CycleInv'
  BY <1>0, <1>2, <1>5, <1>6 DEF CycleInv
<1>12. ReachInv'
  BY <1>0, <1>5 DEF ReachInv
<1> QED
  BY <1>7, <1>8, <1>9, <1>10, <1>11, <1>12

(* The node that turns black has settled neighbours only and is not one of *)
(* them: it can join a set without cycles, and the end of postOrder.       *)
LEMMA ReturnStep == IInv /\ Return => IInv'
<1> SUFFICES ASSUME IInv, Return PROVE IInv'
  OBVIOUS
<1> USE DEF IInv
<1>0. /\ UNCHANGED <<caller, tasks, edges, phase, invalid, todo, cycleNodes,
                     visited, frontier>>
      /\ phase = "visit" /\ path # << >> /\ path' = Pop(path)
      /\ todo[Top] = {}
      /\ color' = [color EXCEPT ![Top] = "black"]
      /\ postOrder' = Append(postOrder, Top)
  BY DEF Return, input, reach
<1>1. /\ color \in [Ids -> {"white", "gray", "black", "undefined"}]
      /\ path \in Seq(Ids) /\ postOrder \in Seq(Ids)
      /\ \A i \in 1..Len(path) : path[i] \in Ids /\ color[path[i]] = "gray"
  BY DEF TypeOK
<1>2. /\ \A m : Neighbors(m)' = Neighbors(m)
      /\ Roots' = Roots /\ HasCycle' = HasCycle
  BY <1>0, SameGraph
<1>3. /\ Len(path) \in Nat \ {0} /\ Top = path[Len(path)]
      /\ Top \in Ids /\ Top \in tasks /\ color[Top] = "gray"
  BY <1>0, TopFacts
<1>4. /\ path' \in Seq(Ids) /\ Len(path') = Len(path) - 1
      /\ \A i \in 1..Len(path) - 1 : path'[i] = path[i]
  BY <1>0, <1>1, PopFacts
<1>5. /\ postOrder' \in Seq(Ids)
      /\ Len(postOrder) \in Nat /\ Len(postOrder') = Len(postOrder) + 1
      /\ \A i \in 1..Len(postOrder) : postOrder'[i] = postOrder[i]
      /\ postOrder'[Len(postOrder) + 1] = Top
  BY <1>0, <1>1, <1>3, AppendFacts
<1>6. /\ \A u \in Ids : Settled(u) => Settled(u)'
      /\ Black' = Black \cup {Top} /\ Top \notin Black
      /\ ~Settled(Top)
  BY <1>0, <1>1, <1>3 DEF Settled, Black
<1>7. \A v \in Neighbors(Top) : Settled(v) /\ v # Top
  <2>1. Len(path) \in 1..Len(path)
    BY <1>3
  <2>2. \A v \in Neighbors(Top) \ todo[Top] : Settled(v)
    BY <1>3, <2>1 DEF PathInv
  <2> QED
    BY <1>0, <1>6, <2>2
<1>8. \A i \in 1..Len(path') : path'[i] = path[i] /\ path[i] # Top
  BY <1>1, <1>3, <1>4 DEF PathInv
<1>9. TypeOK'
  <2>1. \A i \in 1..Len(path') : color'[path'[i]] = "gray"
    BY <1>0, <1>1, <1>3, <1>4, <1>8
  <2>2. /\ color' \in [Ids -> {"white", "gray", "black", "undefined"}]
        /\ \A u \in Ids : color'[u] = "undefined" <=> color[u] = "undefined"
        /\ \A u \in Ids : color'[u] = "black" <=> color[u] = "black" \/ u = Top
    BY <1>0, <1>1, <1>3
  <2>3. \A u \in Ids :
          color'[u] = "black" <=>
            \E i \in 1..Len(postOrder') : postOrder'[i] = u
    <3> SUFFICES ASSUME NEW u \in Ids
                 PROVE  color'[u] = "black" <=>
                          \E i \in 1..Len(postOrder') : postOrder'[i] = u
      OBVIOUS
    <3>1. color[u] = "black" <=> \E i \in 1..Len(postOrder) : postOrder[i] = u
      BY DEF TypeOK
    <3>2. (\E i \in 1..Len(postOrder') : postOrder'[i] = u) <=>
            u = Top \/ \E i \in 1..Len(postOrder) : postOrder[i] = u
      BY <1>5
    <3> QED
      BY <2>2, <3>1, <3>2
  <2> QED
    BY <1>0, <1>4, <1>5, <2>1, <2>2, <2>3 DEF TypeOK
<1>10. EdgesInv'
  BY <1>0 DEF EdgesInv
<1>11. PathInv'
  <2>1. \A i, j \in 1..Len(path') : path'[i] = path'[j] => i = j
    BY <1>3, <1>4, <1>8 DEF PathInv
  <2>2. ASSUME NEW i \in 1..Len(path')
        PROVE  /\ todo'[path'[i]] \subseteq Neighbors(path'[i])
               /\ i < Len(path') => path'[i + 1] \in Neighbors(path'[i])
               /\ \A v \in Neighbors(path'[i]) \ todo'[path'[i]] :
                    Settled(v)' \/ (i < Len(path') /\ v = path'[i + 1])
    <3>1. i \in 1..Len(path) /\ i < Len(path) /\ path'[i] = path[i]
      BY <1>3, <1>4, <1>8
    <3>2. /\ todo[path[i]] \subseteq Neighbors(path[i])
          /\ path[i + 1] \in Neighbors(path[i])
          /\ \A v \in Neighbors(path[i]) \ todo[path[i]] :
               Settled(v) \/ v = path[i + 1]
      BY <3>1 DEF PathInv
    <3>3. IF i < Len(path')
          THEN path'[i + 1] = path[i + 1]
          ELSE path[i + 1] = Top
      BY <1>3, <1>4, <3>1
    <3>4. \A v \in Ids : v = Top => Settled(v)'
      BY <1>0, <1>1, <1>3 DEF Settled
    <3>5. \A v \in Neighbors(path[i]) \ todo[path[i]] :
            Settled(v)' \/ v = path[i + 1]
      BY <1>6, <3>2 DEF Neighbors
    <3> QED
      BY <1>0, <1>3, <3>1, <3>2, <3>3, <3>4, <3>5
  <2>3. cycleNodes = {} => \A u \in Ids : color'[u] = "gray" => OnPath(u)'
    <3>1. ASSUME NEW u \in Ids, OnPath(u), u # Top
          PROVE  OnPath(u)'
      <4>1. PICK i \in 1..Len(path) : path[i] = u
        BY <3>1 DEF OnPath
      <4>2. i \in 1..Len(path') /\ path'[i] = u
        BY <1>3, <1>4, <3>1, <4>1
      <4> QED
        BY <4>2 DEF OnPath
    <3>2. \A u \in Ids : color'[u] = "gray" => color[u] = "gray" /\ u # Top
      BY <1>0, <1>1, <1>3
    <3> QED
      BY <3>1, <3>2 DEF PathInv
  <2> QED
    BY <1>0, <1>2, <2>1, <2>2, <2>3 DEF PathInv
<1>12. BlackInv'
  <2>1. \A u \in Black' : \A v \in Neighbors(u) : Settled(v)'
    BY <1>6, <1>7 DEF BlackInv, Neighbors
  <2>2. \A u \in Black : <<u, Top>> \notin edges
    BY <1>3, <1>6 DEF BlackInv, Black, Neighbors, TypeOK
  <2>3. <<Top, Top>> \notin edges
    BY <1>3, <1>7 DEF Neighbors
  <2>4. ASSUME NEW X \in SUBSET Black', X # {}
        PROVE  \E u \in X : \A s \in X : <<s, u>> \notin edges
    <3>1. CASE Top \in X
      BY <1>6, <2>2, <2>3, <3>1
    <3>2. CASE Top \notin X
      BY <1>6, <2>4, <3>2 DEF BlackInv
    <3> QED
      BY <3>1, <3>2
  <2>5. \A i \in 1..Len(postOrder) : postOrder[i] \in Black
    BY <1>1 DEF Black, TypeOK
  <2>6. \A i, j \in 1..Len(postOrder') :
          /\ postOrder'[i] = postOrder'[j] => i = j
          /\ <<postOrder'[i], postOrder'[j]>> \in edges => j < i
    <3> SUFFICES ASSUME NEW i \in 1..Len(postOrder'),
                        NEW j \in 1..Len(postOrder')
                 PROVE  /\ postOrder'[i] = postOrder'[j] => i = j
                        /\ <<postOrder'[i], postOrder'[j]>> \in edges => j < i
      OBVIOUS
    <3> DEFINE old(k) == k \in 1..Len(postOrder) /\ postOrder'[k] = postOrder[k]
               new(k) == k = Len(postOrder) + 1 /\ postOrder'[k] = Top
    <3>1. (old(i) \/ new(i)) /\ (old(j) \/ new(j))
      BY <1>5
    <3>2. CASE old(i) /\ old(j)
      BY <3>2 DEF BlackInv
    <3>3. CASE old(i) /\ new(j)
      BY <1>6, <2>2, <2>5, <3>3
    <3>4. CASE new(i) /\ old(j)
      BY <1>5, <1>6, <2>5, <3>4
    <3>5. CASE new(i) /\ new(j)
      BY <2>3, <3>5
    <3> QED
      BY <3>1, <3>2, <3>3, <3>4, <3>5
  <2> QED
    BY <1>0, <1>2, <2>1, <2>4, <2>6 DEF BlackInv
<1>13. CycleInv'
  BY <1>0, <1>2 DEF CycleInv
<1>14. ReachInv'
  BY <1>0 DEF ReachInv
<1> QED
  BY <1>9, <1>10, <1>11, <1>12, <1>13, <1>14

LEMMA EndVisitsStep == IInv /\ EndVisits => IInv'
<1> SUFFICES ASSUME IInv, EndVisits PROVE IInv'
  OBVIOUS
<1> USE DEF IInv
<1>0. /\ UNCHANGED <<caller, tasks, edges, invalid, color, path, todo,
                     cycleNodes, postOrder, visited>>
      /\ phase = "visit" /\ path = << >>
      /\ \A n \in tasks : color[n] # "white"
      /\ \/ /\ caller = "validateDAG" /\ cycleNodes = {}
            /\ phase' = "reach" /\ frontier' = Roots
         \/ /\ ~(caller = "validateDAG" /\ cycleNodes = {})
            /\ phase' = "done" /\ UNCHANGED frontier
  BY DEF EndVisits, input, walk
<1>1. /\ \A m : Neighbors(m)' = Neighbors(m)
      /\ Roots' = Roots /\ HasCycle' = HasCycle
  BY <1>0, SameGraph
<1>2. /\ \A u : (Settled(u)' <=> Settled(u)) /\ (OnPath(u)' <=> OnPath(u))
      /\ Black' = Black
  BY <1>0 DEF Settled, OnPath, Black
<1>3. cycleNodes = {} => tasks \subseteq Black
  <2>1. \A u : ~OnPath(u)
    BY <1>0 DEF OnPath
  <2> QED
    BY <1>0, <2>1 DEF PathInv, TypeOK, Black
<1>4. TypeOK'
  <2>1. Roots \subseteq tasks
    BY DEF Roots
  <2> QED
    BY <1>0, <2>1 DEF TypeOK
<1>5. EdgesInv'
  BY <1>0 DEF EdgesInv
<1>6. PathInv'
  BY <1>0, <1>1, <1>2 DEF PathInv
<1>7. BlackInv'
  BY <1>0, <1>1, <1>2 DEF BlackInv
<1>8. CycleInv'
  BY <1>0, <1>1, <1>2, <1>3 DEF CycleInv
<1>9. ReachInv'
  BY <1>0, <1>1 DEF ReachInv
<1> QED
  BY <1>4, <1>5, <1>6, <1>7, <1>8, <1>9

LEMMA ReachStep == ASSUME NEW n \in Ids PROVE IInv /\ Reach(n) => IInv'
<1> SUFFICES ASSUME IInv, Reach(n) PROVE IInv'
  OBVIOUS
<1> USE DEF IInv
<1>0. /\ UNCHANGED <<caller, tasks, edges, phase, invalid, color, path, todo,
                     cycleNodes, postOrder>>
      /\ phase = "reach" /\ n \in frontier
      /\ visited' = visited \cup {n}
      /\ frontier' = (frontier \cup Neighbors(n)) \ visited'
  BY DEF Reach, input, walk
<1>1. /\ \A m : Neighbors(m)' = Neighbors(m)
      /\ Roots' = Roots /\ HasCycle' = HasCycle
  BY <1>0, SameGraph
<1>2. /\ \A u : (Settled(u)' <=> Settled(u)) /\ (OnPath(u)' <=> OnPath(u))
      /\ Black' = Black
  BY <1>0 DEF Settled, OnPath, Black
<1>3. TypeOK'
  <2>1. Neighbors(n) \subseteq tasks
    BY <1>0 DEF ReachInv, EdgesInv, Neighbors
  <2> QED
    BY <1>0, <2>1 DEF TypeOK
<1>4. EdgesInv'
  BY <1>0 DEF EdgesInv
<1>5. PathInv'
  BY <1>0, <1>1, <1>2 DEF PathInv
<1>6. BlackInv'
  BY <1>0, <1>1, <1>2 DEF BlackInv
<1>7. CycleInv'
  BY <1>0, <1>1, <1>2 DEF CycleInv
<1>8. ReachInv'
  BY <1>0, <1>1 DEF ReachInv
<1> QED
  BY <1>3, <1>4, <1>5, <1>6, <1>7, <1>8

LEMMA EndReachStep == IInv /\ EndReach => IInv'
<1> SUFFICES ASSUME IInv, EndReach PROVE IInv'
  OBVIOUS
<1> USE DEF IInv
<1>0. /\ UNCHANGED <<caller, tasks, edges, invalid, color, path, todo,
                     cycleNodes, postOrder, visited, frontier>>
      /\ phase = "reach" /\ phase' = "done" /\ frontier = {}
  BY DEF EndReach, input, walk, reach
<1>1. /\ \A m : Neighbors(m)' = Neighbors(m)
      /\ Roots' = Roots /\ HasCycle' = HasCycle
  BY <1>0, SameGraph
<1>2. /\ \A u : (Settled(u)' <=> Settled(u)) /\ (OnPath(u)' <=> OnPath(u))
      /\ Black' = Black
  BY <1>0 DEF Settled, OnPath, Black
<1>3. TypeOK'
  BY <1>0 DEF TypeOK
<1>4. EdgesInv' /\ PathInv'
  BY <1>0, <1>1, <1>2 DEF EdgesInv, PathInv
<1>5. BlackInv' /\ CycleInv'
  BY <1>0, <1>1, <1>2 DEF BlackInv, CycleInv
<1>6. ReachInv'
  BY <1>0, <1>1 DEF ReachInv
<1> QED
  BY <1>3, <1>4, <1>5, <1>6

LEMMA StutterStep == IInv /\ UNCHANGED vars => IInv'
<1> SUFFICES ASSUME IInv, UNCHANGED vars PROVE IInv'
  OBVIOUS
<1> USE DEF IInv
<1>0. UNCHANGED <<caller, tasks, edges, phase, invalid, color, path, todo,
                  cycleNodes, postOrder, visited, frontier>>
  BY DEF vars, input, walk, reach
<1>1. /\ \A m : Neighbors(m)' = Neighbors(m)
      /\ Roots' = Roots /\ HasCycle' = HasCycle
  BY <1>0, SameGraph
<1>2. /\ \A u : (Settled(u)' <=> Settled(u)) /\ (OnPath(u)' <=> OnPath(u))
      /\ Black' = Black
  BY <1>0 DEF Settled, OnPath, Black
<1>3. TypeOK'
  BY <1>0 DEF TypeOK
<1>4. EdgesInv' /\ PathInv'
  <2>1. EdgesInv'
    BY <1>0 DEF EdgesInv
  <2>2. path' = path /\ todo' = todo /\ phase' = phase /\ cycleNodes' = cycleNodes
        /\ color' = color
    BY <1>0
  <2>3. PathInv'
    BY <1>1, <1>2, <2>2 DEF PathInv
  <2> QED
    BY <2>1, <2>3
<1>5. BlackInv' /\ CycleInv'
  BY <1>0, <1>1, <1>2 DEF BlackInv, CycleInv
<1>6. ReachInv'
  BY <1>0, <1>1 DEF ReachInv
<1> QED
  BY <1>3, <1>4, <1>5, <1>6

LEMMA Inductive == IInv /\ [Next]_vars => IInv'
BY ReferencesStep, CallRootStep, CallStep, PassStep, FindCycleStep, ReturnStep,
   EndVisitsStep, ReachStep, EndReachStep, StutterStep DEF Next, Step

(* Every reachable state satisfies the invariant.                          *)
THEOREM Invariance == Spec => []IInv
BY InitIInv, Inductive, PTL DEF Spec

-----------------------------------------------------------------------------
(* The verdicts.                                                           *)

(* When no cycle was reported every task is black, and black nodes contain *)
(* no cycle.                                                               *)
LEMMA NoReportNoCycle ==
  IInv /\ phase = "done" => (cycleNodes = {} <=> ~HasCycle)
<1> SUFFICES ASSUME IInv, phase = "done", cycleNodes = {} PROVE ~HasCycle
  BY DEF IInv, CycleInv
<1>1. tasks \subseteq Black
  BY DEF IInv, CycleInv
<1> QED
  BY <1>1 DEF HasCycle, IInv, BlackInv

(* The tasks that the search did not reach contain a predecessor of each   *)
(* of their members: without a cycle there are none.                       *)
LEMMA EverythingIsReached ==
  ASSUME IInv, phase = "done", caller = "validateDAG", cycleNodes = {}
  PROVE  Unreachable = {}
<1> USE DEF IInv
<1>1. ~HasCycle
  BY NoReportNoCycle
<1>2. ASSUME NEW u \in Unreachable
      PROVE  \E s \in Unreachable : <<s, u>> \in edges
  <2>1. u \notin Roots /\ u \in tasks
    BY DEF ReachInv, Unreachable
  <2>2. PICK s \in Ids : <<s, u>> \in edges
    BY <2>1 DEF Roots
  <2>3. s \in tasks
    BY <2>2 DEF EdgesInv
  <2>4. s \notin visited
    <3>1. s \in visited => Neighbors(s) \subseteq visited
      BY DEF ReachInv
    <3>2. u \in Neighbors(s)
      BY <2>1, <2>2, <2>3 DEF Neighbors, TypeOK
    <3> QED
      BY <3>1, <3>2 DEF Unreachable
  <2> QED
    BY <2>2, <2>3, <2>4 DEF Unreachable
<1>3. Unreachable \in SUBSET tasks
  BY DEF Unreachable
<1> QED
  BY <1>1, <1>2, <1>3 DEF HasCycle

LEMMA VerdictFromInv == IInv => VerdictCorrect
<1> SUFFICES ASSUME IInv, phase = "done", caller = "validateDAG"
             PROVE  Valid <=> Requested \subseteq tasks \X tasks /\ ~HasCycle
  BY DEF VerdictCorrect
<1>1. cycleNodes = {} <=> ~HasCycle
  BY NoReportNoCycle
<1>2. cycleNodes = {} => Unreachable = {}
  BY EverythingIsReached
<1>3. Requested \subseteq tasks \X tasks <=> invalid = {}
  BY DEF IInv, EdgesInv, Requested
<1> QED
  BY <1>1, <1>2, <1>3 DEF Valid

LEMMA SortFromInv == IInv => SortCorrect
<1> SUFFICES ASSUME IInv, phase = "done", caller = "topologicalSort"
             PROVE  SortCorrect
  BY DEF SortCorrect
<1> USE DEF IInv
<1>1. Valid <=> ~HasCycle
  BY NoReportNoCycle DEF Valid, EdgesInv
<1>2. /\ Len(postOrder) \in Nat
      /\ Len(Order) = Len(postOrder)
      /\ \A i \in 1..Len(Order) :
           /\ Order[i] = postOrder[Len(postOrder) + 1 - i]
           /\ Len(postOrder) + 1 - i \in 1..Len(postOrder)
  BY DEF Order, TypeOK
<1>3. ASSUME Valid, NEW n \in tasks
      PROVE  \E i \in 1..Len(Order) : Order[i] = n
  <2>1. n \in Ids /\ color[n] = "black"
    BY <1>3 DEF Valid, CycleInv, Black
  <2>2. PICK i \in 1..Len(postOrder) : postOrder[i] = n
    BY <2>1 DEF TypeOK
  <2>3. /\ Len(postOrder) + 1 - i \in 1..Len(Order)
        /\ Len(postOrder) + 1 - (Len(postOrder) + 1 - i) = i
    BY <1>2, <2>2
  <2> QED
    BY <1>2, <2>2, <2>3
<1>4. ASSUME NEW i \in 1..Len(Order), NEW j \in 1..Len(Order)
      PROVE  /\ Order[i] = Order[j] => i = j
             /\ <<Order[i], Order[j]>> \in edges => i < j
  <2>1. PICK p \in 1..Len(postOrder) :
          p = Len(postOrder) + 1 - i /\ Order[i] = postOrder[p]
    BY <1>2
  <2>2. PICK q \in 1..Len(postOrder) :
          q = Len(postOrder) + 1 - j /\ Order[j] = postOrder[q]
    BY <1>2
  <2>3. /\ postOrder[p] = postOrder[q] => p = q
        /\ <<postOrder[p], postOrder[q]>> \in edges => q < p
    BY DEF BlackInv
  <2> QED
    BY <1>2, <2>1, <2>2, <2>3
<1> QED
  BY <1>1, <1>3, <1>4 DEF SortCorrect

(* validateDAG accepts exactly the requests whose edges connect their own  *)
(* tasks without a cycle, for every request and every order of visits.     *)
THEOREM Verdict == Spec => []VerdictCorrect
BY Invariance, VerdictFromInv, PTL

(* topologicalSort finds an order exactly when there is one, and the order *)
(* respects every edge, for every graph and every order of visits.         *)
THEOREM Sort == Spec => []SortCorrect
BY Invariance, SortFromInv, PTL

(* Every reachable state is well typed.                                    *)
THEOREM TypeCorrect == Spec => []TypeOK
BY Invariance, PTL DEF IInv

-----------------------------------------------------------------------------
(* The end of the walk.                                                    *)

(* What is left to do: the stages to come, the calls of dfs to start and   *)
(* to end, the neighbours to look at and the tasks to reach.               *)
Stages ==
  CASE phase = "references" -> {"references", "visit", "reach"}
    [] phase = "visit"      -> {"visit", "reach"}
    [] phase = "reach"      -> {"reach"}
    [] phase = "done"       -> {}

Unstarted == {n \in tasks : color[n] = "white"}
Active    == {n \in Ids : n \in Unstarted \/ OnPath(n)}
Unlooked  == {p \in Ids \X Ids : p[1] \in Unstarted \/ p[2] \in todo[p[1]]}

Tagged(stages, starts, ends, looks, tasksLeft) ==
  ({"stage"} \X stages) \cup ({"start"} \X starts) \cup ({"end"} \X ends)
    \cup ({"look"} \X looks) \cup ({"reach"} \X tasksLeft)

Left == Tagged(Stages, Unstarted, Active, Unlooked, Unreachable)

LEMMA TaggedShrinks ==
  ASSUME NEW s, NEW c, NEW e, NEW l, NEW r,
         NEW s1 \in SUBSET s, NEW c1 \in SUBSET c, NEW e1 \in SUBSET e,
         NEW l1 \in SUBSET l, NEW r1 \in SUBSET r,
         s1 # s \/ c1 # c \/ e1 # e \/ l1 # l \/ r1 # r
  PROVE  LET small == Tagged(s1, c1, e1, l1, r1)
             large == Tagged(s, c, e, l, r)
         IN  small \subseteq large /\ small # large
<1> DEFINE small == Tagged(s1, c1, e1, l1, r1)
           large == Tagged(s, c, e, l, r)
<1>1. \A x : /\ <<"stage", x>> \in large <=> x \in s
             /\ <<"start", x>> \in large <=> x \in c
             /\ <<"end", x>> \in large <=> x \in e
             /\ <<"look", x>> \in large <=> x \in l
             /\ <<"reach", x>> \in large <=> x \in r
  BY DEF Tagged
<1>2. \A x : /\ <<"stage", x>> \in small <=> x \in s1
             /\ <<"start", x>> \in small <=> x \in c1
             /\ <<"end", x>> \in small <=> x \in e1
             /\ <<"look", x>> \in small <=> x \in l1
             /\ <<"reach", x>> \in small <=> x \in r1
  BY DEF Tagged
<1>3. small \subseteq large
  BY DEF Tagged
<1>4. small # large
  <2> SUFFICES ASSUME small = large
               PROVE  s \subseteq s1 /\ c \subseteq c1 /\ e \subseteq e1
                      /\ l \subseteq l1 /\ r \subseteq r1
    OBVIOUS
  <2> QED
    BY <1>1, <1>2
<1> QED
  BY <1>3, <1>4

(* The queue of the search holds new tasks only.                           *)
FreshInv == frontier \cap visited = {}

LEMMA LeftShrinks ==
  ASSUME Stages' \subseteq Stages, Unstarted' \subseteq Unstarted,
         Active' \subseteq Active, Unlooked' \subseteq Unlooked,
         Unreachable' \subseteq Unreachable,
         \/ Stages' # Stages \/ Unstarted' # Unstarted \/ Active' # Active
         \/ Unlooked' # Unlooked \/ Unreachable' # Unreachable
  PROVE  Left' \subseteq Left /\ Left' # Left
BY TaggedShrinks DEF Left

(* A call of dfs, by detectCycles or by another call: it is left to end,   *)
(* and its neighbours are left to look at, as they were before; the caller *)
(* has one less to look at.                                                *)
LEMMA CallRootShrinks ==
  ASSUME IInv, NEW n \in Ids, CallRoot(n)
  PROVE  Unstarted' = Unstarted \ {n} /\ n \in Unstarted /\ Active' = Active
         /\ Unlooked' \subseteq Unlooked
<1> USE DEF IInv, TypeOK
<1>1. n \in Unstarted /\ path = << >>
  BY DEF CallRoot, Unstarted
<1>2. Unstarted' = Unstarted \ {n}
  BY DEF CallRoot, Unstarted, input
<1>3. \A u \in Ids : OnPath(u)' <=> u = n
  BY DEF CallRoot, OnPath
<1>4. \A u \in Ids : ~OnPath(u)
  BY <1>1 DEF OnPath
<1>5. Active' = Active
  BY <1>1, <1>2, <1>3, <1>4 DEF Active
<1>6. Unlooked' \subseteq Unlooked
  BY <1>1, <1>2 DEF CallRoot, Unlooked
<1> QED
  BY <1>1, <1>2, <1>5, <1>6

LEMMA CallShrinks ==
  ASSUME IInv, NEW n \in Ids, Call(n)
  PROVE  Unstarted' = Unstarted \ {n} /\ n \in Unstarted /\ Active' = Active
         /\ Unlooked' \subseteq Unlooked
<1> USE DEF IInv
<1>0. path \in Seq(Ids) /\ path # << >> /\ path' = Append(path, n)
  BY DEF Call, Looks, TypeOK
<1>1. n \in Unstarted
  BY DEF Call, Unstarted, TypeOK
<1>2. Unstarted' = Unstarted \ {n}
  BY DEF Call, Unstarted, input, TypeOK
<1>3. \A u \in Ids : OnPath(u)' <=> OnPath(u) \/ u = n
  BY <1>0, AppendFacts DEF OnPath
<1>5. Active' = Active
  BY <1>1, <1>2, <1>3 DEF Active
<1>6. Top \in Ids /\ todo' = [todo EXCEPT ![Top] = @ \ {n}, ![n] = Neighbors(n)]
      /\ todo \in [Ids -> SUBSET Ids]
  BY <1>0, TopFacts DEF Call, TypeOK
<1>7. \A u \in Ids \ {n} : todo'[u] \subseteq todo[u]
  BY <1>6
<1>8. Unlooked' \subseteq Unlooked
  BY <1>1, <1>2, <1>7 DEF Unlooked
<1> QED
  BY <1>1, <1>2, <1>5, <1>8

(* A neighbour that is passed is looked at.                                *)
LEMMA PassShrinks ==
  ASSUME IInv, NEW n \in Ids, Pass(n)
  PROVE  Unlooked' \subseteq Unlooked /\ Unlooked' # Unlooked
<1> USE DEF IInv
<1>1. /\ Top \in Ids /\ color[Top] = "gray" /\ n \in todo[Top]
      /\ todo' = [todo EXCEPT ![Top] = @ \ {n}]
      /\ todo \in [Ids -> SUBSET Ids]
  BY TopFacts DEF Pass, Looks, TypeOK
<1>2. Unstarted' = Unstarted /\ Top \notin Unstarted
  BY <1>1 DEF Pass, Unstarted, input
<1>3. <<Top, n>> \in Unlooked
  BY <1>1 DEF Unlooked
<1>4. <<Top, n>> \notin Unlooked'
  BY <1>1, <1>2 DEF Unlooked
<1>5. \A u \in Ids : todo'[u] \subseteq todo[u]
  BY <1>1
<1>6. Unlooked' \subseteq Unlooked
  BY <1>2, <1>5 DEF Unlooked
<1> QED
  BY <1>3, <1>4, <1>6

(* A call that returns has ended, and all calls end when a cycle is found. *)
LEMMA ReturnShrinks ==
  ASSUME IInv, Return \/ \E n \in Ids : FindCycle(n)
  PROVE  Unstarted' = Unstarted /\ Unlooked' = Unlooked
         /\ Active' \subseteq Active /\ Active' # Active
<1> USE DEF IInv
<1>0. path \in Seq(Ids) /\ path # << >>
  BY DEF Return, FindCycle, Looks, TypeOK
<1>1. Top \in Ids /\ color[Top] = "gray" /\ Top = path[Len(path)]
      /\ Len(path) \in Nat \ {0}
  BY <1>0, TopFacts
<1>2. Unstarted' = Unstarted
  BY <1>1 DEF Return, FindCycle, Unstarted, input, TypeOK
<1>3. Unlooked' = Unlooked
  BY <1>2 DEF Return, FindCycle, Unlooked
<1>4. Top \in Active
  BY <1>1 DEF Active, OnPath
<1>5. ASSUME NEW u \in Ids, OnPath(u)'
      PROVE  OnPath(u) /\ u # Top
  <2>1. CASE Return
    <3>1. PICK i \in 1..Len(path) - 1 : path[i] = u
      BY <2>1, <1>0, <1>5, PopFacts DEF Return, OnPath
    <3> QED
      BY <3>1, <1>1 DEF OnPath, PathInv
  <2>2. CASE \E n \in Ids : FindCycle(n)
    BY <2>2, <1>5 DEF FindCycle, OnPath
  <2> QED
    BY <2>1, <2>2
<1>6. Active' \subseteq Active
  BY <1>2, <1>5 DEF Active
<1>7. Top \notin Active'
  <2>1. Top \notin Unstarted
    BY <1>1 DEF Unstarted
  <2>2. ASSUME NEW t \in Ids, t = Top, t \in Active' PROVE FALSE
    BY <1>2, <1>5, <2>1, <2>2 DEF Active
  <2> QED
    BY <1>1, <2>2
<1> QED
  BY <1>2, <1>3, <1>4, <1>6, <1>7

(* A task that is reached is not reached again.                            *)
LEMMA ReachShrinks ==
  ASSUME IInv, FreshInv, NEW n \in Ids, Reach(n)
  PROVE  Unreachable' \subseteq Unreachable /\ Unreachable' # Unreachable
<1>1. n \in Unreachable
  BY DEF Reach, FreshInv, Unreachable, IInv, TypeOK
<1>2. Unreachable' = Unreachable \ {n}
  BY DEF Reach, Unreachable, input
<1> QED
  BY <1>1, <1>2

LEMMA FreshStep == IInv /\ FreshInv /\ [Next]_vars => FreshInv'
<1> SUFFICES ASSUME IInv, FreshInv, [Next]_vars PROVE FreshInv'
  OBVIOUS
<1>1. CASE UNCHANGED reach
  BY <1>1 DEF FreshInv, reach
<1>2. CASE EndVisits
  BY <1>2 DEF EndVisits, IInv, ReachInv, FreshInv, reach
<1>3. CASE \E n \in Ids : Reach(n)
  BY <1>3 DEF Reach, FreshInv
<1>4. CASE Next /\ ~EndVisits /\ ~\E n \in Ids : Reach(n)
  <2>1. UNCHANGED reach
    BY <1>4 DEF Next, Step, ValidateEdgeReferences, Return, EndReach, CallRoot, Call,
                Pass, FindCycle
  <2> QED
    BY <2>1, <1>1
<1>5. CASE UNCHANGED vars
  BY <1>1, <1>5 DEF vars
<1> QED
  BY <1>2, <1>3, <1>4, <1>5

(* The same calls, ends, looks and reached tasks in the next stage.        *)
LEMMA StageShrinks ==
  ASSUME IInv, ValidateEdgeReferences \/ EndVisits \/ EndReach
  PROVE  /\ Stages' \subseteq Stages /\ Stages' # Stages
         /\ Unstarted' = Unstarted /\ Active' = Active
         /\ Unlooked' = Unlooked /\ Unreachable' = Unreachable
<1>1. UNCHANGED <<tasks, color, path, todo, visited>>
  BY DEF ValidateEdgeReferences, EndVisits, EndReach, input, walk, reach
<1>2. Unstarted' = Unstarted /\ Unlooked' = Unlooked /\ Unreachable' = Unreachable
  BY <1>1 DEF Unstarted, Unlooked, Unreachable
<1>3. Active' = Active
  BY <1>1, <1>2 DEF Active, OnPath
<1>4. Stages' \subseteq Stages /\ Stages' # Stages
  BY DEF ValidateEdgeReferences, EndVisits, EndReach, Stages
<1> QED
  BY <1>2, <1>3, <1>4

LEMMA StepShrinks ==
  IInv /\ FreshInv /\ Next => Left' \subseteq Left /\ Left' # Left
<1> SUFFICES ASSUME IInv, FreshInv, Next PROVE Left' \subseteq Left /\ Left' # Left
  OBVIOUS
<1>1. CASE ValidateEdgeReferences \/ EndVisits \/ EndReach
  BY <1>1, StageShrinks, LeftShrinks
<1>2. CASE \E n \in Ids : CallRoot(n) \/ Call(n)
  <2>1. PICK n \in Ids : CallRoot(n) \/ Call(n)
    BY <1>2
  <2>2. /\ Unstarted' = Unstarted \ {n} /\ n \in Unstarted /\ Active' = Active
        /\ Unlooked' \subseteq Unlooked
    BY <2>1, CallRootShrinks, CallShrinks
  <2>3. Stages' = Stages /\ Unreachable' = Unreachable
    BY <2>1 DEF CallRoot, Call, Stages, Unreachable, input, reach
  <2> QED
    BY <2>2, <2>3, LeftShrinks
<1>3. CASE \E n \in Ids : Pass(n)
  <2>1. PICK n \in Ids : Pass(n)
    BY <1>3
  <2>2. Stages' = Stages /\ Unreachable' = Unreachable /\ Unstarted' = Unstarted
        /\ Active' = Active
    BY <2>1 DEF Pass, Stages, Unreachable, Unstarted, Active, OnPath, input, reach
  <2> QED
    BY <2>1, <2>2, PassShrinks, LeftShrinks
<1>4. CASE Return \/ \E n \in Ids : FindCycle(n)
  <2>1. Stages' \subseteq Stages
    BY <1>4 DEF Return, FindCycle, Looks, Stages
  <2>2. Unreachable' = Unreachable
    BY <1>4 DEF Return, FindCycle, Unreachable, input, reach
  <2> QED
    BY <1>4, <2>1, <2>2, ReturnShrinks, LeftShrinks
<1>5. CASE \E n \in Ids : Reach(n)
  <2>1. PICK n \in Ids : Reach(n)
    BY <1>5
  <2>2. UNCHANGED <<phase, tasks, color, path, todo>>
    BY <2>1 DEF Reach, input, walk
  <2>3. Stages' = Stages /\ Unstarted' = Unstarted /\ Unlooked' = Unlooked
    BY <2>2 DEF Stages, Unstarted, Unlooked
  <2>4. Active' = Active
    BY <2>2, <2>3 DEF Active, OnPath
  <2> QED
    BY <2>1, <2>3, <2>4, ReachShrinks, LeftShrinks
<1> QED
  BY <1>1, <1>2, <1>3, <1>4, <1>5 DEF Next, Step

(* Every step of validateDAG and of topologicalSort takes something from   *)
(* what is left to do and adds nothing, whatever the graph and the order   *)
(* of visits: neither can go round in it, through cycles included.         *)
THEOREM WalkEnds == Spec => [][Left' \subseteq Left /\ Left' # Left]_vars
<1>1. Spec => []FreshInv
  <2>1. Init => FreshInv
    BY DEF Init, FreshInv
  <2> QED
    BY <2>1, FreshStep, Invariance, PTL DEF Spec
<1>2. IInv /\ FreshInv /\ [Next]_vars
        => [Left' \subseteq Left /\ Left' # Left]_vars
  BY StepShrinks
<1> QED
  BY <1>1, <1>2, Invariance, PTL DEF Spec

(* With finitely many identifiers there is finitely much left to do, so    *)
(* that the steps come to an end.                                          *)
THEOREM FiniteWalk ==
  ASSUME IsFiniteSet(Ids) PROVE Spec => []IsFiniteSet(Left)
<1>1. ASSUME TypeOK PROVE IsFiniteSet(Left)
  <2> DEFINE stages == ({"references"} \cup {"visit"}) \cup {"reach"}
             most   == Tagged(stages, Ids, Ids, Ids \X Ids, Ids)
  <2>1. IsFiniteSet(most)
    <3>1. ASSUME NEW s, NEW t, IsFiniteSet(s), IsFiniteSet(t)
          PROVE  IsFiniteSet(s \cup t) /\ IsFiniteSet(s \X t)
      BY <3>1, FS_Union, FS_Product
    <3>2. \A x : IsFiniteSet({x})
      BY FS_Singleton
    <3>3. IsFiniteSet(stages)
      <4>1. IsFiniteSet({"references"} \cup {"visit"}) /\ IsFiniteSet({"reach"})
        BY <3>1, <3>2
      <4> QED
        BY <3>1, <4>1
    <3>4. \A x, s : IsFiniteSet(s) => IsFiniteSet({x} \X s)
      BY <3>1, <3>2
    <3> QED
      BY <3>1, <3>3, <3>4 DEF Tagged
  <2>2. /\ Stages \subseteq stages
        /\ Unstarted \subseteq Ids /\ Active \subseteq Ids
        /\ Unlooked \subseteq Ids \X Ids /\ Unreachable \subseteq Ids
    BY <1>1 DEF TypeOK, Stages, Unstarted, Active, Unlooked, Unreachable
  <2>3. Left \subseteq most
    BY <2>2 DEF Left, Tagged
  <2> QED
    BY <2>1, <2>3, FS_Subset
<1> QED
  BY <1>1, TypeCorrect, PTL

-----------------------------------------------------------------------------
(* What module Execution assumes of the workflows that it runs.            *)

(* The tasks and edges of an accepted request satisfy what Execution       *)
(* states as GraphAssumption: no set of tasks holds a predecessor of each  *)
(* of its members.                                                         *)
RunsToItsEnd ==
  phase = "done" /\ caller = "validateDAG" /\ Valid =>
    /\ Requested \subseteq tasks \X tasks
    /\ \A X \in (SUBSET tasks) \ {{}} :
         \E u \in X : \A s \in X : <<s, u>> \notin Requested

(* Every workflow that validateDAG accepts meets the assumption under      *)
(* which the theorems about executions are proved.                         *)
THEOREM AcceptedGraphs == Spec => []RunsToItsEnd
<1>1. IInv => RunsToItsEnd
  <2> SUFFICES ASSUME IInv, phase = "done", caller = "validateDAG", Valid
               PROVE  RunsToItsEnd
    BY DEF RunsToItsEnd
  <2>1. Requested = edges
    BY DEF Valid, Requested
  <2>2. Requested \subseteq tasks \X tasks /\ ~HasCycle
    BY VerdictFromInv DEF VerdictCorrect
  <2> QED
    BY <2>1, <2>2 DEF RunsToItsEnd, HasCycle
<1> QED
  BY <1>1, Invariance, PTL
=============================================================================

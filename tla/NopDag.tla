------------------------------- MODULE NopDag -------------------------------
(***************************************************************************)
(* The pure part of the NOP orchestrator (nop/dag_validator.go and the     *)
(* dependency helpers of nop/orchestrator.go).                             *)
(*                                                                         *)
(* A DAG is a record:                                                      *)
(*   nodes        the nodes in declaration order,                          *)
(*   edges        the edges in declaration order, pairs <<from, to>>,      *)
(*   inputFrom    the upstream nodes each node waits for,                  *)
(*   minRequired  the K of the K-of-N rule, 0 = all of inputFrom.          *)
(* Conditions, mappings and action names carry no control here: the nodes  *)
(* that have them are named by sets in the orchestrator's task.            *)
(***************************************************************************)
EXTENDS Integers, Sequences, FiniteSets, SequencesExt

\* MaxDagNodes bounds the number of nodes a task may declare.
CONSTANT MaxDagNodes

NodesOf(dag) == ToSet(dag.nodes)
EdgesOf(dag) == ToSet(dag.edges)

\* adjacency[n]: the successors of n in the order its edges were declared,
\* duplicates kept.
Adjacency(dag, n) ==
  LET out == SelectSeq(dag.edges, LAMBDA e : e[1] = n)
  IN  [i \in DOMAIN out |-> out[i][2]]

InDegree_Distinct(dag, n) == Cardinality({e \in EdgesOf(dag) : e[2] = n})
InDegree(dag, n) == Len(SelectSeq(dag.edges, LAMBDA e : e[2] = n))

EndNodes(dag) == {n \in NodesOf(dag) : Adjacency(dag, n) = <<>>}

-----------------------------------------------------------------------------
(***************************************************************************)
(* Kahn's algorithm.  KahnVisit is one pass of the outer loop: it takes    *)
(* the head of the queue and decrements its successors one edge at a time. *)
(***************************************************************************)
KahnDecrement(s, neighbor) ==
  LET left == s.remaining[neighbor] - 1
  IN  [s EXCEPT !.remaining[neighbor] = left,
                !.queue = IF left = 0 THEN Append(@, neighbor) ELSE @]

KahnVisit(dag, s) ==
  FoldLeft(KahnDecrement,
           [s EXCEPT !.sorted = Append(@, Head(s.queue)),
                     !.queue = Tail(@)],
           Adjacency(dag, Head(s.queue)))

KahnStart(dag) ==
  [queue     |-> SelectSeq(dag.nodes, LAMBDA n : InDegree(dag, n) = 0),
   remaining |-> [n \in NodesOf(dag) |-> InDegree(dag, n)],
   sorted    |-> <<>>]

\* The loop leaves with the queue empty; a node enters the queue at most once,
\* so Len(dag.nodes) passes are enough.
TopologicalOrder(dag) ==
  LET run[i \in 0 .. Len(dag.nodes)] ==
        IF i = 0 THEN KahnStart(dag)
        ELSE IF run[i - 1].queue = <<>> THEN run[i - 1]
        ELSE KahnVisit(dag, run[i - 1])
  IN  run[Len(dag.nodes)].sorted

\* Some node never reached in-degree zero.
HasCycle_Ignored(dag) == FALSE
HasCycle(dag) == Len(TopologicalOrder(dag)) # Len(dag.nodes)

\* ValidateDag's verdict, in the order of its early returns.  The length limit
\* on condition expressions is text and is left out.
ValidateDag(dag) ==
  CASE Len(dag.nodes) = 0                      -> "dag_invalid"
    [] Len(dag.nodes) > MaxDagNodes            -> "dag_too_large"
    [] Len(dag.nodes) # Cardinality(NodesOf(dag)) -> "dag_invalid"
    [] \E e \in EdgesOf(dag) : ~(ToSet(e) \subseteq NodesOf(dag)) -> "dag_invalid"
    [] \E n \in NodesOf(dag) : ~(dag.inputFrom[n] \subseteq NodesOf(dag)) -> "dag_invalid"
    [] \A n \in NodesOf(dag) : InDegree(dag, n) # 0 -> "dag_invalid"
    [] EndNodes(dag) = {}                      -> "dag_invalid"
    [] HasCycle(dag)                           -> "dag_cycle"
    [] OTHER                                   -> "ok"

-----------------------------------------------------------------------------
(***************************************************************************)
(* Dependency helpers; st maps every node to its terminal state, "none"    *)
(* standing for a node absent from the nodeStates map.                     *)
(***************************************************************************)
Succeeded == {"completed", "skipped"}

countDeps(dag, n, st, match) ==
  Cardinality({d \in dag.inputFrom[n] : st[d] \in match})

RequiredDeps(dag, n) ==
  IF dag.minRequired[n] > 0 THEN dag.minRequired[n]
                            ELSE Cardinality(dag.inputFrom[n])

\* K of the node's inputs completed or were skipped.
DepsSatisfied(dag, n, st) ==
  \/ dag.inputFrom[n] = {}
  \/ countDeps(dag, n, st, Succeeded) >= RequiredDeps(dag, n)

\* So many inputs failed that K can no longer be reached.
DepsImpossible(dag, n, st) ==
  /\ dag.inputFrom[n] # {}
  /\ Cardinality(dag.inputFrom[n]) - countDeps(dag, n, st, {"failed"})
       < RequiredDeps(dag, n)

areDepsDone(dag, n, st) ==
  DepsSatisfied(dag, n, st) \/ DepsImpossible(dag, n, st)

canEndNodeStillSucceed(dag, e, st) ==
  /\ dag.inputFrom[e] # {}
  /\ ~DepsImpossible(dag, e, st)

\* Breadth-first reachability along edges, from a failed node to an end node.
canReachEndNode_OneHop(dag, endNode, failedNode) ==
  endNode = failedNode \/ <<failedNode, endNode>> \in EdgesOf(dag)

canReachEndNode(dag, endNode, failedNode) ==
  LET level[i \in 0 .. Len(dag.nodes)] ==
        IF i = 0 THEN {failedNode}
        ELSE level[i - 1] \cup {e[2] : e \in {f \in EdgesOf(dag) : f[1] \in level[i - 1]}}
  IN  endNode \in level[Len(dag.nodes)]

\* A failed node dooms the task when it leads to an end node that can no
\* longer meet its own K.
MustAbort(dag, failedNode, st) ==
  \E e \in EndNodes(dag) : /\ canReachEndNode(dag, e, failedNode)
                           /\ ~canEndNodeStillSucceed(dag, e, st)
=============================================================================

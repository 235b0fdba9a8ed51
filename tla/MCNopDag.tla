------------------------------ MODULE MCNopDag ------------------------------
(***************************************************************************)
(* ValidateDag checked against a reference definition over every DAG of up *)
(* to MaxEdges edges on the node lists below.                              *)
(***************************************************************************)
EXTENDS NopDag, Relation

CONSTANTS a, b, c, d, MaxEdges

VARIABLES dag, verdict

vars == <<dag, verdict>>

Universe == {a, b, c, d}

\* Too short, in range, with a duplicate, and one longer than MaxDagNodes.
NodeLists == {<<>>, <<a>>, <<a, b>>, <<a, a>>, <<b, a, c>>, <<a, b, c, d>>}

EdgeLists == UNION {[1 .. n -> Universe \X Universe] : n \in 0 .. MaxEdges}

\* No dependencies, a dependency outside the small lists, a dependency cycle.
Inputs == {[n \in Universe |-> {}],
           [n \in Universe |-> IF n = a THEN {c} ELSE {}],
           [n \in Universe |-> CASE n = a -> {b} [] n = b -> {a} [] OTHER -> {}]}

Init == /\ \E ns \in NodeLists, es \in EdgeLists, in \in Inputs :
             dag = [nodes |-> ns, edges |-> es, inputFrom |-> in,
                    minRequired |-> [n \in Universe |-> 0]]
        /\ verdict = "none"

Validate == /\ verdict = "none"
            /\ verdict' = ValidateDag(dag)
            /\ UNCHANGED dag

Next == Validate

Spec == Init /\ [][Next]_vars

-----------------------------------------------------------------------------
\* The reference: paths of one or more edges, as a transitive closure.
Path == TransitiveClosure([p \in Universe \X Universe |-> p \in EdgesOf(dag)], Universe)

Acyclic == \A n \in Universe : ~Path[n, n]

WellFormed == /\ Len(dag.nodes) \in 1 .. MaxDagNodes
              /\ \A i, j \in DOMAIN dag.nodes : dag.nodes[i] = dag.nodes[j] => i = j
              /\ \A e \in EdgesOf(dag) : e[1] \in NodesOf(dag) /\ e[2] \in NodesOf(dag)
              /\ \A n \in NodesOf(dag) : dag.inputFrom[n] \subseteq NodesOf(dag)

\* ValidateDag accepts exactly the well-formed DAGs whose edge relation has no
\* cycle: its separate start-node and end-node checks reject nothing more.
AcceptsExactlyAcyclic ==
  verdict # "none" => (verdict = "ok" <=> WellFormed /\ Acyclic)

\* The order ValidateDag returns lists every node once and every edge forward,
\* duplicate edges included: saga compensation runs over it backwards.
OrderIsTopological ==
  verdict = "ok" =>
    LET order == TopologicalOrder(dag)
    IN  /\ ToSet(order) = NodesOf(dag)
        /\ Len(order) = Cardinality(NodesOf(dag))
        /\ \A i, j \in DOMAIN order : <<order[i], order[j]>> \in EdgesOf(dag) => i < j

\* canReachEndNode agrees with the path relation (every node reaches itself).
ReachIsPath ==
  verdict = "ok" =>
    \A e, n \in NodesOf(dag) : canReachEndNode(dag, e, n) <=> (n = e \/ Path[n, e])
=============================================================================

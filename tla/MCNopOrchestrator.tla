------------------------- MODULE MCNopOrchestrator -------------------------
(***************************************************************************)
(* Small tasks for the orchestrator.                                       *)
(***************************************************************************)
EXTENDS NopOrchestrator

CONSTANTS a, b, c, d

NoInputs == [n \in Node |-> {}]
All == [n \in Node |-> 0]
NoRetry == [n \in Node |-> 0]
AnyCode == [n \in Node |-> {}]

Dag(ns, es, in, min) ==
  [nodes |-> ns, edges |-> es, inputFrom |-> in, minRequired |-> min]

Single == Dag(<<a>>, <<>>, NoInputs, All)

Chain == Dag(<<a, b, c>>, <<<<a, b>>, <<b, c>>>>,
             [NoInputs EXCEPT ![b] = {a}, ![c] = {b}], All)

Pair == Dag(<<b, a>>, <<<<a, b>>>>, [NoInputs EXCEPT ![b] = {a}], All)

\* a and b feed c: all of them, or one of them.
Join(k) == Dag(<<a, b, c>>, <<<<a, c>>, <<b, c>>>>,
               [NoInputs EXCEPT ![c] = {a, b}], [All EXCEPT ![c] = k])

Diamond == Dag(<<a, b, c, d>>, <<<<a, c>>, <<a, b>>, <<b, d>>, <<c, d>>>>,
               [NoInputs EXCEPT ![b] = {a}, ![c] = {a}, ![d] = {b, c}], All)

\* Two end nodes, one of them independent of the other.
Split == Dag(<<a, b, c>>, <<<<a, b>>>>, [NoInputs EXCEPT ![b] = {a}], All)

\* Three nodes ready at once.
Fan == Dag(<<a, b, c>>, <<>>, NoInputs, All)

Cyclic == Dag(<<a, b, c>>, <<<<a, b>>, <<b, a>>>>, NoInputs, All)

BaseTask == [dag |-> Single, conditional |-> {}, compensable |-> {},
             maxRetries |-> NoRetry, retryOn |-> AnyCode, policy |-> "best_effort",
             preflight |-> FALSE, depth |-> 0, callback |-> "none"]

On(g) == [BaseTask EXCEPT !.dag = g]

\* Scheduling: shapes, K-of-N, a condition and a retried node.
ScheduleTasks ==
  {On(Chain), On(Join(0)), On(Join(1)), On(Split), On(Fan),
   [On(Pair) EXCEPT !.conditional = {b},
                    !.maxRetries = [NoRetry EXCEPT ![a] = 2, ![b] = 1],
                    !.retryOn = [AnyCode EXCEPT ![a] = {"transient"}]]}

\* Saga: who can be undone, under which policy.
SagaTasks ==
  {[On(Diamond) EXCEPT !.policy = p, !.compensable = {b, c}] : p \in Policies \ {"on_failure"}}
  \cup {[On(g) EXCEPT !.compensable = {a, b, c, d}] : g \in {Diamond, Join(0)}}

\* Admission: racing calls, preflight, callback, refusals, cancellation.
AdmissionTasks ==
  {[BaseTask EXCEPT !.preflight = pf, !.callback = cb, !.depth = dp] :
     pf \in BOOLEAN, cb \in {"none", "valid", "invalid"}, dp \in {2, 3}}
  \cup {On(Cyclic), [On(Pair) EXCEPT !.callback = "valid"]}

SafetyTasks == ScheduleTasks \cup SagaTasks \cup AdmissionTasks

LivenessTasks ==
  {On(Join(0)), On(Join(1)),
   [On(Pair) EXCEPT !.callback = "valid", !.compensable = {a, b}, !.policy = "always",
                    !.maxRetries = [NoRetry EXCEPT ![a] = 1]]}

ChainTask == {On(Chain)}
UndoTask == {[On(Join(0)) EXCEPT !.compensable = {a, b, c}]}
=============================================================================

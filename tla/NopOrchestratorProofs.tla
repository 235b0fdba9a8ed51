------------------------ MODULE NopOrchestratorProofs ------------------------
(***************************************************************************)
(* Proofs about the orchestrator's scheduler for every finite set of nodes *)
(* and callers, every task and every limit.                                *)
(*                                                                         *)
(* The inductive invariant IInv says that Save admits one runner (Runner), *)
(* that the run's variables are untouched before its loop (Fresh), that    *)
(* the goroutines in existence are exactly the nodes in flight (Flight),   *)
(* and the two properties that follow from it (Launch, Width).             *)
(***************************************************************************)
EXTENDS NopOrchestrator, NatLemmas

USE NodeAssumption, TasksAssumption, BoundsAssumption

InRun(c) == pc[c] \in {"saved"} \cup RunPhase

Runner == /\ \A c, d \in Caller : InRun(c) /\ InRun(d) => c = d
          /\ \A c \in Caller : InRun(c) => recState # "none"

\* Before anyone saved the task, and until the run enters its loop.
Before == recState = "none" \/ \E c \in Caller : pc[c] \in {"saved", "registered", "preflight"}

Fresh == Before => inFlight = {} /\ \A n \in Node : gor[n].at = "none"

Flight ==
  /\ inFlight = Live
  /\ \A n \in Node : n \in inFlight => nodeStates[n] = "none"
  /\ \A n \in Node : gor[n].at \in {"sending", "exited"} => gor[n].outcome.state # "none"
  /\ (\E c \in Caller : pc[c] \in {"loop", "wait"}) =>
        \A n \in Node : gor[n].at = "exited" => nodeStates[n] # "none"

Width == Cardinality(inFlight) <= MaxConcurrentNodes

\* The result a run is about to report is completed or failed.
Drafted == \A c \in Caller :
  pc[c] \in {"compensate", "finish"} =>
    "state" \in DOMAIN draft /\ draft.state \in {"completed", "failed"}

IInv == /\ RunTypeOK /\ Runner /\ Drafted /\ Fresh /\ Flight /\ Width
        /\ LaunchedWithInputs

sched == <<task, nodeStates, inFlight, gor>>

-----------------------------------------------------------------------------
(* Lemmas about the operators.                                             *)

\* The DAG of a task: its nodes are a sequence of nodes, inputs are finite sets.
LEMMA DagFacts ==
  ASSUME NEW t \in Tasks
  PROVE  /\ t.dag.nodes \in Seq(Node) /\ Len(t.dag.nodes) \in Nat
         /\ t.dag.inputFrom \in [Node -> SUBSET Node]
         /\ t.dag.minRequired \in [Node -> Nat]
  <1>1. t \in TaskType OBVIOUS
  <1>2. t.dag \in DagType BY <1>1 DEF TaskType
  <1> QED BY <1>2 DEF DagType

\* areDepsDone's success count only grows while no node outcome is revised.
LEMMA DepsStaySatisfied ==
  ASSUME NEW t \in Tasks, NEW n \in Node, NEW st, NEW su,
         \A d \in Node : st[d] \in Succeeded => su[d] = st[d],
         DepsSatisfied(t.dag, n, st)
  PROVE  DepsSatisfied(t.dag, n, su)
  <1> DEFINE in == t.dag.inputFrom[n]
             A == {d \in in : st[d] \in Succeeded}
             B == {d \in in : su[d] \in Succeeded}
  <1>1. in \subseteq Node BY DagFacts
  <1>2. A \subseteq B BY <1>1
  <1>3. IsFiniteSet(B) /\ IsFiniteSet(A) /\ IsFiniteSet(in) BY <1>1, FS_Subset
  <1>4. Cardinality(A) <= Cardinality(B) BY <1>2, <1>3, FS_Subset
  <1>5. Cardinality(A) \in Nat /\ Cardinality(B) \in Nat /\ Cardinality(in) \in Nat
    BY <1>3, FS_CardinalityType
  <1>6. RequiredDeps(t.dag, n) \in Nat BY <1>5, DagFacts DEF RequiredDeps
  <1> QED BY <1>4, <1>5, <1>6 DEF DepsSatisfied, countDeps

\* What LoopSchedule launches was ready, is not doomed, and fits.
LEMMA LaunchFacts ==
  ASSUME RunTypeOK, Cardinality(inFlight) <= MaxConcurrentNodes
  PROVE  /\ LaunchNodes \subseteq ReadyNodes \ DoomedNodes
         /\ LaunchNodes \subseteq Node
         /\ Cardinality(LaunchNodes) <= MaxConcurrentNodes - Cardinality(inFlight)
  <1> DEFINE len == Len(dag.nodes)
             fits == {k \in 0 .. len : Cardinality(RunnableUpTo(k)) <= Room}
             top == CHOOSE k \in fits : \A j \in fits : j <= k
  <1>1. task \in Tasks /\ len \in Nat BY DagFacts DEF RunTypeOK, dag
  <1>2. RunnableUpTo(0) = {} BY DEF RunnableUpTo
  <1>3. IsFiniteSet(inFlight) /\ Cardinality(inFlight) \in Nat
    BY FS_Subset, FS_CardinalityType DEF RunTypeOK
  <1>4. Room \in Nat
    <2>1. MaxConcurrentNodes \in Nat OBVIOUS
    <2> QED BY <1>3, <2>1 DEF Room
  <1>5. 0 \in fits
    <2>1. Cardinality(RunnableUpTo(0)) = 0 BY <1>2, FS_EmptySet
    <2>2. Cardinality(RunnableUpTo(0)) <= Room BY <2>1, <1>4
    <2>3. 0 \in 0 .. len BY <1>1
    <2> QED BY <2>2, <2>3
  <1>6. fits \in SUBSET (0 .. len) /\ fits # {} BY <1>5
  <1>7. \E k \in fits : \A j \in fits : j <= k BY <1>1, <1>6, GreatestNatural
  <1>8. top \in fits BY <1>7
  <1>9. LaunchNodes = RunnableUpTo(top) BY DEF LaunchNodes
  <1>10. LaunchNodes \subseteq ReadyNodes \ DoomedNodes BY <1>9 DEF RunnableUpTo
  <1>11. \A n \in NodesOf(dag) : n \in Node
    BY <1>1, DagFacts DEF NodesOf, ToSet, dag
  <1> QED BY <1>8, <1>9, <1>10, <1>11 DEF Room, ReadyNodes, N

-----------------------------------------------------------------------------
(* Frames: what the steps outside the scheduler leave alone.               *)

Looping == \E c \in Caller : pc[c] \in {"loop", "wait"}

\* A step that touches neither the scheduler's variables nor opens a new run
\* keeps the scheduler's part of the invariant.
LEMMA SchedFrame ==
  ASSUME IInv, UNCHANGED sched, Before' => Before, Looping' => Looping \/ Before
  PROVE  Fresh' /\ Flight' /\ Width' /\ LaunchedWithInputs'
  <1>1. Fresh' BY DEF IInv, sched, Fresh
  <1>2. Live' = Live BY DEF sched, Live
  <1>3. Flight' BY <1>2 DEF IInv, sched, Flight, Looping, Fresh
  <1>4. Width' BY DEF IInv, sched, Width
  <1>5. LaunchedWithInputs' BY DEF IInv, sched, LaunchedWithInputs, dag
  <1> QED BY <1>1, <1>3, <1>4, <1>5

\* One Execute call moves to phase q: it was the runner, or no longer is one, or
\* becomes the first.
LEMMA CallerMoves ==
  ASSUME IInv, NEW c \in Caller, NEW q \in Phase, pc' = [pc EXCEPT ![c] = q],
         recState # "none" => recState' # "none",
         q \in {"saved"} \cup RunPhase => \/ InRun(c)
                                          \/ recState = "none" /\ recState' # "none"
  PROVE  /\ pc' \in [Caller -> Phase]
         /\ Runner'
         /\ q \notin {"saved", "registered", "preflight"} => (Before' => Before)
         /\ q \notin {"loop", "wait"} => (Looping' => Looping)
         /\ q \notin {"compensate", "finish"} /\ draft' = draft => Drafted'
  <1>1. pc \in [Caller -> Phase] BY DEF IInv, RunTypeOK
  <1>2. \A e \in Caller : pc'[e] = IF e = c THEN q ELSE pc[e] BY <1>1
  <1>3. \A e \in Caller : InRun(e)' => InRun(e) \/ e = c BY <1>2 DEF InRun
  <1>4. InRun(c)' => q \in {"saved"} \cup RunPhase BY <1>2 DEF InRun
  <1>5. recState = "none" => \A e \in Caller : ~InRun(e) BY DEF IInv, Runner
  <1>6. Runner' BY <1>3, <1>4, <1>5 DEF IInv, Runner
  <1>7. q \notin {"compensate", "finish"} /\ draft' = draft => Drafted'
    BY <1>2 DEF IInv, Drafted
  <1> QED BY <1>1, <1>2, <1>6, <1>7 DEF Before, Looping

\* No call moves and the record does not disappear.
LEMMA NobodyMoves ==
  ASSUME IInv, UNCHANGED pc, recState # "none" => recState' # "none"
  PROVE  pc' \in [Caller -> Phase] /\ Runner' /\ (Before' => Before) /\ (Looping' => Looping)
         /\ (draft' = draft => Drafted')
  <1>1. \A e \in Caller : InRun(e)' <=> InRun(e) BY DEF InRun
  <1> QED BY <1>1 DEF IInv, RunTypeOK, Runner, Before, Looping, Drafted

\* Entering the saga moves the call to "compensate" or "finish".
LEMMA SagaMoves ==
  ASSUME IInv, NEW c \in Caller, NEW state \in {"completed", "failed"}, NEW cause,
         EnterSaga(c, state, cause)
  PROVE  /\ "state" \in DOMAIN draft' /\ draft'.state = state
         /\ \E q \in {"compensate", "finish"} : pc' = [pc EXCEPT ![c] = q]
         /\ recState' \in {recState, "compensating"}
  BY DEF EnterSaga, Goto, UpdateState

-----------------------------------------------------------------------------
(* Each step keeps IInv.                                                   *)

\* Steps of Execute outside the loop: admission, the ends of the loop, the saga
\* and the final bookkeeping.
LEMMA OutsideLoop ==
  ASSUME IInv, NEW c \in Caller,
         \/ ExecuteCheck(c) \/ ExecuteSave(c) \/ ExecuteRegister(c) \/ ExecuteStart(c)
         \/ ExecutePreflight(c) \/ LoopCancelled(c) \/ LoopExit(c) \/ DrainedAbort(c)
         \/ AfterLoop(c) \/ CompensateNode(c) \/ CompensationDone(c) \/ ExecuteFinish(c)
  PROVE  IInv'
  <1> DEFINE Typed == /\ task' = task /\ sub' = sub
                      /\ recState' \in TaskStates \cup {"none"}
                      /\ registered' \in BOOLEAN /\ ctxDone' \in BOOLEAN
                      /\ parentDone' \in BOOLEAN
             Moved == /\ pc' \in [Caller -> Phase] /\ Runner' /\ Drafted'
                      /\ Before' => Before
                      /\ Looping' => Looping \/ Before
  <1>a. RunTypeOK BY DEF IInv
  <1>b. recState \in TaskStates \cup {"none"} BY <1>a DEF RunTypeOK
  <1>c. ASSUME Typed, Moved, UNCHANGED sched PROVE IInv'
    <2>1. RunTypeOK' BY <1>a, <1>c DEF RunTypeOK, sched
    <2>2. Fresh' /\ Flight' /\ Width' /\ LaunchedWithInputs' BY <1>c, SchedFrame
    <2> QED BY <2>1, <2>2, <1>c DEF IInv
  <1>d. Drafted BY DEF IInv
  <1>1. CASE ExecuteCheck(c)
    <2>1. Typed /\ UNCHANGED sched /\ draft' = draft
      BY <1>1, <1>a, <1>b DEF ExecuteCheck, storeVars, ctxVars, runVars, sched, RunTypeOK
    <2>2. \E q \in {"returned", "got"} : pc' = [pc EXCEPT ![c] = q]
      BY <1>1 DEF ExecuteCheck, Return, Goto
    <2>3. recState' = recState BY <1>1 DEF ExecuteCheck, storeVars
    <2>4. Moved BY <2>1, <2>2, <2>3, CallerMoves DEF Phase, RunPhase
    <2> QED BY <2>1, <2>4, <1>c
  <1>2. CASE ExecuteSave(c)
    <2>1. Typed /\ UNCHANGED sched /\ draft' = draft
      BY <1>2, <1>a, <1>b DEF ExecuteSave, ctxVars, runVars, sched, RunTypeOK, TaskStates
    <2>2. CASE SaveRejects
      <3>1. pc' = [pc EXCEPT ![c] = "returned"] /\ recState' = recState
        BY <1>2, <2>2 DEF ExecuteSave, Return, Goto
      <3>2. Moved BY <2>1, <3>1, CallerMoves DEF Phase, RunPhase
      <3> QED BY <3>2, <2>1, <1>c
    <2>3. CASE ~SaveRejects
      <3>1. pc' = [pc EXCEPT ![c] = "saved"] /\ recState' = "pending" /\ recState = "none"
        BY <1>2, <2>3 DEF ExecuteSave, Goto, SaveRejects
      <3>2. Before BY <3>1 DEF Before
      <3>3. Moved BY <2>1, <3>1, <3>2, CallerMoves DEF Phase, RunPhase
      <3> QED BY <3>3, <2>1, <1>c
    <2> QED BY <2>2, <2>3
  <1>3. CASE ExecuteRegister(c)
    <2>1. Typed /\ UNCHANGED sched /\ draft' = draft
      BY <1>3, <1>a, <1>b DEF ExecuteRegister, storeVars, runVars, sched, RunTypeOK
    <2>2. pc' = [pc EXCEPT ![c] = "registered"] /\ recState' = recState /\ pc[c] = "saved"
      BY <1>3 DEF ExecuteRegister, Goto, storeVars
    <2>3. Before /\ InRun(c) BY <2>2 DEF Before, InRun
    <2>4. Moved BY <2>1, <2>2, <2>3, CallerMoves DEF Phase, RunPhase
    <2> QED BY <2>1, <2>4, <1>c
  <1>4. CASE ExecuteStart(c)
    <2>1. Typed /\ UNCHANGED sched /\ draft' = draft
      BY <1>4, <1>a, <1>b
      DEF ExecuteStart, UpdateState, ctxVars, runVars, sched, RunTypeOK, TaskStates
    <2>2. PICK q \in {"preflight", "loop"} : pc' = [pc EXCEPT ![c] = q]
      BY <1>4 DEF ExecuteStart, Goto
    <2>3. pc[c] = "registered" /\ (recState # "none" => recState' # "none")
      BY <1>4 DEF ExecuteStart, UpdateState
    <2>4. Before /\ InRun(c) BY <2>3 DEF Before, InRun, RunPhase
    <2>5. Moved BY <2>1, <2>2, <2>3, <2>4, CallerMoves DEF Phase, RunPhase
    <2> QED BY <2>1, <2>5, <1>c
  <1>5. CASE ExecutePreflight(c)
    <2>1. Typed /\ UNCHANGED sched /\ draft' = draft
      BY <1>5, <1>a, <1>b
      DEF ExecutePreflight, PreflightFails, Unregister, UpdateState, ctxVars, runVars, sched,
          RunTypeOK, TaskStates
    <2>2. PICK q \in {"returned", "loop"} : pc' = [pc EXCEPT ![c] = q]
      BY <1>5 DEF ExecutePreflight, PreflightFails, Return, Goto
    <2>3. pc[c] = "preflight" /\ (recState # "none" => recState' # "none")
      BY <1>5 DEF ExecutePreflight, PreflightFails, UpdateState
    <2>4. Before /\ InRun(c) BY <2>3 DEF Before, InRun, RunPhase
    <2>5. Moved BY <2>1, <2>2, <2>3, <2>4, CallerMoves DEF Phase, RunPhase
    <2> QED BY <2>1, <2>5, <1>c
  <1>6. CASE LoopCancelled(c) \/ DrainedAbort(c) \/ AfterLoop(c)
    <2>1. PICK state \in {"completed", "failed"}, cause \in ResultCodes :
              EnterSaga(c, state, cause)
      BY <1>6 DEF LoopCancelled, DrainedAbort, AfterLoop, ResultCodes
    <2>2. recState' \in {recState, "compensating"} BY <2>1, SagaMoves
    <2>3. PICK q \in {"compensate", "finish"} : pc' = [pc EXCEPT ![c] = q]
      BY <2>1, SagaMoves
    <2>4. Typed /\ UNCHANGED sched
      BY <1>6, <1>a, <1>b, <2>2
      DEF LoopCancelled, DrainedAbort, AfterLoop, ctxVars, sched, RunTypeOK, TaskStates
    <2>5. InRun(c) BY <1>6 DEF LoopCancelled, DrainedAbort, AfterLoop, InRun, RunPhase
    <2>7. Drafted' BY <2>1, SagaMoves DEF Drafted
    <2>6. Moved BY <2>2, <2>3, <2>5, <2>7, CallerMoves DEF Phase, RunPhase
    <2> QED BY <2>4, <2>6, <1>c
  <1>7. CASE LoopExit(c)
    <2>1. Typed /\ UNCHANGED sched /\ recState' = recState /\ draft' = draft
      BY <1>7, <1>a, <1>b DEF LoopExit, storeVars, ctxVars, runVars, sched, RunTypeOK
    <2>2. pc' = [pc EXCEPT ![c] = "done"] /\ InRun(c)
      BY <1>7 DEF LoopExit, Goto, InRun, RunPhase
    <2>3. Moved BY <2>1, <2>2, CallerMoves DEF Phase, RunPhase
    <2> QED BY <2>1, <2>3, <1>c
  <1>8. CASE CompensationDone(c)
    <2>1. Typed /\ UNCHANGED sched /\ recState' = recState
      BY <1>8, <1>a, <1>b DEF CompensationDone, storeVars, ctxVars, sched, RunTypeOK
    <2>2. pc' = [pc EXCEPT ![c] = "finish"] /\ InRun(c) /\ pc[c] = "compensate"
      BY <1>8 DEF CompensationDone, Goto, InRun, RunPhase
    <2>4. "state" \in DOMAIN draft /\ draft.state \in {"completed", "failed"}
      BY <1>d, <2>2 DEF Drafted
    <2>5. "state" \in DOMAIN draft' /\ draft'.state = draft.state
      BY <1>8, <2>4 DEF CompensationDone
    <2>6. Drafted' BY <2>4, <2>5 DEF Drafted
    <2>7. Moved BY <2>1, <2>2, <2>6, CallerMoves DEF Phase, RunPhase
    <2> QED BY <2>1, <2>7, <1>c
  <1>9. CASE ExecuteFinish(c)
    <2>1. pc' = [pc EXCEPT ![c] = "returned"] /\ InRun(c) /\ pc[c] = "finish"
      BY <1>9 DEF ExecuteFinish, Return, Goto, InRun, RunPhase
    <2>2. draft' = draft /\ draft.state \in {"completed", "failed"}
      BY <1>9, <1>d, <2>1 DEF ExecuteFinish, Drafted, runVars
    <2>3. recState' \in {recState, "completed", "failed"}
      BY <1>9, <2>2 DEF ExecuteFinish, UpdateState
    <2>4. Typed /\ UNCHANGED sched /\ draft' = draft
      BY <1>9, <1>a, <1>b, <2>3
      DEF ExecuteFinish, Unregister, runVars, sched, RunTypeOK, TaskStates
    <2>5. Moved BY <2>1, <2>2, <2>3, CallerMoves DEF Phase, RunPhase
    <2> QED BY <2>4, <2>5, <1>c
  <1>10. CASE CompensateNode(c)
    <2>1. Typed /\ UNCHANGED sched /\ UNCHANGED <<pc, draft>> /\ recState' = recState
      BY <1>10, <1>a, <1>b DEF CompensateNode, storeVars, ctxVars, sched, RunTypeOK
    <2>2. Moved BY <2>1, NobodyMoves
    <2> QED BY <2>1, <2>2, <1>c
  <1> QED BY <1>1, <1>2, <1>3, <1>4, <1>5, <1>6, <1>7, <1>8, <1>9, <1>10

\* The runner in its loop: nothing is fresh any more, now or after its step.
LEMMA InLoop ==
  ASSUME IInv, NEW c \in Caller, pc[c] \in {"loop", "wait", "drain"},
         NEW q \in {"loop", "wait", "drain", "done"}, pc' = [pc EXCEPT ![c] = q],
         recState' = recState, draft' = draft
  PROVE  /\ pc' \in [Caller -> Phase] /\ Runner' /\ Drafted'
         /\ ~Before' /\ Fresh'
         /\ Looping' => q \in {"loop", "wait"}
  <1>1. InRun(c) BY DEF InRun, RunPhase
  <1>2. pc' \in [Caller -> Phase] /\ Runner' /\ Drafted'
    BY <1>1, CallerMoves DEF Phase, RunPhase
  <1>3. pc \in [Caller -> Phase] BY DEF IInv, RunTypeOK
  <1>4. recState # "none" /\ \A e \in Caller : InRun(e) => e = c BY <1>1 DEF IInv, Runner
  <1>5. \A e \in Caller : e # c => pc[e] \notin {"saved"} \cup RunPhase /\ pc'[e] = pc[e]
    BY <1>3, <1>4 DEF InRun
  <1>6. pc'[c] = q BY <1>3
  <1>7. ~Before' BY <1>4, <1>5, <1>6 DEF Before, RunPhase
  <1>8. Looping' => q \in {"loop", "wait"} BY <1>5, <1>6 DEF Looping, RunPhase
  <1> QED BY <1>2, <1>7, <1>8 DEF Fresh

GorType == [at : GorPhase, attempt : Nat,
            outcome : [state : NodeStates \cup {"none"},
                       code : Code \cup {"", "cancelled", "condition_eval_error"}]]

\* One pass of the scheduling loop.
LEMMA ScheduleIInv ==
  ASSUME IInv, NEW c \in Caller, LoopSchedule(c)
  PROVE  IInv'
  <1>1. /\ task \in Tasks /\ inFlight \subseteq Node
        /\ nodeStates \in [Node -> NodeStates \cup {"none"}]
        /\ gor \in [Node -> GorType]
        /\ sub \in [Node -> [state : NodeStates \cup {"none", "running"}, attempt : Nat]]
    BY DEF IInv, RunTypeOK, GorType
  <1>2. LaunchNodes \subseteq ReadyNodes \ DoomedNodes /\ LaunchNodes \subseteq Node
        /\ Cardinality(LaunchNodes) <= MaxConcurrentNodes - Cardinality(inFlight)
    BY LaunchFacts DEF IInv, Width
  <1>3. /\ nodeStates' = [n \in Node |-> IF n \in DoomedNodes THEN "failed" ELSE nodeStates[n]]
        /\ inFlight' = inFlight \cup LaunchNodes
        /\ gor' = [n \in Node |->
                     IF n \in LaunchNodes
                     THEN [at |-> "attempt", attempt |-> 1, outcome |-> NoOutcome]
                     ELSE gor[n]]
        /\ task' = task
    BY DEF LoopSchedule
  <1>4. \A n \in Node : n \in DoomedNodes \/ n \in LaunchNodes =>
                           n \in ReadyNodes /\ nodeStates[n] = "none" /\ n \notin inFlight
    BY <1>2 DEF DoomedNodes, ReadyNodes
  <1>5. \A n \in Node : nodeStates[n] # "none" => nodeStates'[n] = nodeStates[n]
    BY <1>3, <1>4
  <1>6. RunTypeOK'
    <2>1. [at |-> "attempt", attempt |-> 1, outcome |-> NoOutcome] \in GorType
      BY DEF GorType, GorPhase, NoOutcome, NodeStates
    <2>2. gor' \in [Node -> GorType] BY <1>1, <1>3, <2>1
    <2>3. nodeStates' \in [Node -> NodeStates \cup {"none"}] BY <1>1, <1>3 DEF NodeStates
    <2>4. sub' \in [Node -> [state : NodeStates \cup {"none", "running"}, attempt : Nat]]
      <3>1. [state |-> "failed", attempt |-> 0] \in
              [state : NodeStates \cup {"none", "running"}, attempt : Nat]
        BY DEF NodeStates
      <3> QED BY <1>1, <3>1 DEF LoopSchedule
    <2>5. pc' \in [Caller -> Phase]
      BY DEF IInv, RunTypeOK, LoopSchedule, Goto, Phase, RunPhase
    <2> QED BY <1>1, <1>2, <1>3, <2>2, <2>3, <2>4, <2>5
            DEF IInv, RunTypeOK, GorType, LoopSchedule, ctxVars
  <1>7. /\ Runner' /\ Drafted' /\ Fresh'
    <2>1. PICK q \in {"wait", "done"} : pc' = [pc EXCEPT ![c] = q] BY DEF LoopSchedule, Goto
    <2>2. pc[c] = "loop" /\ recState' = recState /\ draft' = draft BY DEF LoopSchedule
    <2> QED BY <2>1, <2>2, InLoop
  <1>8. Flight'
    <2>1. \A n \in Node : gor'[n].at = IF n \in LaunchNodes THEN "attempt" ELSE gor[n].at
      BY <1>3
    <2>2. inFlight' = Live' BY <1>1, <1>2, <1>3, <2>1 DEF IInv, Flight, Live
    <2>3. \A n \in Node : n \in inFlight' => nodeStates'[n] = "none"
      BY <1>2, <1>3, <1>4 DEF IInv, Flight
    <2>4. \A n \in Node : gor'[n].at \in {"sending", "exited"} => gor'[n].outcome.state # "none"
      BY <1>3, <2>1 DEF IInv, Flight
    <2>5. Looping BY DEF LoopSchedule, Looping
    <2>6. \A n \in Node : gor'[n].at = "exited" => nodeStates'[n] # "none"
      BY <1>5, <2>1, <2>5 DEF IInv, Flight, Looping
    <2> QED BY <2>2, <2>3, <2>4, <2>6 DEF Flight
  <1>9. Width'
    <2>1. IsFiniteSet(inFlight) /\ IsFiniteSet(LaunchNodes) BY <1>1, <1>2, FS_Subset
    <2>2. Cardinality(inFlight \cup LaunchNodes) =
            Cardinality(inFlight) + Cardinality(LaunchNodes)
              - Cardinality(inFlight \cap LaunchNodes)
      BY <2>1, FS_Union
    <2>3. IsFiniteSet(inFlight \cap LaunchNodes) BY <2>1, FS_Subset
    <2>4. /\ Cardinality(inFlight) \in Nat /\ Cardinality(LaunchNodes) \in Nat
          /\ Cardinality(inFlight \cap LaunchNodes) \in Nat
      BY <2>1, <2>3, FS_CardinalityType
    <2>5. Cardinality(inFlight \cup LaunchNodes) <= MaxConcurrentNodes BY <2>2, <2>4, <1>2
    <2> QED BY <1>3, <2>5 DEF Width
  <1>10. LaunchedWithInputs'
    <2>1. SUFFICES ASSUME NEW n \in Node, gor'[n].at # "none"
                   PROVE  DepsSatisfied(task.dag, n, nodeStates')
      BY <1>3 DEF LaunchedWithInputs, dag
    <2>2. DepsSatisfied(task.dag, n, nodeStates)
      <3>1. CASE n \in LaunchNodes BY <1>2, <3>1 DEF DoomedNodes, dag
      <3>2. CASE n \notin LaunchNodes
        BY <1>3, <2>1, <3>2 DEF IInv, LaunchedWithInputs, dag
      <3> QED BY <3>1, <3>2
    <2>3. \A d \in Node : nodeStates[d] \in Succeeded => nodeStates'[d] = nodeStates[d]
      BY <1>5 DEF Succeeded
    <2> QED BY <1>1, <2>2, <2>3, DepsStaySatisfied
  <1> QED BY <1>6, <1>7, <1>8, <1>9, <1>10 DEF IInv

\* The scheduler receives an outcome, in the loop or while draining.
LEMMA ReceiveIInv ==
  ASSUME IInv, NEW c \in Caller, NEW n \in Node, LoopReceive(c, n) \/ DrainOne(c, n)
  PROVE  IInv'
  <1>1. /\ task \in Tasks /\ inFlight \subseteq Node
        /\ nodeStates \in [Node -> NodeStates \cup {"none"}]
        /\ gor \in [Node -> GorType]
        /\ pc \in [Caller -> Phase]
    BY DEF IInv, RunTypeOK, GorType
  <1>2. /\ gor[n].at = "sending" /\ inFlight' = inFlight \ {n}
        /\ gor' = [gor EXCEPT ![n].at = "exited"]
        /\ task' = task
    BY DEF LoopReceive, DrainOne, TakeDone
  <1>3. /\ gor[n].outcome.state \in NodeStates
        /\ nodeStates[n] = "none"
    BY <1>1, <1>2 DEF IInv, Flight, Live, GorType
  <1>4. /\ \A m \in Node : m # n => gor'[m] = gor[m]
        /\ gor'[n].at = "exited" /\ gor'[n].outcome = gor[n].outcome
    <2>1. [gor[n] EXCEPT !.at = "exited"].at = "exited"
          /\ [gor[n] EXCEPT !.at = "exited"].outcome = gor[n].outcome
      BY <1>1 DEF GorType
    <2>2. gor' = [gor EXCEPT ![n] = [gor[n] EXCEPT !.at = "exited"]] BY <1>2
    <2> QED BY <1>1, <2>1, <2>2
  <1>5. gor' \in [Node -> GorType]
    <2>1. [gor[n] EXCEPT !.at = "exited"] \in GorType
      <3>1. gor[n] \in GorType BY <1>1
      <3> QED BY <3>1 DEF GorType, GorPhase
    <2>2. gor' = [gor EXCEPT ![n] = [gor[n] EXCEPT !.at = "exited"]] BY <1>2
    <2> QED BY <1>1, <2>1, <2>2
  <1>6. /\ nodeStates' \in [Node -> NodeStates \cup {"none"}]
        /\ \A m \in Node : m # n => nodeStates'[m] = nodeStates[m]
    BY <1>1, <1>3 DEF LoopReceive, DrainOne
  <1>7. PICK q \in {"loop", "drain"} :
             /\ pc' = [pc EXCEPT ![c] = q]
             /\ q = "loop" => nodeStates'[n] = gor[n].outcome.state
    <2>1. CASE LoopReceive(c, n)
      BY <1>1, <2>1 DEF LoopReceive, Goto
    <2>2. CASE DrainOne(c, n)
      <3>1. pc' = [pc EXCEPT ![c] = "drain"] BY <1>1, <2>2 DEF DrainOne
      <3> QED BY <3>1
    <2> QED BY <2>1, <2>2
  <1>8. /\ pc' \in [Caller -> Phase] /\ Runner' /\ Drafted' /\ Fresh'
        /\ Looping' => q \in {"loop", "wait"}
    <2>1. /\ pc[c] \in {"loop", "wait", "drain"} /\ recState' = recState /\ draft' = draft
      BY DEF LoopReceive, DrainOne, storeVars
    <2> QED BY <1>7, <2>1, InLoop
  <1>9. RunTypeOK'
    <2>1. sub' = sub /\ recState' = recState /\ UNCHANGED ctxVars
      BY DEF LoopReceive, DrainOne, storeVars
    <2> QED BY <1>1, <1>2, <1>5, <1>6, <1>8, <2>1 DEF IInv, RunTypeOK, GorType, ctxVars
  <1>10. Flight'
    <2>1. inFlight' = Live' BY <1>1, <1>2, <1>4 DEF IInv, Flight, Live
    <2>2. \A m \in Node : m \in inFlight' => nodeStates'[m] = "none"
      BY <1>2, <1>6 DEF IInv, Flight
    <2>3. \A m \in Node : gor'[m].at \in {"sending", "exited"} => gor'[m].outcome.state # "none"
      <3>1. gor[n].outcome.state # "none" BY <1>3 DEF NodeStates
      <3> QED BY <1>4, <3>1 DEF IInv, Flight
    <2>4. Looping' => \A m \in Node : gor'[m].at = "exited" => nodeStates'[m] # "none"
      <3>1. SUFFICES ASSUME Looping' PROVE \A m \in Node : gor'[m].at = "exited" => nodeStates'[m] # "none"
        OBVIOUS
      <3>2. q = "loop" BY <1>8, <3>1
      <3>3. nodeStates'[n] # "none" BY <1>3, <1>7, <3>2 DEF NodeStates
      <3>4. pc[c] \in {"loop", "wait"}
        <4>1. pc'[c] = "loop" BY <1>1, <1>7, <3>2
        <4> QED BY <4>1, <1>1 DEF LoopReceive, DrainOne
      <3>5. \A m \in Node : gor[m].at = "exited" => nodeStates[m] # "none"
        BY <3>4 DEF IInv, Flight
      <3> QED BY <3>3, <3>5, <1>4, <1>6
    <2> QED BY <2>1, <2>2, <2>3, <2>4 DEF Flight, Looping
  <1>11. Width'
    <2>1. IsFiniteSet(inFlight) BY <1>1, FS_Subset
    <2>2. IsFiniteSet(inFlight') /\ Cardinality(inFlight') <= Cardinality(inFlight)
      BY <1>2, <2>1, FS_Subset
    <2>3. Cardinality(inFlight) \in Nat /\ Cardinality(inFlight') \in Nat
      BY <2>1, <2>2, FS_CardinalityType
    <2> QED BY <2>2, <2>3 DEF IInv, Width
  <1>12. LaunchedWithInputs'
    <2>1. \A d \in Node : nodeStates[d] \in Succeeded => nodeStates'[d] = nodeStates[d]
      BY <1>3, <1>6 DEF Succeeded
    <2>2. \A m \in Node : gor'[m].at # "none" => gor[m].at # "none" BY <1>2, <1>4
    <2>3. \A m \in Node : gor'[m].at # "none" => DepsSatisfied(task.dag, m, nodeStates')
      BY <1>1, <2>1, <2>2, DepsStaySatisfied DEF IInv, LaunchedWithInputs, dag
    <2> QED BY <1>2, <2>3 DEF LaunchedWithInputs, dag
  <1> QED BY <1>8, <1>9, <1>10, <1>11, <1>12 DEF IInv

\* A goroutine's step: it stays alive, and has an outcome when it comes to send.
LEMMA NodeFrame ==
  ASSUME IInv, NEW n \in Node, NEW g \in GorType, gor' = [gor EXCEPT ![n] = g],
         gor[n].at \notin {"none", "exited"}, g.at \notin {"none", "exited"},
         g.at = "sending" => g.outcome.state # "none",
         sub' \in [Node -> [state : NodeStates \cup {"none", "running"}, attempt : Nat]],
         gorUnchanged
  PROVE  IInv'
  <1>1. gor \in [Node -> GorType] BY DEF IInv, RunTypeOK, GorType
  <1>2. gor' \in [Node -> GorType] /\ \A m \in Node : gor'[m] = IF m = n THEN g ELSE gor[m]
    BY <1>1
  <1>3. UNCHANGED <<task, pc, recState, ctxVars, nodeStates, inFlight, draft>>
    BY DEF gorUnchanged
  <1>4. RunTypeOK' BY <1>2, <1>3 DEF IInv, RunTypeOK, GorType, ctxVars
  <1>5. Runner' /\ Drafted' /\ (Before' => Before) /\ (Looping' => Looping)
    BY <1>3, NobodyMoves
  <1>6. Fresh' BY <1>3, <1>5 DEF IInv, Fresh
  <1>7. inFlight' = Live' BY <1>2, <1>3 DEF IInv, Flight, Live
  <1>8. Flight' BY <1>2, <1>3, <1>5, <1>7 DEF IInv, Flight, Looping
  <1>9. Width' BY <1>3 DEF IInv, Width
  <1>10. LaunchedWithInputs' BY <1>2, <1>3 DEF IInv, LaunchedWithInputs, dag
  <1> QED BY <1>4, <1>5, <1>6, <1>8, <1>9, <1>10 DEF IInv

SubType == [state : NodeStates \cup {"none", "running"}, attempt : Nat]

\* The three steps of a node goroutine.
LEMMA NodeIInv ==
  ASSUME IInv, NEW n \in Node, NodeStep(n)
  PROVE  IInv'
  <1>1. /\ gor \in [Node -> GorType] /\ sub \in [Node -> SubType]
    BY DEF IInv, RunTypeOK, GorType, SubType
  <1>2. gor[n] \in GorType /\ gor[n].attempt \in Nat /\ gorUnchanged
    BY <1>1 DEF GorType, NodeStep, NodeBegin, NodeAnswer, NodeBackoff
  <1>3. gor[n].at \in {"attempt", "running", "backoff"}
    BY DEF NodeStep, NodeBegin, NodeAnswer, NodeBackoff
  <1>4. ASSUME NEW state \in NodeStates,
               NEW code \in Code \cup {"", "cancelled", "condition_eval_error"},
               Send(n, state, code), sub' \in [Node -> SubType]
        PROVE  IInv'
    <2> DEFINE o == [state |-> state, code |-> code]
               g == [gor[n] EXCEPT !.at = "sending", !.outcome = o]
    <2>1. o \in [state : NodeStates \cup {"none"},
                 code : Code \cup {"", "cancelled", "condition_eval_error"}]
      OBVIOUS
    <2>2. g \in GorType /\ g.at = "sending" /\ g.outcome = o
      BY <1>2, <2>1 DEF GorType, GorPhase
    <2>3. gor' = [gor EXCEPT ![n] = g] BY <1>4 DEF Send
    <2>4. o.state # "none" BY DEF NodeStates
    <2> HIDE DEF g, o
    <2> QED BY <1>2, <1>3, <1>4, <2>2, <2>3, <2>4, NodeFrame DEF SubType
  <1>5. ASSUME NEW at \in {"attempt", "running", "backoff"}, NEW k \in Nat,
               gor' = [gor EXCEPT ![n].at = at, ![n].attempt = k], sub' \in [Node -> SubType]
        PROVE  IInv'
    <2> DEFINE g == [gor[n] EXCEPT !.at = at, !.attempt = k]
    <2>1. g \in GorType /\ g.at = at BY <1>2 DEF GorType, GorPhase
    <2>2. gor' = [gor EXCEPT ![n] = g] BY <1>5
    <2> HIDE DEF g
    <2> QED BY <1>2, <1>3, <1>5, <2>1, <2>2, NodeFrame DEF SubType
  <1>6. ASSUME NEW at \in {"attempt", "running", "backoff"},
               gor' = [gor EXCEPT ![n].at = at], sub' \in [Node -> SubType]
        PROVE  IInv'
    <2> DEFINE g == [gor[n] EXCEPT !.at = at]
    <2>1. g \in GorType /\ g.at = at BY <1>2 DEF GorType, GorPhase
    <2>2. gor' = [gor EXCEPT ![n] = g] BY <1>6
    <2> HIDE DEF g
    <2> QED BY <1>2, <1>3, <1>6, <2>1, <2>2, NodeFrame DEF SubType
  <1>7. ASSUME NEW s \in NodeStates \cup {"none", "running"}, UpdateSubtask(n, s)
        PROVE  sub' \in [Node -> SubType]
    <2>1. [state |-> s, attempt |-> gor[n].attempt] \in SubType BY <1>2 DEF SubType
    <2> QED BY <1>1, <1>7, <2>1 DEF UpdateSubtask
  <1>8. CASE NodeBegin(n)
    <2>1. CASE NodeStop(n) BY <1>1, <1>4, <2>1 DEF NodeStop, NodeStates
    <2>2. CASE UpdateSubtask(n, "running") /\ gor' = [gor EXCEPT ![n].at = "running"]
      BY <1>6, <1>7, <2>2
    <2>3. CASE \E s \in {"failed", "skipped"} :
                 /\ UpdateSubtask(n, s)
                 /\ Send(n, s, IF s = "failed" THEN "condition_eval_error" ELSE "")
      <3>1. PICK s \in {"failed", "skipped"} :
                 /\ UpdateSubtask(n, s)
                 /\ Send(n, s, IF s = "failed" THEN "condition_eval_error" ELSE "")
        BY <2>3
      <3>2. s \in NodeStates BY DEF NodeStates
      <3>3. sub' \in [Node -> SubType] BY <1>7, <3>1, <3>2
      <3>4. CASE s = "failed" BY <1>4, <3>1, <3>2, <3>3, <3>4
      <3>5. CASE s = "skipped" BY <1>4, <3>1, <3>2, <3>3, <3>5
      <3> QED BY <3>4, <3>5
    <2> QED BY <1>8, <2>1, <2>2, <2>3 DEF NodeBegin
  <1>9. CASE NodeAnswer(n)
    <2>1. CASE UpdateSubtask(n, "completed") /\ Send(n, "completed", "")
      <3>1. sub' \in [Node -> SubType] BY <1>7, <2>1 DEF NodeStates
      <3> QED BY <1>4, <2>1, <3>1 DEF NodeStates
    <2>2. CASE \E code \in Code \cup {"", "cancelled"} : NodeFails(n, code)
      <3>1. PICK code \in Code \cup {"", "cancelled"} : NodeFails(n, code) BY <2>2
      <3>2. CASE gor' = [gor EXCEPT ![n].at = "backoff"] /\ UNCHANGED sub
        BY <1>1, <1>6, <3>2
      <3>3. CASE UpdateSubtask(n, "failed") /\ Send(n, "failed", code)
        <4>1. sub' \in [Node -> SubType] BY <1>7, <3>3 DEF NodeStates
        <4> QED BY <1>4, <3>3, <4>1 DEF NodeStates
      <3> QED BY <3>1, <3>2, <3>3 DEF NodeFails
    <2> QED BY <1>9, <2>1, <2>2 DEF NodeAnswer
  <1>10. CASE NodeBackoff(n)
    <2>1. CASE gor' = [gor EXCEPT ![n].at = "attempt", ![n].attempt = @ + 1]
      <3>1. gor[n].attempt + 1 \in Nat BY <1>2
      <3>2. sub' \in [Node -> SubType] BY <1>1, <1>10 DEF NodeBackoff
      <3> QED BY <1>5, <2>1, <3>1, <3>2
    <2>2. CASE Send(n, "failed", "cancelled")
      BY <1>1, <1>4, <1>10, <2>2 DEF NodeBackoff, NodeStates
    <2> QED BY <1>10, <2>1, <2>2 DEF NodeBackoff
  <1> QED BY <1>8, <1>9, <1>10 DEF NodeStep

\* Timer, contexts, Cancel and callback delivery.
LEMMA EnvironmentIInv ==
  ASSUME IInv,
         TimerFires \/ ParentCancelled \/ CancelContext \/ CancelStore \/ CallbackPost
           \/ UNCHANGED vars
  PROVE  IInv'
  <1>1. UNCHANGED <<sched, sub, pc, draft>>
    BY DEF TimerFires, ParentCancelled, CancelContext, CancelStore, CallbackPost, vars,
           storeVars, runVars, sched
  <1>2. /\ recState' \in TaskStates \cup {"none"}
        /\ recState # "none" => recState' # "none"
    BY DEF TimerFires, ParentCancelled, CancelContext, CancelStore, CallbackPost, vars,
           storeVars, UpdateState, IInv, RunTypeOK, TaskStates
  <1>3. registered' \in BOOLEAN /\ ctxDone' \in BOOLEAN /\ parentDone' \in BOOLEAN
    BY DEF TimerFires, ParentCancelled, CancelContext, CancelStore, CallbackPost, vars,
           ctxVars, IInv, RunTypeOK
  <1>4. pc' \in [Caller -> Phase] /\ Runner' /\ Drafted' /\ (Before' => Before)
        /\ (Looping' => Looping)
    BY <1>1, <1>2, NobodyMoves
  <1>5. RunTypeOK' BY <1>1, <1>2, <1>3, <1>4 DEF IInv, RunTypeOK, sched
  <1>6. Fresh' /\ Flight' /\ Width' /\ LaunchedWithInputs' BY <1>1, <1>4, SchedFrame
  <1> QED BY <1>4, <1>5, <1>6 DEF IInv

LEMMA InitIInv == Init => IInv
  <1> SUFFICES ASSUME Init PROVE IInv OBVIOUS
  <1>1. RunTypeOK
    <2>1. [at |-> "none", attempt |-> 0, outcome |-> NoOutcome] \in GorType
      BY DEF GorType, GorPhase, NoOutcome
    <2>2. gor \in [Node -> GorType] BY <2>1 DEF Init
    <2>3. [state |-> "none", attempt |-> 0] \in SubType BY DEF SubType
    <2>4. sub \in [Node -> SubType] BY <2>3 DEF Init
    <2> QED BY <2>2, <2>4 DEF Init, RunTypeOK, GorType, SubType, Phase
  <1>2. Runner /\ Drafted BY DEF Init, Runner, InRun, RunPhase, Drafted
  <1>3. \A n \in Node : gor[n].at = "none" BY DEF Init
  <1>4. Fresh /\ LaunchedWithInputs BY <1>3 DEF Init, Fresh, LaunchedWithInputs
  <1>5. Flight BY <1>3 DEF Init, Flight, Live
  <1>6. Width
    <2>1. Cardinality(inFlight) = 0 BY FS_EmptySet DEF Init
    <2> QED BY <2>1 DEF Width
  <1> QED BY <1>1, <1>2, <1>4, <1>5, <1>6 DEF IInv

LEMMA NextIInv == IInv /\ [Next]_vars => IInv'
  <1> SUFFICES ASSUME IInv, [Next]_vars PROVE IInv' OBVIOUS
  <1>1. CASE \E c \in Caller : ExecuteStep(c)
    <2>1. PICK c \in Caller : ExecuteStep(c) BY <1>1
    <2>2. CASE LoopSchedule(c) BY <2>2, ScheduleIInv
    <2>3. CASE \E n \in Node : LoopReceive(c, n) \/ DrainOne(c, n) BY <2>3, ReceiveIInv
    <2> QED BY <2>1, <2>2, <2>3, OutsideLoop DEF ExecuteStep
  <1>2. CASE \E n \in Node : NodeStep(n) BY <1>2, NodeIInv
  <1> QED BY <1>1, <1>2, EnvironmentIInv DEF Next

LEMMA Invariance == Spec => []IInv
  BY InitIInv, NextIInv, PTL DEF Spec

-----------------------------------------------------------------------------
(* Theorems.                                                               *)

\* For every task, caller set and limit, the scheduler's variables keep their
\* types; no node outcome is ever "cancelled" (executeNodeWithRetry).
THEOREM RunTypesHold == Spec => []RunTypeOK
  <1>1. IInv => RunTypeOK BY DEF IInv
  <1> QED BY <1>1, Invariance, PTL

\* However many Execute calls race on one task id, Save lets one run (Execute,
\* InMemoryTaskStore.Save).
THEOREM OneRunner == Spec => []SingleRunner
  <1>1. IInv => SingleRunner BY DEF IInv, Runner, InRun, SingleRunner
  <1> QED BY <1>1, Invariance, PTL

\* No schedule, cancellation or drain leaves more than MaxConcurrentNodes node
\* goroutines (runDag).
THEOREM BoundedConcurrency == Spec => []ConcurrencyBound
  <1>1. IInv => ConcurrencyBound BY DEF IInv, Flight, Width, ConcurrencyBound
  <1> QED BY <1>1, Invariance, PTL

\* Every goroutine runDag ever started had K of its inputs completed or skipped,
\* and keeps them.
THEOREM InputsBeforeLaunch == Spec => []LaunchedWithInputs
  <1>1. IInv => LaunchedWithInputs BY DEF IInv
  <1> QED BY <1>1, Invariance, PTL

\* Only the two receiving steps and the K-of-N filter write nodeStates.
LEMMA OutcomeKept ==
  ASSUME IInv, [Next]_vars
  PROVE  \A n \in Node : nodeStates[n] # "none" => nodeStates'[n] = nodeStates[n]
  <1>1. CASE \E c \in Caller : LoopSchedule(c)
    BY <1>1 DEF LoopSchedule, DoomedNodes, ReadyNodes
  <1>2. CASE \E c \in Caller, m \in Node : LoopReceive(c, m)
    <2>1. PICK c \in Caller, m \in Node : LoopReceive(c, m) BY <1>2
    <2>2. gor[m].at = "sending" BY <2>1 DEF LoopReceive, TakeDone
    <2>3. nodeStates[m] = "none" BY <2>2 DEF IInv, Flight, Live
    <2>4. nodeStates \in [Node -> NodeStates \cup {"none"}] BY DEF IInv, RunTypeOK
    <2> QED BY <2>1, <2>3, <2>4 DEF LoopReceive
  <1>3. CASE UNCHANGED nodeStates BY <1>3
  <1>4. CASE \E c \in Caller : ExecuteStep(c)
    <2>1. PICK c \in Caller : ExecuteStep(c) BY <1>4
    <2>2. CASE \E m \in Node : DrainOne(c, m) BY <2>2, <1>3 DEF DrainOne
    <2>3. CASE ExecuteCheck(c) \/ ExecuteSave(c) \/ ExecuteRegister(c) \/ ExecuteStart(c)
                 \/ ExecutePreflight(c) \/ LoopExit(c) \/ ExecuteFinish(c)
      BY <2>3, <1>3 DEF ExecuteCheck, ExecuteSave, ExecuteRegister, ExecuteStart,
                        ExecutePreflight, LoopExit, ExecuteFinish, runVars
    <2>4. CASE LoopCancelled(c) \/ DrainedAbort(c) \/ AfterLoop(c) \/ CompensateNode(c)
                 \/ CompensationDone(c)
      BY <2>4, <1>3 DEF LoopCancelled, DrainedAbort, AfterLoop, CompensateNode,
                        CompensationDone
    <2> QED BY <2>1, <2>2, <2>3, <2>4, <1>1, <1>2 DEF ExecuteStep
  <1>5. CASE \E n \in Node : NodeStep(n)
    BY <1>5, <1>3 DEF NodeStep, NodeBegin, NodeAnswer, NodeBackoff, gorUnchanged
  <1>6. CASE TimerFires \/ ParentCancelled \/ CancelContext \/ CancelStore \/ CallbackPost
               \/ UNCHANGED vars
    BY <1>6, <1>3 DEF TimerFires, ParentCancelled, CancelContext, CancelStore, CallbackPost,
                      vars, runVars
  <1> QED BY <1>4, <1>5, <1>6 DEF Next

\* A node outcome the scheduler recorded is never revised (runDag).
THEOREM OutcomesFinal == Spec => NodeStatesFinal
  <1>1. IInv /\ [Next]_vars =>
          [\A n \in Node : nodeStates[n] # "none" => nodeStates'[n] = nodeStates[n]]_vars
    BY OutcomeKept
  <1> QED BY <1>1, Invariance, PTL DEF Spec, NodeStatesFinal
=============================================================================

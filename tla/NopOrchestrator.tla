-------------------------- MODULE NopOrchestrator --------------------------
(***************************************************************************)
(* NopOrchestrator (nop/orchestrator.go) executing one task.               *)
(*                                                                         *)
(* Processes: the callers of Execute (all with the same task id), one      *)
(* goroutine per launched DAG node, the timeout timer, clients calling     *)
(* Cancel, the parent context, and the callback goroutine.  The variables  *)
(* below "run" belong to the caller that saved the task record; Save       *)
(* admits only one (SingleRunner).                                         *)
(***************************************************************************)
EXTENDS NopDag

CONSTANTS
  Node,                   \* the node ids DAGs are built from
  Caller,                 \* concurrent Execute calls for the task id
  Tasks,                  \* the OrchestratorTasks the model starts from
  Code,                   \* error codes a delegation can fail with
  MaxConcurrentNodes,     \* OrchestratorOptions.MaxConcurrentNodes
  MaxDelegateChainDepth,  \* constants.go
  CallbackMaxRetries,     \* constants.go
  MaxCancels              \* model bound: Cancel calls made by clients

Policies == {"best_effort", "strict", "none", "on_failure", "always"}
CompensationRunsOnFailure(p) == p \in {"best_effort", "strict", "on_failure", "always"}
CompensationRunsOnSuccess(p) == p = "always"
CompensationIsStrict(p)      == p = "strict"

TaskStates == {"pending", "preflight", "running", "completed", "failed",
               "cancelled", "compensating"}  \* the ones the orchestrator writes

NodeStates == {"completed", "failed", "skipped"}

\* The codes of the results Execute itself builds.
ResultCodes == {"", "depth", "callback", "dag_invalid", "dag_too_large", "dag_cycle",
                "exists", "resource_insufficient", "cancelled", "sync_dependency_failed",
                "timeout", "compensation_not_supported", "compensation_failed"}

\* DagNode and OrchestratorTask: a task is its DAG, the nodes with a condition,
\* with a compensate_action, the effective retry budget and retry_on list of
\* each node, and the task's flags.
DagType == [nodes : Seq(Node), edges : Seq(Node \X Node),
            inputFrom : [Node -> SUBSET Node], minRequired : [Node -> Nat]]

TaskType == [dag : DagType, conditional : SUBSET Node, compensable : SUBSET Node,
             maxRetries : [Node -> Nat], retryOn : [Node -> SUBSET Code],
             policy : Policies, preflight : BOOLEAN, depth : Nat,
             callback : {"none", "valid", "invalid"}]

ASSUME NodeAssumption == IsFiniteSet(Node)
ASSUME TasksAssumption == Tasks \subseteq TaskType
ASSUME BoundsAssumption ==
  /\ MaxConcurrentNodes \in Nat \ {0}
  /\ MaxDelegateChainDepth \in Nat
  /\ CallbackMaxRetries \in Nat \ {0}
  /\ MaxCancels \in Nat

NoSaga == [ran |-> FALSE, attempted |-> 0, succeeded |-> 0, failed |-> 0]
NoResult == [state |-> "none", code |-> "", saga |-> NoSaga]
NoOutcome == [state |-> "none", code |-> ""]

VARIABLES
  task,         \* the submitted task, never changed
  pc,           \* where each Execute call is
  result,       \* what each Execute call returned
  recState,     \* NopTaskRecord.State in the store; "none" = no record
  completedAt,  \* NopTaskRecord.CompletedAt is set
  sub,          \* NopTaskRecord.Subtasks: state and attempt per node
  \* run
  registered,   \* the task's cancel function is in the cancels map
  ctxDone,      \* runCtx is cancelled
  parentDone,   \* the caller's own context is cancelled
  nodeStates,   \* runDag's nodeStates, "none" = absent
  inFlight,     \* runDag's inFlight
  gor,          \* node goroutines: where, attempt, outcome to be sent
  draft,        \* the NopTaskResult runDag is building, and why it ended
  compQueue,    \* completed nodes still to compensate, in order
  compDone,     \* compensations performed, in order
  compFailed,   \* how many of them failed
  \* environment
  cancels,      \* Cancel calls: started, and those between their two steps
  callback      \* fireCallback: POSTs made, status, deliveries seen by the peer

runVars == <<nodeStates, inFlight, gor, draft, compQueue, compDone, compFailed>>
storeVars == <<recState, completedAt, sub>>
ctxVars == <<registered, ctxDone, parentDone>>
envVars == <<cancels, callback>>
vars == <<task, pc, result, storeVars, ctxVars, runVars, envVars>>

dag == task.dag
N == NodesOf(dag)

\* A call past Save, before its return.
RunPhase == {"registered", "preflight", "loop", "wait", "drain", "done", "compensate", "finish"}
Phase == {"start", "got", "saved", "returned"} \cup RunPhase

GorPhase == {"none", "attempt", "running", "backoff", "sending", "exited"}

Init ==
  /\ task \in Tasks
  /\ pc = [c \in Caller |-> "start"]
  /\ result = [c \in Caller |-> NoResult]
  /\ recState = "none" /\ completedAt = FALSE
  /\ sub = [n \in Node |-> [state |-> "none", attempt |-> 0]]
  /\ registered = FALSE /\ ctxDone = FALSE /\ parentDone = FALSE
  /\ nodeStates = [n \in Node |-> "none"]
  /\ inFlight = {}
  /\ gor = [n \in Node |-> [at |-> "none", attempt |-> 0, outcome |-> NoOutcome]]
  /\ draft = [state |-> "none", cause |-> "", saga |-> NoSaga]
  /\ compQueue = <<>> /\ compDone = <<>> /\ compFailed = 0
  /\ cancels = [made |-> 0, storing |-> 0]
  /\ callback = [posts |-> 0, status |-> "off", delivered |-> 0]

Goto(c, phase) == pc' = [pc EXCEPT ![c] = phase]

Return(c, state, code, saga) ==
  /\ Goto(c, "returned")
  /\ result' = [result EXCEPT ![c] = [state |-> state, code |-> code, saga |-> saga]]

\* UpdateState is a no-op for an unknown task.
UpdateState(s) == recState' = IF recState = "none" THEN recState ELSE s

-----------------------------------------------------------------------------
(* Execute, steps 1 to 5: admission.                                       *)

AdmissionError ==
  CASE task.depth >= MaxDelegateChainDepth -> "depth"
    [] task.callback = "invalid"           -> "callback"
    [] OTHER -> IF ValidateDag(dag) = "ok" THEN "" ELSE ValidateDag(dag)

\* Steps 1a-1c and 2: validation, then the look-up of an existing record.
ExecuteCheck(c) ==
  /\ pc[c] = "start"
  /\ \/ /\ AdmissionError # ""
        /\ Return(c, "failed", AdmissionError, NoSaga)
     \/ /\ AdmissionError = "" /\ recState # "none"
        /\ Return(c, "failed", "exists", NoSaga)
     \/ /\ AdmissionError = "" /\ recState = "none"
        /\ Goto(c, "got") /\ UNCHANGED result
  /\ UNCHANGED <<task, storeVars, ctxVars, runVars, envVars>>

\* Step 3: Save rejects a task id that another call saved meanwhile.
SaveRejects_Blind == FALSE
SaveRejects == recState # "none"

ExecuteSave(c) ==
  /\ pc[c] = "got"
  /\ \/ /\ SaveRejects
        /\ Return(c, "failed", "exists", NoSaga)
        /\ UNCHANGED recState
     \/ /\ ~SaveRejects
        /\ recState' = "pending"
        /\ Goto(c, "saved") /\ UNCHANGED result
  /\ UNCHANGED <<task, completedAt, sub, ctxVars, runVars, envVars>>

\* Step 4: runCtx derives from the caller's context and its cancel function is
\* registered.
ExecuteRegister(c) ==
  /\ pc[c] = "saved"
  /\ registered' = TRUE
  /\ ctxDone' = parentDone
  /\ Goto(c, "registered")
  /\ UNCHANGED <<task, result, parentDone, storeVars, runVars, envVars>>

\* Step 5, or straight to step 6.
ExecuteStart(c) ==
  /\ pc[c] = "registered"
  /\ IF task.preflight
     THEN UpdateState("preflight") /\ Goto(c, "preflight")
     ELSE UpdateState("running") /\ Goto(c, "loop")
  /\ UNCHANGED <<task, result, completedAt, sub, ctxVars, runVars, envVars>>

\* The deferred calls of Execute: unregister and cancel runCtx.
Unregister == registered' = FALSE /\ ctxDone' = TRUE /\ UNCHANGED parentDone

\* runPreflight probes every agent and collects all answers; one refusal or one
\* failed probe fails the task.
PreflightFails_Unsaved(c) ==
  /\ Return(c, "failed", "resource_insufficient", NoSaga)
  /\ Unregister /\ UNCHANGED recState

PreflightFails(c) ==
  /\ UpdateState("failed")
  /\ Return(c, "failed", "resource_insufficient", NoSaga)
  /\ Unregister

ExecutePreflight(c) ==
  /\ pc[c] = "preflight"
  /\ \/ PreflightFails(c)
     \/ /\ UpdateState("running")
        /\ Goto(c, "loop") /\ UNCHANGED <<result, ctxVars>>
  /\ UNCHANGED <<task, completedAt, sub, runVars, envVars>>

-----------------------------------------------------------------------------
(* Saga compensation, entered from every way runDag ends.                  *)

\* Completed nodes in reverse topological order.
CompletedReversed_Forward ==
  SelectSeq(TopologicalOrder(dag), LAMBDA n : nodeStates[n] = "completed")

CompletedReversed ==
  SelectSeq(Reverse(TopologicalOrder(dag)), LAMBDA n : nodeStates[n] = "completed")
Missing == {n \in ToSet(CompletedReversed) : n \notin task.compensable}
ToCompensate == SelectSeq(CompletedReversed, LAMBDA n : n \in task.compensable)

SagaRuns(state) == IF state = "failed" THEN CompensationRunsOnFailure(task.policy)
                                       ELSE CompensationRunsOnSuccess(task.policy)

\* Strict and a completed node has no compensate_action: nothing is attempted.
SagaRefused == CompensationIsStrict(task.policy) /\ Missing # {}

\* buildAbortResult / the success path of runDag, up to the first compensation
\* call; cause is the abort's default code.
EnterSaga(c, state, cause) ==
  LET Settle(saga) == /\ draft' = [state |-> state, cause |-> cause, saga |-> saga]
                      /\ Goto(c, "finish")
                      /\ UNCHANGED <<recState, compQueue>>
  IN  \/ ~SagaRuns(state) /\ Settle(NoSaga)
      \/ /\ SagaRuns(state) /\ SagaRefused
         /\ Settle([NoSaga EXCEPT !.ran = TRUE, !.failed = Cardinality(Missing)])
      \/ /\ SagaRuns(state) /\ ~SagaRefused /\ ToCompensate = <<>>
         /\ Settle([NoSaga EXCEPT !.ran = TRUE])
      \/ /\ SagaRuns(state) /\ ~SagaRefused /\ ToCompensate # <<>>
         /\ UpdateState("compensating")
         /\ compQueue' = ToCompensate
         /\ draft' = [state |-> state, cause |-> cause, saga |-> NoSaga]
         /\ Goto(c, "compensate")

\* One executeNodeOnce of a compensate_action, never retried.  Its context is
\* the task's, so a cancelled task may find every one of them failing.
CompensateNext(ok) ==
  /\ compQueue' = Tail(compQueue)
  /\ compFailed' = IF ok THEN compFailed ELSE compFailed + 1

CompensateNode(c) ==
  /\ pc[c] = "compensate" /\ compQueue # <<>>
  /\ compDone' = Append(compDone, Head(compQueue))
  /\ \E ok \in BOOLEAN : CompensateNext(ok)
  /\ UNCHANGED <<task, pc, result, storeVars, ctxVars, nodeStates, inFlight, gor,
                 draft, envVars>>

CompensationDone(c) ==
  /\ pc[c] = "compensate" /\ compQueue = <<>>
  /\ draft' = [draft EXCEPT !.saga =
                 [ran |-> TRUE, attempted |-> Len(compDone),
                  succeeded |-> Len(compDone) - compFailed, failed |-> compFailed]]
  /\ Goto(c, "finish")
  /\ UNCHANGED <<task, result, storeVars, ctxVars, nodeStates, inFlight, gor,
                 compQueue, compDone, compFailed, envVars>>

compensationFailureErrorCode(saga) ==
  CASE ~CompensationIsStrict(task.policy) \/ saga.failed = 0 -> ""
    [] saga.attempted = 0 -> "compensation_not_supported"
    [] OTHER -> "compensation_failed"

\* The error code runDag's result carries.
DraftCode == IF draft.state = "failed" /\ compensationFailureErrorCode(draft.saga) # ""
             THEN compensationFailureErrorCode(draft.saga)
             ELSE draft.cause

-----------------------------------------------------------------------------
(* runDag: the scheduling loop.                                            *)

AllFinished == \A n \in N : nodeStates[n] # "none"

ReadyNodes == {n \in N : /\ nodeStates[n] = "none" /\ n \notin inFlight
                         /\ areDepsDone(dag, n, nodeStates)}

\* Ready only because K can no longer be met: failed by the K-of-N filter.
DoomedNodes_None == {}

DoomedNodes == {n \in ReadyNodes : ~DepsSatisfied(dag, n, nodeStates)}

\* The rest, in declaration order, as many as the concurrency limit admits: the
\* longest prefix of the DAG's nodes whose runnable ones still fit.
Room_OffByOne == MaxConcurrentNodes - Cardinality(inFlight) + 1
Room == MaxConcurrentNodes - Cardinality(inFlight)

RunnableUpTo(k) == {n \in ReadyNodes \ DoomedNodes : \E i \in 1 .. k : dag.nodes[i] = n}

LaunchNodes ==
  LET fits == {k \in 0 .. Len(dag.nodes) : Cardinality(RunnableUpTo(k)) <= Room}
  IN  RunnableUpTo(CHOOSE k \in fits : \A j \in fits : j <= k)

\* The top of the loop sees the context cancelled: abort at once.  Goroutines
\* in flight are not drained.
LoopCancelled(c) ==
  /\ pc[c] = "loop" /\ ~AllFinished /\ ctxDone
  /\ EnterSaga(c, "failed", "cancelled")
  /\ UNCHANGED <<task, result, completedAt, sub, ctxVars, nodeStates, inFlight, gor,
                 compDone, compFailed, envVars>>

\* One pass: fail doomed nodes, launch ready ones, then wait; with nothing in
\* flight the loop is left.
LoopSchedule(c) ==
  /\ pc[c] = "loop" /\ ~AllFinished /\ ~ctxDone
  /\ nodeStates' = [n \in Node |-> IF n \in DoomedNodes THEN "failed" ELSE nodeStates[n]]
  /\ sub' = [n \in Node |-> IF n \in DoomedNodes THEN [state |-> "failed", attempt |-> 0]
                                                ELSE sub[n]]
  /\ inFlight' = inFlight \cup LaunchNodes
  /\ gor' = [n \in Node |->
               IF n \in LaunchNodes
               THEN [at |-> "attempt", attempt |-> 1, outcome |-> NoOutcome]
               ELSE gor[n]]
  /\ Goto(c, IF inFlight' = {} THEN "done" ELSE "wait")
  /\ UNCHANGED <<task, result, recState, completedAt, ctxVars, draft, compQueue,
                 compDone, compFailed, envVars>>

LoopExit(c) ==
  /\ pc[c] = "loop" /\ AllFinished
  /\ Goto(c, "done")
  /\ UNCHANGED <<task, result, storeVars, ctxVars, runVars, envVars>>

\* The rendezvous on the unbuffered done channel.
TakeDone_KeepFlight(n) ==
  /\ gor[n].at = "sending"
  /\ gor' = [gor EXCEPT ![n].at = "exited"]
  /\ UNCHANGED inFlight

TakeDone(n) ==
  /\ gor[n].at = "sending"
  /\ inFlight' = inFlight \ {n}
  /\ gor' = [gor EXCEPT ![n].at = "exited"]

\* <-done in the loop: record the outcome; a failure that dooms an end node
\* makes the loop drain and abort.
LoopReceive(c, n) ==
  /\ pc[c] = "wait"
  /\ TakeDone(n)
  /\ nodeStates' = [nodeStates EXCEPT ![n] = gor[n].outcome.state]
  /\ Goto(c, IF gor[n].outcome.state = "failed" /\ MustAbort(dag, n, nodeStates')
             THEN "drain" ELSE "loop")
  /\ UNCHANGED <<task, result, storeVars, ctxVars, draft, compQueue, compDone,
                 compFailed, envVars>>

\* drainInFlight: outcomes are received and dropped, until none is in flight.
Drained_AtOnce == TRUE
Drained == inFlight = {}

DrainOne(c, n) ==
  /\ pc[c] = "drain"
  /\ TakeDone(n)
  /\ UNCHANGED <<task, pc, result, storeVars, ctxVars, nodeStates, draft, compQueue,
                 compDone, compFailed, envVars>>

DrainedAbort(c) ==
  /\ pc[c] = "drain" /\ Drained
  /\ EnterSaga(c, "failed", "sync_dependency_failed")
  /\ UNCHANGED <<task, result, completedAt, sub, ctxVars, nodeStates, inFlight, gor,
                 compDone, compFailed, envVars>>

\* After the loop: a failed end node fails the task, anything else succeeds.
EndFailed == \E e \in EndNodes(dag) : nodeStates[e] = "failed"

AfterLoop(c) ==
  /\ pc[c] = "done"
  /\ IF EndFailed
     THEN EnterSaga(c, "failed", "sync_dependency_failed")
     ELSE EnterSaga(c, "completed", "")
  /\ UNCHANGED <<task, result, completedAt, sub, ctxVars, nodeStates, inFlight, gor,
                 compDone, compFailed, envVars>>

\* Execute, steps 7 and 8.  The elapsed-time test may hold with or without the
\* timer having fired.  A timeout replaces the draft, its saga summary included,
\* and fires no callback.
ExecuteFinish(c) ==
  /\ pc[c] = "finish"
  /\ \E elapsed \in BOOLEAN :
       IF (ctxDone \/ elapsed) /\ ~parentDone /\ draft.state # "completed"
       THEN /\ UpdateState("failed")
            /\ Return(c, "failed", "timeout", NoSaga)
            /\ UNCHANGED <<completedAt, callback>>
       ELSE /\ UpdateState(draft.state)
            /\ completedAt' = TRUE
            /\ Return(c, draft.state, DraftCode, draft.saga)
            /\ callback' = IF task.callback = "valid"
                           THEN [callback EXCEPT !.status = "posting"] ELSE callback
  /\ Unregister
  /\ UNCHANGED <<task, sub, runVars, cancels>>

-----------------------------------------------------------------------------
(* executeNodeWithRetry: one goroutine per launched node.                  *)

Send(n, state, code) ==
  gor' = [gor EXCEPT ![n].at = "sending", ![n].outcome = [state |-> state, code |-> code]]

UpdateSubtask(n, state) ==
  sub' = [sub EXCEPT ![n] = [state |-> state, attempt |-> gor[n].attempt]]

gorUnchanged == UNCHANGED <<task, pc, result, recState, completedAt, ctxVars,
                            nodeStates, inFlight, draft, compQueue, compDone,
                            compFailed, envVars>>

\* The head of the retry loop: context check, then, on the first attempt only,
\* the condition (false skips the node, an error fails it), then "running".
NodeStop_Cancelled(n) == ctxDone /\ Send(n, "cancelled", "cancelled") /\ UNCHANGED sub
NodeStop(n) == ctxDone /\ Send(n, "failed", "cancelled") /\ UNCHANGED sub

NodeBegin(n) ==
  /\ gor[n].at = "attempt"
  /\ \/ NodeStop(n)
     \/ /\ ~ctxDone
        /\ UpdateSubtask(n, "running")
        /\ gor' = [gor EXCEPT ![n].at = "running"]
     \/ /\ ~ctxDone /\ gor[n].attempt = 1 /\ n \in task.conditional
        /\ \E s \in {"failed", "skipped"} :
             /\ UpdateSubtask(n, s)
             /\ Send(n, s, IF s = "failed" THEN "condition_eval_error" ELSE "")
  /\ gorUnchanged

shouldRetry(n, code) ==
  /\ gor[n].attempt <= task.maxRetries[n]
  /\ task.retryOn[n] = {} \/ code = "" \/ code \in task.retryOn[n]

\* executeNodeOnce answers.  Which answer comes back (mapping error, rejection,
\* stream fault, node timeout, final frame) is the worker's; NopDelegateStream
\* has the detail.  Only a cancelled context adds the cancelled outcome.
NodeFails_RecordFirst(n, code) ==
  /\ UpdateSubtask(n, "failed")
  /\ IF shouldRetry(n, code) THEN gor' = [gor EXCEPT ![n].at = "backoff"]
                             ELSE Send(n, "failed", code)

NodeFails(n, code) ==
  IF shouldRetry(n, code)
  THEN gor' = [gor EXCEPT ![n].at = "backoff"] /\ UNCHANGED sub
  ELSE UpdateSubtask(n, "failed") /\ Send(n, "failed", code)

NodeAnswer(n) ==
  /\ gor[n].at = "running"
  /\ \/ UpdateSubtask(n, "completed") /\ Send(n, "completed", "")
     \/ \E code \in Code \cup {""} \cup (IF ctxDone THEN {"cancelled"} ELSE {}) :
          NodeFails(n, code)
  /\ gorUnchanged

\* The backoff select: the delay, or the context (which leaves the subtask
\* record as it is).
NodeBackoff(n) ==
  /\ gor[n].at = "backoff"
  /\ \/ gor' = [gor EXCEPT ![n].at = "attempt", ![n].attempt = @ + 1]
     \/ ctxDone /\ Send(n, "failed", "cancelled")
  /\ UNCHANGED sub
  /\ gorUnchanged

-----------------------------------------------------------------------------
(* Timer, parent context, Cancel, callback delivery.                       *)

Running == \E c \in Caller : pc[c] \in RunPhase

TimerFires ==
  /\ Running /\ ~ctxDone
  /\ ctxDone' = TRUE
  /\ UNCHANGED <<task, pc, result, storeVars, registered, parentDone, runVars, envVars>>

ParentCancelled ==
  /\ ~parentDone
  /\ \E c \in Caller : pc[c] \notin {"start", "returned"}
  /\ parentDone' = TRUE
  /\ ctxDone' = (ctxDone \/ Running)
  /\ UNCHANGED <<task, pc, result, storeVars, registered, runVars, envVars>>

\* Cancel, first half: call the registered cancel function, if there is one.
CancelContext ==
  /\ cancels.made < MaxCancels
  /\ cancels' = [made |-> cancels.made + 1, storing |-> cancels.storing + 1]
  /\ ctxDone' = (ctxDone \/ registered)
  /\ UNCHANGED <<task, pc, result, storeVars, registered, parentDone, runVars, callback>>

\* Cancel, second half: the record becomes cancelled whatever its state.
CancelStore ==
  /\ cancels.storing > 0
  /\ cancels' = [cancels EXCEPT !.storing = @ - 1]
  /\ UpdateState("cancelled")
  /\ UNCHANGED <<task, pc, result, completedAt, sub, ctxVars, runVars, callback>>

\* fireCallback: one POST.  It is delivered and acknowledged, delivered with the
\* answer lost or not 2xx, or not delivered.
CallbackAgain == callback.posts + 1 < CallbackMaxRetries

CallbackPost ==
  /\ callback.status = "posting"
  /\ \E delivered, acked \in BOOLEAN :
       /\ acked => delivered
       /\ callback' =
            [posts     |-> callback.posts + 1,
             delivered |-> IF delivered THEN callback.delivered + 1 ELSE callback.delivered,
             status    |-> IF acked THEN "acked"
                           ELSE IF CallbackAgain THEN "posting"
                           ELSE "given_up"]
  /\ UNCHANGED <<task, pc, result, storeVars, ctxVars, runVars, cancels>>

-----------------------------------------------------------------------------
ExecuteStep(c) ==
  \/ ExecuteCheck(c) \/ ExecuteSave(c) \/ ExecuteRegister(c) \/ ExecuteStart(c)
  \/ ExecutePreflight(c) \/ LoopCancelled(c) \/ LoopSchedule(c) \/ LoopExit(c)
  \/ \E n \in Node : LoopReceive(c, n) \/ DrainOne(c, n)
  \/ DrainedAbort(c) \/ AfterLoop(c) \/ CompensateNode(c) \/ CompensationDone(c)
  \/ ExecuteFinish(c)

NodeStep(n) == NodeBegin(n) \/ NodeAnswer(n) \/ NodeBackoff(n)

Next ==
  \/ \E c \in Caller : ExecuteStep(c)
  \/ \E n \in Node : NodeStep(n)
  \/ TimerFires \/ ParentCancelled \/ CancelContext \/ CancelStore \/ CallbackPost

\* Every goroutine that can run is eventually scheduled; a worker call answers
\* because executeNodeOnce selects on the node's own deadline.  Nothing obliges
\* the timer to fire before the end, or a client to cancel.
Fairness ==
  /\ \A c \in Caller : WF_vars(ExecuteStep(c))
  /\ \A n \in Node : WF_vars(NodeStep(n))
  /\ WF_vars(CancelStore)
  /\ WF_vars(CallbackPost)

Spec == Init /\ [][Next]_vars
FairSpec == Spec /\ Fairness

-----------------------------------------------------------------------------
(* Properties.                                                             *)

\* The scheduler's variables hold values of their kind: in particular a node
\* state or an outcome is completed, failed or skipped, never cancelled.
RunTypeOK ==
  /\ task \in Tasks
  /\ pc \in [Caller -> Phase]
  /\ recState \in TaskStates \cup {"none"}
  /\ sub \in [Node -> [state : NodeStates \cup {"none", "running"}, attempt : Nat]]
  /\ registered \in BOOLEAN /\ ctxDone \in BOOLEAN /\ parentDone \in BOOLEAN
  /\ nodeStates \in [Node -> NodeStates \cup {"none"}]
  /\ inFlight \subseteq Node
  /\ gor \in [Node -> [at : GorPhase, attempt : Nat,
                       outcome : [state : NodeStates \cup {"none"},
                                  code : Code \cup {"", "cancelled", "condition_eval_error"}]]]

SagaType == [ran : BOOLEAN, attempted : Nat, succeeded : Int, failed : Nat]

\* Every variable holds a value of its kind.
TypeOK ==
  /\ RunTypeOK
  /\ result \in [Caller -> [state : {"none", "completed", "failed"}, code : ResultCodes,
                            saga : SagaType]]
  /\ completedAt \in BOOLEAN
  /\ draft \in [state : {"none", "completed", "failed"}, cause : ResultCodes, saga : SagaType]
  /\ compQueue \in Seq(Node) /\ compDone \in Seq(Node) /\ compFailed \in Nat
  /\ cancels \in [made : Nat, storing : Nat]
  /\ callback \in [posts : Nat, status : {"off", "posting", "acked", "given_up"},
                   delivered : Nat]

\* Two Execute calls racing between Get and Save never both run the task.
SingleRunner ==
  \A c, d \in Caller : pc[c] \in {"saved"} \cup RunPhase /\ pc[d] \in {"saved"} \cup RunPhase
                         => c = d

Live == {n \in Node : gor[n].at \notin {"none", "exited"}}

\* At no time, not even after a cancelled run returned and left goroutines
\* behind, do more than MaxConcurrentNodes node goroutines exist.
ConcurrencyBound == Cardinality(Live) <= MaxConcurrentNodes

\* A node's goroutine was started only with K of its inputs completed or
\* skipped, and later failures of its other inputs do not change that.
LaunchedWithInputs ==
  \A n \in Node : gor[n].at # "none" => DepsSatisfied(dag, n, nodeStates)

\* The scheduler's view and the store agree on every node it has finished; only
\* a node stopped by cancellation may be left "running" or unrecorded.
SubtaskAgrees ==
  \A n \in Node : nodeStates[n] # "none" =>
    \/ sub[n].state = nodeStates[n]
    \/ nodeStates[n] = "failed" /\ gor[n].outcome.code = "cancelled"

\* A run that was not cancelled leaves no goroutine behind: loop exit and
\* drainInFlight wait for every node that was launched.
NoGoroutineLeft ==
  \A c \in Caller : pc[c] \in {"compensate", "finish"} /\ draft.cause # "cancelled"
                      => Live = {}

\* Position of a node in the compensation order.
CompensatedBefore(x, y) ==
  \E i, j \in DOMAIN compDone : i < j /\ compDone[i] = x /\ compDone[j] = y

\* Compensation undoes completed nodes only, each at most once, a node before
\* the nodes it depends on along the edges; under strict it does not start while
\* some completed node cannot be undone.
CompensationOrdered ==
  /\ \A i, j \in DOMAIN compDone : compDone[i] = compDone[j] => i = j
  /\ \A n \in ToSet(compDone) : nodeStates[n] = "completed" /\ n \in task.compensable
  /\ \A e \in EdgesOf(dag) :
       ToSet(e) \subseteq ToSet(compDone) => CompensatedBefore(e[2], e[1])
  /\ compDone # <<>> => ~SagaRefused

\* When runDag returns a failure under a compensating policy, every completed
\* node it knows of that can be undone has been attempted.
CompensationComplete ==
  \A c \in Caller :
    pc[c] = "finish" /\ SagaRuns(draft.state) /\ ~SagaRefused =>
      {n \in task.compensable \cap N : nodeStates[n] = "completed"} = ToSet(compDone)

\* A failed run leaves nothing half undone and undoes nothing it depends on.
Compensated == CompensationOrdered /\ CompensationComplete

\* The record in the store ends in the state Execute returned, unless a Cancel
\* call wrote over it.
StoreMatchesResult ==
  \A c \in Caller :
    pc[c] = "returned" /\ result[c].code \notin
        {"depth", "callback", "dag_invalid", "dag_too_large", "dag_cycle", "exists"}
      => recState = result[c].state \/ cancels.made > 0

\* A task reported completed with every node finished has no end node that
\* failed: each one ran, or was skipped by its condition.
CompletedEndNodes ==
  \A c \in Caller :
    pc[c] = "returned" /\ result[c].state = "completed" /\ AllFinished
      => \A e \in EndNodes(dag) : nodeStates[e] \in Succeeded

\* A callback is POSTed at most CallbackMaxRetries times, only once Execute has
\* returned the draft's result, never for a run that ended as a timeout.
CallbackBounded ==
  /\ callback.posts <= CallbackMaxRetries
  /\ callback.status # "off" => \E c \in Caller : /\ result[c].state = draft.state
                                                  /\ result[c].code # "timeout"

\* Every report of a run tells the same story, whatever order outcomes, timeouts
\* and cancels arrive in: subtask records, the task record, the result Execute
\* returned and the callback.
ReportsAgree == SubtaskAgrees /\ StoreMatchesResult /\ CompletedEndNodes /\ CallbackBounded

\* What a subtask record says of a finished node is never rewritten, not even
\* by a goroutine that outlives its run.
SubtaskFinal ==
  [][\A n \in Node : sub[n].state \in NodeStates => sub'[n] = sub[n]]_vars

\* runDag never revises the outcome of a node.
NodeStatesFinal ==
  [][\A n \in Node : nodeStates[n] # "none" => nodeStates'[n] = nodeStates[n]]_vars

\* Every Execute call returns: the loop cannot wait on a goroutine that will
\* not send, nor a drain on one that already did.
ExecuteReturns == \A c \in Caller : <>(pc[c] = "returned")

\* A launched goroutine ends, unless its run was cancelled (it may then block
\* for ever on a channel nobody reads).
GoroutineEnds ==
  \A n \in Node : gor[n].at = "attempt" ~> (gor[n].at = "exited" \/ draft.cause = "cancelled")

-----------------------------------------------------------------------------
(* Statements of the code's comments that the code does not meet.          *)

\* "All nodes done": a task is reported completed only when every node of its
\* DAG has finished.
CompletedMeansAllDone ==
  \A c \in Caller : pc[c] = "returned" /\ result[c].state = "completed" => AllFinished

\* "runs compensation for completed predecessors on failure": a task that failed
\* under best_effort has attempted to undo every node recorded as completed.
FailureCompensatesCompleted ==
  \A c \in Caller :
    pc[c] = "returned" /\ result[c].code = "sync_dependency_failed"
      /\ task.policy = "best_effort" =>
        \A n \in task.compensable : sub[n].state = "completed" => n \in ToSet(compDone)
=============================================================================

------------------------- MODULE NopDelegateStream -------------------------
(***************************************************************************)
(* executeNodeOnce (nop/orchestrator.go): one delegation and the stream of *)
(* frames it is answered with.  NopOrchestrator sees only its answer       *)
(* (NodeAnswer).                                                           *)
(*                                                                         *)
(* The worker numbers its frames from First; between it and the channel    *)
(* the orchestrator reads, frames may be lost, repeated or overtaken.  The *)
(* select over nodeCtx.Done() and the channel may take either when both    *)
(* are ready.                                                              *)
(***************************************************************************)
EXTENDS Integers, Sequences, FiniteSets, SequencesExt

CONSTANTS
  First,              \* the number a worker gives its first frame: 0 or 1
  MaxFrames,          \* model bound: frames a worker sends
  MaxWire,            \* model bound: frames on the way at once
  ValidateSenderNID   \* OrchestratorOptions.ValidateSenderNID

ASSUME FirstAssumption == First \in {0, 1}
ASSUME BoundsAssumption == MaxFrames \in Nat /\ MaxWire \in Nat /\ ValidateSenderNID \in BOOLEAN

VARIABLES
  outcome,   \* what executeNodeOnce returned, "" while it runs
  lastSeq,   \* the last sequence number taken
  taken,     \* the frames taken from the channel, in order
  sent,      \* how many frames the worker sent
  wire,      \* frames on the way, in the order they will arrive
  ended,     \* the worker sent its final frame or gave up
  nodeDone,  \* nodeCtx is done
  taskDone   \* ctx, its parent, is done

vars == <<outcome, lastSeq, taken, sent, wire, ended, nodeDone, taskDone>>

Kind == {"data", "final", "error"}
Frame == [seq : Nat, kind : Kind, own : BOOLEAN]

Outcomes == {"", "completed", "failed", "rejected", "mapping", "seq_gap", "nid_mismatch",
             "cancelled", "timeout"}

Init ==
  /\ outcome = "" /\ lastSeq = 0 /\ taken = <<>> /\ sent = 0 /\ wire = <<>>
  /\ ended = FALSE /\ nodeDone = FALSE /\ taskDone = FALSE

\* BuildParams fails, or Delegate refuses the request: no stream is opened.
Refuse ==
  /\ outcome = "" /\ sent = 0 /\ ~ended /\ taken = <<>>
  /\ outcome' \in {"mapping", "rejected"}
  /\ UNCHANGED <<lastSeq, taken, sent, wire, ended, nodeDone, taskDone>>

-----------------------------------------------------------------------------
(* The worker and the way to the channel.                                  *)

\* The worker's next frame; what arrives is the frame, nothing, or two copies.
WorkerSends ==
  /\ ~ended /\ sent < MaxFrames
  /\ sent' = sent + 1
  /\ \E k \in Kind, own \in BOOLEAN, copies \in 0 .. 2 :
       /\ Len(wire) + copies <= MaxWire
       /\ wire' = wire \o [i \in 1 .. copies |-> [seq |-> First + sent, kind |-> k, own |-> own]]
       /\ ended' = (k # "data")
  /\ UNCHANGED <<outcome, lastSeq, taken, nodeDone, taskDone>>

\* The worker stops without a final frame.
WorkerGivesUp ==
  /\ ~ended
  /\ ended' = TRUE
  /\ UNCHANGED <<outcome, lastSeq, taken, sent, wire, nodeDone, taskDone>>

\* A frame is overtaken by its successor.
Overtake ==
  /\ \E i \in 1 .. Len(wire) - 1 :
       wire' = [wire EXCEPT ![i] = wire[i + 1], ![i + 1] = wire[i]]
  /\ UNCHANGED <<outcome, lastSeq, taken, sent, ended, nodeDone, taskDone>>

-----------------------------------------------------------------------------
(* The receive loop.                                                       *)

SeqGap_Behind(seq) == seq < lastSeq
SeqGap(seq) == seq # lastSeq /\ seq # 0 /\ seq # lastSeq + 1

NextSeq(seq) == IF SeqGap(seq) THEN lastSeq ELSE seq

\* One frame from the channel: gap, then sender, then the final frame decides.
TakeFrame ==
  /\ outcome = "" /\ wire # <<>>
  /\ LET f == Head(wire)
     IN  /\ outcome' = CASE SeqGap(f.seq)                 -> "seq_gap"
                         [] ValidateSenderNID /\ ~f.own   -> "nid_mismatch"
                         [] f.kind = "final"              -> "completed"
                         [] f.kind = "error"              -> "failed"
                         [] OTHER                         -> ""
         /\ lastSeq' = NextSeq(f.seq)
         /\ taken' = Append(taken, f)
  /\ wire' = Tail(wire)
  /\ UNCHANGED <<sent, ended, nodeDone, taskDone>>

\* The channel is closed before a final frame was taken.
ChannelClosed ==
  /\ outcome = "" /\ ended /\ wire = <<>>
  /\ outcome' = "timeout"
  /\ UNCHANGED <<lastSeq, taken, sent, wire, ended, nodeDone, taskDone>>

DoneOutcome == IF taskDone THEN "cancelled" ELSE "timeout"

\* nodeCtx.Done(): the task's context tells a cancellation from a node timeout.
SeeDone ==
  /\ outcome = "" /\ nodeDone
  /\ outcome' = DoneOutcome
  /\ UNCHANGED <<lastSeq, taken, sent, wire, ended, nodeDone, taskDone>>

\* The node's deadline passes.
Deadline_TaskOnly == taskDone /\ nodeDone' = TRUE
Deadline == nodeDone' = TRUE

NodeDeadline ==
  /\ ~nodeDone /\ Deadline
  /\ UNCHANGED <<outcome, lastSeq, taken, sent, wire, ended, taskDone>>

\* The task is cancelled or times out; nodeCtx derives from its context.
TaskEnds ==
  /\ ~taskDone
  /\ taskDone' = TRUE /\ nodeDone' = TRUE
  /\ UNCHANGED <<outcome, lastSeq, taken, sent, wire, ended>>

Receive == TakeFrame \/ ChannelClosed \/ SeeDone

Next == Refuse \/ WorkerSends \/ WorkerGivesUp \/ Overtake \/ Receive \/ NodeDeadline \/ TaskEnds

Spec == Init /\ [][Next]_vars

\* The receiving goroutine runs and deadlines pass; the worker owes nothing.
FairSpec == Spec /\ WF_vars(Receive) /\ WF_vars(NodeDeadline)

-----------------------------------------------------------------------------
TakenSeqs == {taken[i].seq : i \in DOMAIN taken}

\* A node completes only on a stream taken without a hole: every frame up to the
\* final one arrived, in order, however the network lost, repeated or swapped
\* them, and under ValidateSenderNID all came from the node's agent.
CompletedStreamIsWhole ==
  outcome = "completed" =>
    /\ TakenSeqs = First .. lastSeq
    /\ \A i, j \in DOMAIN taken : i < j => taken[i].seq <= taken[j].seq
    /\ ValidateSenderNID => \A i \in DOMAIN taken : taken[i].own

\* Every delegation is answered, also by a worker that falls silent: the
\* orchestrator's node goroutines rely on it.
Answered == <>(outcome # "")
=============================================================================

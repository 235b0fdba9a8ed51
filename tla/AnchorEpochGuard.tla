-------------------------- MODULE AnchorEpochGuard --------------------------
(***************************************************************************)
(* The epoch fence and leader check of a cluster's Anchors                 *)
(* (nwp/anchor_epoch.go): one guard per Anchor, each under its own mutex.  *)
(* Events are handed to EmitEvent after the mutex is released, so they may *)
(* come out in another order than the transitions that caused them.        *)
(***************************************************************************)
EXTENDS ClusterEpochs

CONSTANTS
  Anchor,         \* the Anchors modelled, with a guard each
  CarefulOwners   \* TRUE: the deployment calls TakeOwnership only with an epoch
                  \* above every epoch the Anchor has seen, as its comment asks

ASSUME AnchorAssumption == Anchor \subseteq Nid /\ Anchor # {}
ASSUME OwnersAssumption == CarefulOwners \in BOOLEAN

\* AnchorEpochGuard, without its mutex and its callbacks.
Guard == [ownEpoch : Epoch, standby : BOOLEAN, degraded : BOOLEAN]

\* The events the guard generates; quorum events carry no epoch (0).
Event == [kind : {"anchor_failover", "anchor_quorum_lost"}, successor : Nid,
          epoch : Epoch \cup {0}, reason : {"active_lost", "planned", "quorum"}]

VARIABLES
  guard,      \* the guards
  seen,       \* the highest epoch that reached each guard, in a frame or observed
  pending,    \* per Anchor, events computed under the mutex, not yet emitted
  published,  \* events emitted
  toClose,    \* Anchors that fenced themselves and have still to call CloseStreams
  reply       \* what the last frame was answered, and by whom

guardVars == <<guard, seen, pending, published, toClose, reply>>

GuardInit ==
  /\ guard = [a \in Anchor |-> [ownEpoch |-> 1, standby |-> FALSE, degraded |-> FALSE]]
  /\ seen = [a \in Anchor |-> 1]
  /\ pending = [a \in Anchor |-> {}]
  /\ published = {}
  /\ toClose = {}
  /\ reply = [by |-> CHOOSE a \in Anchor : TRUE, is |-> "none"]

Failover(successor, epoch, reason) ==
  [kind |-> "anchor_failover", successor |-> successor, epoch |-> epoch, reason |-> reason]

\* What a frame was answered; the other operations answer nothing of interest.
Reply(a, r) == reply' = [by |-> a, is |-> r]
NoReply == reply' = [by |-> CHOOSE a \in Anchor : TRUE, is |-> "none"]

-----------------------------------------------------------------------------
\* The fence applies to reads and writes alike; an equal epoch is no error.
Supersedes(inbound, own) == inbound > own

\* OnInboundFrame (a): a frame with a higher epoch turns the Anchor into a
\* standby.  Only the frame that fences it emits the terminal event and closes
\* the streams.
FenceOnFrame(a, inbound, sender) ==
  /\ Supersedes(inbound, guard[a].ownEpoch)
  /\ guard' = [guard EXCEPT ![a].standby = TRUE]
  /\ seen' = [seen EXCEPT ![a] = Higher(@, inbound)]
  /\ IF guard[a].standby THEN UNCHANGED <<pending, toClose>>
     ELSE /\ pending' = [pending EXCEPT ![a] = @ \cup {Failover(sender, inbound, "active_lost")}]
          /\ toClose' = toClose \cup {a}
  /\ Reply(a, "epoch_fenced")
  /\ UNCHANGED published

\* The leader check: neither a standby nor a degraded owner takes writes.
MayWrite_Standby(g) == ~g.degraded
MayWrite(g) == ~g.standby /\ ~g.degraded

\* OnInboundFrame (b) and (c): the leader check, for writes only.
AdmitFrame(a, inbound, isTopologyWrite) ==
  /\ ~Supersedes(inbound, guard[a].ownEpoch)
  /\ Reply(a, CASE ~isTopologyWrite     -> "read"
                [] MayWrite(guard[a])   -> "write"
                [] OTHER                -> "not_leader")
  /\ seen' = [seen EXCEPT ![a] = Higher(@, inbound)]
  /\ UNCHANGED <<guard, pending, published, toClose>>

OnInboundFrame(a, inbound, sender, isTopologyWrite) ==
  \/ FenceOnFrame(a, inbound, sender)
  \/ AdmitFrame(a, inbound, isTopologyWrite)

OnQuorumLost(a) ==
  /\ guard' = [guard EXCEPT ![a].degraded = TRUE]
  /\ pending' = [pending EXCEPT ![a] = @ \cup
       {[kind |-> "anchor_quorum_lost", successor |-> a, epoch |-> 0, reason |-> "quorum"]}]
  /\ NoReply
  /\ UNCHANGED <<seen, published, toClose>>

Restored(g) == [g EXCEPT !.degraded = FALSE]

OnQuorumRestored(a) ==
  /\ guard' = [guard EXCEPT ![a] = Restored(@)]
  /\ NoReply
  /\ UNCHANGED <<seen, pending, published, toClose>>

\* The only test TakeOwnership makes itself.
OwnershipAdvances(a, newEpoch) == newEpoch > guard[a].ownEpoch

Owner(newEpoch) == [ownEpoch |-> newEpoch, standby |-> FALSE, degraded |-> FALSE]

TakeOwnership(a, newEpoch) ==
  /\ CarefulOwners => newEpoch > seen[a]
  /\ OwnershipAdvances(a, newEpoch)
  /\ guard' = [guard EXCEPT ![a] = Owner(newEpoch)]
  /\ seen' = [seen EXCEPT ![a] = Higher(@, newEpoch)]
  /\ pending' = [pending EXCEPT ![a] = @ \cup {Failover(a, newEpoch, "planned")}]
  /\ NoReply
  /\ UNCHANGED <<published, toClose>>

\* ObserveEpoch steps down silently: no event, no stream closed.
Observed(g, epoch) == [g EXCEPT !.standby = @ \/ Supersedes(epoch, g.ownEpoch)]

ObserveEpoch(a, epoch) ==
  /\ guard' = [guard EXCEPT ![a] = Observed(@, epoch)]
  /\ seen' = [seen EXCEPT ![a] = Higher(@, epoch)]
  /\ NoReply
  /\ UNCHANGED <<pending, published, toClose>>

\* The callbacks, after the mutex: emit, and the goroutine that fenced the Anchor
\* then closes its streams.
EmitEvent(a) ==
  /\ \E ev \in pending[a] :
       /\ pending' = [pending EXCEPT ![a] = @ \ {ev}]
       /\ published' = published \cup {ev}
       /\ toClose' = IF ev.reason = "active_lost" THEN toClose \ {a} ELSE toClose
  /\ UNCHANGED <<guard, seen, reply>>

GuardNext ==
  \E a \in Anchor :
    \/ \E e \in Epoch, s \in Nid, w \in BOOLEAN : OnInboundFrame(a, e, s, w)
    \/ OnQuorumLost(a) \/ OnQuorumRestored(a)
    \/ \E e \in Epoch : TakeOwnership(a, e) \/ ObserveEpoch(a, e)
    \/ EmitEvent(a)

GuardSpec == GuardInit /\ [][GuardNext]_guardVars

-----------------------------------------------------------------------------
\* Every variable holds a value of its kind.
GuardTypeOK ==
  /\ guard \in [Anchor -> Guard]
  /\ seen \in [Anchor -> Epoch]
  /\ pending \in [Anchor -> SUBSET Event] /\ published \subseteq Event
  /\ toClose \subseteq Anchor
  /\ reply \in [by : Anchor,
                is : {"none", "epoch_fenced", "not_leader", "read", "write"}]

\* An Anchor that has been shown a higher epoch than its own is a standby, so it
\* accepts no topology write until it takes a fresh epoch: the fence holds as
\* long as the deployment takes ownership above what it has seen.
SupersededIsStandby == \A a \in Anchor : seen[a] > guard[a].ownEpoch => guard[a].standby

\* A topology write is accepted only by an owner with quorum whose epoch no
\* frame it has seen exceeds.
WriteOnlyByOwner ==
  reply.is = "write" =>
    LET a == reply.by IN
      ~guard[a].standby /\ ~guard[a].degraded /\ seen[a] <= guard[a].ownEpoch
=============================================================================

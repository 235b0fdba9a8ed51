----------------------- MODULE AnchorEpochGuardProofs -----------------------
(***************************************************************************)
(* Proofs about AnchorEpochGuard for every set of Anchors and senders and  *)
(* every bound on epochs.                                                  *)
(***************************************************************************)
EXTENDS AnchorEpochGuard, TLAPS

\* Own epochs never exceed what was seen, and with careful owners a guard that
\* has seen more than its own epoch stands by.  This is inductive together with
\* the types.
Fence ==
  /\ \A a \in Anchor : guard[a].ownEpoch <= seen[a]
  /\ SupersededIsStandby
  /\ WriteOnlyByOwner

GuardIInv == GuardTypeOK /\ Fence

USE AnchorAssumption, EpochAssumption

\* The guards start ACTIVE at epoch 1 with nothing seen above it.
LEMMA GuardInitIInv == GuardInit => GuardIInv
  BY DEF GuardInit, GuardIInv, GuardTypeOK, Fence, SupersededIsStandby, WriteOnlyByOwner, Guard, Epoch

\* An inbound frame, fenced or admitted, keeps the types and the fence.
LEMMA FrameIInv ==
  ASSUME GuardIInv, NEW a \in Anchor, NEW e \in Epoch, NEW s \in Nid, NEW w \in BOOLEAN,
         OnInboundFrame(a, e, s, w)
  PROVE  GuardIInv'
  <1>1. CASE FenceOnFrame(a, e, s)
    <2>1. GuardTypeOK'
      <3>1. Failover(s, e, "active_lost") \in Event BY DEF Failover, Event
      <3>2. pending' \in [Anchor -> SUBSET Event] /\ toClose' \subseteq Anchor
        <4>1. CASE guard[a].standby BY <1>1, <4>1 DEF FenceOnFrame, GuardIInv, GuardTypeOK
        <4>2. CASE ~guard[a].standby
          <5>1. pending[a] \cup {Failover(s, e, "active_lost")} \in SUBSET Event
            BY <3>1 DEF GuardIInv, GuardTypeOK
          <5>2. pending' = [pending EXCEPT ![a] = pending[a] \cup {Failover(s, e, "active_lost")}]
                /\ toClose' = toClose \cup {a}
            BY <1>1, <4>2 DEF FenceOnFrame
          <5> QED BY <5>1, <5>2 DEF GuardIInv, GuardTypeOK
        <4> QED BY <4>1, <4>2
      <3>3. guard' \in [Anchor -> Guard]
        <4>0. guard[a] \in Guard
          BY DEF GuardIInv, GuardTypeOK
        <4>1. [guard[a] EXCEPT !.standby = TRUE] \in Guard
          BY <4>0 DEF Guard
        <4> QED BY <1>1, <4>1 DEF FenceOnFrame, GuardIInv, GuardTypeOK
      <3>4. seen' \in [Anchor -> Epoch]
        BY <1>1 DEF FenceOnFrame, GuardIInv, GuardTypeOK, Higher
      <3> QED BY <1>1, <3>2, <3>3, <3>4 DEF FenceOnFrame, GuardIInv, GuardTypeOK, Reply, NoReply
    <2>2. Fence'
      BY <1>1 DEF FenceOnFrame, GuardIInv, GuardTypeOK, Fence, SupersededIsStandby, WriteOnlyByOwner,
                  Guard, Epoch, Higher, Reply, NoReply, Supersedes
    <2> QED BY <2>1, <2>2 DEF GuardIInv
  <1>2. CASE AdmitFrame(a, e, w)
    <2>1. GuardTypeOK'
      BY <1>2 DEF AdmitFrame, GuardIInv, GuardTypeOK, Guard, Epoch, Higher, Reply, NoReply
    <2>2. Fence'
      BY <1>2 DEF AdmitFrame, GuardIInv, GuardTypeOK, Fence, SupersededIsStandby, WriteOnlyByOwner,
                  Guard, Epoch, Higher, Reply, NoReply, Supersedes, MayWrite
    <2> QED BY <2>1, <2>2 DEF GuardIInv
  <1> QED BY <1>1, <1>2 DEF OnInboundFrame

\* Taking ownership above everything seen keeps the types and the fence.
LEMMA TakeOwnershipIInv ==
  ASSUME GuardIInv, CarefulOwners, NEW a \in Anchor, NEW e \in Epoch, TakeOwnership(a, e)
  PROVE  GuardIInv'
  <1>1. GuardTypeOK'
    BY DEF TakeOwnership, GuardIInv, GuardTypeOK, Guard, Epoch, Event, Failover, Higher, Reply, NoReply, Owner
  <1>2. Fence'
    BY DEF TakeOwnership, GuardIInv, GuardTypeOK, Fence, SupersededIsStandby, WriteOnlyByOwner,
           Guard, Epoch, Higher, Reply, NoReply, Owner
  <1> QED BY <1>1, <1>2 DEF GuardIInv

\* The other operations keep the types and the fence.
LEMMA OthersIInv ==
  ASSUME GuardIInv, NEW a \in Anchor,
         \/ OnQuorumLost(a) \/ OnQuorumRestored(a)
         \/ \E e \in Epoch : ObserveEpoch(a, e)
         \/ EmitEvent(a)
  PROVE  GuardIInv'
  <1> USE DEF GuardIInv, GuardTypeOK, Fence, SupersededIsStandby, WriteOnlyByOwner, Guard, Epoch
  <1>1. CASE OnQuorumLost(a)
    <2> DEFINE ev == [kind |-> "anchor_quorum_lost", successor |-> a, epoch |-> 0,
                      reason |-> "quorum"]
    <2>1. ev \in Event BY DEF Event
    <2>2. pending' \in [Anchor -> SUBSET Event]
      BY <1>1, <2>1 DEF OnQuorumLost
    <2>3. guard' \in [Anchor -> Guard] /\ \A b \in Anchor :
            /\ guard'[b].ownEpoch = guard[b].ownEpoch
            /\ guard'[b].standby = guard[b].standby
      BY <1>1 DEF OnQuorumLost
    <2> QED BY <1>1, <2>2, <2>3 DEF OnQuorumLost, Reply, NoReply
  <1>2. CASE OnQuorumRestored(a) BY <1>2 DEF OnQuorumRestored, Restored, Reply, NoReply
  <1>3. CASE \E e \in Epoch : ObserveEpoch(a, e)
    <2> PICK e \in Epoch : ObserveEpoch(a, e) BY <1>3
    <2>0. Observed(guard[a], e) \in Guard
      <3>1. guard[a] \in Guard OBVIOUS
      <3>2. CASE e > guard[a].ownEpoch \/ guard[a].standby
        <4>1. Observed(guard[a], e) = [guard[a] EXCEPT !.standby = TRUE]
          BY <3>2 DEF Observed, Supersedes
        <4> QED BY <4>1, <3>1
      <3>3. CASE ~(e > guard[a].ownEpoch \/ guard[a].standby)
        <4>1. Observed(guard[a], e) = [guard[a] EXCEPT !.standby = FALSE]
          BY <3>3 DEF Observed, Supersedes
        <4> QED BY <4>1, <3>1
      <3> QED BY <3>2, <3>3
    <2> HIDE DEF Guard, Epoch
    <2>1. guard' \in [Anchor -> Guard] /\ seen' \in [Anchor -> Epoch]
      BY <2>0 DEF ObserveEpoch, Higher
    <2> USE DEF Guard, Epoch
    <2>2. /\ guard'[a].ownEpoch = guard[a].ownEpoch
          /\ guard'[a].standby = (guard[a].standby \/ e > guard[a].ownEpoch)
          /\ seen'[a] = IF seen[a] > e THEN seen[a] ELSE e
      BY DEF ObserveEpoch, Observed, Supersedes, Higher
    <2>3. \A b \in Anchor \ {a} : guard'[b] = guard[b] /\ seen'[b] = seen[b]
      BY DEF ObserveEpoch
    <2> QED BY <2>1, <2>2, <2>3 DEF ObserveEpoch, Reply, NoReply
  <1>4. CASE EmitEvent(a) BY <1>4 DEF EmitEvent
  <1> QED BY <1>1, <1>2, <1>3, <1>4

\* Every step keeps the invariant when owners are careful.
LEMMA GuardStepIInv ==
  ASSUME CarefulOwners, GuardIInv, [GuardNext]_guardVars
  PROVE  GuardIInv'
  <1>1. CASE UNCHANGED guardVars
    BY <1>1 DEF guardVars, GuardIInv, GuardTypeOK, Fence, SupersededIsStandby, WriteOnlyByOwner
  <1>2. CASE GuardNext BY <1>2, FrameIInv, TakeOwnershipIInv, OthersIInv DEF GuardNext
  <1> QED BY <1>1, <1>2

\* The invariant holds in every reachable state.
LEMMA GuardInvariance == ASSUME CarefulOwners PROVE GuardSpec => []GuardIInv
  BY GuardInitIInv, GuardStepIInv, PTL DEF GuardSpec

\* An Anchor shown a higher epoch than its own stands by: for any number of
\* Anchors, senders and epochs, OnInboundFrame, ObserveEpoch, quorum changes and
\* TakeOwnership keep the fence closed if ownership is taken above what was seen.
THEOREM FenceHolds == ASSUME CarefulOwners PROVE GuardSpec => []SupersededIsStandby
  BY GuardInvariance, PTL DEF GuardIInv, Fence

\* Only an owner with quorum, at the highest epoch it was shown, accepts a
\* topology write.
THEOREM WritesByOwner == ASSUME CarefulOwners PROVE GuardSpec => []WriteOnlyByOwner
  BY GuardInvariance, PTL DEF GuardIInv, Fence

\* Variables keep their types.
THEOREM GuardTypesHold == ASSUME CarefulOwners PROVE GuardSpec => []GuardTypeOK
  BY GuardInvariance, PTL DEF GuardIInv
=============================================================================

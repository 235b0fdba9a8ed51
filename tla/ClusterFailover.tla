--------------------------- MODULE ClusterFailover ---------------------------
(***************************************************************************)
(* Anchor failover end to end: the Anchors of one cluster and their epoch  *)
(* guards, the registry their announces reach, the failover events they    *)
(* emit, and a delegator that resolves the active Anchor and sends it      *)
(* topology writes.  Which Anchor takes which epoch is decided outside the *)
(* SDK; that decision hands out an epoch once.  Events are lost, duplicated*)
(* and reordered; announces are heartbeats.                                *)
(***************************************************************************)
EXTENDS AnchorEpochGuard, NdpRegistry, ClusterDelegation

CONSTANTS
  MaxDeliveries,  \* model bound: event deliveries to the resolver
  MaxQuorumLoss   \* model bound: quorum losses

\* The cluster's nodes are its Anchors; the answers of an election without a
\* winner are no NIDs.
ASSUME ClusterAssumption == Nid = Anchor /\ {"none", "split"} \cap Nid = {} /\ MaxTTL > 0

VARIABLES
  claims,      \* <<anchor, epoch>> pairs that were ever owned
  deliveries, losses,  \* counters for the bounds
  sent         \* what the last write of each client came to

vars == <<guardVars, regVars, resolverVars, claims, deliveries, losses, sent>>

\* Every guard starts ACTIVE at epoch 1.
Init == /\ GuardInit /\ RegInit /\ ResolverInit
        /\ claims = Anchor \X {1}
        /\ deliveries = 0 /\ losses = 0
        /\ sent = [d \in Client |-> "none"]

-----------------------------------------------------------------------------
GuardOnly == UNCHANGED <<regVars, resolverVars, deliveries, sent>>

Takeover(a, e) ==
  /\ \A c \in claims : c[2] # e
  /\ TakeOwnership(a, e)
  /\ claims' = claims \cup {<<a, e>>}
  /\ GuardOnly /\ UNCHANGED losses

\* An Anchor's frame carries its own epoch and its NID.
PeerFrame(from, to, isTopologyWrite) ==
  /\ OnInboundFrame(to, guard[from].ownEpoch, from, isTopologyWrite)
  /\ GuardOnly /\ UNCHANGED <<claims, losses>>

\* A listener learns epochs from announces.
ObserveAnnounce(a) ==
  /\ \E n \in GetAll : ObserveEpoch(a, EpochAt(n))
  /\ GuardOnly /\ UNCHANGED <<claims, losses>>

LoseQuorum(a) ==
  /\ losses < MaxQuorumLoss /\ losses' = losses + 1
  /\ OnQuorumLost(a)
  /\ GuardOnly /\ UNCHANGED claims

RegainQuorum(a) ==
  /\ guard[a].degraded
  /\ OnQuorumRestored(a)
  /\ GuardOnly /\ UNCHANGED <<claims, losses>>

RunCallbacks(a) ==
  /\ EmitEvent(a)
  /\ GuardOnly /\ UNCHANGED <<claims, losses>>

\* "The caller MUST then re-sign and re-publish its AnnounceFrame."
Republish(a) ==
  /\ Announce(a, [member |-> TRUE, isAnchor |-> TRUE, epoch |-> guard[a].ownEpoch, ttl |-> 1])
  /\ UNCHANGED <<guardVars, resolverVars, claims, deliveries, losses, sent>>

\* An announce that is not repeated in time is no longer live.
TimePasses ==
  /\ Tick
  /\ UNCHANGED <<guardVars, resolverVars, claims, deliveries, losses, sent>>

-----------------------------------------------------------------------------
ResolverOnly == UNCHANGED <<guardVars, regVars, claims, losses>>

\* An emitted event may reach the resolver late, twice or never.
DeliverEvent ==
  /\ deliveries < MaxDeliveries /\ deliveries' = deliveries + 1
  /\ \E ev \in published : /\ ev.kind = "anchor_failover"
                           /\ OnAnchorFailover(ev.successor, ev.epoch)
  /\ ResolverOnly /\ UNCHANGED sent

\* The injected look-up adapts the election over the registry.
LookedUp ==
  IF ResolveCluster \in Anchor
  THEN [activeNid |-> ResolveCluster, clusterEpoch |-> EpochAt(ResolveCluster)]
  ELSE None

Resolve(d) ==
  /\ sent[d] # "sending"
  /\ \/ ResolveHit(d) \/ ResolveMiss(d)
     \/ LookupAnswers(d, LookedUp) \/ ResolveInsert(d)
  /\ sent' = [sent EXCEPT ![d] = IF call'[d].at = "idle" /\ answer'[d] # None
                                 THEN "sending" ELSE "none"]
  /\ ResolverOnly /\ UNCHANGED deliveries

\* The delegate frame names no epoch, so it reads as 1.  A write that the target
\* refuses is answered NWP-ANCHOR-NOT-LEADER, and the entry is dropped.
Refused_Ignored == UNCHANGED resolverVars
Refused == Invalidate

Dispatch(d) ==
  /\ sent[d] = "sending"
  /\ LET a == answer[d].activeNid IN
       /\ AdmitFrame(a, 1, TRUE)
       /\ sent' = [sent EXCEPT ![d] = reply'.is]
       /\ IF reply'.is = "not_leader" THEN Refused ELSE UNCHANGED resolverVars
  /\ UNCHANGED <<regVars, claims, deliveries, losses>>

-----------------------------------------------------------------------------
Next ==
  \/ \E a \in Anchor, e \in 1 .. MaxEpoch : Takeover(a, e)
  \/ \E a, b \in Anchor, w \in BOOLEAN : a # b /\ PeerFrame(a, b, w)
  \/ \E a \in Anchor : ObserveAnnounce(a) \/ LoseQuorum(a) \/ RegainQuorum(a)
                         \/ RunCallbacks(a) \/ Republish(a)
  \/ TimePasses \/ DeliverEvent
  \/ \E d \in Client : Resolve(d) \/ Dispatch(d)

Spec == Init /\ [][Next]_vars

\* Clients retry, Anchors announce periodically, listen to announces and
\* regain quorum.
Fairness ==
  /\ \A a \in Anchor : WF_vars(Republish(a)) /\ WF_vars(RegainQuorum(a))
                         /\ WF_vars(ObserveAnnounce(a) /\ guard' # guard)
  /\ \A d \in Client : WF_vars(Resolve(d)) /\ WF_vars(Dispatch(d))

FairSpec == Spec /\ Fairness

-----------------------------------------------------------------------------
\* Every failover event, whether of the new owner or of an Anchor that fenced
\* itself, names an Anchor that really took the epoch it gives.
EventsAreClaims ==
  \A ev \in published \cup UNION {pending[a] : a \in Anchor} :
    ev.kind = "anchor_failover" => <<ev.successor, ev.epoch>> \in claims

\* The owner the resolver believes in is one that held that epoch: no lost,
\* repeated or late event and no slow look-up mixes one Anchor with another's epoch.
CacheIsAClaim ==
  active # None => <<active.activeNid, active.clusterEpoch>> \in claims

LastOwner == CHOOSE c \in claims : \A k \in claims : k[2] <= c[2]

\* After a takeover a client's writes are accepted by the last owner, again and
\* again, whatever it had cached: a stale entry is refused, dropped and looked up
\* anew, though events are lost or late, announces expire and quorum comes and goes.
WritesReachOwner ==
  \A d \in Client :
    <>(LastOwner[2] > 1) =>
      []<>(sent[d] = "write" /\ answer[d].activeNid = LastOwner[1])
=============================================================================

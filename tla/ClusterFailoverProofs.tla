------------------------ MODULE ClusterFailoverProofs ------------------------
(***************************************************************************)
(* The composed failover implements the epoch guard and the resolver, so   *)
(* what is proved of them holds of it; and nothing in it pairs an Anchor   *)
(* with an epoch the Anchor never held.                                    *)
(***************************************************************************)
EXTENDS ClusterFailover, AnchorEpochGuardProofs, ClusterDelegationProofs, NatLemmas

USE ClusterAssumption, RegistryAssumption

\* The epochs that travel - in guards, events, announces, look-ups and the cache -
\* are claims, and a client that sends has an owner to send to.
Claimed ==
  /\ claims \subseteq Anchor \X Epoch
  /\ \A a \in Anchor : <<a, guard[a].ownEpoch>> \in claims
  /\ EventsAreClaims
  /\ \A n \in Nid : store[n] # NoEntry => <<n, EpochAt(n)>> \in claims
  /\ \A d \in Client :
       /\ call[d].fresh # None => <<call[d].fresh.activeNid, call[d].fresh.clusterEpoch>> \in claims
       /\ sent[d] = "sending" => answer[d] # None
  /\ CacheIsAClaim

Sent == sent \in [Client -> {"none", "sending", "epoch_fenced", "not_leader", "read", "write"}]

IInv == GuardIInv /\ ResolverIInv /\ RegTypeOK /\ Sent /\ Claimed

\* An election that names an Anchor names one whose announce is live: the epochs
\* are bounded, so members that exist have a highest one.
LEMMA ElectedIsLive ==
  ASSUME RegTypeOK, NEW n, ResolveCluster = n, n \in Anchor
  PROVE  n \in GetAll
  <1> DEFINE members == {k \in GetAll : store[k].frame.member}
  <1>1. Elect(members) = n /\ n # "none" /\ n # "split" BY DEF ResolveCluster
  <1>2. members # {} BY <1>1 DEF Elect
  <1>3. ASSUME NEW k \in members PROVE EpochAt(k) \in 0 .. MaxEpoch
    <2>1. store[k] \in Entry BY DEF GetAll, IsLive, RegTypeOK
    <2>2. store[k].frame.epoch \in 0 .. MaxEpoch BY <2>1 DEF Entry, AnnounceFrame
    <2> QED BY <2>2, EpochAssumption DEF EpochAt, ClusterEpochOrDefault
  <1> DEFINE S == {EpochAt(k) : k \in members}
  <1>4. S \in SUBSET (0 .. MaxEpoch) /\ S # {} BY <1>2, <1>3
  <1> HIDE DEF members
  <1>5. PICK x \in S : \A y \in S : y <= x
    <2> HIDE DEF S
    <2> QED BY <1>4, GreatestNatural, EpochAssumption
  <1>6. PICK k \in members : x = EpochAt(k) BY <1>5
  <1>7. k \in TopOf(members) BY <1>5, <1>6 DEF TopOf
  <1>8. n = CHOOSE m \in TopOf(members) : TRUE BY <1>1, <1>2 DEF Elect
  <1>9. n \in TopOf(members) BY <1>7, <1>8
  <1>10. n \in members BY <1>9 DEF TopOf
  <1> QED BY <1>10 DEF members

\* A live entry's epoch is one of the epochs.
LEMMA AnnouncedEpoch ==
  ASSUME IInv, NEW n \in GetAll
  PROVE  n \in Nid /\ store[n] # NoEntry /\ <<n, EpochAt(n)>> \in claims /\ EpochAt(n) \in Epoch
  <1>1. n \in Nid /\ store[n] # NoEntry BY DEF GetAll, IsLive
  <1>2. <<n, EpochAt(n)>> \in claims BY <1>1 DEF IInv, Claimed
  <1> QED BY <1>1, <1>2 DEF IInv, Claimed

\* What the look-up answers is no owner, or a claim.
LEMMA LookedUpIsClaim ==
  ASSUME IInv
  PROVE  /\ LookedUp \in ClusterAnchorInfo \cup {None}
         /\ LookedUp # None => <<LookedUp.activeNid, LookedUp.clusterEpoch>> \in claims
  <1>1. CASE ResolveCluster \in Anchor
    <2>1. ResolveCluster \in GetAll BY <1>1, ElectedIsLive DEF IInv
    <2> QED BY <1>1, <2>1, AnnouncedEpoch DEF LookedUp, ClusterAnchorInfo
  <1>2. CASE ResolveCluster \notin Anchor BY <1>2 DEF LookedUp
  <1> QED BY <1>1, <1>2

\* A client's delegate is a frame of epoch 1 from some node.
LEMMA DispatchIsFrame ==
  ASSUME IInv, NEW d \in Client, Dispatch(d)
  PROVE  \E a \in Anchor, e \in Epoch, s \in Nid, w \in BOOLEAN : OnInboundFrame(a, e, s, w)
  <1>1. answer[d] \in ClusterAnchorInfo
    BY DEF IInv, Claimed, ResolverIInv, ResolverTypeOK, Dispatch
  <1>2. answer[d].activeNid \in Anchor BY <1>1 DEF ClusterAnchorInfo
  <1>3. 1 \in Epoch BY EpochAssumption DEF Epoch
  <1>4. AdmitFrame(answer[d].activeNid, 1, TRUE) BY DEF Dispatch
  <1>5. OnInboundFrame(answer[d].activeNid, 1, answer[d].activeNid, TRUE)
    BY <1>4 DEF OnInboundFrame
  <1> QED BY <1>2, <1>3, <1>5

\* Every step of the composition is a step of the guards or leaves them alone.
LEMMA StepOfGuard ==
  ASSUME IInv, [Next]_vars
  PROVE  [GuardNext]_guardVars
  <1>1. CASE UNCHANGED vars BY <1>1 DEF vars
  <1>2. ASSUME NEW a \in Anchor, NEW e \in 1 .. MaxEpoch, Takeover(a, e) PROVE GuardNext
    BY <1>2 DEF Takeover, GuardNext, Epoch
  <1>3. ASSUME NEW a \in Anchor, NEW b \in Anchor, NEW w \in BOOLEAN, PeerFrame(a, b, w)
        PROVE  GuardNext
    <2>1. guard[a].ownEpoch \in Epoch /\ a \in Nid
      BY DEF IInv, GuardIInv, GuardTypeOK, Guard
    <2>2. OnInboundFrame(b, guard[a].ownEpoch, a, w) BY <1>3 DEF PeerFrame
    <2> QED BY <2>1, <2>2 DEF GuardNext
  <1>4. ASSUME NEW a \in Anchor, ObserveAnnounce(a) PROVE GuardNext
    <2>1. PICK n \in GetAll : ObserveEpoch(a, EpochAt(n)) BY <1>4 DEF ObserveAnnounce
    <2> QED BY <2>1, AnnouncedEpoch DEF GuardNext
  <1>5. ASSUME NEW a \in Anchor, LoseQuorum(a) \/ RegainQuorum(a) \/ RunCallbacks(a)
        PROVE  GuardNext
    BY <1>5 DEF LoseQuorum, RegainQuorum, RunCallbacks, GuardNext
  <1>6. ASSUME NEW a \in Anchor, Republish(a) PROVE UNCHANGED guardVars
    BY <1>6 DEF Republish
  <1>7. CASE TimePasses \/ DeliverEvent BY <1>7 DEF TimePasses, DeliverEvent, ResolverOnly
  <1>8. ASSUME NEW d \in Client, Resolve(d) PROVE UNCHANGED guardVars
    BY <1>8 DEF Resolve, ResolverOnly
  <1>9. ASSUME NEW d \in Client, Dispatch(d) PROVE GuardNext
    BY <1>9, DispatchIsFrame DEF GuardNext
  <1> QED BY <1>1, <1>2, <1>3, <1>4, <1>5, <1>6, <1>7, <1>8, <1>9 DEF Next

\* Every step of the composition is a step of the resolver or leaves it alone.
LEMMA StepOfResolver ==
  ASSUME IInv, [Next]_vars
  PROVE  [ResolverNext]_resolverVars
  <1>1. CASE UNCHANGED vars BY <1>1 DEF vars
  <1>2. ASSUME NEW a \in Anchor,
               \/ \E e \in 1 .. MaxEpoch : Takeover(a, e)
               \/ \E b \in Anchor, w \in BOOLEAN : PeerFrame(a, b, w)
               \/ ObserveAnnounce(a) \/ LoseQuorum(a) \/ RegainQuorum(a)
               \/ RunCallbacks(a) \/ Republish(a)
        PROVE  UNCHANGED resolverVars
    BY <1>2 DEF Takeover, PeerFrame, ObserveAnnounce, LoseQuorum, RegainQuorum,
                RunCallbacks, Republish, GuardOnly
  <1>3. CASE TimePasses BY <1>3 DEF TimePasses
  <1>4. CASE DeliverEvent
    <2>1. PICK ev \in published : /\ ev.kind = "anchor_failover"
                                  /\ OnAnchorFailover(ev.successor, ev.epoch)
      BY <1>4 DEF DeliverEvent
    <2>2. <<ev.successor, ev.epoch>> \in claims BY <2>1 DEF IInv, Claimed, EventsAreClaims
    <2>3. ev.successor \in Nid /\ ev.epoch \in Epoch BY <2>2 DEF IInv, Claimed
    <2> QED BY <2>1, <2>3 DEF ResolverNext
  <1>5. ASSUME NEW d \in Client, Resolve(d) PROVE ResolverNext
    BY <1>5, LookedUpIsClaim DEF Resolve, ResolverNext, ResolveStep
  <1>6. ASSUME NEW d \in Client, Dispatch(d) PROVE ResolverNext \/ UNCHANGED resolverVars
    BY <1>6 DEF Dispatch, Refused, ResolverNext
  <1> QED BY <1>1, <1>2, <1>3, <1>4, <1>5, <1>6 DEF Next

\* The registry's entries and the clients' state keep their types.
LEMMA RegistryKeeps ==
  ASSUME IInv, [Next]_vars
  PROVE  RegTypeOK' /\ Sent'
  <1>0. RegTypeOK /\ Sent BY DEF IInv
  <1>1. CASE UNCHANGED vars BY <1>0, <1>1 DEF vars, regVars, RegTypeOK, Sent
  <1>2. ASSUME NEW a \in Anchor,
               \/ \E e \in 1 .. MaxEpoch : Takeover(a, e)
               \/ \E b \in Anchor, w \in BOOLEAN : PeerFrame(a, b, w)
               \/ ObserveAnnounce(a) \/ LoseQuorum(a) \/ RegainQuorum(a) \/ RunCallbacks(a)
        PROVE  UNCHANGED <<regVars, sent>>
    BY <1>2 DEF Takeover, PeerFrame, ObserveAnnounce, LoseQuorum, RegainQuorum,
                RunCallbacks, GuardOnly
  <1>3. ASSUME NEW a \in Anchor, Republish(a) PROVE RegTypeOK' /\ Sent'
    <2> DEFINE frame == [member |-> TRUE, isAnchor |-> TRUE, epoch |-> guard[a].ownEpoch,
                         ttl |-> 1]
    <2>1. guard[a].ownEpoch \in 0 .. MaxEpoch
      BY EpochAssumption DEF IInv, GuardIInv, GuardTypeOK, Guard, Epoch
    <2>2. frame \in AnnounceFrame BY <2>1 DEF AnnounceFrame
    <2>3. clock \in 0 .. MaxTime BY <1>0 DEF RegTypeOK
    <2>4. clock + 1 \in 0 .. MaxTime + MaxTTL BY <2>3
    <2>5. [frame |-> frame, expires |-> clock + 1] \in Entry BY <2>2, <2>4 DEF Entry
    <2>6. store' = [store EXCEPT ![a] = [frame |-> frame, expires |-> clock + 1]]
          /\ clock' = clock /\ sent' = sent
      BY <1>3 DEF Republish, Announce
    <2> HIDE DEF frame
    <2> QED BY <1>0, <2>5, <2>6 DEF RegTypeOK, Sent
  <1>4. CASE TimePasses BY <1>0, <1>4 DEF TimePasses, Tick, RegTypeOK, Sent
  <1>5. CASE DeliverEvent
    BY <1>0, <1>5 DEF DeliverEvent, ResolverOnly, regVars, RegTypeOK, Sent
  <1>6. ASSUME NEW d \in Client, Resolve(d) PROVE RegTypeOK' /\ Sent'
    BY <1>0, <1>6 DEF Resolve, ResolverOnly, regVars, RegTypeOK, Sent
  <1>7. ASSUME NEW d \in Client, Dispatch(d) PROVE RegTypeOK' /\ Sent'
    <2>1. reply'.is \in {"not_leader", "read", "write"}
      BY <1>7 DEF Dispatch, AdmitFrame, Reply
    <2> QED BY <1>0, <1>7, <2>1 DEF Dispatch, regVars, RegTypeOK, Sent
  <1>8. UNCHANGED <<regVars, sent>> => RegTypeOK' /\ Sent'
    BY <1>0 DEF regVars, RegTypeOK, Sent
  <1> QED BY <1>1, <1>2, <1>3, <1>4, <1>5, <1>6, <1>7, <1>8 DEF Next

\* The guards' part of Claimed, along the steps that touch it.
LEMMA GuardClaims ==
  ASSUME IInv, [Next]_vars
  PROVE  /\ claims \subseteq claims' /\ claims' \subseteq Anchor \X Epoch
         /\ \A a \in Anchor : <<a, guard'[a].ownEpoch>> \in claims'
         /\ EventsAreClaims'
  <1> DEFINE P == /\ claims \subseteq claims' /\ claims' \subseteq Anchor \X Epoch
                  /\ \A a \in Anchor : <<a, guard'[a].ownEpoch>> \in claims'
                  /\ EventsAreClaims'
             EventOK(ev, cs) == ev.kind = "anchor_failover" => <<ev.successor, ev.epoch>> \in cs
  <1>0. /\ claims \subseteq Anchor \X Epoch
        /\ \A a \in Anchor : <<a, guard[a].ownEpoch>> \in claims
        /\ guard \in [Anchor -> Guard] /\ pending \in [Anchor -> SUBSET Event]
    BY DEF IInv, Claimed, GuardIInv, GuardTypeOK
  <1>e. /\ \A ev \in published : EventOK(ev, claims)
        /\ \A a \in Anchor : \A ev \in pending[a] : EventOK(ev, claims)
    BY DEF IInv, Claimed, EventsAreClaims
  <1>f. ASSUME \A ev \in published' : EventOK(ev, claims'),
               \A a \in Anchor : \A ev \in pending'[a] : EventOK(ev, claims')
        PROVE  EventsAreClaims'
    BY <1>f DEF EventsAreClaims
  <1>1. UNCHANGED <<guardVars, claims>> => P
    BY <1>0, <1>e, <1>f DEF guardVars
  <1>2. ASSUME NEW a \in Anchor, NEW e \in 1 .. MaxEpoch, Takeover(a, e) PROVE P
    <2>1. /\ claims' = claims \cup {<<a, e>>} /\ published' = published
          /\ guard' = [guard EXCEPT ![a] = Owner(e)]
          /\ pending' = [pending EXCEPT ![a] = pending[a] \cup {Failover(a, e, "planned")}]
      BY <1>2 DEF Takeover, TakeOwnership
    <2>2. EventOK(Failover(a, e, "planned"), claims') BY <2>1 DEF Failover
    <2>3. \A b \in Anchor : \A ev \in pending'[b] : EventOK(ev, claims')
      BY <1>0, <1>e, <2>1, <2>2
    <2>4. EventsAreClaims' BY <1>e, <1>f, <2>1, <2>3
    <2>5. \A b \in Anchor : <<b, guard'[b].ownEpoch>> \in claims'
      BY <1>0, <2>1 DEF Owner
    <2> QED BY <1>0, <2>1, <2>4, <2>5 DEF Epoch
  <1>3. ASSUME NEW a \in Anchor, NEW b \in Anchor, NEW w \in BOOLEAN, PeerFrame(a, b, w)
        PROVE  P
    <2>1. claims' = claims /\ OnInboundFrame(b, guard[a].ownEpoch, a, w)
      BY <1>3 DEF PeerFrame
    <2>2. published' = published /\ \A k \in Anchor : guard'[k].ownEpoch = guard[k].ownEpoch
      BY <1>0, <2>1 DEF OnInboundFrame, FenceOnFrame, AdmitFrame, Guard
    <2>3. EventOK(Failover(a, guard[a].ownEpoch, "active_lost"), claims)
      BY <1>0 DEF Failover
    <2>4. pending' = pending \/ pending' =
            [pending EXCEPT ![b] = pending[b] \cup {Failover(a, guard[a].ownEpoch, "active_lost")}]
      BY <2>1 DEF OnInboundFrame, FenceOnFrame, AdmitFrame
    <2>5. \A k \in Anchor : \A ev \in pending'[k] : EventOK(ev, claims')
      BY <1>0, <1>e, <2>1, <2>3, <2>4
    <2> QED BY <1>0, <1>e, <1>f, <2>1, <2>2, <2>5
  <1>4. ASSUME NEW a \in Anchor, ObserveAnnounce(a) \/ RegainQuorum(a) PROVE P
    <2>1. claims' = claims /\ published' = published /\ pending' = pending
      BY <1>4 DEF ObserveAnnounce, RegainQuorum, ObserveEpoch, OnQuorumRestored
    <2>2. \A k \in Anchor : guard'[k].ownEpoch = guard[k].ownEpoch
      BY <1>0, <1>4 DEF ObserveAnnounce, RegainQuorum, ObserveEpoch, OnQuorumRestored,
                        Observed, Restored, Guard
    <2> QED BY <1>0, <1>e, <1>f, <2>1, <2>2
  <1>5. ASSUME NEW a \in Anchor, LoseQuorum(a) PROVE P
    <2> DEFINE ev == [kind |-> "anchor_quorum_lost", successor |-> a, epoch |-> 0,
                      reason |-> "quorum"]
    <2>1. /\ claims' = claims /\ published' = published
          /\ pending' = [pending EXCEPT ![a] = pending[a] \cup {ev}]
      BY <1>5 DEF LoseQuorum, OnQuorumLost
    <2>2. \A k \in Anchor : guard'[k].ownEpoch = guard[k].ownEpoch
      BY <1>0, <1>5 DEF LoseQuorum, OnQuorumLost, Guard
    <2>3. EventOK(ev, claims) OBVIOUS
    <2>4. \A k \in Anchor : \A x \in pending'[k] : EventOK(x, claims')
      BY <1>0, <1>e, <2>1, <2>3
    <2> QED BY <1>0, <1>e, <1>f, <2>1, <2>2, <2>4
  <1>6. ASSUME NEW a \in Anchor, RunCallbacks(a) PROVE P
    <2>1. claims' = claims /\ guard' = guard BY <1>6 DEF RunCallbacks, EmitEvent
    <2>2. PICK ev \in pending[a] : /\ pending' = [pending EXCEPT ![a] = pending[a] \ {ev}]
                                   /\ published' = published \cup {ev}
      BY <1>6 DEF RunCallbacks, EmitEvent
    <2>3. \A k \in Anchor : \A x \in pending'[k] : EventOK(x, claims')
      BY <1>0, <1>e, <2>1, <2>2
    <2>4. \A x \in published' : EventOK(x, claims') BY <1>e, <2>1, <2>2
    <2> QED BY <1>0, <1>f, <2>1, <2>3, <2>4
  <1>7. ASSUME NEW d \in Client, Dispatch(d) PROVE P
    <2>1. claims' = claims /\ guard' = guard /\ pending' = pending /\ published' = published
      BY <1>7 DEF Dispatch, AdmitFrame
    <2> QED BY <1>0, <1>e, <1>f, <2>1
  <1>8. ASSUME \/ UNCHANGED vars \/ TimePasses \/ DeliverEvent
               \/ \E a \in Anchor : Republish(a)
               \/ \E d \in Client : Resolve(d)
        PROVE  UNCHANGED <<guardVars, claims>>
    BY <1>8 DEF vars, TimePasses, DeliverEvent, Republish, Resolve, ResolverOnly
  <1> HIDE DEF P
  <1>9. P BY <1>1, <1>2, <1>3, <1>4, <1>5, <1>6, <1>7, <1>8 DEF Next
  <1> QED BY <1>9 DEF P

\* Announced epochs are claims.
LEMMA StoreClaims ==
  ASSUME IInv, [Next]_vars, claims \subseteq claims'
  PROVE  \A n \in Nid : store'[n] # NoEntry => <<n, EpochAt(n)'>> \in claims'
  <1> DEFINE P == \A n \in Nid : store'[n] # NoEntry => <<n, EpochAt(n)'>> \in claims'
  <1>0. /\ store \in [Nid -> Entry \cup {NoEntry}]
        /\ \A n \in Nid : store[n] # NoEntry => <<n, EpochAt(n)>> \in claims
    BY DEF IInv, RegTypeOK, Claimed
  <1>1. store' = store => P BY <1>0 DEF EpochAt
  <1>2. ASSUME NEW a \in Anchor, Republish(a) PROVE P
    <2>1. /\ store' = [store EXCEPT ![a] =
                         [frame |-> [member |-> TRUE, isAnchor |-> TRUE,
                                     epoch |-> guard[a].ownEpoch, ttl |-> 1],
                          expires |-> clock + 1]]
          /\ claims' = claims
      BY <1>2 DEF Republish, Announce
    <2>2. guard[a].ownEpoch \in Epoch /\ <<a, guard[a].ownEpoch>> \in claims
      BY DEF IInv, Claimed, GuardIInv, GuardTypeOK, Guard
    <2>3. EpochAt(a)' = guard[a].ownEpoch
      <3>1. store'[a].frame.epoch = guard[a].ownEpoch BY <1>0, <2>1
      <3>2. guard[a].ownEpoch # 0 BY <2>2 DEF Epoch
      <3> QED BY <3>1, <3>2 DEF EpochAt, ClusterEpochOrDefault
    <2>4. \A n \in Nid \ {a} : store'[n] = store[n] BY <1>0, <2>1
    <2>5. \A n \in Nid \ {a} : EpochAt(n)' = EpochAt(n) BY <2>4 DEF EpochAt
    <2> QED BY <1>0, <2>1, <2>2, <2>3, <2>4, <2>5
  <1>3. store' = store \/ \E a \in Anchor : Republish(a)
    <2>1. ASSUME NEW a \in Anchor,
                 \/ \E e \in 1 .. MaxEpoch : Takeover(a, e)
                 \/ \E b \in Anchor, w \in BOOLEAN : PeerFrame(a, b, w)
                 \/ ObserveAnnounce(a) \/ LoseQuorum(a) \/ RegainQuorum(a) \/ RunCallbacks(a)
          PROVE  store' = store
      BY <2>1 DEF Takeover, PeerFrame, ObserveAnnounce, LoseQuorum, RegainQuorum,
                  RunCallbacks, GuardOnly, regVars
    <2>2. UNCHANGED vars \/ TimePasses \/ DeliverEvent
            \/ (\E d \in Client : Resolve(d) \/ Dispatch(d)) => store' = store
      BY DEF vars, regVars, TimePasses, Tick, DeliverEvent, Resolve, Dispatch, ResolverOnly
    <2> QED BY <2>1, <2>2 DEF Next
  <1> HIDE DEF P
  <1>4. P BY <1>1, <1>2, <1>3
  <1> QED BY <1>4 DEF P

\* What the resolver looked up and what it caches are claims, and it is asked
\* before something is sent.
LEMMA ResolverClaims ==
  ASSUME IInv, [Next]_vars, claims \subseteq claims'
  PROVE  /\ \A d \in Client :
              /\ call'[d].fresh # None
                   => <<call'[d].fresh.activeNid, call'[d].fresh.clusterEpoch>> \in claims'
              /\ sent'[d] = "sending" => answer'[d] # None
         /\ CacheIsAClaim'
  <1> DEFINE InfoOK(i, cs) == i # None => <<i.activeNid, i.clusterEpoch>> \in cs
             P == /\ \A d \in Client : InfoOK(call'[d].fresh, claims')
                                       /\ (sent'[d] = "sending" => answer'[d] # None)
                  /\ InfoOK(active', claims')
  <1>0. /\ \A d \in Client : InfoOK(call[d].fresh, claims)
                             /\ (sent[d] = "sending" => answer[d] # None)
        /\ InfoOK(active, claims)
        /\ call \in [Client -> [at : {"idle", "lookup", "insert"},
                                fresh : ClusterAnchorInfo \cup {None}]]
        /\ answer \in [Client -> ClusterAnchorInfo \cup {None}]
    BY DEF IInv, Claimed, CacheIsAClaim, ResolverIInv, ResolverTypeOK
  <1>s. sent \in [Client -> {"none", "sending", "epoch_fenced", "not_leader", "read", "write"}]
    BY DEF IInv, Sent
  <1>1. UNCHANGED <<resolverVars, sent>> => P BY <1>0 DEF resolverVars
  <1>2. ASSUME DeliverEvent PROVE P
    <2>1. PICK ev \in published : /\ ev.kind = "anchor_failover"
                                  /\ OnAnchorFailover(ev.successor, ev.epoch)
      BY <1>2 DEF DeliverEvent
    <2>2. <<ev.successor, ev.epoch>> \in claims BY <2>1 DEF IInv, Claimed, EventsAreClaims
    <2>3. /\ active' = Successor(ev.successor, ev.epoch)
          /\ call' = call /\ answer' = answer /\ sent' = sent
      BY <1>2, <2>1 DEF DeliverEvent, OnAnchorFailover, Cache
    <2> QED BY <1>0, <2>2, <2>3 DEF Successor
  <1>3. ASSUME NEW d \in Client, Resolve(d) PROVE P
    <2>1. \A c \in Client \ {d} : call'[c] = call[c] /\ sent'[c] = sent[c] /\ answer'[c] = answer[c]
      BY <1>0, <1>s, <1>3 DEF Resolve, ResolveHit, ResolveMiss, LookupAnswers, ResolveInsert
    <2>2. sent'[d] = "sending" => answer'[d] # None BY <1>s, <1>3 DEF Resolve
    <2>3. InfoOK(call'[d].fresh, claims')
      <3>1. CASE ResolveHit(d) \/ ResolveMiss(d)
        BY <1>0, <3>1 DEF ResolveHit, ResolveMiss
      <3>2. CASE LookupAnswers(d, LookedUp)
        BY <1>0, <3>2, LookedUpIsClaim DEF LookupAnswers, NoOwner, Idle
      <3>3. CASE ResolveInsert(d) BY <1>0, <3>3 DEF ResolveInsert, Idle
      <3> QED BY <1>3, <3>1, <3>2, <3>3 DEF Resolve
    <2>4. InfoOK(active', claims')
      BY <1>0, <1>3 DEF Resolve, ResolveHit, ResolveMiss, LookupAnswers, ResolveInsert, Cache
    <2>5. \A c \in Client : InfoOK(call'[c].fresh, claims')
                            /\ (sent'[c] = "sending" => answer'[c] # None)
      BY <1>0, <2>1, <2>2, <2>3
    <2> QED BY <2>4, <2>5
  <1>4. ASSUME NEW d \in Client, Dispatch(d) PROVE P
    <2>1. call' = call /\ answer' = answer /\ (active' = active \/ active' = None)
      BY <1>4 DEF Dispatch, Refused, Invalidate, resolverVars
    <2>2. sent' = [sent EXCEPT ![d] = reply'.is] /\ reply'.is # "sending"
      BY <1>4 DEF Dispatch, AdmitFrame, Reply
    <2> QED BY <1>0, <1>s, <2>1, <2>2
  <1>5. UNCHANGED <<resolverVars, sent>> \/ DeliverEvent
          \/ \E d \in Client : Resolve(d) \/ Dispatch(d)
    <2>1. ASSUME NEW a \in Anchor,
                 \/ \E e \in 1 .. MaxEpoch : Takeover(a, e)
                 \/ \E b \in Anchor, w \in BOOLEAN : PeerFrame(a, b, w)
                 \/ ObserveAnnounce(a) \/ LoseQuorum(a) \/ RegainQuorum(a)
                 \/ RunCallbacks(a) \/ Republish(a)
          PROVE  UNCHANGED <<resolverVars, sent>>
      BY <2>1 DEF Takeover, PeerFrame, ObserveAnnounce, LoseQuorum, RegainQuorum,
                  RunCallbacks, Republish, GuardOnly
    <2>2. UNCHANGED vars \/ TimePasses => UNCHANGED <<resolverVars, sent>>
      BY DEF vars, TimePasses
    <2> QED BY <2>1, <2>2 DEF Next
  <1> HIDE DEF P
  <1>6. P BY <1>1, <1>2, <1>3, <1>4, <1>5
  <1> QED BY <1>6 DEF P, CacheIsAClaim

\* The invariant holds in every reachable state when owners are careful.
LEMMA Invariance == ASSUME CarefulOwners PROVE Spec => []IInv
  <1>1. Init => IInv
    <2> SUFFICES ASSUME Init PROVE IInv OBVIOUS
    <2>1. GuardIInv /\ ResolverIInv BY GuardInitIInv, ResolverInitIInv DEF Init
    <2>2. RegTypeOK /\ Sent BY DEF Init, RegInit, RegTypeOK, Sent
    <2>3. Claimed
      BY EpochAssumption
      DEF Init, GuardInit, RegInit, ResolverInit, Claimed, EventsAreClaims, CacheIsAClaim, Idle, Epoch
    <2> QED BY <2>1, <2>2, <2>3 DEF IInv
  <1>2. IInv /\ [Next]_vars => IInv'
    <2> SUFFICES ASSUME IInv, [Next]_vars PROVE IInv' OBVIOUS
    <2>1. GuardIInv' BY StepOfGuard, GuardStepIInv DEF IInv
    <2>2. ResolverIInv' BY StepOfResolver, ResolverStepIInv DEF IInv
    <2>3. RegTypeOK' /\ Sent' BY RegistryKeeps
    <2>4. Claimed' BY GuardClaims, StoreClaims, ResolverClaims DEF Claimed
    <2> QED BY <2>1, <2>2, <2>3, <2>4 DEF IInv
  <1> QED BY <1>1, <1>2, PTL DEF Spec

\* The composition implements the epoch guard: frames, announces, takeovers and
\* delegated writes reach a guard only through its operations, with epochs and
\* senders the guard's specification allows.
THEOREM ImplementsGuard == ASSUME CarefulOwners PROVE Spec => GuardSpec
  <1>1. Init => GuardInit BY DEF Init
  <1> QED BY <1>1, Invariance, StepOfGuard, PTL DEF Spec, GuardSpec

\* The composition implements the delegation resolver: what the registry's
\* election answers and the guards' events say are answers and events the
\* resolver's specification allows.
THEOREM ImplementsResolver == ASSUME CarefulOwners PROVE Spec => ResolverSpec
  <1>1. Init => ResolverInit BY DEF Init
  <1> QED BY <1>1, Invariance, StepOfResolver, PTL DEF Spec, ResolverSpec

\* The owner the resolver believes in held the epoch it is cached with, for any
\* number of Anchors, clients, failovers and deliveries.
THEOREM CacheHoldsClaims == ASSUME CarefulOwners PROVE Spec => []CacheIsAClaim
  BY Invariance, PTL DEF IInv, Claimed

\* In the whole cluster only an owner with quorum, at the highest epoch it was
\* shown, accepts a topology write.
THEOREM ClusterWritesByOwner == ASSUME CarefulOwners PROVE Spec => []WriteOnlyByOwner
  BY ImplementsGuard, WritesByOwner, PTL

\* In the whole cluster a cached owner gives way only to a higher epoch, and no
\* resolution answers with an older owner than the resolver had learned meanwhile.
THEOREM ClusterCacheAdvances == ASSUME CarefulOwners PROVE Spec => CacheAdvances /\ AnswerNotStale
  BY ImplementsResolver, CacheOnlyAdvances, AnswersAreFresh, PTL
=============================================================================

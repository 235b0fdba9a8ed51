----------------------- MODULE ClusterDelegationProofs -----------------------
(***************************************************************************)
(* Proofs about the delegation resolver for any number of callers and      *)
(* Anchors, any epochs and any answers of the look-up.                     *)
(***************************************************************************)
EXTENDS ClusterDelegation, TLAPS

USE EpochAssumption

Info == ClusterAnchorInfo \cup {None}

ResolverIInv == ResolverTypeOK /\ FloorIsCached

\* What the types say about epochs: an entry has one, only None has epoch 0.
LEMMA InfoEpoch ==
  ASSUME NEW i \in Info
  PROVE  /\ i.clusterEpoch \in Epoch \cup {0}
         /\ i.clusterEpoch \in Int /\ i.clusterEpoch >= 0
         /\ i = None <=> i.clusterEpoch = 0
  BY DEF Info, ClusterAnchorInfo, None, Epoch

\* Writing an entry that is newer than the cached one keeps the cache and the
\* floors in step.
LEMMA CacheKeeps ==
  ASSUME ResolverIInv, NEW info \in ClusterAnchorInfo,
         active = None \/ info.clusterEpoch > active.clusterEpoch, Cache(info)
  PROVE  /\ active' \in Info
         /\ floor' \in [Client -> Epoch \cup {0}]
         /\ \A c \in Client : call[c].at # "idle" => floor'[c] <= active'.clusterEpoch
  <1>1. info \in Info /\ active \in Info BY DEF Info, ResolverIInv, ResolverTypeOK
  <1>2. info.clusterEpoch \in Epoch BY DEF ClusterAnchorInfo
  <1>3. \A c \in Client : Higher(floor[c], info.clusterEpoch) \in Epoch \cup {0}
    BY <1>2 DEF Higher, ResolverIInv, ResolverTypeOK
  <1>4. active.clusterEpoch <= info.clusterEpoch
    BY <1>1, <1>2, InfoEpoch DEF Epoch
  <1>5. ASSUME NEW c \in Client, call[c].at # "idle"
        PROVE  Higher(floor[c], info.clusterEpoch) <= info.clusterEpoch
    <2>1. floor[c] \in Epoch \cup {0} /\ floor[c] <= active.clusterEpoch
      BY <1>5 DEF ResolverIInv, ResolverTypeOK, FloorIsCached
    <2>2. floor[c] \in Int /\ active.clusterEpoch \in Int /\ info.clusterEpoch \in Int
      BY <2>1, <1>1, InfoEpoch DEF Epoch
    <2> QED BY <2>1, <2>2, <1>4 DEF Higher
  <1> QED BY <1>1, <1>3, <1>5 DEF Cache

\* A call that inserts what it looked up: its fresh result is an entry.
LEMMA FreshIsEntry ==
  ASSUME ResolverIInv, NEW c \in Client, call[c].at = "insert"
  PROVE  call[c].fresh \in ClusterAnchorInfo
  BY DEF ResolverIInv, ResolverTypeOK

\* A result or an event that is not stale is newer than the entry.
LEMMA NotStaleIsNewer ==
  ASSUME ResolverIInv, NEW e \in Epoch
  PROVE  /\ ~EventIsStale(e) => active = None \/ e > active.clusterEpoch
         /\ \A fresh \in ClusterAnchorInfo :
              ~LookupIsStale(fresh) => active = None \/ fresh.clusterEpoch > active.clusterEpoch
  <1>1. active \in Info BY DEF ResolverIInv, ResolverTypeOK, Info
  <1>2. active.clusterEpoch \in Int BY <1>1, InfoEpoch
  <1> QED BY <1>2 DEF EventIsStale, LookupIsStale, ClusterAnchorInfo, Epoch

\* The steps of ResolveActive keep the types and the floors.
LEMMA ResolveKeeps ==
  ASSUME ResolverIInv, NEW c \in Client, ResolveStep(c)
  PROVE  ResolverIInv'
  <1>0. active \in Info /\ active.clusterEpoch \in Epoch \cup {0}
    BY InfoEpoch DEF ResolverIInv, ResolverTypeOK, Info
  <1>1. CASE ResolveHit(c)
    BY <1>1, <1>0 DEF ResolveHit, ResolverIInv, ResolverTypeOK, FloorIsCached
  <1>2. CASE ResolveMiss(c)
    <2>1. active.clusterEpoch = 0 BY <1>2 DEF ResolveMiss, None
    <2> QED BY <1>2, <2>1 DEF ResolveMiss, ResolverIInv, ResolverTypeOK, FloorIsCached
  <1>3. CASE \E info \in ClusterAnchorInfo \cup {None} : LookupAnswers(c, info)
    <2> PICK info \in ClusterAnchorInfo \cup {None} : LookupAnswers(c, info) BY <1>3
    <2>1. ResolverTypeOK'
      <3> DEFINE Call == [at : {"idle", "lookup", "insert"}, fresh : Info]
      <3>1. call \in [Client -> Call] BY DEF ResolverIInv, ResolverTypeOK, Info
      <3>2. CASE info = None
        <4>1. Idle \in Call BY DEF Idle, Info
        <4>2. call' = [call EXCEPT ![c] = Idle] /\ answer' = [answer EXCEPT ![c] = None]
              /\ active' = active /\ floor' = floor
          BY <3>2 DEF LookupAnswers, NoOwner
        <4>3. call' \in [Client -> Call] BY <3>1, <4>1, <4>2
        <4> QED BY <4>2, <4>3 DEF ResolverIInv, ResolverTypeOK, Idle, Info
      <3>3. CASE info # None
        <4>1. [at |-> "insert", fresh |-> info] \in Call BY DEF Info
        <4>2. call' = [call EXCEPT ![c] = [at |-> "insert", fresh |-> info]]
              /\ answer' = answer /\ active' = active /\ floor' = floor
          BY <3>3 DEF LookupAnswers, NoOwner
        <4>3. call' \in [Client -> Call] BY <3>1, <4>1, <4>2
        <4> QED BY <3>3, <4>2, <4>3 DEF ResolverIInv, ResolverTypeOK, Info
      <3> QED BY <3>2, <3>3
    <2>2. FloorIsCached'
      BY DEF LookupAnswers, NoOwner, ResolverIInv, ResolverTypeOK, FloorIsCached, Idle
    <2> QED BY <2>1, <2>2 DEF ResolverIInv
  <1>4. CASE ResolveInsert(c)
    <2>1. call[c].fresh \in ClusterAnchorInfo /\ call[c].fresh.clusterEpoch \in Epoch
      BY <1>4, FreshIsEntry DEF ResolveInsert, ClusterAnchorInfo
    <2>2. CASE LookupIsStale(call[c].fresh)
      BY <1>4, <2>2, <1>0 DEF ResolveInsert, ResolverIInv, ResolverTypeOK, FloorIsCached, Idle, Info
    <2>3. CASE ~LookupIsStale(call[c].fresh)
      <3>1. Cache(call[c].fresh) BY <1>4, <2>3 DEF ResolveInsert
      <3>2. active = None \/ call[c].fresh.clusterEpoch > active.clusterEpoch
        BY <2>1, <2>3, NotStaleIsNewer
      <3>3. /\ active' \in Info /\ floor' \in [Client -> Epoch \cup {0}]
            /\ \A d \in Client : call[d].at # "idle" => floor'[d] <= active'.clusterEpoch
        BY <2>1, <3>1, <3>2, CacheKeeps
      <3>4. call' = [call EXCEPT ![c] = Idle]
            /\ answer' = [answer EXCEPT ![c] = call[c].fresh]
        BY <1>4, <2>3 DEF ResolveInsert
      <3> QED BY <2>1, <3>3, <3>4 DEF ResolverIInv, ResolverTypeOK, FloorIsCached, Idle, Info
    <2> QED BY <2>2, <2>3
  <1> QED BY <1>1, <1>2, <1>3, <1>4 DEF ResolveStep

\* A failover event keeps the types and the floors.
LEMMA FailoverKeeps ==
  ASSUME ResolverIInv, NEW s \in Nid, NEW e \in Epoch, OnAnchorFailover(s, e)
  PROVE  ResolverIInv'
  <1>1. Successor(s, e) \in ClusterAnchorInfo /\ Successor(s, e).clusterEpoch = e
    BY DEF Successor, ClusterAnchorInfo
  <1>2. active = None \/ e > active.clusterEpoch
    BY NotStaleIsNewer DEF OnAnchorFailover
  <1>3. Cache(Successor(s, e)) BY DEF OnAnchorFailover
  <1>4. /\ active' \in Info /\ floor' \in [Client -> Epoch \cup {0}]
        /\ \A d \in Client : call[d].at # "idle" => floor'[d] <= active'.clusterEpoch
    BY <1>1, <1>2, <1>3, CacheKeeps
  <1> QED BY <1>4 DEF OnAnchorFailover, ResolverIInv, ResolverTypeOK, FloorIsCached, Info

\* A new resolver satisfies the invariant.
LEMMA ResolverInitIInv == ResolverInit => ResolverIInv
  BY DEF ResolverInit, ResolverIInv, ResolverTypeOK, FloorIsCached, Idle

\* Every step keeps it.
LEMMA ResolverStepIInv ==
  ASSUME ResolverIInv, [ResolverNext]_resolverVars
  PROVE  ResolverIInv'
  <1>1. CASE UNCHANGED resolverVars
    BY <1>1 DEF resolverVars, ResolverIInv, ResolverTypeOK, FloorIsCached
  <1>2. CASE Invalidate
    BY <1>2 DEF Invalidate, ResolverIInv, ResolverTypeOK, FloorIsCached, None
  <1> QED BY <1>1, <1>2, ResolveKeeps, FailoverKeeps DEF ResolverNext

\* The invariant holds in every reachable state.
LEMMA ResolverInvariance == ResolverSpec => []ResolverIInv
  BY ResolverInitIInv, ResolverStepIInv, PTL DEF ResolverSpec

\* Variables keep their types.
THEOREM ResolverTypesHold == ResolverSpec => []ResolverTypeOK
  BY ResolverInvariance, PTL DEF ResolverIInv

\* While a ResolveActive call is under way, what was cached since it began and
\* not invalidated is still cached, or something newer is.
THEOREM FloorHolds == ResolverSpec => []FloorIsCached
  BY ResolverInvariance, PTL DEF ResolverIInv

\* A cluster's owner is only replaced by one of a strictly higher epoch, for any
\* number of concurrent look-ups and any order of failover events.
THEOREM CacheOnlyAdvances == ResolverSpec => CacheAdvances
  <1>1. ResolverIInv /\ [ResolverNext]_resolverVars =>
          [active # None /\ active' # active =>
             active' = None \/ active'.clusterEpoch > active.clusterEpoch]_resolverVars
    <2> SUFFICES ASSUME ResolverIInv, ResolverNext, active # None, active' # active
                 PROVE  active' = None \/ active'.clusterEpoch > active.clusterEpoch
      OBVIOUS
    <2>1. CASE Invalidate BY <2>1 DEF Invalidate
    <2>2. ASSUME NEW s \in Nid, NEW e \in Epoch, OnAnchorFailover(s, e)
          PROVE  active'.clusterEpoch > active.clusterEpoch
      BY <2>2, NotStaleIsNewer DEF OnAnchorFailover, Cache, Successor
    <2>3. ASSUME NEW c \in Client, ResolveStep(c)
          PROVE  active'.clusterEpoch > active.clusterEpoch
      <3>1. ResolveInsert(c) /\ Cache(call[c].fresh) /\ ~LookupIsStale(call[c].fresh)
        BY <2>3 DEF ResolveStep, ResolveHit, ResolveMiss, LookupAnswers, ResolveInsert
      <3>2. call[c].fresh \in ClusterAnchorInfo /\ call[c].fresh.clusterEpoch \in Epoch
        BY <3>1, FreshIsEntry DEF ResolveInsert, ClusterAnchorInfo
      <3> QED BY <3>1, <3>2, NotStaleIsNewer DEF Cache
    <2> QED BY <2>1, <2>2, <2>3 DEF ResolverNext
  <1> QED BY <1>1, ResolverInvariance, PTL DEF ResolverSpec, CacheAdvances

\* A ResolveActive call never answers with an older owner than the resolver
\* learned while the call was looking up.
THEOREM AnswersAreFresh == ResolverSpec => AnswerNotStale
  <1>1. ResolverIInv /\ [ResolverNext]_resolverVars =>
          [\A c \in Client : call[c].at = "insert" /\ call'[c].at = "idle"
                               => answer'[c].clusterEpoch >= floor[c]]_resolverVars
    <2> SUFFICES ASSUME ResolverIInv, ResolverNext, NEW c \in Client,
                        call[c].at = "insert", call'[c].at = "idle"
                 PROVE  answer'[c].clusterEpoch >= floor[c]
      OBVIOUS
    <2>1. PICK d \in Client : ResolveStep(d)
      BY DEF ResolverNext, OnAnchorFailover, Invalidate
    <2>2. ResolveInsert(c)
      BY <2>1 DEF ResolveStep, ResolveHit, ResolveMiss, LookupAnswers, ResolveInsert, ResolverIInv, ResolverTypeOK
    <2>3. call[c].fresh \in ClusterAnchorInfo /\ call[c].fresh.clusterEpoch \in Epoch
      BY FreshIsEntry DEF ClusterAnchorInfo
    <2>4. floor[c] \in Int /\ floor[c] <= active.clusterEpoch
      BY DEF ResolverIInv, ResolverTypeOK, FloorIsCached, Epoch
    <2>5. active \in Info /\ active.clusterEpoch \in Int
      BY InfoEpoch DEF ResolverIInv, ResolverTypeOK, Info
    <2>6. CASE LookupIsStale(call[c].fresh)
      BY <2>2, <2>4, <2>5, <2>6 DEF ResolveInsert, ResolverIInv, ResolverTypeOK
    <2>7. CASE ~LookupIsStale(call[c].fresh)
      <3>1. answer'[c] = call[c].fresh BY <2>2, <2>7 DEF ResolveInsert, ResolverIInv, ResolverTypeOK
      <3>2. call[c].fresh.clusterEpoch >= active.clusterEpoch
        BY <2>3, <2>5, <2>7, NotStaleIsNewer, InfoEpoch DEF Epoch
      <3> QED BY <2>3, <2>4, <2>5, <3>1, <3>2 DEF Epoch
    <2> QED BY <2>6, <2>7
  <1> QED BY <1>1, ResolverInvariance, PTL DEF ResolverSpec, AnswerNotStale
=============================================================================

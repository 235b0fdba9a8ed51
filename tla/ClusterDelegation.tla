------------------------- MODULE ClusterDelegation -------------------------
(***************************************************************************)
(* ClusterDelegationResolver (nop/cluster_delegation.go): a cache of the   *)
(* active Anchor of a cluster, filled by look-ups made outside the mutex   *)
(* and by anchor_failover events.  Clusters do not share state, so one     *)
(* cluster is modelled.                                                    *)
(***************************************************************************)
EXTENDS ClusterEpochs

CONSTANT Client    \* concurrent ResolveActive calls

VARIABLES
  active,   \* the cache entry of the cluster, or None
  call,     \* ResolveActive calls: where they are and what the look-up gave
  answer,   \* what each call returned last, None for "cannot resolve"
  floor     \* highest epoch cached since each call started, reset by Invalidate

resolverVars == <<active, call, answer, floor>>

Idle == [at |-> "idle", fresh |-> None]

ResolverInit ==
  /\ active = None
  /\ call = [c \in Client |-> Idle]
  /\ answer = [c \in Client |-> None]
  /\ floor = [c \in Client |-> 0]

\* Every write of the cache raises the floor of the calls under way.
Cache(info) ==
  /\ active' = info
  /\ floor' = [c \in Client |-> Higher(floor[c], info.clusterEpoch)]

-----------------------------------------------------------------------------
\* ResolveActive, under the mutex: a hit answers at once.
ResolveHit(c) ==
  /\ call[c].at = "idle" /\ active # None
  /\ answer' = [answer EXCEPT ![c] = active]
  /\ floor' = [floor EXCEPT ![c] = active.clusterEpoch]
  /\ UNCHANGED <<active, call>>

ResolveMiss(c) ==
  /\ call[c].at = "idle" /\ active = None
  /\ call' = [call EXCEPT ![c].at = "lookup"]
  /\ floor' = [floor EXCEPT ![c] = 0]
  /\ UNCHANGED <<active, answer>>

NoOwner(info) == info = None

\* The injected look-up, outside the mutex: it may answer anything that was
\* true at some time, no owner, or an error.  A negative answer is not cached.
LookupAnswers(c, info) ==
  /\ call[c].at = "lookup"
  /\ IF NoOwner(info)
     THEN /\ call' = [call EXCEPT ![c] = Idle]
          /\ answer' = [answer EXCEPT ![c] = None]
     ELSE /\ call' = [call EXCEPT ![c] = [at |-> "insert", fresh |-> info]]
          /\ UNCHANGED answer
  /\ UNCHANGED <<active, floor>>

\* A look-up result loses against an entry at its own epoch or above.
LookupIsStale_Never(fresh) == FALSE
LookupIsStale(fresh) == active # None /\ fresh.clusterEpoch <= active.clusterEpoch

\* Back under the mutex.
ResolveInsert(c) ==
  /\ call[c].at = "insert"
  /\ LET fresh == call[c].fresh IN
       IF LookupIsStale(fresh)
       THEN answer' = [answer EXCEPT ![c] = active] /\ UNCHANGED <<active, floor>>
       ELSE answer' = [answer EXCEPT ![c] = fresh] /\ Cache(fresh)
  /\ call' = [call EXCEPT ![c] = Idle]

\* An event at the cached epoch is stale too: it may be another claimant's.
EventIsStale(clusterEpoch) == active # None /\ clusterEpoch <= active.clusterEpoch

Successor_KeepNid(successor, clusterEpoch) ==
  [activeNid |-> IF active = None THEN successor ELSE active.activeNid,
   clusterEpoch |-> clusterEpoch]
Successor(successor, clusterEpoch) ==
  [activeNid |-> successor, clusterEpoch |-> clusterEpoch]

OnAnchorFailover(successor, clusterEpoch) ==
  /\ ~EventIsStale(clusterEpoch)
  /\ Cache(Successor(successor, clusterEpoch))
  /\ UNCHANGED <<call, answer>>

\* After NWP-ANCHOR-NOT-LEADER.
Invalidate ==
  /\ active' = None
  /\ floor' = [c \in Client |-> 0]
  /\ UNCHANGED <<call, answer>>

ResolveStep(c) ==
  ResolveHit(c) \/ ResolveMiss(c) \/ ResolveInsert(c)
    \/ \E info \in ClusterAnchorInfo \cup {None} : LookupAnswers(c, info)

ResolverNext ==
  \/ \E c \in Client : ResolveStep(c)
  \/ \E s \in Nid, e \in Epoch : OnAnchorFailover(s, e)
  \/ Invalidate

ResolverSpec == ResolverInit /\ [][ResolverNext]_resolverVars

-----------------------------------------------------------------------------
\* Every variable holds a value of its kind.
ResolverTypeOK ==
  /\ active \in ClusterAnchorInfo \cup {None}
  /\ call \in [Client -> [at : {"idle", "lookup", "insert"},
                          fresh : ClusterAnchorInfo \cup {None}]]
  /\ answer \in [Client -> ClusterAnchorInfo \cup {None}]
  /\ floor \in [Client -> Epoch \cup {0}]
  /\ \A c \in Client : call[c].at = "insert" => call[c].fresh # None

\* The owner a cluster maps to changes only to a strictly higher epoch; only
\* Invalidate drops it.  Slow look-ups and replayed or reordered failover events
\* cannot turn the cluster back, nor flip it between claimants of one epoch.
CacheAdvances ==
  [][active # None /\ active' # active =>
       active' = None \/ active'.clusterEpoch > active.clusterEpoch]_resolverVars

\* While a call is under way its floor is the epoch of the entry, if there is
\* one: nothing cached since the call began is newer than what it will return.
FloorIsCached ==
  \A c \in Client : call[c].at # "idle" => floor[c] <= active.clusterEpoch

\* A call never answers with an owner older than one the resolver had already
\* learned while the call was looking up.
AnswerNotStale ==
  [][\A c \in Client : call[c].at = "insert" /\ call'[c].at = "idle"
                         => answer'[c].clusterEpoch >= floor[c]]_resolverVars
=============================================================================

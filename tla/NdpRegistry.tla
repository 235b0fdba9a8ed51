---------------------------- MODULE NdpRegistry ----------------------------
(***************************************************************************)
(* InMemoryNdpRegistry (ndp/registry.go) and the highest-epoch election    *)
(* over it (ndp/cluster.go).  One cluster is modelled: a frame says        *)
(* whether it names that cluster as its cluster_anchor.  Addresses and the *)
(* DNS fallback carry no state and are left out.                           *)
(***************************************************************************)
EXTENDS ClusterEpochs, FiniteSets

CONSTANTS
  MaxTTL,    \* model bound on ttl
  MaxTime    \* model bound on the clock

ASSUME RegistryAssumption == MaxTTL \in Nat /\ MaxTime \in Nat

\* The announce fields the registry and the election read; epoch 0 = omitted.
AnnounceFrame == [member : BOOLEAN, isAnchor : BOOLEAN, epoch : 0 .. MaxEpoch, ttl : 0 .. MaxTTL]

Entry == [frame : AnnounceFrame, expires : 0 .. MaxTime + MaxTTL]
NoEntry == [expires |-> 0]

VARIABLES
  store,  \* NID -> registryEntry, NoEntry when absent
  clock

regVars == <<store, clock>>

RegInit == store = [n \in Nid |-> NoEntry] /\ clock = 0

\* Announce stores the frame over whatever the NID had; ttl 0 removes it.
Announce(n, frame) ==
  /\ store' = [store EXCEPT ![n] =
       IF frame.ttl = 0 THEN NoEntry
       ELSE [frame |-> frame, expires |-> clock + frame.ttl]]
  /\ UNCHANGED clock

Tick == clock < MaxTime /\ clock' = clock + 1 /\ UNCHANGED store

\* An entry is live strictly before its expiry; nothing purges it.
IsLive(n) == store[n] # NoEntry /\ store[n].expires > clock

GetAll == {n \in Nid : IsLive(n)}

-----------------------------------------------------------------------------
\* An omitted cluster_epoch denotes 1, for comparison only.
ClusterEpochOrDefault(frame) == IF frame.epoch = 0 THEN 1 ELSE frame.epoch

EpochAt(n) == ClusterEpochOrDefault(store[n].frame)

TopOf(members) == {n \in members : \A m \in members : EpochAt(m) <= EpochAt(n)}

\* One leader, none without members, "split" on a tie at the top.
Elect_Any(members) ==
  IF members = {} THEN "none" ELSE CHOOSE n \in members : n \in TopOf(members)

Elect(members) ==
  CASE members = {}                    -> "none"
    [] Cardinality(TopOf(members)) > 1 -> "split"
    [] OTHER                           -> CHOOSE n \in TopOf(members) : TRUE

\* ResolveCluster: every live entry that names the cluster takes part.
ResolveCluster == Elect({n \in GetAll : store[n].frame.member})

\* NdpRegistryProfile.ResolveCluster: only members with the anchor role do.
ProfileResolveCluster ==
  Elect({n \in GetAll : store[n].frame.member /\ store[n].frame.isAnchor})

-----------------------------------------------------------------------------
RegNext == Tick \/ \E n \in Nid, f \in AnnounceFrame : Announce(n, f)

RegSpec == RegInit /\ [][RegNext]_regVars

\* Every variable holds a value of its kind.
RegTypeOK == /\ store \in [Nid -> Entry \cup {NoEntry}]
             /\ clock \in 0 .. MaxTime

\* An election's answer over the live entries P selects: the owner is live and has
\* not withdrawn, and no other reached its epoch; without one there is a tie at
\* the top or nobody at all.
StrictlyHighest(owner, P(_)) ==
  LET live == {n \in Nid : store[n] # NoEntry /\ store[n].frame.ttl > 0
                             /\ store[n].expires > clock /\ P(store[n].frame)}
  IN  CASE owner = "none"  -> live = {}
        [] owner = "split" -> \E n, m \in live : /\ n # m /\ EpochAt(n) = EpochAt(m)
                                                 /\ \A k \in live : EpochAt(k) <= EpochAt(n)
        [] OTHER -> /\ owner \in live
                    /\ \A m \in live \ {owner} : EpochAt(m) < EpochAt(owner)

\* Both elections, of the free function and of the profile registry, name the one
\* live member at the highest epoch, whatever was announced, withdrawn or expired.
OwnerIsStrictlyHighest ==
  /\ StrictlyHighest(ResolveCluster, LAMBDA f : f.member)
  /\ StrictlyHighest(ProfileResolveCluster, LAMBDA f : f.member /\ f.isAnchor)
=============================================================================

------------------------- MODULE NdpRegistryProfile -------------------------
(***************************************************************************)
(* The transport-independent registry state machine of                     *)
(* ndp/registry_profile.go.  A frame has a signed part (its canonical body *)
(* and so its digest) and an unsigned liveness part (health, last_seen).   *)
(* NIDs share no state.  The cluster election over the entries is in       *)
(* NdpRegistry; the bridge query is a read-only filter and is left out.    *)
(***************************************************************************)
EXTENDS Integers

CONSTANTS
  Nid, Body,        \* announcing nodes; what the signed body says besides the rest
  MaxSeq,           \* model bound on graph_seq
  MaxTTL, MaxTime,  \* model bounds on ttl and the clock
  ClockWindow       \* the 5 minutes a timestamp may be off outside local-dev

ASSUME ProfileAssumption ==
  MaxSeq \in Nat /\ MaxTTL \in Nat /\ MaxTime \in Nat /\ ClockWindow \in Nat

Time == 0 .. MaxTime
Absent == -1   \* graph_seq or last_seen omitted

\* The signed part is what the digest covers.
Signed == [nid : Nid, seq : {Absent} \cup 0 .. MaxSeq, body : Body, ttl : 0 .. MaxTTL,
           timestamp : Time]
Frame == [signed : Signed, health : {"ok", "draining"}, lastSeen : {Absent} \cup Time]

\* profileEntry; NoEntry when the NID has none.
Entry == [frame : Frame, expiresAt : 0 .. MaxTime + MaxTTL]
NoEntry == [expiresAt |-> 0]

VARIABLES
  localDev,   \* SecurityProfile = "local-dev", chosen for good
  entries,    \* NID -> profileEntry or NoEntry
  sequences,  \* NID -> highest graph_seq admitted, Absent = none
  now,        \* receivedAt of the next frame
  decision    \* what the last ApplyAnnounce answered

vars == <<localDev, entries, sequences, now, decision>>

Init == /\ localDev \in BOOLEAN
        /\ entries = [n \in Nid |-> NoEntry]
        /\ sequences = [n \in Nid |-> Absent]
        /\ now = 0
        /\ decision = "none"

SeqOf(f) == IF f.signed.seq = Absent THEN 0 ELSE f.signed.seq

\* last_seen, or the timestamp without it, plus ttl.
freshnessDeadline_Grace(f) ==
  (IF f.lastSeen = Absent THEN f.signed.timestamp ELSE f.lastSeen) + f.signed.ttl + 1
freshnessDeadline(f) ==
  (IF f.lastSeen = Absent THEN f.signed.timestamp ELSE f.lastSeen) + f.signed.ttl

sameLiveness(f, g) == f.health = g.health /\ f.lastSeen = g.lastSeen

WithinWindow(t) == t - now <= ClockWindow /\ now - t <= ClockWindow

\* Signature, shape and, outside local-dev, sequence and timestamp checks.
Malformed(f, signatureValid) ==
  \/ ~signatureValid
  \/ ~localDev /\ (f.signed.seq = Absent \/ ~WithinWindow(f.signed.timestamp))

Store(f) == entries' = [entries EXCEPT ![f.signed.nid] =
                          [frame |-> f, expiresAt |-> freshnessDeadline(f)]]

Known(f) == sequences[f.signed.nid] # Absent
Current(f) == entries[f.signed.nid]

-----------------------------------------------------------------------------
\* What is refused without effect, in the order of the early returns.
IsRollback_Never(f) == FALSE
IsRollback(f) == Known(f) /\ SeqOf(f) < sequences[f.signed.nid]

SameSeq(f) == Known(f) /\ SeqOf(f) = sequences[f.signed.nid]

Conflicts_Never(f) == FALSE
Conflicts(f) == Current(f).frame.signed # f.signed

Stale(f) == freshnessDeadline(f) <= now

\* A frame at the highest known sequence: never news, at most a heartbeat.
ApplySameSeq(f) ==
  /\ SameSeq(f)
  /\ UNCHANGED sequences
  /\ \/ /\ Current(f) = NoEntry
        /\ decision' = "duplicate" /\ UNCHANGED entries
     \/ /\ Current(f) # NoEntry /\ Conflicts(f)
        /\ decision' = "announce_conflict" /\ UNCHANGED entries
     \/ /\ Current(f) # NoEntry /\ ~Conflicts(f) /\ sameLiveness(Current(f).frame, f)
        /\ decision' = "duplicate" /\ UNCHANGED entries
     \/ /\ Current(f) # NoEntry /\ ~Conflicts(f) /\ ~sameLiveness(Current(f).frame, f)
        /\ IF Stale(f) THEN decision' = "announce_stale" /\ UNCHANGED entries
                       ELSE decision' = "refreshed" /\ Store(f)

\* A first or newer sequence: withdrawal, stale, or accepted.
Remember_Zero(f) == sequences' = [sequences EXCEPT ![f.signed.nid] = 0]
Remember(f) == sequences' = [sequences EXCEPT ![f.signed.nid] = SeqOf(f)]
Withdraw(f) == Remember(f)

ApplyNewSeq(f) ==
  /\ ~IsRollback(f) /\ ~SameSeq(f)
  /\ \/ /\ f.signed.ttl = 0
        /\ Withdraw(f)
        /\ entries' = [entries EXCEPT ![f.signed.nid] = NoEntry]
        /\ decision' = "removed"
     \/ /\ f.signed.ttl > 0 /\ Stale(f)
        /\ decision' = "announce_stale" /\ UNCHANGED <<entries, sequences>>
     \/ /\ f.signed.ttl > 0 /\ ~Stale(f)
        /\ Remember(f) /\ Store(f)
        /\ decision' = "accepted"

ApplyAnnounce(f, signatureValid) ==
  /\ UNCHANGED <<localDev, now>>
  /\ \/ /\ Malformed(f, signatureValid)
        /\ decision' = "rejected" /\ UNCHANGED <<entries, sequences>>
     \/ /\ ~Malformed(f, signatureValid) /\ IsRollback(f)
        /\ decision' = "graph_seq_rollback" /\ UNCHANGED <<entries, sequences>>
     \/ /\ ~Malformed(f, signatureValid) /\ ~IsRollback(f)
        /\ ApplySameSeq(f) \/ ApplyNewSeq(f)

Tick == /\ now < MaxTime
        /\ now' = now + 1
        /\ UNCHANGED <<localDev, entries, sequences, decision>>

Next == Tick \/ \E f \in Frame, sig \in BOOLEAN : ApplyAnnounce(f, sig)

Spec == Init /\ [][Next]_vars

-----------------------------------------------------------------------------
LiveNIDs == {n \in Nid : entries[n] # NoEntry /\ entries[n].expiresAt > now}

\* Every variable holds a value of its kind.
TypeOK == /\ localDev \in BOOLEAN
          /\ entries \in [Nid -> Entry \cup {NoEntry}]
          /\ sequences \in [Nid -> {Absent} \cup 0 .. MaxSeq]
          /\ now \in Time
          /\ decision \in {"none", "rejected", "graph_seq_rollback", "duplicate", "refreshed",
                           "announce_conflict", "announce_stale", "accepted", "removed"}

\* What the registry holds for a node is the announce with the highest sequence
\* it has admitted: after a withdrawal or an update no older announce, replayed
\* or late, can come back.
EntryIsNewest == \A n \in Nid : entries[n] # NoEntry => SeqOf(entries[n].frame) = sequences[n]

\* At one sequence a node has one signed body: two announces that disagree are
\* never both admitted, and a heartbeat changes liveness only.
OneBodyPerSequence ==
  [][\A n \in Nid : entries[n] # NoEntry /\ entries'[n] # NoEntry
                      /\ sequences'[n] = sequences[n]
                      => entries'[n].frame.signed = entries[n].frame.signed]_vars

\* The sequence a node is known by never falls, through withdrawal and expiry, and
\* a node that withdrew comes back only with a sequence above its withdrawal: an
\* announce delayed past the withdrawal does not resurrect it.
ReturnNeedsNewer ==
  [][\A n \in Nid :
       /\ sequences'[n] >= sequences[n]
       /\ entries[n] = NoEntry /\ entries'[n] # NoEntry => sequences'[n] > sequences[n]]_vars
=============================================================================

-------------------------- MODULE LlmContextStore --------------------------
(***************************************************************************)
(* InMemoryLlmContextStore (nwp/llm_context_store.go).                     *)
(*                                                                         *)
(* Every operation holds the store's mutex, so each is one action; what is *)
(* interleaved is the time between Reserve and its Commit or Abort, during *)
(* which a provider runs.  A transcript is the sequence of the             *)
(* reservations that contributed a turn to it.                             *)
(***************************************************************************)
EXTENDS Integers, Sequences, FiniteSets

CONSTANTS
  Owner, Ctx, Key,           \* principals, context ids, idempotency keys
  Binding,                   \* binding fingerprints
  None,                      \* an absent owner, context, key or binding
  MaxContextsPerPrincipal, DefaultTTL, MaxTTL, TombstoneSeconds, IdempotencyTTL,
  TTLs,                      \* ttl_seconds values requests carry; 0 = omitted
  MaxReservations, MaxTime   \* model bounds

ASSUME LlmNames == None \notin Owner \cup Ctx \cup Key \cup Binding
ASSUME LlmFinite == IsFiniteSet(Ctx)
ASSUME LlmOptions ==
  /\ MaxContextsPerPrincipal \in Nat /\ DefaultTTL \in Nat \ {0} /\ MaxTTL \in Nat \ {0}
  /\ TombstoneSeconds \in Nat \ {0} /\ IdempotencyTTL \in Nat \ {0}
  /\ TTLs \subseteq Nat /\ MaxReservations \in Nat /\ MaxTime \in Nat

\* Reservation ids are drawn afresh: the model numbers them.
Res == 1 .. MaxReservations
Never == -1  \* a nil time

Mutations == {"append", "reset"}
Allocations == {"create", "fork"}

Time == Nat \cup {Never}

Entry == [state : {"none", "active", "expired", "released"}, owner : Owner \cup {None},
          version : Nat, binding : Binding \cup {None}, transcript : Seq(Res),
          ttl : Nat, expiresAt : Time, tombstoneUntil : Time, reservation : Res \cup {0}]

Reservation == [op : Allocations \cup Mutations \cup {"none"}, owner : Owner \cup {None},
                ctx : Ctx \cup {None}, base : Nat, key : Key \cup {None}, binding : Binding \cup {None},
                transcript : Seq(Res), ttl : Nat]

\* A completion's idempotency record; ctx and version are its receipt's.
Outcome == [state : {"none", "busy", "failed", "completed"}, by : Res \cup {0}, ctx : Ctx \cup {None},
            version : Nat, retainUntil : Nat]

\* A release's.
Released == [done : BOOLEAN, ctx : Ctx \cup {None}, base : Nat, version : Nat, retainUntil : Nat]

Absent == [state |-> "none", owner |-> None, version |-> 0, binding |-> None,
           transcript |-> <<>>, ttl |-> 0, expiresAt |-> Never, tombstoneUntil |-> Never,
           reservation |-> 0]
NoReservation == [op |-> "none", owner |-> None, ctx |-> None, base |-> 0, key |-> None,
                  binding |-> None, transcript |-> <<>>, ttl |-> 0]
NoOutcome == [state |-> "none", by |-> 0, ctx |-> None, version |-> 0, retainUntil |-> 0]
NoRelease == [done |-> FALSE, ctx |-> None, base |-> 0, version |-> 0, retainUntil |-> 0]

VARIABLES
  contexts,      \* s.contexts
  reservations,  \* s.reservations; op "none" = not in the map
  nextRes,       \* reservation ids handed out
  outcomes,      \* s.idempotency, the llm.complete keys
  releases,      \* s.idempotency, the llm.context.release keys
  now

vars == <<contexts, reservations, nextRes, outcomes, releases, now>>

Init ==
  /\ contexts = [c \in Ctx |-> Absent]
  /\ reservations = [r \in Res |-> NoReservation]
  /\ nextRes = 0
  /\ outcomes = [o \in Owner |-> [k \in Key |-> NoOutcome]]
  /\ releases = [o \in Owner |-> [k \in Key |-> NoRelease]]
  /\ now = 0

-----------------------------------------------------------------------------
(* sweepLocked: idle contexts expire, elapsed tombstones and outcomes go.   *)

Elapsed(t) == t # Never /\ t <= now

Expires_Reserved(e) == e.state = "active" /\ Elapsed(e.expiresAt)
Expires(e) == e.state = "active" /\ e.reservation = 0 /\ Elapsed(e.expiresAt)

Swept_NoTombstone(e) == IF Expires(e) THEN Absent ELSE e

Swept(e) ==
  IF Expires(e)
  THEN [e EXCEPT !.state = "expired", !.expiresAt = Never, !.tombstoneUntil = now + TombstoneSeconds]
  ELSE IF e.state \in {"expired", "released"} /\ Elapsed(e.tombstoneUntil) THEN Absent
  ELSE e

SweptContexts == [c \in Ctx |-> Swept(contexts[c])]

Forgettable_Busy(x) == x.state # "none" /\ x.retainUntil <= now
Forgettable(x) == x.state \notin {"none", "busy"} /\ x.retainUntil <= now

SweptOutcomes ==
  [o \in Owner |-> [k \in Key |-> IF Forgettable(outcomes[o][k]) THEN NoOutcome ELSE outcomes[o][k]]]

SweptReleases ==
  [o \in Owner |-> [k \in Key |-> IF releases[o][k].done /\ releases[o][k].retainUntil <= now
                                  THEN NoRelease ELSE releases[o][k]]]

\* The whole effect of an operation that fails after its sweep, of Status and
\* Snapshot, and of SweepExpired.
Sweep ==
  /\ contexts' = SweptContexts /\ outcomes' = SweptOutcomes /\ releases' = SweptReleases
  /\ UNCHANGED <<reservations, nextRes, now>>

-----------------------------------------------------------------------------
(* Reserve.                                                                *)

clampTTL(t) == IF t <= MaxTTL THEN t ELSE MaxTTL

\* What a fork inherits, at least one second.
remainingTTL(expiresAt) ==
  IF expiresAt = Never THEN 0 ELSE IF expiresAt - now > 1 THEN expiresAt - now ELSE 1

\* 0 stands for nil.
effectiveTTL(op, ttl, c) ==
  IF op = "create" THEN clampTTL(IF ttl = 0 THEN DefaultTTL ELSE ttl)
  ELSE IF ttl # 0 THEN clampTTL(ttl)
  ELSE IF op = "fork" THEN remainingTTL(SweptContexts[c].expiresAt)
  ELSE SweptContexts[c].ttl

LiveOf(cs, o) == {c \in Ctx : cs[c].state = "active" /\ cs[c].owner = o}
PendingOf(o) == {r \in Res : reservations[r].op \in Allocations /\ reservations[r].owner = o}

AllocationAvailable_LiveOnly(cs, o) == Cardinality(LiveOf(cs, o)) < MaxContextsPerPrincipal

AllocationAvailable(cs, o) ==
  Cardinality(LiveOf(cs, o)) + Cardinality(PendingOf(o)) < MaxContextsPerPrincipal

\* requireMutable, then the compare-and-set on the version.
Mutable(e, o) == e.state = "active" /\ e.owner = o

Unclaimed_Versioned(e, v) == e.version = v
Unclaimed(e, v) == e.reservation = 0 /\ e.version = v

\* The refusals of Reserve, over the swept state.
ReserveAdmits(op, o, c, v, b, k) ==
  /\ SweptOutcomes[o][k].state = "none"
  /\ op # "create" => /\ Mutable(SweptContexts[c], o)
                      /\ Unclaimed(SweptContexts[c], v)
                      /\ op \in {"append", "fork"} => SweptContexts[c].binding = b
  /\ op \in Allocations => AllocationAvailable(SweptContexts, o)

\* A fork holds no claim on its parent; append and reset do.
Claim(op, c, r) ==
  contexts' = IF op \in Mutations THEN [SweptContexts EXCEPT ![c].reservation = r]
                                  ELSE SweptContexts

Reserve(op, o, c, v, b, ttl, k) ==
  /\ nextRes < MaxReservations
  /\ ReserveAdmits(op, o, c, v, b, k)
  /\ LET r == nextRes + 1
     IN  /\ nextRes' = r
         /\ reservations' =
              [reservations EXCEPT ![r] =
                 [op |-> op, owner |-> o, ctx |-> c, base |-> v,
                  key |-> k, binding |-> b,
                  transcript |-> IF op = "create" THEN <<>> ELSE SweptContexts[c].transcript,
                  ttl |-> effectiveTTL(op, ttl, c)]]
         /\ outcomes' =
              [SweptOutcomes EXCEPT ![o][k] =
                 [state |-> "busy", by |-> r, ctx |-> None, version |-> 0,
                  retainUntil |-> now + IdempotencyTTL]]
         /\ Claim(op, c, r)
  /\ releases' = SweptReleases
  /\ UNCHANGED now

-----------------------------------------------------------------------------
(* Commit and Abort, only with an active reservation; a second call with   *)
(* the same one is refused and changes nothing.                            *)

Active(r) == reservations[r].op # "none"

Drop(r) == reservations' = [reservations EXCEPT ![r] = NoReservation]

Expiry(ttl) == IF ttl = 0 THEN Never ELSE now + ttl

Complete(r, c, version) ==
  LET q == reservations[r]
  IN  outcomes' = [outcomes EXCEPT ![q.owner][q.key] =
                     [state |-> "completed", by |-> 0, ctx |-> c, version |-> version,
                      retainUntil |-> now + IdempotencyTTL]]

\* create and fork: a new context at version 1, under an id the factory makes
\* and no entry has.  When nextContextID fails Commit does, and the reservation
\* stays as it was.
CommitAllocation(r, c) ==
  /\ reservations[r].op \in Allocations
  /\ contexts[c].state = "none"
  /\ LET q == reservations[r]
     IN  contexts' = [contexts EXCEPT ![c] =
                        [state |-> "active", owner |-> q.owner, version |-> 1,
                         binding |-> q.binding, transcript |-> Append(q.transcript, r),
                         ttl |-> q.ttl, expiresAt |-> Expiry(q.ttl), tombstoneUntil |-> Never,
                         reservation |-> 0]]
  /\ Complete(r, c, 1)
  /\ Drop(r)
  /\ UNCHANGED <<nextRes, releases, now>>

\* append and reset: the next version of the reserved context.
NextEntry_SameVersion(r, e) ==
  [e EXCEPT !.reservation = 0, !.binding = reservations[r].binding, !.transcript = <<r>>]

NextEntry(r, e) ==
  LET q == reservations[r]
  IN  [e EXCEPT !.version = e.version + 1, !.state = "active",
                !.reservation = 0, !.ttl = q.ttl, !.expiresAt = Expiry(q.ttl),
                !.binding = IF q.op = "reset" THEN q.binding ELSE e.binding,
                !.transcript = IF q.op = "reset" THEN <<r>> ELSE Append(e.transcript, r)]

CommitMutation(r) ==
  /\ reservations[r].op \in Mutations
  /\ LET c == reservations[r].ctx
     IN  /\ contexts[c].state # "none"
         /\ contexts' = [contexts EXCEPT ![c] = NextEntry(r, contexts[c])]
         /\ Complete(r, c, contexts[c].version + 1)
  /\ Drop(r)
  /\ UNCHANGED <<nextRes, releases, now>>

\* clearReservation: only the context that still carries this reservation.
ClearReservation(r) ==
  [c \in Ctx |-> IF c = reservations[r].ctx /\ contexts[c].reservation = r
                 THEN [contexts[c] EXCEPT !.reservation = 0] ELSE contexts[c]]

\* Abort: clear the claim, forget the reservation, keep the failure, sweep.
Abort(r) ==
  /\ Active(r)
  /\ LET q == reservations[r]
     IN  /\ contexts' = [c \in Ctx |-> Swept(ClearReservation(r)[c])]
         /\ outcomes' = [SweptOutcomes EXCEPT ![q.owner][q.key] =
                           [state |-> "failed", by |-> 0, ctx |-> None, version |-> 0,
                            retainUntil |-> now + IdempotencyTTL]]
  /\ Drop(r)
  /\ releases' = SweptReleases
  /\ UNCHANGED <<nextRes, now>>

-----------------------------------------------------------------------------
\* Release: a tombstone at the next version; a known key only replays its
\* receipt or conflicts, both after the sweep alone.
Release(o, c, v, k) ==
  /\ ~SweptReleases[o][k].done
  /\ Mutable(SweptContexts[c], o) /\ Unclaimed(SweptContexts[c], v)
  /\ contexts' = [SweptContexts EXCEPT ![c].version = v + 1, ![c].state = "released",
                                       ![c].expiresAt = Never,
                                       ![c].tombstoneUntil = now + TombstoneSeconds]
  /\ releases' = [SweptReleases EXCEPT ![o][k] =
                    [done |-> TRUE, ctx |-> c, base |-> v, version |-> v + 1,
                     retainUntil |-> now + IdempotencyTTL]]
  /\ outcomes' = SweptOutcomes
  /\ UNCHANGED <<reservations, nextRes, now>>

Tick ==
  /\ now < MaxTime
  /\ now' = now + 1
  /\ UNCHANGED <<contexts, reservations, nextRes, outcomes, releases>>

ReserveAny ==
  \E o \in Owner, b \in Binding, ttl \in TTLs, k \in Key :
    \/ Reserve("create", o, None, 0, b, ttl, k)
    \/ \E op \in Mutations \cup {"fork"}, c \in Ctx, v \in Res : Reserve(op, o, c, v, b, ttl, k)

Next ==
  \/ ReserveAny
  \/ \E r \in Res : (\E c \in Ctx : CommitAllocation(r, c)) \/ CommitMutation(r) \/ Abort(r)
  \/ \E o \in Owner, c \in Ctx, v \in Res, k \in Key : Release(o, c, v, k)
  \/ Sweep
  \/ Tick

Spec == Init /\ [][Next]_vars

-----------------------------------------------------------------------------
(* Properties.                                                             *)

\* The values each variable holds.  A reservation id not yet drawn has no
\* reservation; an ended context is unclaimed and has a date to go, an active
\* one has none.
TypeOK ==
  /\ contexts \in [Ctx -> Entry]
  /\ reservations \in [Res -> Reservation]
  /\ nextRes \in 0 .. MaxReservations
  /\ outcomes \in [Owner -> [Key -> Outcome]]
  /\ releases \in [Owner -> [Key -> Released]]
  /\ now \in 0 .. MaxTime
  /\ \A r \in Res : r > nextRes => reservations[r] = NoReservation
  /\ \A c \in Ctx :
       /\ contexts[c].state \in {"expired", "released"} =>
            contexts[c].reservation = 0 /\ contexts[c].tombstoneUntil # Never
       /\ contexts[c].state \in {"none", "active"} => contexts[c].tombstoneUntil = Never

\* A principal's live contexts and the allocations still with a provider
\* together never exceed MaxContextsPerPrincipal: ensureAllocationAvailable is
\* asked at Reserve, and no interleaving of later Commits overshoots it.
AllocationBound ==
  \A o \in Owner : Cardinality(LiveOf(contexts, o)) + Cardinality(PendingOf(o)) <= MaxContextsPerPrincipal

\* While an append or reset is with its provider, its context stays as Reserve
\* saw it: active though its TTL may have elapsed, claimed by this reservation
\* alone, at the caller's base version and with the transcript the provider was
\* given.  So a Commit never applies an answer to another conversation.
ReservationHoldsContext ==
  \A r \in Res : LET q == reservations[r] IN
    q.op \in Mutations =>
      /\ contexts[q.ctx].state = "active" /\ contexts[q.ctx].owner = q.owner
      /\ contexts[q.ctx].reservation = r
      /\ contexts[q.ctx].version = q.base
      /\ contexts[q.ctx].transcript = q.transcript

\* A claim on a context and a busy idempotency key both belong to a running
\* reservation, and each running one has its key: an Abort or Commit leaves
\* neither behind, and no sweep forgets the key of a slow provider.
ClaimsAreRunning ==
  /\ \A c \in Ctx : contexts[c].reservation # 0 =>
       reservations[contexts[c].reservation].ctx = c /\ reservations[contexts[c].reservation].op \in Mutations
  /\ \A o \in Owner, k \in Key : outcomes[o][k].state = "busy" =>
       LET r == outcomes[o][k].by
       IN  r # 0 /\ Active(r) /\ reservations[r].owner = o /\ reservations[r].key = k
  /\ \A r \in Res : Active(r) =>
       LET x == outcomes[reservations[r].owner][reservations[r].key] IN x.state = "busy" /\ x.by = r

\* One entry's step: as it was but for its claim and dates, or the next version
\* of an active one.
Versioned(e, f) ==
  e.state # "none" /\ f.state # "none" =>
    \/ f.version = e.version /\ f.transcript = e.transcript /\ f.binding = e.binding
       /\ (f.state = "released" => e.state = "released")
    \/ f.version = e.version + 1 /\ e.state = "active"

\* The version names the content: it never goes back while the entry exists, and
\* transcript, binding or a release change only together with a step of one.
VersionNamesContent == [][\A c \in Ctx : Versioned(contexts[c], contexts'[c])]_vars

\* A completion whose receipt is still retained can be resolved: its context,
\* or its tombstone, is there at that version or a later one.  With a tombstone
\* shorter than the idempotency TTL statusFromReceiptLocked would answer the
\* receipt's "active" for a context that is gone.
ReceiptsResolve ==
  TombstoneSeconds >= IdempotencyTTL =>
    \A o \in Owner, k \in Key : LET x == outcomes[o][k] IN
      x.state = "completed" =>
        contexts[x.ctx].state # "none" /\ contexts[x.ctx].owner = o /\ contexts[x.ctx].version >= x.version
=============================================================================

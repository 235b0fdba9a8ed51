----------------------- MODULE LlmContextStoreLemmas -----------------------
(***************************************************************************)
(* The inductive invariant of the context store and why the sweep, the     *)
(* releases and the ends of reservations keep it.                          *)
(***************************************************************************)
EXTENDS LlmContextStore, FiniteSetTheorems, TLAPS

\* A running reservation names a principal and a key, and a mutation a context.
Addressed ==
  \A r \in Res : Active(r) =>
    /\ reservations[r].owner \in Owner /\ reservations[r].key \in Key
    /\ reservations[r].op \in Mutations => reservations[r].ctx \in Ctx

IInv == TypeOK /\ Addressed /\ ReservationHoldsContext /\ ClaimsAreRunning /\ AllocationBound

-----------------------------------------------------------------------------
(* sweepLocked.                                                            *)

\* The entry of a context that is not there.
LEMMA AbsentType ==
  Absent \in Entry /\ Absent.state = "none" /\ Absent.reservation = 0 /\ Absent.tombstoneUntil = Never
<1>1. Never \in Time
  BY DEF Time
<1>2. <<>> \in Seq(Res)
  OBVIOUS
<1> QED BY <1>1, <1>2 DEF Absent, Entry

\* The sweep keeps the types, keeps every claimed context and every running
\* key as it was, and makes nothing live.
LEMMA SweepFacts ==
  ASSUME TypeOK
  PROVE  /\ SweptContexts \in [Ctx -> Entry]
         /\ SweptOutcomes \in [Owner -> [Key -> Outcome]]
         /\ SweptReleases \in [Owner -> [Key -> Released]]
         /\ \A c \in Ctx : contexts[c].reservation # 0 => SweptContexts[c] = contexts[c]
         /\ \A c \in Ctx : SweptContexts[c].reservation = contexts[c].reservation
         /\ \A c \in Ctx : SweptContexts[c].state = "active" => SweptContexts[c] = contexts[c]
         /\ \A c \in Ctx :
              /\ SweptContexts[c].state \in {"expired", "released"} =>
                   SweptContexts[c].reservation = 0 /\ SweptContexts[c].tombstoneUntil # Never
              /\ SweptContexts[c].state \in {"none", "active"} => SweptContexts[c].tombstoneUntil = Never
         /\ \A o \in Owner, k \in Key :
              (outcomes[o][k].state = "busy" \/ SweptOutcomes[o][k].state = "busy")
                => SweptOutcomes[o][k] = outcomes[o][k]
<1> USE DEF TypeOK
<1>a. TombstoneSeconds \in Nat \ {0} /\ now \in Nat
  BY LlmOptions
<1>b. ASSUME NEW c \in Ctx
      PROVE  /\ Swept(contexts[c]) \in Entry
             /\ contexts[c].reservation # 0 => Swept(contexts[c]) = contexts[c]
             /\ Swept(contexts[c]).reservation = contexts[c].reservation
             /\ Swept(contexts[c]).state = "active" => Swept(contexts[c]) = contexts[c]
             /\ Swept(contexts[c]).state \in {"expired", "released"} =>
                   Swept(contexts[c]).reservation = 0 /\ Swept(contexts[c]).tombstoneUntil # Never
             /\ Swept(contexts[c]).state \in {"none", "active"} => Swept(contexts[c]).tombstoneUntil = Never
  <2> DEFINE e == contexts[c]
  <2>1. /\ e \in Entry
        /\ e.state \in {"expired", "released"} => e.reservation = 0 /\ e.tombstoneUntil # Never
        /\ e.state \in {"none", "active"} => e.tombstoneUntil = Never
    OBVIOUS
  <2> HIDE DEF e
  <2>2. CASE Expires(e)
    <3> DEFINE f == [e EXCEPT !.state = "expired", !.expiresAt = Never,
                              !.tombstoneUntil = now + TombstoneSeconds]
    <3>1. Swept(e) = f
      BY <2>2 DEF Swept
    <3>2. f \in Entry
      <4>1. now + TombstoneSeconds \in Time /\ Never \in Time
        BY <1>a DEF Time
      <4> QED BY <2>1, <4>1 DEF Entry
    <3>3. f.state = "expired" /\ f.reservation = e.reservation /\ e.reservation = 0 /\ f.tombstoneUntil # Never
      BY <2>1, <2>2, <1>a DEF Entry, Expires, Never
    <3> QED BY <3>1, <3>2, <3>3 DEF e
  <2>3. CASE ~Expires(e) /\ e.state \in {"expired", "released"} /\ Elapsed(e.tombstoneUntil)
    <3>1. Swept(e) = Absent
      BY <2>3 DEF Swept
    <3>2. Absent \in Entry
      BY DEF Absent, Entry, Time, Never
    <3> QED BY <3>1, <3>2, <2>1, <2>3 DEF e, Absent
  <2>4. CASE ~Expires(e) /\ ~(e.state \in {"expired", "released"} /\ Elapsed(e.tombstoneUntil))
    <3>1. Swept(e) = e
      BY <2>4 DEF Swept
    <3> QED BY <3>1, <2>1 DEF e
  <2> QED BY <2>2, <2>3, <2>4
<1>1. /\ SweptContexts \in [Ctx -> Entry]
      /\ \A c \in Ctx : SweptContexts[c] = Swept(contexts[c])
  BY <1>b DEF SweptContexts
<1>2. SweptOutcomes \in [Owner -> [Key -> Outcome]]
  <2>1. NoOutcome \in Outcome
    BY DEF NoOutcome, Outcome
  <2> QED BY <2>1 DEF SweptOutcomes
<1>3. SweptReleases \in [Owner -> [Key -> Released]]
  <2>1. NoRelease \in Released
    BY DEF NoRelease, Released
  <2> QED BY <2>1 DEF SweptReleases
<1>4. ASSUME NEW o \in Owner, NEW k \in Key, outcomes[o][k].state = "busy" \/ SweptOutcomes[o][k].state = "busy"
      PROVE  SweptOutcomes[o][k] = outcomes[o][k]
  BY <1>4 DEF SweptOutcomes, Forgettable, NoOutcome
<1> QED BY <1>1, <1>2, <1>3, <1>4, <1>b

\* The sweep leaves no principal with more live contexts.
LEMMA SweepLive ==
  ASSUME TypeOK, NEW o \in Owner
  PROVE  /\ LiveOf(SweptContexts, o) \subseteq LiveOf(contexts, o)
         /\ IsFiniteSet(LiveOf(contexts, o)) /\ IsFiniteSet(PendingOf(o))
         /\ Cardinality(LiveOf(SweptContexts, o)) \in Nat
         /\ Cardinality(LiveOf(contexts, o)) \in Nat
         /\ Cardinality(PendingOf(o)) \in Nat
         /\ Cardinality(LiveOf(SweptContexts, o)) <= Cardinality(LiveOf(contexts, o))
<1>1. LiveOf(SweptContexts, o) \subseteq LiveOf(contexts, o)
  BY SweepFacts DEF LiveOf
<1>2. IsFiniteSet(LiveOf(contexts, o))
  BY FS_Subset, LlmFinite DEF LiveOf
<1>3. IsFiniteSet(PendingOf(o))
  <2>1. IsFiniteSet(Res)
    BY FS_Interval, LlmOptions DEF Res
  <2> QED BY <2>1, FS_Subset DEF PendingOf
<1> QED BY <1>1, <1>2, <1>3, FS_Subset, FS_CardinalityType

-----------------------------------------------------------------------------
(* The operations.                                                         *)

LEMMA InitIInv == Init => IInv
<1> SUFFICES ASSUME Init PROVE IInv
  OBVIOUS
<1> USE DEF Init
<1>1. TypeOK
  <2>1. Absent \in Entry
    BY DEF Absent, Entry, Time, Never
  <2>2. NoReservation \in Reservation
    BY DEF NoReservation, Reservation
  <2>3. NoOutcome \in Outcome /\ NoRelease \in Released
    BY DEF NoOutcome, NoRelease, Outcome, Released
  <2>4. 0 \in 0 .. MaxReservations /\ 0 \in 0 .. MaxTime
    BY LlmOptions
  <2>5. Absent.state = "none" /\ Absent.tombstoneUntil = Never
    BY DEF Absent
  <2> QED BY <2>1, <2>2, <2>3, <2>4, <2>5 DEF TypeOK
<1>2. \A r \in Res : reservations[r].op = "none"
  BY DEF NoReservation
<1>3. Addressed /\ ReservationHoldsContext
  BY <1>2 DEF Addressed, Active, ReservationHoldsContext, Mutations
<1>4. ClaimsAreRunning
  BY <1>2 DEF ClaimsAreRunning, Active, Absent, NoOutcome
<1>5. AllocationBound
  <2> SUFFICES ASSUME NEW o \in Owner
               PROVE  Cardinality(LiveOf(contexts, o)) + Cardinality(PendingOf(o)) <= MaxContextsPerPrincipal
    BY DEF AllocationBound
  <2>1. LiveOf(contexts, o) = {} /\ PendingOf(o) = {}
    BY <1>2 DEF LiveOf, PendingOf, Absent, Allocations
  <2>2. Cardinality(LiveOf(contexts, o)) = 0 /\ Cardinality(PendingOf(o)) = 0
    BY <2>1, FS_EmptySet
  <2> QED BY <2>2, LlmOptions
<1> QED BY <1>1, <1>3, <1>4, <1>5 DEF IInv

\* A busy key and the reservation that runs under it.
LEMMA BusyKey ==
  ASSUME ClaimsAreRunning, NEW o \in Owner, NEW k \in Key, outcomes[o][k].state = "busy"
  PROVE  LET r == outcomes[o][k].by
         IN  r # 0 /\ Active(r) /\ reservations[r].owner = o /\ reservations[r].key = k
  BY DEF ClaimsAreRunning

LEMMA RunningKey ==
  ASSUME ClaimsAreRunning, NEW r \in Res, Active(r)
  PROVE  LET x == outcomes[reservations[r].owner][reservations[r].key] IN x.state = "busy" /\ x.by = r
  BY DEF ClaimsAreRunning

\* A step that keeps the reservations, the claims and the busy keys.
LEMMA ClaimsKept ==
  ASSUME IInv, UNCHANGED reservations,
         \A c \in Ctx : contexts'[c].reservation = contexts[c].reservation,
         \A o \in Owner, k \in Key :
            (outcomes[o][k].state = "busy" \/ outcomes'[o][k].state = "busy")
              => outcomes'[o][k] = outcomes[o][k]
  PROVE  ClaimsAreRunning'
<1>a. ClaimsAreRunning
  BY DEF IInv
<1>1. \A c \in Ctx : contexts'[c].reservation # 0 =>
        /\ reservations'[contexts'[c].reservation].ctx = c
        /\ reservations'[contexts'[c].reservation].op \in Mutations
  BY <1>a DEF ClaimsAreRunning
<1>2. ASSUME NEW o \in Owner, NEW k \in Key, outcomes'[o][k].state = "busy"
      PROVE  LET r == outcomes'[o][k].by
             IN  r # 0 /\ reservations'[r].op # "none" /\ reservations'[r].owner = o /\ reservations'[r].key = k
  <2>1. outcomes'[o][k] = outcomes[o][k]
    BY <1>2
  <2> QED BY <1>2, <2>1, <1>a, BusyKey DEF Active
<1>3. ASSUME NEW r \in Res, reservations'[r].op # "none"
      PROVE  LET x == outcomes'[reservations'[r].owner][reservations'[r].key] IN x.state = "busy" /\ x.by = r
  <2>1. Active(r)
    BY <1>3 DEF Active
  <2>2. reservations[r].owner \in Owner /\ reservations[r].key \in Key
    BY <2>1 DEF IInv, Addressed
  <2>3. LET x == outcomes[reservations[r].owner][reservations[r].key] IN x.state = "busy" /\ x.by = r
    BY <2>1, <1>a, RunningKey
  <2> QED BY <2>2, <2>3
<1> QED BY <1>1, <1>2, <1>3 DEF ClaimsAreRunning, Active

LEMMA SweepIInv ==
  ASSUME IInv, Sweep
  PROVE  IInv'
<1> USE DEF IInv, Sweep
<1>1. TypeOK'
  BY SweepFacts DEF TypeOK
<1>2. Addressed'
  BY DEF Addressed, Active
<1>3. ReservationHoldsContext'
  <2> SUFFICES ASSUME NEW r \in Res, reservations[r].op \in Mutations
               PROVE  contexts'[reservations[r].ctx] = contexts[reservations[r].ctx]
    BY DEF ReservationHoldsContext
  <2>1. reservations[r].ctx \in Ctx
    BY DEF Addressed, Active, Mutations
  <2>2. contexts[reservations[r].ctx].reservation # 0
    BY LlmOptions DEF ReservationHoldsContext, Res
  <2> QED BY <2>1, <2>2, SweepFacts
<1>4. ClaimsAreRunning'
  BY SweepFacts, ClaimsKept
<1>5. AllocationBound'
  <2> SUFFICES ASSUME NEW o \in Owner
               PROVE  Cardinality(LiveOf(SweptContexts, o)) + Cardinality(PendingOf(o)) <= MaxContextsPerPrincipal
    BY DEF AllocationBound, PendingOf
  <2> QED BY SweepLive, LlmOptions DEF AllocationBound
<1> QED BY <1>1, <1>2, <1>3, <1>4, <1>5

\* What the claims are about is in three variables.
LEMMA ClaimsFrame ==
  ASSUME Addressed, ReservationHoldsContext, ClaimsAreRunning, UNCHANGED <<contexts, reservations, outcomes>>
  PROVE  Addressed' /\ ReservationHoldsContext' /\ ClaimsAreRunning'
<1>1. Addressed'
  BY DEF Addressed, Active
<1>2. ReservationHoldsContext'
  BY DEF ReservationHoldsContext
<1>3. ClaimsAreRunning'
  BY DEF ClaimsAreRunning, Active
<1> QED BY <1>1, <1>2, <1>3

LEMMA TickIInv ==
  ASSUME IInv, Tick
  PROVE  IInv'
<1> USE DEF IInv, Tick
<1>1. TypeOK'
  BY LlmOptions DEF TypeOK
<1>2. Addressed' /\ ReservationHoldsContext' /\ ClaimsAreRunning'
  BY ClaimsFrame
<1>3. AllocationBound'
  BY DEF AllocationBound, LiveOf, PendingOf
<1> QED BY <1>1, <1>2, <1>3

\* Release is a sweep and a tombstone on a context no reservation claims.
LEMMA ReleaseIInv ==
  ASSUME IInv, NEW o \in Owner, NEW c \in Ctx, NEW v \in Res, NEW k \in Key, Release(o, c, v, k)
  PROVE  IInv'
<1> USE DEF IInv
<1> DEFINE e == SweptContexts[c]
           f == [e EXCEPT !.version = v + 1, !.state = "released", !.expiresAt = Never,
                          !.tombstoneUntil = now + TombstoneSeconds]
           x == [done |-> TRUE, ctx |-> c, base |-> v, version |-> v + 1, retainUntil |-> now + IdempotencyTTL]
<1>a. now \in Nat /\ v \in Nat /\ TombstoneSeconds \in Nat /\ IdempotencyTTL \in Nat
  BY LlmOptions DEF TypeOK, Res
<1>b. e \in Entry /\ e.reservation = 0 /\ contexts[c].reservation = 0 /\ e.state = "active"
  BY SweepFacts DEF Release, Unclaimed, Mutable
<1>c. contexts' = [SweptContexts EXCEPT ![c] = f]
  BY SweepFacts DEF Release
<1>d. f \in Entry /\ f.state = "released" /\ f.reservation = 0 /\ f.tombstoneUntil # Never
  <2>1. now + TombstoneSeconds \in Time /\ Never \in Time /\ v + 1 \in Nat /\ now + TombstoneSeconds # Never
    BY <1>a DEF Time, Never
  <2> QED BY <1>b, <2>1 DEF Entry
<1>e. reservations' = reservations /\ nextRes' = nextRes /\ now' = now /\ outcomes' = SweptOutcomes
  BY DEF Release
<1> HIDE DEF f
<1>1. TypeOK'
  <2>1. contexts' \in [Ctx -> Entry]
    BY <1>c, <1>d, SweepFacts
  <2>2. x \in Released
    BY <1>a DEF Released
  <2>3. releases' \in [Owner -> [Key -> Released]]
    BY <2>2, SweepFacts DEF Release
  <2>4. \A d \in Ctx :
          /\ contexts'[d].state \in {"expired", "released"} =>
               contexts'[d].reservation = 0 /\ contexts'[d].tombstoneUntil # Never
          /\ contexts'[d].state \in {"none", "active"} => contexts'[d].tombstoneUntil = Never
    BY <1>c, <1>d, SweepFacts
  <2> QED BY <2>1, <2>3, <2>4, <1>e, SweepFacts DEF TypeOK
<1>2. Addressed'
  BY <1>e DEF Addressed, Active
<1>3. ReservationHoldsContext'
  <2> SUFFICES ASSUME NEW r \in Res, reservations[r].op \in Mutations
               PROVE  contexts'[reservations[r].ctx] = contexts[reservations[r].ctx]
    BY <1>e DEF ReservationHoldsContext
  <2>1. reservations[r].ctx \in Ctx
    BY DEF Addressed, Active, Mutations
  <2>2. contexts[reservations[r].ctx].reservation # 0
    BY LlmOptions DEF ReservationHoldsContext, Res
  <2> QED BY <2>1, <2>2, <1>b, <1>c, SweepFacts
<1>4. ClaimsAreRunning'
  <2>1. \A d \in Ctx : contexts'[d].reservation = contexts[d].reservation
    BY <1>b, <1>c, <1>d, SweepFacts
  <2>2. \A p \in Owner, j \in Key :
          (outcomes[p][j].state = "busy" \/ outcomes'[p][j].state = "busy")
            => outcomes'[p][j] = outcomes[p][j]
    BY <1>e, SweepFacts
  <2> QED BY <2>1, <2>2, <1>e, ClaimsKept
<1>5. AllocationBound'
  <2> SUFFICES ASSUME NEW p \in Owner
               PROVE  Cardinality(LiveOf(contexts, p)') + Cardinality(PendingOf(p)) <= MaxContextsPerPrincipal
    BY <1>e DEF AllocationBound, PendingOf
  <2>1. LiveOf(contexts, p)' \subseteq LiveOf(contexts, p)
    BY <1>c, <1>d, SweepFacts DEF LiveOf
  <2>2. /\ Cardinality(LiveOf(contexts, p)') <= Cardinality(LiveOf(contexts, p))
        /\ Cardinality(LiveOf(contexts, p)') \in Nat
    BY <2>1, SweepLive, FS_Subset, FS_CardinalityType
  <2> QED BY <2>2, SweepLive, LlmOptions DEF AllocationBound
<1> QED BY <1>1, <1>2, <1>3, <1>4, <1>5

\* A running key is one reservation's only.
LEMMA OwnKey ==
  ASSUME IInv, NEW r \in Res, NEW s \in Res, Active(r), Active(s), r # s
  PROVE  reservations[r].owner # reservations[s].owner \/ reservations[r].key # reservations[s].key
  BY DEF IInv, ClaimsAreRunning

\* Commit and Abort end one reservation: its claim goes, its key is no longer
\* busy, and every other reservation keeps both.
LEMMA Resolved ==
  ASSUME IInv, NEW r \in Res, Active(r), Drop(r),
         \A c \in Ctx : contexts'[c].reservation = IF contexts[c].reservation = r THEN 0 ELSE contexts[c].reservation,
         \A c \in Ctx : contexts[c].reservation \notin {0, r} => contexts'[c] = contexts[c],
         outcomes'[reservations[r].owner][reservations[r].key].state # "busy",
         \A o \in Owner, k \in Key :
            /\ o # reservations[r].owner \/ k # reservations[r].key
            /\ outcomes[o][k].state = "busy" \/ outcomes'[o][k].state = "busy"
            => outcomes'[o][k] = outcomes[o][k]
  PROVE  Addressed' /\ ReservationHoldsContext' /\ ClaimsAreRunning'
<1>a. \A s \in Res : s # 0
  BY LlmOptions DEF Res
<1>b. /\ \A s \in Res \ {r} : reservations'[s] = reservations[s]
      /\ reservations'[r].op = "none"
  BY DEF Drop, NoReservation, IInv, TypeOK
<1>1. Addressed'
  BY <1>b DEF Addressed, Active, IInv, Mutations
<1>2. ReservationHoldsContext'
  <2> SUFFICES ASSUME NEW s \in Res \ {r}, reservations[s].op \in Mutations
               PROVE  contexts'[reservations[s].ctx] = contexts[reservations[s].ctx]
    BY <1>b DEF ReservationHoldsContext, IInv, Mutations
  <2>1. reservations[s].ctx \in Ctx /\ contexts[reservations[s].ctx].reservation = s
    BY DEF IInv, Addressed, Active, Mutations, ReservationHoldsContext
  <2> QED BY <2>1, <1>a
<1>3. ClaimsAreRunning'
  <2>1. ASSUME NEW c \in Ctx, contexts'[c].reservation # 0
        PROVE  /\ reservations'[contexts'[c].reservation].ctx = c
               /\ reservations'[contexts'[c].reservation].op \in Mutations
    <3>1. contexts'[c].reservation = contexts[c].reservation /\ contexts[c].reservation # r
      BY <2>1
    <3>2. contexts[c].reservation \in Res
      BY <3>1, <2>1 DEF IInv, TypeOK, Entry
    <3>3. /\ reservations[contexts[c].reservation].ctx = c
          /\ reservations[contexts[c].reservation].op \in Mutations
      BY <3>1, <2>1 DEF IInv, ClaimsAreRunning
    <3> QED BY <3>1, <3>2, <3>3, <1>b
  <2>2. ASSUME NEW o \in Owner, NEW k \in Key, outcomes'[o][k].state = "busy"
        PROVE  LET s == outcomes'[o][k].by
               IN  s # 0 /\ reservations'[s].op # "none" /\ reservations'[s].owner = o /\ reservations'[s].key = k
    <3>1. o # reservations[r].owner \/ k # reservations[r].key
      BY <2>2
    <3>2. outcomes'[o][k] = outcomes[o][k]
      BY <2>2, <3>1
    <3>3. LET s == outcomes[o][k].by
          IN  s # 0 /\ Active(s) /\ reservations[s].owner = o /\ reservations[s].key = k
      BY <2>2, <3>2, BusyKey DEF IInv
    <3>4. outcomes[o][k].by \in Res \ {r}
      BY <3>1, <3>3 DEF IInv, TypeOK, Outcome
    <3> QED BY <3>2, <3>3, <3>4, <1>b DEF Active
  <2>3. ASSUME NEW s \in Res, reservations'[s].op # "none"
        PROVE  LET x == outcomes'[reservations'[s].owner][reservations'[s].key] IN x.state = "busy" /\ x.by = s
    <3>1. s # r /\ Active(s) /\ reservations'[s] = reservations[s]
      BY <2>3, <1>b DEF Active
    <3>2. reservations[s].owner \in Owner /\ reservations[s].key \in Key
      BY <3>1 DEF IInv, Addressed
    <3>3. LET x == outcomes[reservations[s].owner][reservations[s].key] IN x.state = "busy" /\ x.by = s
      BY <3>1 DEF IInv, ClaimsAreRunning
    <3>4. reservations[s].owner # reservations[r].owner \/ reservations[s].key # reservations[r].key
      BY <3>1, OwnKey
    <3> QED BY <3>1, <3>2, <3>3, <3>4
  <2> QED BY <2>1, <2>2, <2>3 DEF ClaimsAreRunning, Active
<1> QED BY <1>1, <1>2, <1>3

\* A claimed context is an active one.
LEMMA ClaimedIsActive ==
  ASSUME IInv, NEW c \in Ctx, contexts[c].reservation # 0
  PROVE  contexts[c].state = "active"
<1>1. contexts[c].reservation \in Res
  BY DEF IInv, TypeOK, Entry
<1> QED BY <1>1 DEF IInv, ClaimsAreRunning, ReservationHoldsContext

LEMMA ExpiryType == ASSUME TypeOK, NEW ttl \in Nat PROVE Expiry(ttl) \in Time
  BY DEF TypeOK, Expiry, Time

LEMMA AbortIInv ==
  ASSUME IInv, NEW r \in Res, Abort(r)
  PROVE  IInv'
<1> DEFINE q == reservations[r]
           y == [state |-> "failed", by |-> 0, ctx |-> None, version |-> 0, retainUntil |-> now + IdempotencyTTL]
<1>a. /\ Active(r) /\ Drop(r) /\ nextRes' = nextRes /\ now' = now /\ releases' = SweptReleases
      /\ contexts' = [c \in Ctx |-> Swept(ClearReservation(r)[c])]
      /\ outcomes' = [SweptOutcomes EXCEPT ![q.owner][q.key] = y]
  BY DEF Abort
<1>b. q.owner \in Owner /\ q.key \in Key
  BY <1>a DEF IInv, Addressed
<1>c. TypeOK /\ now \in Nat /\ IdempotencyTTL \in Nat /\ TombstoneSeconds \in Nat \ {0}
  BY LlmOptions DEF IInv, TypeOK
<1>d. y \in Outcome
  BY <1>c DEF Outcome
<1>e. ASSUME NEW c \in Ctx
      PROVE  /\ contexts'[c] \in Entry
             /\ contexts'[c].reservation = IF contexts[c].reservation = r THEN 0 ELSE contexts[c].reservation
             /\ contexts[c].reservation \notin {0, r} => contexts'[c] = contexts[c]
             /\ contexts'[c].state = "active" => contexts[c].state = "active" /\ contexts'[c].owner = contexts[c].owner
             /\ contexts'[c].state \in {"expired", "released"} =>
                   contexts'[c].reservation = 0 /\ contexts'[c].tombstoneUntil # Never
             /\ contexts'[c].state \in {"none", "active"} => contexts'[c].tombstoneUntil = Never
  <2> DEFINE e == ClearReservation(r)[c]
  <2>1. contexts'[c] = Swept(e)
    BY <1>a
  <2>2. contexts[c] \in Entry /\ contexts[c].reservation \in Res \cup {0}
    BY <1>c DEF TypeOK, Entry
  <2>3. contexts[c].reservation = r => q.ctx = c
    BY <2>2, LlmOptions DEF IInv, ClaimsAreRunning, Res
  <2>4. e = IF contexts[c].reservation = r THEN [contexts[c] EXCEPT !.reservation = 0] ELSE contexts[c]
    BY <2>3 DEF ClearReservation
  <2>5. /\ e \in Entry
        /\ e.reservation = IF contexts[c].reservation = r THEN 0 ELSE contexts[c].reservation
        /\ e.state = contexts[c].state /\ e.owner = contexts[c].owner
        /\ e.tombstoneUntil = contexts[c].tombstoneUntil
    BY <2>2, <2>4 DEF Entry
  <2>6. /\ e.state \in {"expired", "released"} => e.reservation = 0 /\ e.tombstoneUntil # Never
        /\ e.state \in {"none", "active"} => e.tombstoneUntil = Never
    BY <2>5, <1>c DEF TypeOK
  <2>9. r # 0
    BY LlmOptions DEF Res
  <2> HIDE DEF e
  <2>7. CASE Expires(e)
    <3> DEFINE f == [e EXCEPT !.state = "expired", !.expiresAt = Never,
                              !.tombstoneUntil = now + TombstoneSeconds]
    <3>1. Swept(e) = f
      BY <2>7 DEF Swept
    <3>2. now + TombstoneSeconds \in Time /\ Never \in Time /\ now + TombstoneSeconds # Never
      BY <1>c DEF Time, Never
    <3>3. f \in Entry /\ f.state = "expired" /\ f.reservation = 0 /\ f.tombstoneUntil # Never /\ e.reservation = 0
      BY <2>5, <2>7, <3>2 DEF Entry, Expires
    <3> QED BY <2>1, <2>5, <3>1, <3>3, <2>9
  <2>8. CASE ~Expires(e)
    <3>1. Swept(e) = Absent \/ Swept(e) = e
      BY <2>8 DEF Swept
    <3>2. Swept(e) = Absent => Absent = e \/ e.state \in {"expired", "released"}
      BY <2>8 DEF Swept
    <3>3. Absent \in Entry /\ Absent.state = "none" /\ Absent.reservation = 0 /\ Absent.tombstoneUntil = Never
      BY AbsentType
    <3>4. CASE Swept(e) = e
      BY <2>1, <2>4, <2>5, <2>6, <3>4
    <3>5. CASE Swept(e) = Absent /\ Swept(e) # e
      BY <2>1, <2>5, <2>6, <3>2, <3>3, <3>5, <2>9
    <3> QED BY <3>1, <3>4, <3>5
  <2> QED BY <2>7, <2>8
<1>f. NoReservation \in Reservation
  BY DEF NoReservation, Reservation
<1>1. TypeOK'
  <2>1. contexts' \in [Ctx -> Entry]
    BY <1>a, <1>e
  <2>2. reservations' \in [Res -> Reservation]
    BY <1>a, <1>c, <1>f DEF Drop, TypeOK
  <2>3. outcomes' \in [Owner -> [Key -> Outcome]] /\ releases' \in [Owner -> [Key -> Released]]
    BY <1>a, <1>c, <1>d, SweepFacts
  <2>4. \A s \in Res : s > nextRes' => reservations'[s] = NoReservation
    BY <1>a, <1>c DEF Drop, TypeOK
  <2> QED BY <2>1, <2>2, <2>3, <2>4, <1>a, <1>c, <1>e DEF TypeOK
<1>2. Addressed' /\ ReservationHoldsContext' /\ ClaimsAreRunning'
  <2>1. outcomes'[q.owner][q.key].state # "busy"
    BY <1>a, <1>b, <1>c, SweepFacts
  <2>2. \A o \in Owner, k \in Key :
          o # q.owner \/ k # q.key => outcomes'[o][k] = SweptOutcomes[o][k]
    BY <1>a, <1>b, <1>c, SweepFacts
  <2>3. \A o \in Owner, k \in Key :
            /\ o # q.owner \/ k # q.key
            /\ outcomes[o][k].state = "busy" \/ outcomes'[o][k].state = "busy"
            => outcomes'[o][k] = outcomes[o][k]
    BY <2>2, <1>c, SweepFacts
  <2> QED BY <2>1, <2>3, <1>a, <1>e, Resolved
<1>3. AllocationBound'
  <2> SUFFICES ASSUME NEW p \in Owner
               PROVE  Cardinality(LiveOf(contexts, p)') + Cardinality(PendingOf(p)') <= MaxContextsPerPrincipal
    BY DEF AllocationBound
  <2>1. LiveOf(contexts, p)' \subseteq LiveOf(contexts, p)
    BY <1>e DEF LiveOf
  <2>2. PendingOf(p)' \subseteq PendingOf(p)
    BY <1>a, <1>c DEF PendingOf, Drop, NoReservation, Allocations, TypeOK
  <2>3. /\ Cardinality(LiveOf(contexts, p)') <= Cardinality(LiveOf(contexts, p))
        /\ Cardinality(LiveOf(contexts, p)') \in Nat
        /\ Cardinality(PendingOf(p)') <= Cardinality(PendingOf(p))
        /\ Cardinality(PendingOf(p)') \in Nat
    BY <1>c, <2>1, <2>2, SweepLive, FS_Subset, FS_CardinalityType
  <2>4. Cardinality(LiveOf(contexts, p)) \in Nat /\ Cardinality(PendingOf(p)) \in Nat
    BY <1>c, SweepLive
  <2>5. Cardinality(LiveOf(contexts, p)) + Cardinality(PendingOf(p)) <= MaxContextsPerPrincipal
    BY DEF IInv, AllocationBound
  <2> QED BY <2>3, <2>4, <2>5, LlmOptions
<1> QED BY <1>1, <1>2, <1>3 DEF IInv

\* What both kinds of Commit do to the keys.
LEMMA CompleteFacts ==
  ASSUME IInv, NEW r \in Res, Active(r), NEW c \in Ctx, NEW v \in Nat, Complete(r, c, v)
  PROVE  /\ outcomes' \in [Owner -> [Key -> Outcome]]
         /\ outcomes'[reservations[r].owner][reservations[r].key].state # "busy"
         /\ \A o \in Owner, k \in Key :
              o # reservations[r].owner \/ k # reservations[r].key => outcomes'[o][k] = outcomes[o][k]
<1> DEFINE y == [state |-> "completed", by |-> 0, ctx |-> c, version |-> v, retainUntil |-> now + IdempotencyTTL]
<1>1. y \in Outcome /\ y.state # "busy"
  <2>1. now + IdempotencyTTL \in Nat
    BY LlmOptions DEF IInv, TypeOK
  <2> QED BY <2>1 DEF Outcome
<1>2. reservations[r].owner \in Owner /\ reservations[r].key \in Key
  BY DEF IInv, Addressed
<1>3. outcomes' = [outcomes EXCEPT ![reservations[r].owner][reservations[r].key] = y]
  BY DEF Complete
<1>4. outcomes \in [Owner -> [Key -> Outcome]]
  BY DEF IInv, TypeOK
<1> HIDE DEF y
<1> QED BY <1>1, <1>2, <1>3, <1>4

\* And to the reservations.
LEMMA DropFacts ==
  ASSUME TypeOK, NEW r \in Res, Drop(r), nextRes' = nextRes
  PROVE  /\ reservations' \in [Res -> Reservation]
         /\ \A s \in Res : s > nextRes' => reservations'[s] = NoReservation
         /\ \A p \in Owner : PendingOf(p)' = PendingOf(p) \ {r}
<1>1. NoReservation \in Reservation
  BY DEF NoReservation, Reservation
<1> QED BY <1>1 DEF Drop, TypeOK, PendingOf, NoReservation, Allocations

LEMMA CommitMutationIInv ==
  ASSUME IInv, NEW r \in Res, CommitMutation(r)
  PROVE  IInv'
<1> DEFINE q == reservations[r]
           e == contexts[q.ctx]
           f == NextEntry(r, e)
<1>a. Active(r) /\ q.op \in Mutations /\ Drop(r) /\ nextRes' = nextRes /\ releases' = releases /\ now' = now
  BY DEF CommitMutation, Active, Mutations
<1>b. q.ctx \in Ctx /\ q \in Reservation /\ e \in Entry /\ TypeOK
  BY <1>a DEF IInv, Addressed, TypeOK
<1>c. e.state = "active" /\ e.reservation = r /\ e.owner = q.owner
  BY <1>a DEF IInv, ReservationHoldsContext
<1>d. contexts' = [contexts EXCEPT ![q.ctx] = f] /\ Complete(r, q.ctx, e.version + 1)
  BY DEF CommitMutation
<1>e. f \in Entry /\ f.reservation = 0 /\ f.state = "active" /\ f.owner = e.owner
      /\ f.tombstoneUntil = e.tombstoneUntil
  <2>1. Expiry(q.ttl) \in Time /\ q.ttl \in Nat
    BY <1>b, ExpiryType DEF Reservation
  <2>2. e.version + 1 \in Nat
    BY <1>b DEF Entry
  <2> DEFINE b == IF q.op = "reset" THEN q.binding ELSE e.binding
             t == IF q.op = "reset" THEN <<r>> ELSE Append(e.transcript, r)
  <2>3. b \in Binding \cup {None}
    BY <1>b DEF Entry, Reservation
  <2>4. t \in Seq(Res)
    BY <1>b DEF Entry
  <2>5. f = [e EXCEPT !.version = e.version + 1, !.state = "active", !.reservation = 0, !.ttl = q.ttl,
                      !.expiresAt = Expiry(q.ttl), !.binding = b, !.transcript = t]
    BY DEF NextEntry
  <2> HIDE DEF b, t, e, q, f
  <2>6. e \in Entry
    BY <1>b
  <2> QED BY <2>1, <2>2, <2>3, <2>4, <2>5, <2>6 DEF Entry
<1> HIDE DEF f
<1>1. TypeOK'
  <2>1. contexts' \in [Ctx -> Entry]
    BY <1>b, <1>d, <1>e DEF TypeOK
  <2>2. e.version + 1 \in Nat
    BY <1>b DEF Entry
  <2>3. outcomes' \in [Owner -> [Key -> Outcome]]
    BY <1>a, <1>b, <1>d, <2>2, CompleteFacts
  <2>4. \A c \in Ctx :
          /\ contexts'[c].state \in {"expired", "released"} =>
               contexts'[c].reservation = 0 /\ contexts'[c].tombstoneUntil # Never
          /\ contexts'[c].state \in {"none", "active"} => contexts'[c].tombstoneUntil = Never
    BY <1>b, <1>c, <1>d, <1>e DEF TypeOK
  <2> QED BY <2>1, <2>3, <2>4, <1>a, <1>b, DropFacts DEF TypeOK
<1>2. Addressed' /\ ReservationHoldsContext' /\ ClaimsAreRunning'
  <2>1. \A c \in Ctx : contexts'[c].reservation = IF contexts[c].reservation = r THEN 0 ELSE contexts[c].reservation
    <3> SUFFICES ASSUME NEW c \in Ctx, c # q.ctx PROVE contexts[c].reservation # r /\ contexts'[c] = contexts[c]
      BY <1>b, <1>c, <1>d, <1>e DEF TypeOK
    <3>1. contexts[c].reservation = r => q.ctx = c
      BY LlmOptions DEF IInv, ClaimsAreRunning, Res
    <3> QED BY <3>1, <1>b, <1>d DEF TypeOK
  <2>2. \A c \in Ctx : contexts[c].reservation \notin {0, r} => contexts'[c] = contexts[c]
    BY <1>b, <1>c, <1>d DEF TypeOK
  <2>3. e.version + 1 \in Nat
    BY <1>b DEF Entry
  <2> QED BY <2>1, <2>2, <2>3, <1>a, <1>b, <1>d, CompleteFacts, Resolved
<1>3. AllocationBound'
  <2> SUFFICES ASSUME NEW p \in Owner
               PROVE  Cardinality(LiveOf(contexts, p)') + Cardinality(PendingOf(p)') <= MaxContextsPerPrincipal
    BY DEF AllocationBound
  <2>1. LiveOf(contexts, p)' = LiveOf(contexts, p)
    BY <1>b, <1>c, <1>d, <1>e DEF LiveOf, TypeOK
  <2>2. PendingOf(p)' = PendingOf(p)
    BY <1>a, <1>b, DropFacts DEF PendingOf, Mutations, Allocations
  <2> QED BY <2>1, <2>2 DEF IInv, AllocationBound
<1> QED BY <1>1, <1>2, <1>3 DEF IInv

LEMMA CommitAllocationIInv ==
  ASSUME IInv, NEW r \in Res, NEW c \in Ctx, CommitAllocation(r, c)
  PROVE  IInv'
<1> DEFINE q == reservations[r]
           f == [state |-> "active", owner |-> q.owner, version |-> 1,
                 binding |-> q.binding, transcript |-> Append(q.transcript, r),
                 ttl |-> q.ttl, expiresAt |-> Expiry(q.ttl), tombstoneUntil |-> Never, reservation |-> 0]
<1>a. Active(r) /\ q.op \in Allocations /\ Drop(r) /\ nextRes' = nextRes /\ releases' = releases /\ now' = now
  BY DEF CommitAllocation, Active, Allocations
<1>b. q \in Reservation /\ q.owner \in Owner /\ TypeOK
  BY <1>a DEF IInv, Addressed, TypeOK
<1>c. contexts[c].state = "none" /\ contexts[c].reservation = 0
  BY ClaimedIsActive DEF CommitAllocation
<1>d. contexts' = [contexts EXCEPT ![c] = f] /\ Complete(r, c, 1)
  BY DEF CommitAllocation
<1>e. f \in Entry /\ f.state = "active" /\ f.reservation = 0 /\ f.tombstoneUntil = Never /\ f.owner = q.owner
  <2>1. Expiry(q.ttl) \in Time /\ q.ttl \in Nat
    BY <1>b, ExpiryType DEF Reservation
  <2>2. Append(q.transcript, r) \in Seq(Res)
    BY <1>b DEF Reservation
  <2>3. q.binding \in Binding \cup {None}
    BY <1>b DEF Reservation
  <2> QED BY <2>1, <2>2, <2>3, <1>b DEF Entry, Time
<1> HIDE DEF f
<1>1. TypeOK'
  <2>1. contexts' \in [Ctx -> Entry]
    BY <1>b, <1>d, <1>e DEF TypeOK
  <2>2. outcomes' \in [Owner -> [Key -> Outcome]]
    BY <1>a, <1>d, CompleteFacts
  <2>3. \A d \in Ctx :
          /\ contexts'[d].state \in {"expired", "released"} =>
               contexts'[d].reservation = 0 /\ contexts'[d].tombstoneUntil # Never
          /\ contexts'[d].state \in {"none", "active"} => contexts'[d].tombstoneUntil = Never
    BY <1>b, <1>d, <1>e DEF TypeOK
  <2> QED BY <2>1, <2>2, <2>3, <1>a, <1>b, DropFacts DEF TypeOK
<1>2. Addressed' /\ ReservationHoldsContext' /\ ClaimsAreRunning'
  <2>1. \A d \in Ctx : contexts[d].reservation # r
    <3> SUFFICES ASSUME NEW d \in Ctx, contexts[d].reservation = r PROVE FALSE
      OBVIOUS
    <3>1. r # 0
      BY LlmOptions DEF Res
    <3> QED BY <3>1, <1>a DEF IInv, ClaimsAreRunning, Mutations, Allocations
  <2>2. \A d \in Ctx : /\ contexts'[d].reservation = contexts[d].reservation
                       /\ contexts[d].reservation \notin {0, r} => contexts'[d] = contexts[d]
    BY <1>b, <1>c, <1>d, <1>e DEF TypeOK
  <2> QED BY <2>1, <2>2, <1>a, <1>d, CompleteFacts, Resolved
<1>3. AllocationBound'
  <2> SUFFICES ASSUME NEW p \in Owner
               PROVE  Cardinality(LiveOf(contexts, p)') + Cardinality(PendingOf(p)') <= MaxContextsPerPrincipal
    BY DEF AllocationBound
  <2>0. Cardinality(LiveOf(contexts, p)) + Cardinality(PendingOf(p)) <= MaxContextsPerPrincipal
    BY DEF IInv, AllocationBound
  <2>1. PendingOf(p)' = PendingOf(p) \ {r}
    BY <1>a, <1>b, DropFacts
  <2>2. CASE p # q.owner
    <3>1. LiveOf(contexts, p)' = LiveOf(contexts, p) /\ PendingOf(p)' = PendingOf(p)
      BY <2>1, <2>2, <1>b, <1>c, <1>d, <1>e DEF LiveOf, PendingOf, TypeOK
    <3> QED BY <2>0, <3>1
  <2>3. CASE p = q.owner
    <3>1. LiveOf(contexts, p)' = LiveOf(contexts, p) \cup {c} /\ c \notin LiveOf(contexts, p)
      BY <2>3, <1>b, <1>c, <1>d, <1>e DEF LiveOf, TypeOK
    <3>2. r \in PendingOf(p)
      BY <2>3, <1>a DEF PendingOf
    <3>3. /\ Cardinality(LiveOf(contexts, p)') = Cardinality(LiveOf(contexts, p)) + 1
          /\ Cardinality(PendingOf(p)') = Cardinality(PendingOf(p)) - 1
      <4>1. IsFiniteSet(LiveOf(contexts, p)) /\ IsFiniteSet(PendingOf(p))
        BY <1>b, SweepLive
      <4>2. Cardinality(LiveOf(contexts, p) \cup {c}) = Cardinality(LiveOf(contexts, p)) + 1
        BY <4>1, <3>1, FS_AddElement
      <4>3. Cardinality(PendingOf(p) \ {r}) = Cardinality(PendingOf(p)) - 1
        BY <4>1, <3>2, FS_RemoveElement
      <4> QED BY <4>2, <4>3, <2>1, <3>1
    <3> QED BY <2>0, <3>3, <1>b, SweepLive, LlmOptions
  <2> QED BY <2>2, <2>3
<1> QED BY <1>1, <1>2, <1>3 DEF IInv
=============================================================================

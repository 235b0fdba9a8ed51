----------------------- MODULE LlmContextStoreProofs -----------------------
(***************************************************************************)
(* Proofs about the context store, for every number of principals,         *)
(* contexts, keys and reservations and every setting of its options.       *)
(*                                                                         *)
(* The three safety properties are proved together with the types: a       *)
(* reservation holds its context because no other one can claim it         *)
(* (ClaimsAreRunning names the one claimant), and the allocation bound     *)
(* survives a Commit because a pending allocation becomes one live context *)
(* and a mutation commits only on a context that is still live.            *)
(***************************************************************************)
EXTENDS LlmContextStoreLemmas

-----------------------------------------------------------------------------
(* Reserve.                                                                *)

\* effectiveTTL is a number of seconds, or 0 for none.
LEMMA TtlType ==
  ASSUME TypeOK, NEW op, NEW ttl \in TTLs, NEW c, op # "create" => c \in Ctx
  PROVE  effectiveTTL(op, ttl, c) \in Nat
<1>1. \A t \in Nat : clampTTL(t) \in Nat
  BY LlmOptions DEF clampTTL
<1>2. ttl \in Nat /\ DefaultTTL \in Nat /\ now \in Nat
  BY LlmOptions DEF TypeOK
<1>3. CASE op = "create"
  BY <1>1, <1>2, <1>3 DEF effectiveTTL
<1>4. CASE op # "create"
  <2>1. SweptContexts[c] \in Entry
    BY <1>4, SweepFacts
  <2>2. SweptContexts[c].ttl \in Nat /\ SweptContexts[c].expiresAt \in Time
    BY <2>1 DEF Entry
  <2>3. remainingTTL(SweptContexts[c].expiresAt) \in Nat
    BY <2>2, <1>2 DEF remainingTTL, Time, Never
  <2> QED BY <1>1, <1>2, <1>4, <2>2, <2>3 DEF effectiveTTL
<1> QED BY <1>3, <1>4

\* Reserve is a sweep, then one new reservation with its key and, for an append
\* or reset, its claim.
LEMMA ReserveIInv ==
  ASSUME IInv, NEW op \in Allocations \cup Mutations, NEW o \in Owner, NEW c \in Ctx \cup {None}, NEW v \in Nat,
         NEW b \in Binding, NEW ttl \in TTLs, NEW k \in Key, op = "create" <=> c = None,
         Reserve(op, o, c, v, b, ttl, k)
  PROVE  IInv'
<1> DEFINE r == nextRes + 1
           q == [op |-> op, owner |-> o, ctx |-> c, base |-> v, key |-> k, binding |-> b,
                 transcript |-> IF op = "create" THEN <<>> ELSE SweptContexts[c].transcript,
                 ttl |-> effectiveTTL(op, ttl, c)]
           y == [state |-> "busy", by |-> r, ctx |-> None, version |-> 0, retainUntil |-> now + IdempotencyTTL]
<1>a. /\ nextRes < MaxReservations /\ ReserveAdmits(op, o, c, v, b, k) /\ nextRes' = r
      /\ reservations' = [reservations EXCEPT ![r] = q]
      /\ outcomes' = [SweptOutcomes EXCEPT ![o][k] = y]
      /\ Claim(op, c, r) /\ releases' = SweptReleases /\ now' = now
  BY DEF Reserve
<1>b. TypeOK /\ r \in Res /\ r \in Nat \ {0} /\ r > nextRes /\ reservations[r] = NoReservation
      /\ r \in 0 .. MaxReservations
  <2>1. TypeOK /\ nextRes \in Nat /\ MaxReservations \in Nat
    BY LlmOptions DEF IInv, TypeOK
  <2>2. r \in Res /\ r \in Nat \ {0} /\ r > nextRes /\ r \in 0 .. MaxReservations
    BY <1>a, <2>1 DEF Res
  <2>3. reservations[r] = NoReservation
    BY <2>1, <2>2 DEF TypeOK
  <2> QED BY <2>1, <2>2, <2>3
<1>c. op # "create" => /\ c \in Ctx /\ SweptContexts[c] = contexts[c] /\ contexts[c] \in Entry
                       /\ contexts[c].state = "active" /\ contexts[c].owner = o
                       /\ contexts[c].reservation = 0 /\ contexts[c].version = v
  BY <1>a, <1>b, SweepFacts DEF ReserveAdmits, Mutable, Unclaimed, TypeOK
<1>d. q \in Reservation
  <2>1. effectiveTTL(op, ttl, c) \in Nat
    BY <1>b, <1>c, TtlType
  <2>2. (IF op = "create" THEN <<>> ELSE SweptContexts[c].transcript) \in Seq(Res)
    BY <1>c DEF Entry
  <2>3. op \in Allocations \cup Mutations \cup {"none"} /\ c \in Ctx \cup {None}
    OBVIOUS
  <2> QED BY <2>1, <2>2, <2>3 DEF Reservation
<1>e. y \in Outcome
  <2>1. now + IdempotencyTTL \in Nat
    BY <1>b, LlmOptions DEF TypeOK
  <2> QED BY <2>1, <1>b DEF Outcome
<1>f. op \in Mutations => op # "create" /\ op \notin Allocations /\ op # "none"
  BY DEF Mutations, Allocations
<1>g. op # "none"
  BY DEF Mutations, Allocations
<1>h. \A s \in Res : s # 0 /\ (Active(s) => s # r)
  BY <1>b, LlmOptions DEF Res, Active, NoReservation
<1>i. /\ \A s \in Res : s # r => reservations'[s] = reservations[s]
      /\ reservations'[r] = q
  BY <1>a, <1>b DEF TypeOK
<1>j. ASSUME NEW d \in Ctx
      PROVE  /\ op \in Mutations /\ d = c =>
                  contexts'[d] = [contexts[d] EXCEPT !.reservation = r] /\ contexts'[d] \in Entry
             /\ ~(op \in Mutations /\ d = c) => contexts'[d] = SweptContexts[d]
  <2>1. SweptContexts \in [Ctx -> Entry]
    BY <1>b, SweepFacts
  <2>2. CASE op \in Mutations
    <3>1. contexts' = [SweptContexts EXCEPT ![c].reservation = r] /\ c \in Ctx
      BY <1>a, <1>c, <1>f, <2>2 DEF Claim
    <3>2. contexts'[c] = [contexts[c] EXCEPT !.reservation = r] /\ contexts[c] \in Entry
      BY <2>1, <3>1, <1>c, <1>f, <2>2
    <3>3. [contexts[c] EXCEPT !.reservation = r] \in Entry
      BY <3>2, <1>b DEF Entry
    <3> QED BY <2>1, <2>2, <3>1, <3>2, <3>3
  <2>3. CASE op \notin Mutations
    BY <1>a, <2>3 DEF Claim
  <2> QED BY <2>2, <2>3
<1>k. q.op = op /\ q.owner = o /\ q.ctx = c /\ q.base = v /\ q.key = k
  OBVIOUS
<1>n. ClaimsAreRunning
  BY DEF IInv
<1>l. y.state = "busy" /\ y.by = r
  OBVIOUS
<1>m. reservations[r].op = "none" /\ "none" \notin Allocations
  BY <1>b DEF NoReservation, Allocations
<1> HIDE DEF q, y, r
<1>1. TypeOK'
  <2>1. contexts' \in [Ctx -> Entry]
    <3>1. \A d \in Ctx : contexts'[d] \in Entry
      BY <1>j, <1>b, SweepFacts
    <3>2. contexts' = [d \in Ctx |-> contexts'[d]]
      BY <1>a, <1>b, SweepFacts DEF Claim
    <3> QED BY <3>1, <3>2
  <2>2. reservations' \in [Res -> Reservation]
    BY <1>a, <1>b, <1>d DEF TypeOK
  <2>3. outcomes' \in [Owner -> [Key -> Outcome]] /\ releases' \in [Owner -> [Key -> Released]]
    BY <1>a, <1>b, <1>e, SweepFacts
  <2>4. \A s \in Res : s > nextRes' => reservations'[s] = NoReservation
    BY <1>a, <1>b, <1>i DEF TypeOK, Res, r
  <2>5. \A d \in Ctx :
          /\ contexts'[d].state \in {"expired", "released"} =>
               contexts'[d].reservation = 0 /\ contexts'[d].tombstoneUntil # Never
          /\ contexts'[d].state \in {"none", "active"} => contexts'[d].tombstoneUntil = Never
    <3> SUFFICES ASSUME NEW d \in Ctx
                 PROVE  /\ contexts'[d].state \in {"expired", "released"} =>
                              contexts'[d].reservation = 0 /\ contexts'[d].tombstoneUntil # Never
                        /\ contexts'[d].state \in {"none", "active"} => contexts'[d].tombstoneUntil = Never
      OBVIOUS
    <3>1. CASE op \in Mutations /\ d = c
      BY <3>1, <1>b, <1>c, <1>f, <1>j DEF TypeOK, Entry
    <3>2. CASE ~(op \in Mutations /\ d = c)
      BY <3>2, <1>b, <1>j, SweepFacts
    <3> QED BY <3>1, <3>2
  <2> QED BY <2>1, <2>2, <2>3, <2>4, <2>5, <1>a, <1>b DEF TypeOK
<1>2. Addressed'
  <2> SUFFICES ASSUME NEW s \in Res, reservations'[s].op # "none"
               PROVE  /\ reservations'[s].owner \in Owner /\ reservations'[s].key \in Key
                      /\ reservations'[s].op \in Mutations => reservations'[s].ctx \in Ctx
    BY DEF Addressed, Active
  <2>1. CASE s = r
    BY <2>1, <1>i, <1>c, <1>f, <1>k
  <2>2. CASE s # r
    BY <2>2, <1>i DEF IInv, Addressed, Active
  <2> QED BY <2>1, <2>2
<1>3. ReservationHoldsContext'
  <2> SUFFICES ASSUME NEW s \in Res, reservations'[s].op \in Mutations
               PROVE  LET d == reservations'[s].ctx IN
                      /\ contexts'[d].state = "active" /\ contexts'[d].owner = reservations'[s].owner
                      /\ contexts'[d].reservation = s
                      /\ contexts'[d].version = reservations'[s].base
                      /\ contexts'[d].transcript = reservations'[s].transcript
    BY DEF ReservationHoldsContext
  <2>1. CASE s = r
    <3>1. op \in Mutations /\ reservations'[s] = q /\ q.ctx = c /\ q.owner = o /\ q.base = v
      BY <2>1, <1>i, <1>k
    <3>2. q.transcript = contexts[c].transcript
      BY <3>1, <1>c, <1>f DEF q
    <3>3. contexts'[c] = [contexts[c] EXCEPT !.reservation = r] /\ contexts[c] \in Entry
      BY <3>1, <1>c, <1>f, <1>j
    <3>4. /\ contexts'[c].state = contexts[c].state /\ contexts'[c].owner = contexts[c].owner
          /\ contexts'[c].reservation = r /\ contexts'[c].version = contexts[c].version
          /\ contexts'[c].transcript = contexts[c].transcript
      BY <3>3 DEF Entry
    <3> QED BY <2>1, <3>1, <3>2, <3>4, <1>c, <1>f
  <2>2. CASE s # r
    <3>1. reservations'[s] = reservations[s] /\ reservations[s].op \in Mutations
      BY <2>2, <1>i
    <3>2. reservations[s].ctx \in Ctx /\ contexts[reservations[s].ctx].reservation = s
      BY <3>1 DEF IInv, Addressed, Active, Mutations, ReservationHoldsContext
    <3>3. reservations[s].ctx # c \/ op \notin Mutations
      BY <3>2, <1>c, <1>f, <1>h
    <3>4. contexts'[reservations[s].ctx] = contexts[reservations[s].ctx]
      BY <3>2, <3>3, <1>b, <1>h, <1>j, SweepFacts
    <3>5. LET d == reservations[s].ctx IN
          /\ contexts[d].state = "active" /\ contexts[d].owner = reservations[s].owner
          /\ contexts[d].version = reservations[s].base
          /\ contexts[d].transcript = reservations[s].transcript
      BY <3>1 DEF IInv, ReservationHoldsContext
    <3> QED BY <3>1, <3>2, <3>4, <3>5
  <2> QED BY <2>1, <2>2
<1>4. ClaimsAreRunning'
  <2>1. ASSUME NEW d \in Ctx, contexts'[d].reservation # 0
        PROVE  /\ reservations'[contexts'[d].reservation].ctx = d
               /\ reservations'[contexts'[d].reservation].op \in Mutations
    <3>1. CASE op \in Mutations /\ d = c
      <4>1. contexts'[d].reservation = r
        BY <3>1, <1>c, <1>f, <1>j DEF Entry
      <4> QED BY <3>1, <4>1, <1>i, <1>k
    <3>2. CASE ~(op \in Mutations /\ d = c)
      <4>1. contexts'[d].reservation = contexts[d].reservation
        BY <3>2, <1>b, <1>j, SweepFacts
      <4>2. contexts[d].reservation \in Res
        BY <2>1, <4>1, <1>b DEF TypeOK, Entry
      <4>3. /\ reservations[contexts[d].reservation].ctx = d
            /\ reservations[contexts[d].reservation].op \in Mutations
        BY <2>1, <4>1 DEF IInv, ClaimsAreRunning
      <4>4. contexts[d].reservation # r
        BY <4>2, <4>3, <1>h DEF Active, Mutations
      <4> QED BY <4>1, <4>2, <4>3, <4>4, <1>i
    <3> QED BY <3>1, <3>2
  <2>2. /\ outcomes'[o][k] = y
        /\ \A p \in Owner, j \in Key : p # o \/ j # k => outcomes'[p][j] = SweptOutcomes[p][j]
    BY <1>a, <1>b, SweepFacts
  <2>3. ASSUME NEW p \in Owner, NEW j \in Key, outcomes'[p][j].state = "busy"
        PROVE  LET s == outcomes'[p][j].by
               IN  s # 0 /\ reservations'[s].op # "none" /\ reservations'[s].owner = p /\ reservations'[s].key = j
    <3>1. CASE p = o /\ j = k
      <4>1. outcomes'[p][j].by = r
        BY <3>1, <2>2, <1>l
      <4> QED BY <3>1, <4>1, <1>b, <1>g, <1>i, <1>k
    <3>2. CASE p # o \/ j # k
      <4>1. outcomes'[p][j] = outcomes[p][j] /\ outcomes[p][j].state = "busy"
        <5>1. outcomes'[p][j] = SweptOutcomes[p][j]
          BY <3>2, <2>2
        <5>2. SweptOutcomes[p][j].state = "busy" => SweptOutcomes[p][j] = outcomes[p][j]
          BY <1>b, SweepFacts
        <5> QED BY <5>1, <5>2, <2>3
      <4>2. LET s == outcomes[p][j].by
            IN  s # 0 /\ Active(s) /\ reservations[s].owner = p /\ reservations[s].key = j
        <5>1. outcomes[p][j].state = "busy"
          BY <4>1
        <5>2. ClaimsAreRunning
          BY <1>n
        <5> QED BY <5>1, <5>2, BusyKey
      <4>3. outcomes[p][j].by \in Res
        <5>1. outcomes[p][j] \in Outcome
          BY <1>b DEF TypeOK
        <5> QED BY <4>2, <5>1 DEF Outcome
      <4> QED BY <4>1, <4>2, <4>3, <1>h, <1>i DEF Active
    <3> QED BY <3>1, <3>2
  <2>4. ASSUME NEW s \in Res, reservations'[s].op # "none"
        PROVE  LET x == outcomes'[reservations'[s].owner][reservations'[s].key] IN x.state = "busy" /\ x.by = s
    <3>1. CASE s = r
      BY <3>1, <2>2, <1>i, <1>k, <1>l
    <3>2. CASE s # r
      <4>1. reservations'[s] = reservations[s] /\ Active(s)
        BY <3>2, <2>4, <1>i DEF Active
      <4>2. reservations[s].owner \in Owner /\ reservations[s].key \in Key
        BY <4>1 DEF IInv, Addressed
      <4>3. LET x == outcomes[reservations[s].owner][reservations[s].key] IN x.state = "busy" /\ x.by = s
        BY <4>1 DEF IInv, ClaimsAreRunning
      <4>4. SweptOutcomes[reservations[s].owner][reservations[s].key] = outcomes[reservations[s].owner][reservations[s].key]
        BY <4>2, <4>3, <1>b, SweepFacts
      <4>5. reservations[s].owner # o \/ reservations[s].key # k
        BY <4>3, <4>4, <1>a DEF ReserveAdmits
      <4> QED BY <4>1, <4>2, <4>3, <4>4, <4>5, <2>2
    <3> QED BY <3>1, <3>2
  <2> QED BY <2>1, <2>3, <2>4 DEF ClaimsAreRunning, Active
<1>5. AllocationBound'
  <2> SUFFICES ASSUME NEW p \in Owner
               PROVE  Cardinality(LiveOf(contexts, p)') + Cardinality(PendingOf(p)') <= MaxContextsPerPrincipal
    BY DEF AllocationBound
  <2>0. Cardinality(LiveOf(contexts, p)) + Cardinality(PendingOf(p)) <= MaxContextsPerPrincipal
    BY DEF IInv, AllocationBound
  <2>1. LiveOf(contexts, p)' = LiveOf(SweptContexts, p)
    <3> SUFFICES ASSUME NEW d \in Ctx
                 PROVE  contexts'[d].state = SweptContexts[d].state /\ contexts'[d].owner = SweptContexts[d].owner
      BY DEF LiveOf
    <3>1. CASE op \in Mutations /\ d = c
      BY <3>1, <1>c, <1>f, <1>j DEF Entry
    <3>2. CASE ~(op \in Mutations /\ d = c)
      BY <3>2, <1>j
    <3> QED BY <3>1, <3>2
  <2>2. /\ Cardinality(LiveOf(SweptContexts, p)) \in Nat /\ Cardinality(LiveOf(contexts, p)) \in Nat
        /\ Cardinality(PendingOf(p)) \in Nat
        /\ Cardinality(LiveOf(SweptContexts, p)) <= Cardinality(LiveOf(contexts, p))
    BY <1>b, SweepLive
  <2>3. CASE p = o /\ op \in Allocations
    <3>1. PendingOf(p)' = PendingOf(p) \cup {r}
      <4>1. q.op \in Allocations /\ q.owner = p
        BY <2>3, <1>k
      <4> QED BY <4>1, <1>b, <1>i DEF PendingOf
    <3>2. r \notin PendingOf(p)
      BY <1>m DEF PendingOf
    <3>3. IsFiniteSet(PendingOf(p))
      BY <1>b, SweepLive
    <3>4. Cardinality(PendingOf(p) \cup {r}) = Cardinality(PendingOf(p)) + 1
      BY <3>2, <3>3, FS_AddElement
    <3>5. Cardinality(LiveOf(SweptContexts, p)) + Cardinality(PendingOf(p)) < MaxContextsPerPrincipal
      BY <2>3, <1>a DEF ReserveAdmits, AllocationAvailable
    <3>6. /\ Cardinality(PendingOf(p)') = Cardinality(PendingOf(p)) + 1
          /\ Cardinality(LiveOf(contexts, p)') = Cardinality(LiveOf(SweptContexts, p))
      BY <3>1, <3>4, <2>1
    <3>7. MaxContextsPerPrincipal \in Nat
      BY LlmOptions
    <3> QED BY <3>5, <3>6, <3>7, <2>2
  <2>4. CASE ~(p = o /\ op \in Allocations)
    <3>1. PendingOf(p)' = PendingOf(p)
      <4>1. ~(q.op \in Allocations /\ q.owner = p)
        BY <2>4, <1>k
      <4> QED BY <4>1, <1>b, <1>i, <1>m DEF PendingOf
    <3> QED BY <3>1, <2>0, <2>1, <2>2, LlmOptions
  <2> QED BY <2>3, <2>4
<1> QED BY <1>1, <1>2, <1>3, <1>4, <1>5 DEF IInv

-----------------------------------------------------------------------------
(* The theorems.                                                           *)

LEMMA NextIInv == IInv /\ [Next]_vars => IInv'
<1> SUFFICES ASSUME IInv, [Next]_vars PROVE IInv'
  OBVIOUS
<1>0. \A v \in Res : v \in Nat
  BY LlmOptions DEF Res
<1>1. CASE ReserveAny
  <2>1. PICK o \in Owner, b \in Binding, ttl \in TTLs, k \in Key :
          \/ Reserve("create", o, None, 0, b, ttl, k)
          \/ \E op \in Mutations \cup {"fork"}, c \in Ctx, v \in Res : Reserve(op, o, c, v, b, ttl, k)
    BY <1>1 DEF ReserveAny
  <2>2. CASE Reserve("create", o, None, 0, b, ttl, k)
    BY <2>2, ReserveIInv DEF Allocations
  <2>3. CASE \E op \in Mutations \cup {"fork"}, c \in Ctx, v \in Res : Reserve(op, o, c, v, b, ttl, k)
    <3>1. PICK op \in Mutations \cup {"fork"}, c \in Ctx, v \in Res : Reserve(op, o, c, v, b, ttl, k)
      BY <2>3
    <3>2. op # "create" /\ c # None /\ op \in Allocations \cup Mutations /\ v \in Nat
      BY LlmNames, <1>0 DEF Mutations, Allocations
    <3> QED BY <3>1, <3>2, ReserveIInv
  <2> QED BY <2>1, <2>2, <2>3
<1>2. ASSUME NEW r \in Res, NEW c \in Ctx, CommitAllocation(r, c) PROVE IInv'
  BY <1>2, CommitAllocationIInv
<1>3. ASSUME NEW r \in Res, CommitMutation(r) PROVE IInv'
  BY <1>3, CommitMutationIInv
<1>4. ASSUME NEW r \in Res, Abort(r) PROVE IInv'
  BY <1>4, AbortIInv
<1>5. ASSUME NEW o \in Owner, NEW c \in Ctx, NEW v \in Res, NEW k \in Key, Release(o, c, v, k) PROVE IInv'
  BY <1>5, ReleaseIInv
<1>6. CASE Sweep
  BY <1>6, SweepIInv
<1>7. CASE Tick
  BY <1>7, TickIInv
<1>8. CASE UNCHANGED vars
  <2> USE <1>8 DEF vars, IInv
  <2>1. TypeOK'
    BY DEF TypeOK
  <2>2. Addressed' /\ ReservationHoldsContext' /\ ClaimsAreRunning'
    BY ClaimsFrame
  <2>3. AllocationBound'
    BY DEF AllocationBound, LiveOf, PendingOf
  <2> QED BY <2>1, <2>2, <2>3
<1> QED BY <1>1, <1>2, <1>3, <1>4, <1>5, <1>6, <1>7, <1>8 DEF Next

LEMMA Invariance == Spec => []IInv
  BY InitIInv, NextIInv, PTL DEF Spec

\* Every state of the store is well typed, and its entries' dates agree with
\* their states.
THEOREM TypesHold == Spec => []TypeOK
  BY Invariance, PTL DEF IInv

\* No interleaving of Reserve, Commit, Abort, Release and sweeps gives a
\* principal more live and pending contexts than MaxContextsPerPrincipal.
THEOREM AllocationsBounded == Spec => []AllocationBound
  BY Invariance, PTL DEF IInv

\* However long a provider takes, an append or reset finds its context as
\* Reserve left it: no lost update, no expiry under way, no second claimant.
THEOREM ReservationsHold == Spec => []ReservationHoldsContext
  BY Invariance, PTL DEF IInv

\* Claims and busy idempotency keys are exactly those of the running
\* reservations: none outlives its Commit or Abort.
THEOREM ClaimsEnd == Spec => []ClaimsAreRunning
  BY Invariance, PTL DEF IInv

\* The sweep makes no new content.
LEMMA SweptVersioned ==
  ASSUME NEW e \in Entry
  PROVE  Versioned(e, Swept(e))
<1>1. CASE Expires(e)
  <2>1. /\ Swept(e).version = e.version /\ Swept(e).transcript = e.transcript
        /\ Swept(e).binding = e.binding /\ Swept(e).state = "expired"
    BY <1>1 DEF Swept, Entry
  <2> QED BY <2>1 DEF Versioned
<1>2. CASE ~Expires(e)
  <2>1. Swept(e) = e \/ Swept(e) = Absent
    BY <1>2 DEF Swept
  <2> QED BY <2>1 DEF Versioned, Absent
<1> QED BY <1>1, <1>2

LEMMA StepVersioned ==
  ASSUME IInv, [Next]_vars, NEW c \in Ctx
  PROVE  Versioned(contexts[c], contexts'[c])
<1>a. contexts[c] \in Entry /\ TypeOK /\ contexts \in [Ctx -> Entry]
  BY DEF IInv, TypeOK
<1>b. Versioned(contexts[c], contexts[c])
  BY DEF Versioned
<1>c. SweptContexts[c] = Swept(contexts[c]) /\ SweptContexts \in [Ctx -> Entry]
  BY <1>a, SweepFacts DEF SweptContexts
<1>d. Versioned(contexts[c], SweptContexts[c])
  BY <1>a, <1>c, SweptVersioned
<1>1. ASSUME NEW op, NEW o, NEW d, NEW v, NEW b, NEW ttl, NEW k, Reserve(op, o, d, v, b, ttl, k)
      PROVE  Versioned(contexts[c], contexts'[c])
  <2>1. \/ contexts'[c] = SweptContexts[c]
        \/ contexts'[c] = [SweptContexts[c] EXCEPT !.reservation = nextRes + 1]
    BY <1>1, <1>c DEF Reserve, Claim
  <2> QED BY <2>1, <1>c, <1>d DEF Versioned, Entry
<1>2. ASSUME NEW r \in Res, NEW d \in Ctx, CommitAllocation(r, d)
      PROVE  Versioned(contexts[c], contexts'[c])
  <2>1. contexts[c].state = "none" \/ contexts'[c] = contexts[c]
    BY <1>2, <1>a DEF CommitAllocation
  <2> QED BY <2>1, <1>b DEF Versioned
<1>3. ASSUME NEW r \in Res, CommitMutation(r)
      PROVE  Versioned(contexts[c], contexts'[c])
  <2>1. CASE c # reservations[r].ctx
    <3>1. contexts'[c] = contexts[c]
      BY <1>3, <1>a, <2>1 DEF CommitMutation
    <3> QED BY <3>1, <1>b
  <2>2. CASE c = reservations[r].ctx
    <3>1. contexts'[c] = NextEntry(r, contexts[c]) /\ contexts[c].state = "active"
      BY <1>3, <1>a, <2>2 DEF CommitMutation, IInv, ReservationHoldsContext
    <3>2. NextEntry(r, contexts[c]).version = contexts[c].version + 1
      BY <1>a DEF NextEntry, Entry
    <3> QED BY <3>1, <3>2 DEF Versioned
  <2> QED BY <2>1, <2>2
<1>4. ASSUME NEW r \in Res, Abort(r)
      PROVE  Versioned(contexts[c], contexts'[c])
  <2> DEFINE e == ClearReservation(r)[c]
  <2>1. e = contexts[c] \/ e = [contexts[c] EXCEPT !.reservation = 0]
    BY DEF ClearReservation
  <2>2. e \in Entry /\ e.version = contexts[c].version /\ e.transcript = contexts[c].transcript
        /\ e.binding = contexts[c].binding /\ e.state = contexts[c].state
    BY <2>1, <1>a DEF Entry
  <2>3. contexts'[c] = Swept(e)
    BY <1>4 DEF Abort
  <2> HIDE DEF e
  <2>4. Versioned(e, Swept(e))
    BY <2>2, SweptVersioned
  <2> QED BY <2>2, <2>3, <2>4 DEF Versioned
<1>5. ASSUME NEW o \in Owner, NEW d \in Ctx, NEW v \in Res, NEW k \in Key, Release(o, d, v, k)
      PROVE  Versioned(contexts[c], contexts'[c])
  <2>1. CASE c # d
    <3>1. contexts'[c] = SweptContexts[c]
      BY <1>5, <1>c, <2>1 DEF Release
    <3> QED BY <3>1, <1>d
  <2>2. CASE c = d
    <3>1. SweptContexts[c].state = "active" /\ SweptContexts[c].version = v
      BY <1>5, <2>2 DEF Release, Mutable, Unclaimed
    <3>2. SweptContexts[c] = contexts[c]
      BY <3>1, <1>a, SweepFacts
    <3>3. contexts'[c].version = v + 1
      BY <1>5, <1>c, <2>2 DEF Release, Entry
    <3> QED BY <3>1, <3>2, <3>3 DEF Versioned
  <2> QED BY <2>1, <2>2
<1>6. CASE Sweep
  BY <1>6, <1>d DEF Sweep
<1>7. CASE Tick
  BY <1>7, <1>b DEF Tick
<1>8. CASE UNCHANGED vars
  BY <1>8, <1>b DEF vars
<1>9. CASE ReserveAny
  BY <1>1, <1>9 DEF ReserveAny
<1> QED BY <1>2, <1>3, <1>4, <1>5, <1>6, <1>7, <1>8, <1>9 DEF Next

\* A context's version never goes back, and its content changes only with it:
\* what a caller read at a version is what that version still means.
THEOREM VersionsNameContent == Spec => VersionNamesContent
<1>1. IInv /\ [Next]_vars => [\A c \in Ctx : Versioned(contexts[c], contexts'[c])]_vars
  BY StepVersioned
<1> QED BY <1>1, Invariance, PTL DEF Spec, VersionNamesContent
=============================================================================

---------------------------- MODULE RequestsProofs ----------------------------
(***************************************************************************)
(* Theorems about Requests, for any number of machines and tenants, every  *)
(* ceiling and share and every length of a day.                            *)
(***************************************************************************)
EXTENDS Requests, Sums

\* Only a registered machine has a request under way or was ever
\* authenticated, and the clock is past zero, which stands for never.
Known ==
    /\ now # 0
    /\ \A a \in Agents : a \notin DOMAIN rows => pc[a] = "idle" /\ auth[a] = 0

\* No timestamp is of the future, and a machine's is at most Stale behind its
\* last authentication.
Stamps ==
    /\ \A a \in DOMAIN rows : rows[a].seen <= now /\ auth[a] <= rows[a].seen + Stale
    /\ \A t \in Tenants : Judged(t) => decided[t] \in 1..now

\* Nothing was counted past a ceiling that is not reached.
NoneOver == ~OverCeiling(platform) => over = 0

\* Past its authentication.
Inside(a) == pc[a] \in {"known", "accepted", "counted", "judged"}

\* A machine whose timestamp is of an authentication after the decision has
\* been answered since, or let down, or its request is past that point.
Collects ==
    \A a \in DOMAIN rows :
        Judged(Owner(a)) /\ rows[a].seen > decided[Owner(a)] /\ auth[a] >= rows[a].seen
            => a \in answered \union letDown \/ Inside(a)

IInv == TypeOK /\ Known /\ Stamps /\ NoneOver /\ ShareHolds /\ CeilingStopsIngest /\ Collects

-----------------------------------------------------------------------------

\* The quota is a positive number.
LEMMA QuotaPositive == TenantQuota \in Nat \ {0}
<1>1. Ceiling * SharePercent \in Nat /\ Ceiling * SharePercent >= 100
  BY UsageAssumption
<1>2. \A n \in Nat : n >= 100 => n \div 100 \in Nat \ {0}
  OBVIOUS
<1>3. QED
  BY <1>1, <1>2 DEF TenantQuota

\* A tenant's machines, and those of them or of all that have a request
\* somewhere, are finitely many.
LEMMA Finite ==
    ASSUME TypeOK
    PROVE  /\ \A t : IsFiniteSet(Of(t)) /\ IsFiniteSet(PastQuota(t))
           /\ IsFiniteSet(DOMAIN rows) /\ IsFiniteSet(PastCeiling)
           /\ \A t : Cardinality(PastQuota(t)) <= Cardinality(Of(t))
           /\ Cardinality(PastCeiling) <= Cardinality(Agents)
<1>1. /\ \A t : Of(t) \in SUBSET Agents /\ PastQuota(t) \in SUBSET Of(t)
      /\ DOMAIN rows \in SUBSET Agents /\ PastCeiling \in SUBSET Agents
  BY DEF TypeOK, Of, PastQuota, PastCeiling
<1>2. QED
  BY <1>1, FS_Subset, RequestsAssumption

LEMMA InitInv == Init => IInv
<1> SUFFICES ASSUME Init PROVE IInv
  OBVIOUS
<1>1. TypeOK
  BY RequestsAssumption DEF Init, TypeOK, NoDecision
<1>2. Known /\ Stamps /\ NoneOver /\ Collects
  BY DEF Init, Known, Stamps, NoneOver, Collects, Judged
<1>3. ShareHolds
  <2> SUFFICES ASSUME NEW t \in Tenants
               PROVE  share[t] + Cardinality(PastQuota(t)) < TenantQuota + Cardinality(Of(t))
    BY DEF ShareHolds
  <2>1. Of(t) = {} /\ PastQuota(t) = {} /\ share[t] = 0
    BY DEF Init, Of, PastQuota
  <2>2. QED
    BY <2>1, QuotaPositive, FS_EmptySet
<1>4. CeilingStopsIngest
  <2>1. PastCeiling = {} /\ over = 0
    BY DEF Init, PastCeiling
  <2>2. QED
    BY <2>1, FS_EmptySet, FS_CardinalityType, RequestsAssumption DEF CeilingStopsIngest
<1>5. QED
  BY <1>1, <1>2, <1>3, <1>4 DEF IInv

LEMMA TypeInv == IInv /\ [Next]_vars => TypeOK'
<1> SUFFICES ASSUME IInv, [Next]_vars PROVE TypeOK'
  OBVIOUS
<1> USE RequestsAssumption DEF IInv, TypeOK, Known
<1>1. CASE UNCHANGED vars
  BY <1>1 DEF vars, counters, shown, told
<1>2. ASSUME NEW a \in Agents, CheckCeiling(a) PROVE TypeOK'
  BY <1>2 DEF CheckCeiling, Goes, counters, shown, told
<1>3. ASSUME NEW a \in Agents, Authenticate(a) PROVE TypeOK'
  <2>1. a \in DOMAIN rows
    BY <1>3 DEF Authenticate
  <2>2. Touch(rows[a], now) \in [tenant : Tenants, seen : 0..MaxNow, status : {"active", "revoked"}]
    BY <2>1 DEF Touch
  <2>3. QED
    BY <1>3, <2>1, <2>2 DEF Authenticate, Goes, counters, shown, told
<1>4. ASSUME NEW a \in Agents, CheckQuota(a) PROVE TypeOK'
  BY <1>4 DEF CheckQuota, Goes, Noted, counters, shown
<1>5. ASSUME NEW a \in Agents, CountBatch(a) PROVE TypeOK'
  <2>1. Owner(a) \in Tenants
    BY <1>5 DEF CountBatch, Owner
  <2>2. QED
    BY <1>5, <2>1 DEF CountBatch, Goes, shown, told
<1>6. ASSUME NEW a \in Agents, Fail(a) PROVE TypeOK'
  BY <1>6 DEF Fail, Goes, Noted, counters, shown
<1>7. ASSUME NEW a \in Agents, Judge(a) PROVE TypeOK'
  BY <1>7 DEF Judge, Goes, counters, shown, told
<1>8. ASSUME NEW a \in Agents, Answer(a) PROVE TypeOK'
  BY <1>8 DEF Answer, Goes, Noted, CountRequest, shown
<1>9. ASSUME NEW a \in Agents, Revoke(a) PROVE TypeOK'
  BY <1>9 DEF Revoke, counters, told
<1>10. ASSUME NEW a \in Agents, NEW t \in Tenants, Register(a, t) PROVE TypeOK'
  BY <1>10 DEF Register, NewRow, CountRequest, told
<1>11. ASSUME NEW t \in Tenants, Expire(t) PROVE TypeOK'
  BY <1>11 DEF Expire, Forget, NoDecision, counters, shown
<1>12. CASE View
  BY <1>12 DEF View, CountRequest, shown, told
<1>13. CASE Tick
  BY <1>13 DEF Tick, counters, shown, told
<1>14. QED
  BY <1>1, <1>2, <1>3, <1>4, <1>5, <1>6, <1>7, <1>8, <1>9, <1>10, <1>11, <1>12, <1>13 DEF Next

\* A registered machine stays one.
LEMMA KnownInv == IInv /\ [Next]_vars => Known'
<1> SUFFICES ASSUME IInv, [Next]_vars PROVE Known'
  OBVIOUS
<1> USE DEF IInv, TypeOK, Known
<1>1. CASE UNCHANGED vars
  BY <1>1 DEF vars, counters, shown, told
<1>2. ASSUME NEW a \in Agents, CheckCeiling(a) PROVE Known'
  BY <1>2 DEF CheckCeiling, Goes, counters, shown, told
<1>3. ASSUME NEW a \in Agents, Authenticate(a) PROVE Known'
  BY <1>3 DEF Authenticate, Goes, counters, shown, told
<1>4. ASSUME NEW a \in Agents, CheckQuota(a) PROVE Known'
  BY <1>4 DEF CheckQuota, Goes, counters, shown
<1>5. ASSUME NEW a \in Agents, CountBatch(a) PROVE Known'
  BY <1>5 DEF CountBatch, Goes, shown, told
<1>6. ASSUME NEW a \in Agents, Fail(a) PROVE Known'
  BY <1>6 DEF Fail, Goes, counters, shown
<1>7. ASSUME NEW a \in Agents, Judge(a) PROVE Known'
  BY <1>7 DEF Judge, Goes, counters, shown, told
<1>8. ASSUME NEW a \in Agents, Answer(a) PROVE Known'
  BY <1>8 DEF Answer, Goes, shown
<1>9. ASSUME NEW a \in Agents, Revoke(a) PROVE Known'
  BY <1>9 DEF Revoke, counters, told
<1>10. ASSUME NEW a \in Agents, NEW t \in Tenants, Register(a, t) PROVE Known'
  BY <1>10 DEF Register, told
<1>11. ASSUME NEW t \in Tenants, Expire(t) PROVE Known'
  BY <1>11 DEF Expire, counters, shown
<1>12. CASE View
  BY <1>12 DEF View, shown, told
<1>13. CASE Tick
  BY <1>13 DEF Tick, shown, told
<1>14. QED
  BY <1>1, <1>2, <1>3, <1>4, <1>5, <1>6, <1>7, <1>8, <1>9, <1>10, <1>11, <1>12, <1>13 DEF Next

\* touch leaves a timestamp at most Stale behind the clock, and none ahead.
LEMMA StampsInv == IInv /\ [Next]_vars => Stamps'
<1> SUFFICES ASSUME IInv, [Next]_vars PROVE Stamps'
  OBVIOUS
<1> USE DEF IInv, TypeOK, Known, Stamps, Judged
<1>1. CASE UNCHANGED <<now, rows, auth, decided>>
  BY <1>1
<1>2. ASSUME NEW a \in Agents, Authenticate(a) PROVE Stamps'
  <2>1. CASE UNCHANGED shown
    BY <1>2, <2>1 DEF Authenticate, shown
  <2>2. CASE ~UNCHANGED shown
    <3>1. /\ a \in DOMAIN rows /\ UNCHANGED <<now, decided>>
          /\ rows' = [rows EXCEPT ![a] = Touch(@, now)]
          /\ auth' = [auth EXCEPT ![a] = now]
      BY <1>2, <2>2 DEF Authenticate
    <3>2. Touch(rows[a], now).seen <= now /\ now <= Touch(rows[a], now).seen + Stale
      BY <3>1, StaleAssumption DEF Touch
    <3>3. QED
      BY <3>1, <3>2
  <2>3. QED
    BY <2>1, <2>2
<1>3. ASSUME NEW a \in Agents, Judge(a) PROVE Stamps'
  BY <1>3 DEF Judge, counters, shown, told
<1>4. ASSUME NEW a \in Agents, Revoke(a) PROVE Stamps'
  BY <1>4 DEF Revoke, counters, told
<1>5. ASSUME NEW a \in Agents, NEW t \in Tenants, Register(a, t) PROVE Stamps'
  BY <1>5, StaleAssumption DEF Register, NewRow, told
<1>6. ASSUME NEW t \in Tenants, Expire(t) PROVE Stamps'
  BY <1>6 DEF Expire, Forget, NoDecision, counters, shown
<1>7. CASE Tick
  BY <1>7 DEF Tick, shown, told
<1>8. QED
  BY <1>1, <1>2, <1>3, <1>4, <1>5, <1>6, <1>7
  DEF Next, vars, counters, shown, told, CheckCeiling, CheckQuota, CountBatch, Fail, Answer, View

LEMMA NoneOverInv == IInv /\ [Next]_vars => NoneOver'
<1> SUFFICES ASSUME IInv, [Next]_vars PROVE NoneOver'
  OBVIOUS
<1> USE DEF IInv, TypeOK, NoneOver, OverCeiling
<1>1. CASE UNCHANGED counters
  BY <1>1 DEF counters
<1>2. ASSUME NEW a \in Agents, CountBatch(a) PROVE NoneOver'
  BY <1>2 DEF CountBatch
<1>3. CASE CountRequest /\ UNCHANGED over
  BY <1>3, UsageAssumption, RequestsAssumption DEF CountRequest
<1>4. CASE Tick
  BY <1>4 DEF Tick, counters
<1>5. QED
  BY <1>1, <1>2, <1>3, <1>4
  DEF Next, vars, CheckCeiling, Authenticate, CheckQuota, Fail, Judge, Answer, Revoke, Register,
      Expire, View

\* Whose a machine is does not change.
LEMMA OwnersStay ==
    ASSUME IInv, [Next]_vars
    PROVE  \A a \in DOMAIN rows : a \in DOMAIN rows' /\ Owner(a)' = Owner(a)
<1> USE DEF IInv, TypeOK, Owner
<1>1. CASE UNCHANGED rows
  BY <1>1
<1>2. ASSUME NEW a \in Agents, Authenticate(a)
      PROVE  \A b \in DOMAIN rows : b \in DOMAIN rows' /\ Owner(b)' = Owner(b)
  BY <1>2 DEF Authenticate, Touch, shown
<1>3. ASSUME NEW a \in Agents, Revoke(a)
      PROVE  \A b \in DOMAIN rows : b \in DOMAIN rows' /\ Owner(b)' = Owner(b)
  BY <1>3 DEF Revoke
<1>4. ASSUME NEW a \in Agents, NEW t \in Tenants, Register(a, t)
      PROVE  \A b \in DOMAIN rows : b \in DOMAIN rows' /\ Owner(b)' = Owner(b)
  BY <1>4 DEF Register
<1>5. QED
  BY <1>1, <1>2, <1>3, <1>4
  DEF Next, vars, shown, CheckCeiling, CheckQuota, CountBatch, Fail, Judge, Answer, Expire, View, Tick

\* What one step does to the machines of a tenant and to those past its
\* quota: it takes one at most past the quota, and only when it is not reached.
LEMMA SharesStep ==
    ASSUME IInv, [Next]_vars, TypeOK', NEW t \in Tenants
    PROVE  \/ /\ Cardinality(Of(t)) <= Cardinality(Of(t)')
              /\ PastQuota(t)' \subseteq PastQuota(t)
              /\ share'[t] \in {share[t], 0}
           \/ share[t] < TenantQuota /\ share'[t] = share[t]
           \/ \E a \in PastQuota(t) : /\ share'[t] = share[t] + 1
                                      /\ PastQuota(t)' = PastQuota(t) \ {a}
                                      /\ Of(t)' = Of(t)
<1> USE DEF IInv, TypeOK
<1> DEFINE Less == PastQuota(t)' \subseteq PastQuota(t)
           More == Cardinality(Of(t)) <= Cardinality(Of(t)')
<1>1. More
  <2>1. Of(t) \in SUBSET Of(t)'
    BY OwnersStay DEF Of
  <2>2. IsFiniteSet(Of(t)')
    <3>1. Of(t)' \in SUBSET Agents
      BY DEF Of
    <3>2. QED
      BY <3>1, FS_Subset, RequestsAssumption
  <2>3. QED
    BY <2>1, <2>2, FS_Subset
<1>2. ASSUME NEW a \in Agents, a \in DOMAIN rows, UNCHANGED rows,
             NEW to \in {"idle", "checked", "known", "counted", "judged"}, Goes(a, to)
      PROVE  PastQuota(t)' = PastQuota(t) \ {a}
  BY <1>2 DEF PastQuota, Of, Owner, Goes
<1>3. CASE UNCHANGED vars
  BY <1>3, <1>1 DEF vars, shown, counters, PastQuota, Of, Owner
<1>4. ASSUME NEW a \in Agents, CheckCeiling(a) PROVE Less /\ share'[t] = share[t]
  BY <1>4, <1>2 DEF CheckCeiling, counters, shown, PastQuota, Of, Owner
<1>5. ASSUME NEW a \in Agents, Authenticate(a) PROVE Less /\ share'[t] = share[t]
  <2>1. DOMAIN rows' = DOMAIN rows /\ share' = share /\ \E to \in {"idle", "known"} : Goes(a, to)
    BY <1>5 DEF Authenticate, counters, shown
  <2>2. \A b \in DOMAIN rows : Owner(b)' = Owner(b)
    BY OwnersStay
  <2>3. Of(t)' = Of(t)
    BY <2>1, <2>2 DEF Of
  <2>4. QED
    BY <2>1, <2>3 DEF PastQuota, Goes
<1>6. ASSUME NEW a \in Agents, CheckQuota(a)
      PROVE  (Less \/ share[t] < TenantQuota) /\ share'[t] = share[t]
  <2>1. a \in DOMAIN rows /\ UNCHANGED <<rows, share>>
    BY <1>6 DEF CheckQuota, Known, shown, counters
  <2>2. CASE OverQuota(share[Owner(a)])
    BY <1>6, <2>1, <2>2, <1>2 DEF CheckQuota
  <2>3. CASE ~OverQuota(share[Owner(a)]) /\ Owner(a) = t
    BY <2>1, <2>3, QuotaPositive DEF OverQuota
  <2>4. CASE ~OverQuota(share[Owner(a)]) /\ Owner(a) # t
    BY <1>6, <2>1, <2>4 DEF CheckQuota, Goes, PastQuota, Of, Owner
  <2>5. QED
    BY <2>1, <2>2, <2>3, <2>4
<1>7. ASSUME NEW a \in Agents, CountBatch(a)
      PROVE  \/ Less /\ share'[t] = share[t]
             \/ \E b \in PastQuota(t) : /\ share'[t] = share[t] + 1
                                        /\ PastQuota(t)' = PastQuota(t) \ {b}
                                        /\ Of(t)' = Of(t)
  <2>1. a \in DOMAIN rows /\ UNCHANGED rows /\ PastQuota(t)' = PastQuota(t) \ {a} /\ Of(t)' = Of(t)
    BY <1>7, <1>2 DEF CountBatch, Known, shown, Of, Owner
  <2>2. CASE Owner(a) = t
    <3>1. a \in PastQuota(t) /\ share'[t] = share[t] + 1
      BY <1>7, <2>1, <2>2 DEF CountBatch, PastQuota, Of
    <3>2. QED
      BY <3>1, <2>1
  <2>3. CASE Owner(a) # t
    BY <1>7, <2>1, <2>3 DEF CountBatch
  <2>4. QED
    BY <2>2, <2>3
<1>8. ASSUME NEW a \in Agents, Fail(a) \/ Judge(a) \/ Answer(a) PROVE Less /\ share'[t] = share[t]
  <2>1. a \in DOMAIN rows
    BY <1>8 DEF Fail, Judge, Answer, Known
  <2>2. UNCHANGED <<rows, share>> /\ \E to \in {"idle", "judged"} : Goes(a, to)
    BY <1>8 DEF Fail, Judge, Answer, shown, counters
  <2>3. QED
    BY <2>1, <2>2, <1>2
<1>9. ASSUME NEW a \in Agents, Revoke(a) PROVE Less /\ share'[t] = share[t]
  BY <1>9 DEF Revoke, counters, PastQuota, Of, Owner
<1>10. ASSUME NEW a \in Agents, NEW u \in Tenants, Register(a, u) PROVE Less /\ share'[t] = share[t]
  BY <1>10 DEF Register, Known, PastQuota, Of, Owner
<1>11. ASSUME NEW u \in Tenants, Expire(u) PROVE Less /\ share'[t] = share[t]
  BY <1>11 DEF Expire, counters, shown, PastQuota, Of, Owner
<1>12. ASSUME View PROVE Less /\ share'[t] = share[t]
  BY <1>12 DEF View, shown, PastQuota, Of, Owner
<1>13. ASSUME Tick PROVE Less /\ share'[t] \in {share[t], 0}
  BY <1>13 DEF Tick, counters, shown, PastQuota, Of, Owner
<1>14. QED
  BY <1>1, <1>3, <1>4, <1>5, <1>6, <1>7, <1>8, <1>9, <1>10, <1>11, <1>12, <1>13 DEF Next

\* The overshoot of a quota is at most the requests past the check, and those
\* are of different machines.
LEMMA SharesInv == IInv /\ [Next]_vars /\ TypeOK' => ShareHolds'
<1> SUFFICES ASSUME IInv, [Next]_vars, TypeOK', NEW t \in Tenants
             PROVE  share'[t] + Cardinality(PastQuota(t)') < TenantQuota + Cardinality(Of(t)')
  BY DEF ShareHolds
<1> DEFINE p == Cardinality(PastQuota(t))   p1 == Cardinality(PastQuota(t)')
           n == Cardinality(Of(t))          n1 == Cardinality(Of(t)')
<1>1. /\ IsFiniteSet(PastQuota(t)) /\ p \in Nat /\ n \in Nat
      /\ share[t] + p < TenantQuota + n
      /\ share[t] \in Nat /\ share'[t] \in Nat
  BY Finite, FS_CardinalityType DEF IInv, TypeOK, ShareHolds
<1>2. p1 \in Nat /\ n1 \in Nat /\ p1 <= n1
  <2>1. /\ \A u : IsFiniteSet(Of(u)') /\ IsFiniteSet(PastQuota(u)')
        /\ \A u : Cardinality(PastQuota(u)') <= Cardinality(Of(u)')
    <3>1. \A u : Of(u)' \in SUBSET Agents /\ PastQuota(u)' \in SUBSET Of(u)'
      BY DEF TypeOK, Of, PastQuota
    <3>2. QED
      BY <3>1, FS_Subset, RequestsAssumption
  <2>2. QED
    BY <2>1, FS_CardinalityType
<1>3. CASE PastQuota(t)' \subseteq PastQuota(t) /\ n <= n1 /\ share'[t] \in {share[t], 0}
  <2>1. p1 <= p
    BY <1>1, <1>3, FS_Subset
  <2>2. QED
    BY <1>1, <1>2, <1>3, <2>1, QuotaPositive
<1>4. CASE share[t] < TenantQuota /\ share'[t] = share[t]
  BY <1>1, <1>2, <1>4, QuotaPositive
<1>5. ASSUME NEW a \in PastQuota(t), share'[t] = share[t] + 1,
             PastQuota(t)' = PastQuota(t) \ {a}, Of(t)' = Of(t)
      PROVE  share'[t] + p1 < TenantQuota + n1
  <2>1. p1 = p - 1
    BY <1>1, <1>5, FS_RemoveElement
  <2>2. QED
    BY <1>1, <1>2, <1>5, <2>1, QuotaPositive
<1>6. QED
  BY SharesStep, <1>3, <1>4, <1>5

-----------------------------------------------------------------------------

\* Past the ceiling a batch counted is one that had passed the check, and
\* nobody passes it any more.
LEMMA CeilingInv == IInv /\ [Next]_vars /\ TypeOK' /\ NoneOver' => CeilingStopsIngest'
<1> SUFFICES ASSUME IInv, [Next]_vars, TypeOK', NoneOver', OverCeiling(platform)'
             PROVE  over' + Cardinality(PastCeiling') <= Cardinality(Agents)
  BY DEF CeilingStopsIngest
<1> DEFINE p == Cardinality(PastCeiling)   p1 == Cardinality(PastCeiling')   n == Cardinality(Agents)
<1>1. /\ IsFiniteSet(PastCeiling) /\ p \in Nat /\ n \in Nat /\ p <= n
      /\ over \in Nat /\ over' \in Nat
      /\ IsFiniteSet(PastCeiling') /\ p1 \in Nat /\ p1 <= n
  <2>1. PastCeiling' \in SUBSET Agents
    BY DEF PastCeiling
  <2>2. IsFiniteSet(PastCeiling') /\ p1 <= n
    BY <2>1, FS_Subset, RequestsAssumption
  <2>3. QED
    BY <2>2, Finite, FS_CardinalityType, RequestsAssumption DEF IInv, TypeOK
<1> USE DEF IInv, TypeOK
<1>2. ASSUME UNCHANGED <<platform, over>>, PastCeiling' \subseteq PastCeiling
      PROVE  over' + p1 <= n
  <2>1. OverCeiling(platform) /\ over + p <= n
    BY <1>2 DEF CeilingStopsIngest, OverCeiling
  <2>2. p1 <= p
    BY <1>1, <1>2, FS_Subset
  <2>3. QED
    BY <1>1, <1>2, <2>1, <2>2
<1>3. ASSUME NEW a \in Agents, CheckCeiling(a) PROVE over' + p1 <= n
  BY <1>3, <1>2 DEF CheckCeiling, counters, OverCeiling, PastCeiling
<1>4. ASSUME NEW a \in Agents, Authenticate(a) \/ CheckQuota(a) \/ Fail(a) \/ Judge(a)
      PROVE  over' + p1 <= n
  BY <1>4, <1>2 DEF Authenticate, CheckQuota, Fail, Judge, Goes, counters, PastCeiling
<1>5. ASSUME NEW a \in Agents, CountBatch(a) PROVE over' + p1 <= n
  <2>1. a \in PastCeiling /\ PastCeiling' = PastCeiling \ {a} /\ UNCHANGED platform
    BY <1>5 DEF CountBatch, Goes, PastCeiling
  <2>2. OverCeiling(platform) /\ over' = over + 1 /\ over + p <= n
    BY <1>5, <2>1 DEF CountBatch, OverCeiling, CeilingStopsIngest
  <2>3. p1 = p - 1
    BY <1>1, <2>1, FS_RemoveElement
  <2>4. QED
    BY <1>1, <2>2, <2>3
<1>6. ASSUME CountRequest, UNCHANGED over, PastCeiling' \subseteq PastCeiling
      PROVE  over' + p1 <= n
  <2>1. CASE OverCeiling(platform)
    <3>1. over + p <= n
      BY <2>1 DEF CeilingStopsIngest
    <3>2. p1 <= p
      BY <1>1, <1>6, FS_Subset
    <3>3. QED
      BY <1>1, <1>6, <3>1, <3>2
  <2>2. CASE ~OverCeiling(platform)
    BY <1>1, <1>6, <2>2 DEF NoneOver
  <2>3. QED
    BY <2>1, <2>2
<1>7. ASSUME NEW a \in Agents, Answer(a) PROVE over' + p1 <= n
  BY <1>7, <1>6 DEF Answer, Goes, PastCeiling
<1>8. ASSUME View \/ \E a \in Agents, t \in Tenants : Register(a, t) PROVE over' + p1 <= n
  BY <1>8, <1>6 DEF View, Register, PastCeiling
<1>9. ASSUME Tick PROVE over' + p1 <= n
  <2>1. PastCeiling' = PastCeiling
    BY <1>9 DEF Tick, PastCeiling
  <2>2. CASE UNCHANGED counters
    BY <2>1, <2>2, <1>2 DEF counters
  <2>3. CASE over' = 0
    BY <1>1, <2>3
  <2>4. QED
    BY <1>9, <2>2, <2>3 DEF Tick
<1>10. ASSUME (\E a \in Agents : Revoke(a)) \/ (\E t \in Tenants : Expire(t)) \/ UNCHANGED vars
       PROVE  over' + p1 <= n
  BY <1>10, <1>2 DEF Revoke, Expire, vars, counters, PastCeiling
<1>11. QED
  BY <1>3, <1>4, <1>5, <1>7, <1>8, <1>9, <1>10 DEF Next

-----------------------------------------------------------------------------

\* A machine that comes out of its request is noted on one side or the other.
LEMMA CollectsInv == IInv /\ [Next]_vars => Collects'
<1> SUFFICES ASSUME IInv, [Next]_vars, NEW b \in (DOMAIN rows)',
                    Judged(Owner(b))', rows'[b].seen > decided'[Owner(b)'], auth'[b] >= rows'[b].seen
             PROVE  b \in answered' \union letDown' \/ Inside(b)'
  BY DEF Collects
<1> USE DEF IInv, TypeOK, Judged, Inside
<1> DEFINE Old == /\ b \in DOMAIN rows /\ Judged(Owner(b))
                  /\ rows[b].seen > decided[Owner(b)] /\ auth[b] >= rows[b].seen
<1>1. Old => b \in answered \union letDown \/ Inside(b)
  BY DEF Collects
<1>2. b \in DOMAIN rows => Owner(b)' = Owner(b)
  BY OwnersStay
<1>3. CASE UNCHANGED <<rows, auth, decided, pc, told>>
  BY <1>1, <1>3 DEF told, Owner
<1>4. ASSUME NEW a \in Agents, CheckCeiling(a) PROVE b \in answered' \union letDown' \/ Inside(b)'
  BY <1>1, <1>4 DEF CheckCeiling, Goes, counters, shown, told, Owner
<1>5. ASSUME NEW a \in Agents, Authenticate(a) PROVE b \in answered' \union letDown' \/ Inside(b)'
  <2>1. b \in DOMAIN rows /\ UNCHANGED <<decided, told>>
    BY <1>5 DEF Authenticate, shown
  <2>2. CASE b = a
    <3>1. CASE rows[a].status = "revoked"
      BY <1>1, <1>5, <2>1, <2>2, <3>1 DEF Authenticate, Goes, shown, told, Owner
    <3>2. CASE rows[a].status # "revoked"
      BY <1>5, <2>2, <3>2 DEF Authenticate, Goes
    <3>3. QED
      BY <3>1, <3>2
  <2>3. CASE b # a
    <3>1. rows'[b] = rows[b] /\ auth'[b] = auth[b] /\ pc'[b] = pc[b]
      BY <1>5, <2>1, <2>3 DEF Authenticate, Goes, shown
    <3>2. QED
      BY <1>1, <1>2, <2>1, <3>1 DEF told, Owner
  <2>4. QED
    BY <2>2, <2>3
<1>6. ASSUME NEW a \in Agents, CheckQuota(a) \/ Fail(a) \/ Answer(a)
      PROVE  b \in answered' \union letDown' \/ Inside(b)'
  <2>1. UNCHANGED <<rows, auth, decided>> /\ answered \subseteq answered' /\ letDown \subseteq letDown'
    BY <1>6 DEF CheckQuota, Fail, Answer, shown, Noted
  <2>2. CASE b = a
    BY <1>6, <2>1, <2>2 DEF CheckQuota, Fail, Answer, Goes, Noted, Owner
  <2>3. CASE b # a
    BY <1>1, <1>6, <2>1, <2>3 DEF CheckQuota, Fail, Answer, Goes, Owner
  <2>4. QED
    BY <2>2, <2>3
<1>7. ASSUME NEW a \in Agents, CountBatch(a) PROVE b \in answered' \union letDown' \/ Inside(b)'
  BY <1>1, <1>7 DEF CountBatch, Goes, shown, told, Owner
<1>8. ASSUME NEW a \in Agents, Judge(a) PROVE b \in answered' \union letDown' \/ Inside(b)'
  <2>1. CASE UNCHANGED decided
    BY <1>1, <1>8, <2>1 DEF Judge, Goes, shown, told, Owner
  <2>2. CASE ~UNCHANGED decided
    <3>1. decided' = [decided EXCEPT ![Owner(a)] = now] /\ UNCHANGED <<rows, auth, told>>
          /\ pc' = [pc EXCEPT ![a] = "judged"]
      BY <1>8, <2>2 DEF Judge, Goes, shown, told
    <3>2. CASE Owner(b) = Owner(a)
      BY <3>1, <3>2 DEF Owner, Stamps
    <3>3. CASE Owner(b) # Owner(a)
      BY <1>1, <3>1, <3>3 DEF Owner, told
    <3>4. QED
      BY <3>2, <3>3
  <2>3. QED
    BY <2>1, <2>2
<1>9. ASSUME NEW a \in Agents, Revoke(a) PROVE b \in answered' \union letDown' \/ Inside(b)'
  <2>1. /\ UNCHANGED <<auth, decided, pc, told>>
        /\ b \in DOMAIN rows /\ rows'[b].seen = rows[b].seen
    BY <1>9 DEF Revoke, counters, told
  <2>2. QED
    BY <1>1, <1>2, <2>1 DEF told
<1>10. ASSUME NEW a \in Agents, NEW t \in Tenants, Register(a, t)
       PROVE  b \in answered' \union letDown' \/ Inside(b)'
  <2>1. CASE b = a
    BY <1>10, <2>1 DEF Register, NewRow, Known
  <2>2. CASE b # a
    BY <1>1, <1>10, <2>2 DEF Register, Owner, told
  <2>3. QED
    BY <2>1, <2>2
<1>11. ASSUME NEW t \in Tenants, Expire(t) PROVE b \in answered' \union letDown' \/ Inside(b)'
  <2>1. CASE Owner(b) = t
    BY <1>11, <2>1 DEF Expire, Owner, counters, shown
  <2>2. CASE Owner(b) # t
    BY <1>1, <1>11, <2>2 DEF Expire, Forget, Of, Owner, counters, shown
  <2>3. QED
    BY <2>1, <2>2
<1>12. QED
  BY <1>3, <1>4, <1>5, <1>6, <1>7, <1>8, <1>9, <1>10, <1>11
  DEF Next, vars, shown, told, counters, View, Tick

-----------------------------------------------------------------------------

LEMMA StepInv == IInv /\ [Next]_vars => IInv'
BY TypeInv, KnownInv, StampsInv, NoneOverInv, SharesInv, CeilingInv, CollectsInv DEF IInv

LEMMA Invariance == Spec => []IInv
<1>1. Init => IInv
  BY InitInv
<1>2. IInv /\ [Next]_vars => IInv'
  BY StepInv
<1>3. QED
  BY <1>1, <1>2, PTL DEF Spec

\* Every state of requests, counters and rows is well typed.
THEOREM TypeCorrect == Spec => []TypeOK
<1>1. IInv => TypeOK
  BY DEF IInv
<1>2. QED
  BY Invariance, <1>1, PTL

\* However batches overlap, a tenant passes its quota by less than it has
\* machines.
THEOREM SharesHold == Spec => []ShareHolds
<1>1. IInv => ShareHolds
  BY DEF IInv
<1>2. QED
  BY Invariance, <1>1, PTL

\* The ceiling is passed only by batches that were past the check when it was
\* reached: by fewer than there are machines.
THEOREM CeilingStops == Spec => []CeilingStopsIngest
<1>1. IInv => CeilingStopsIngest
  BY DEF IInv
<1>2. QED
  BY Invariance, <1>1, PTL

\* A machine is shown as reporting only while it is, and every screen has the
\* same list.
THEOREM LivenessReal == Spec => []LivenessIsReal
<1>1. IInv => LivenessIsReal
  <2> SUFFICES ASSUME IInv PROVE LivenessIsReal
    OBVIOUS
  <2> USE StaleAssumption DEF IInv, TypeOK
  <2>1. ASSUME NEW a \in DOMAIN rows
        PROVE  /\ auth[a] <= rows[a].seen + Stale
               /\ AgentState(rows[a], now) = "live" =>
                    now <= Stale + (IF auth[a] > rows[a].seen THEN auth[a] ELSE rows[a].seen)
    BY DEF Stamps, AgentState
  <2>2. /\ QueryLive(rows, now) = AgentsIn(rows, now, "live")
        /\ QueryStale(rows, now) = AgentsIn(rows, now, "quiet")
    <3>1. \A a \in DOMAIN rows : rows[a].status \in {"active", "revoked"} /\ rows[a].seen \in Nat
      OBVIOUS
    <3>2. QED
      BY <3>1 DEF QueryLive, QueryStale, AgentsIn, AgentState
  <2>3. ASSUME NEW t \in Tenants
        PROVE  /\ AgentsPage(RowsOf(t), now).live = Cardinality(QueryLive(rows, now) \intersect Of(t))
               /\ AgentsPage(RowsOf(t), now).live + AgentsPage(RowsOf(t), now).quiet
                    <= AgentsPage(RowsOf(t), now).total
    <3> DEFINE live == AgentsIn(RowsOf(t), now, "live")   quiet == AgentsIn(RowsOf(t), now, "quiet")
    <3>1. DOMAIN RowsOf(t) = Of(t) /\ \A a \in Of(t) : RowsOf(t)[a] = rows[a]
      BY DEF RowsOf
    <3>2. live = QueryLive(rows, now) \intersect Of(t)
      BY <2>2, <3>1 DEF AgentsIn, Of
    <3>3. live \subseteq Of(t) /\ quiet \subseteq Of(t) /\ live \intersect quiet = {} /\ IsFiniteSet(Of(t))
      BY <3>1, Finite DEF AgentsIn
    <3>4. Cardinality(live) + Cardinality(quiet) <= Cardinality(Of(t))
      <4>1. IsFiniteSet(live) /\ IsFiniteSet(quiet)
        BY <3>3, FS_Subset
      <4>2. Cardinality(live \union quiet) = Cardinality(live) + Cardinality(quiet)
        <5>1. Cardinality(live \union quiet)
                = Cardinality(live) + Cardinality(quiet) - Cardinality(live \intersect quiet)
          BY <4>1, FS_Union
        <5>2. Cardinality(live \intersect quiet) = 0
          BY <3>3, FS_EmptySet
        <5>3. Cardinality(live) \in Nat /\ Cardinality(quiet) \in Nat
          BY <4>1, FS_CardinalityType
        <5> HIDE DEF live, quiet
        <5>4. QED
          BY <5>1, <5>2, <5>3
      <4>3. live \union quiet \in SUBSET Of(t)
        BY <3>3
      <4>4. QED
        BY <3>3, <4>2, <4>3, FS_Subset
    <3>5. QED
      BY <3>1, <3>2, <3>4 DEF AgentsPage
  <2>4. QED
    BY <2>1, <2>2, <2>3 DEF LivenessIsReal
<1>2. QED
  BY Invariance, <1>1, PTL

\* What says that every machine has collected a decision means that all their
\* timestamps are of its second or later, and the other way round.
LEMMA SaysIt ==
    ASSUME IInv, NEW t \in Tenants, Judged(t)
    PROVE  /\ SaysCollected(t) => \A a \in Of(t) : rows[a].seen >= decided[t]
           /\ Of(t) # {} /\ (\A a \in Of(t) : rows[a].seen >= decided[t]) => SaysCollected(t)
<1> USE DEF IInv, TypeOK, Stamps
<1>1. /\ DOMAIN RowsOf(t) = Of(t)
      /\ \A a \in Of(t) : RowsOf(t)[a] = rows[a] /\ rows[a].seen \in Nat
      /\ decided[t] \in Nat \ {0}
  BY DEF RowsOf, Of
<1>2. Row(t, FALSE) = "in_effect" <=> Of(t) # {} /\ \A a \in Of(t) : rows[a].seen >= decided[t]
  BY <1>1 DEF Row, Reach
<1>3. Behind({decided[t]}, RowsOf(t)) = {a \in Of(t) : rows[a].seen < decided[t]}
  <2>1. {d \in {decided[t]} : d # 0} = {decided[t]}
    BY <1>1
  <2>2. (CHOOSE d \in {decided[t]} : \A e \in {decided[t]} : d <= e) = decided[t]
    BY <1>1
  <2>3. QED
    BY <1>1, <2>1, <2>2 DEF Behind
<1>4. SystemPage(t).behind = {} => \A a \in Of(t) : rows[a].seen >= decided[t]
  <2>1. SystemPage(t).behind = Behind({decided[t]}, RowsOf(t))
    BY DEF SystemPage
  <2>2. QED
    BY <1>1, <1>3, <2>1
<1>5. QED
  BY <1>1, <1>2, <1>4 DEF SaysCollected, Exported

\* A screen that says so is right, but for the cases the property names.
THEOREM CollectedTrue == Spec => []CollectedIsTrue
<1>1. IInv => CollectedIsTrue
  <2> SUFFICES ASSUME IInv, NEW t \in Tenants
               PROVE  /\ Judged(t) /\ SaysCollected(t) =>
                            \A a \in Of(t) : \/ a \in answered \union letDown
                                             \/ Busy(a)
                                             \/ rows[a].seen = decided[t]
                                             \/ auth[a] < rows[a].seen
                      /\ "in_effect" \notin Exported(t, TRUE) \union {Row(t, TRUE)}
    BY DEF CollectedIsTrue
  <2>1. ASSUME Judged(t), SaysCollected(t), NEW a \in Of(t)
        PROVE  \/ a \in answered \union letDown
               \/ Busy(a)
               \/ rows[a].seen = decided[t]
               \/ auth[a] < rows[a].seen
    <3>1. a \in DOMAIN rows /\ Owner(a) = t /\ rows[a].seen >= decided[t]
      BY <2>1, SaysIt DEF Of
    <3>2. rows[a].seen \in Nat /\ auth[a] \in Nat /\ decided[t] \in Nat
      BY <2>1, <3>1 DEF IInv, TypeOK, Stamps
    <3>3. QED
      BY <2>1, <3>1, <3>2 DEF IInv, Collects, Inside, Busy
  <2>2. "in_effect" \notin Exported(t, TRUE) \union {Row(t, TRUE)}
    BY DEF Exported, Row, Reach
  <2>3. QED
    BY <2>1, <2>2
<1>2. QED
  BY Invariance, <1>1, PTL

\* And it says so once every machine was authenticated Stale after it.
THEOREM CollectedShown == Spec => []CollectedIsShown
<1>1. IInv => CollectedIsShown
  <2> SUFFICES ASSUME IInv, NEW t \in Tenants, Judged(t), Of(t) # {},
                      \A a \in Of(t) : auth[a] >= decided[t] + Stale
               PROVE  SaysCollected(t)
    BY DEF CollectedIsShown
  <2>1. \A a \in Of(t) : rows[a].seen >= decided[t]
    <3> USE StaleAssumption DEF IInv, TypeOK, Stamps
    <3>1. \A a \in Of(t) : a \in DOMAIN rows /\ rows[a].seen \in Nat /\ auth[a] \in Nat
      BY DEF Of
    <3>2. decided[t] \in Nat
      OBVIOUS
    <3>3. QED
      BY <3>1, <3>2
  <2>2. QED
    BY <2>1, SaysIt
<1>2. QED
  BY Invariance, <1>1, PTL

-----------------------------------------------------------------------------
(* The bars of a week.                                                     *)

\* Of finitely many figures one is the greatest.
LEMMA TallestIs ==
    ASSUME NEW N \in Nat \ {0}, NEW week \in [1..N -> Nat]
    PROVE  \E n \in {week[i] : i \in 1..N} : \A i \in 1..N : week[i] <= n
<1>1. IsFiniteSet(1..N)
  BY FS_Interval
<1>2. PICK all \in Nat : \A i \in 1..N : week[i] <= all
  BY <1>1, SumNat
<1> DEFINE S == {week[i] + 1 : i \in 1..N}
<1>3. S \subseteq 1..all + 1 /\ week[1] + 1 \in S
  BY <1>2
<1>4. PICK m \in S : \A k \in S : k <= m
  <2> HIDE DEF S
  <2>1. S \in SUBSET (1..all + 1) /\ S # {} /\ all + 1 \in Nat
    BY <1>3
  <2>2. QED
    BY <2>1, GreatestOf
<1>5. PICK j \in 1..N : m = week[j] + 1
  OBVIOUS
<1>6. \A i \in 1..N : week[i] <= week[j]
  <2> SUFFICES ASSUME NEW i \in 1..N PROVE week[i] <= week[j]
    OBVIOUS
  <2>1. week[i] + 1 <= m
    BY <1>4
  <2>2. QED
    BY <1>5, <2>1
<1>7. QED
  BY <1>6

\* round(n / tallest * SparkLevels), the halves to the even neighbour: a
\* greater figure is not rounded to less, the tallest to the full height.
LEMMA RoundGrows ==
    ASSUME NEW t \in Nat \ {0}
    PROVE  LET Round(n) == LET whole == (2 * n * SparkLevels + t) \div (2 * t)
                               half  == (2 * n * SparkLevels + t) % (2 * t) = 0
                           IN IF half /\ whole % 2 = 1 THEN whole - 1 ELSE whole
           IN /\ \A m, n \in Nat : m <= n => Round(m) <= Round(n)
              /\ \A n \in Nat : Round(n) \in Int
              /\ Round(t) = SparkLevels
<1> DEFINE X(n) == 2 * n * SparkLevels + t
           whole(n) == X(n) \div (2 * t)
           half(n) == X(n) % (2 * t) = 0
           Round(n) == IF half(n) /\ whole(n) % 2 = 1 THEN whole(n) - 1 ELSE whole(n)
<1>1. PICK D \in Nat \ {0} : D = 2 * t
  OBVIOUS
<1>2. \A n \in Nat : X(n) \in Nat
  BY DEF SparkLevels
<1>3. \A x \in Nat : x \div D \in Nat /\ x % D = x - D * (x \div D)
  OBVIOUS
<1>4. \A x, y \in Nat : x <= y => x \div D <= y \div D
  BY <1>1
<1>5. \A n \in Nat : whole(n) \in Nat
  BY <1>1, <1>2, <1>3
<1>6. ASSUME NEW m \in Nat, NEW n \in Nat, m <= n PROVE Round(m) <= Round(n)
  <2>1. X(m) <= X(n)
    BY <1>6 DEF SparkLevels
  <2>2. PICK x \in Nat, y \in Nat, p \in Nat, q \in Nat :
            x = X(m) /\ y = X(n) /\ p = whole(m) /\ q = whole(n) /\ x <= y
    BY <1>2, <1>5, <2>1
  <2>3. p = x \div D /\ q = y \div D /\ (half(m) <=> x % D = 0) /\ (half(n) <=> y % D = 0)
    BY <1>1, <2>2
  <2>4. p <= q
    BY <1>4, <2>2, <2>3
  <2>5. p = q /\ y % D = 0 => x % D = 0
    <3> SUFFICES ASSUME p = q, y % D = 0 PROVE x % D = 0
      OBVIOUS
    <3>1. x % D = x - D * p /\ y % D = y - D * p
      BY <1>3, <2>3
    <3>2. PICK z \in Nat : z = D * p
      OBVIOUS
    <3>3. PICK r \in Nat : r = x % D
      OBVIOUS
    <3>4. r = x - z /\ 0 = y - z
      BY <3>1, <3>2, <3>3
    <3>5. QED
      BY <2>2, <3>3, <3>4
  <2>6. /\ Round(m) = IF x % D = 0 /\ p % 2 = 1 THEN p - 1 ELSE p
        /\ Round(n) = IF y % D = 0 /\ q % 2 = 1 THEN q - 1 ELSE q
    BY <2>2, <2>3
  <2> HIDE DEF Round
  <2>7. QED
    BY <2>4, <2>5, <2>6
<1>7. \A n \in Nat : Round(n) \in Int
  <2> SUFFICES ASSUME NEW n \in Nat PROVE Round(n) \in Int
    OBVIOUS
  <2>1. whole(n) \in Nat
    BY <1>5
  <2> HIDE DEF whole, half
  <2>2. QED
    BY <2>1
<1>8. Round(t) = SparkLevels
  <2>1. X(t) = 11 * t
    BY DEF SparkLevels
  <2>2. (11 * t) \div (2 * t) = 5 /\ (11 * t) % (2 * t) = t
    <3>1. \A x, y \in Nat, d \in Nat \ {0} : x = d * 5 + y /\ y < d => x \div d = 5 /\ x % d = y
      OBVIOUS
    <3>2. 11 * t = (2 * t) * 5 + t /\ t < 2 * t
      OBVIOUS
    <3>3. QED
      BY <3>1, <3>2
  <2>3. whole(t) = 5 /\ ~half(t)
    BY <2>1, <2>2
  <2> HIDE DEF whole, half
  <2>4. QED
    BY <2>3 DEF SparkLevels
<1>9. QED
  BY <1>6, <1>7, <1>8

\* The bars rank the days as their figures do, and if there are any the
\* greatest has the full height.
LEMMA SparkRanks ==
    ASSUME NEW N \in Nat \ {0}, NEW week \in [1..N -> Nat]
    PROVE  /\ DOMAIN Spark(week) = 1..N
           /\ \A j, k \in 1..N : week[j] <= week[k] => Spark(week)[j] <= Spark(week)[k]
           /\ (\E j \in 1..N : Spark(week)[j] > 0) => \E j \in 1..N : Spark(week)[j] = SparkLevels
<1> DEFINE tallest == CHOOSE n \in {week[i] : i \in DOMAIN week} :
                        \A i \in DOMAIN week : week[i] <= n
           Round(n) == LET whole == (2 * n * SparkLevels + tallest) \div (2 * tallest)
                           half  == (2 * n * SparkLevels + tallest) % (2 * tallest) = 0
                       IN IF half /\ whole % 2 = 1 THEN whole - 1 ELSE whole
           Level(n) == IF tallest = 0 THEN 0 ELSE IF Round(n) < 1 THEN 1 ELSE Round(n)
<1>1. DOMAIN week = 1..N /\ \A i \in 1..N : week[i] \in Nat
  OBVIOUS
<1>2. /\ tallest \in {week[i] : i \in 1..N}
      /\ \A i \in 1..N : week[i] <= tallest
  BY <1>1, TallestIs
<1>3. Spark(week) = [i \in 1..N |-> Level(week[i])]
  BY <1>1 DEF Spark
<1>4. PICK top \in 1..N : tallest = week[top]
  BY <1>2
<1>5. CASE tallest = 0
  <2>1. \A i \in 1..N : Spark(week)[i] = 0
    BY <1>3, <1>5
  <2>2. DOMAIN Spark(week) = 1..N
    BY <1>3
  <2>3. PICK bars : bars = Spark(week)
    OBVIOUS
  <2> HIDE DEF tallest, Level
  <2>4. QED
    BY <2>1, <2>2, <2>3
<1>6. CASE tallest # 0
  <2>1. tallest \in Nat \ {0}
    BY <1>1, <1>4, <1>6
  <2> HIDE DEF tallest
  <2>2. /\ \A m, n \in Nat : m <= n => Round(m) <= Round(n)
        /\ \A n \in Nat : Round(n) \in Int
        /\ Round(tallest) = SparkLevels
    BY <2>1, RoundGrows
  <2>3. \A i \in 1..N : Spark(week)[i] = Level(week[i])
    BY <1>3
  <2>4. \A n \in Nat : Level(n) = IF Round(n) < 1 THEN 1 ELSE Round(n)
    BY <1>6
  <2> HIDE DEF Round, Level
  <2>5. \A m, n \in Nat : m <= n => Level(m) <= Level(n)
    BY <2>2, <2>4
  <2>6. Level(tallest) = SparkLevels
    BY <2>1, <2>2, <2>4 DEF SparkLevels
  <2>7. QED
    BY <1>1, <1>3, <1>4, <2>3, <2>5, <2>6
<1>7. QED
  BY <1>5, <1>6

\* A tenant's days up to today, and today alone.
LEMMA DaysOver ==
    ASSUME NEW days \in [1..TrendDays -> Nat]
    PROVE  /\ RequestsOver(days, TrendDays, TrendDays) = days
           /\ RequestsOver(days, TrendDays, 1)[1] = days[TrendDays]
<1>1. TrendDays \in Nat \ {0}
  BY UsageAssumption
<1>2. RequestsOver(days, TrendDays, TrendDays) = [j \in 1..TrendDays |-> days[j]]
  <2>1. \A j \in 1..TrendDays : TrendDays - TrendDays + j = j
    BY <1>1
  <2>2. QED
    BY <2>1 DEF RequestsOver
<1>3. RequestsOver(days, TrendDays, 1)[1] = days[TrendDays]
  BY <1>1 DEF RequestsOver
<1>4. QED
  BY <1>2, <1>3

\* ScreensTellTheDay of every reachable state, whatever the ceiling, the share
\* and the days before: the warning is up before anything is refused, a live
\* plot is of a tenant that is served, and the list's figures and bars are the
\* counters'.
THEOREM ScreensTell == Spec => []ScreensTellTheDay
<1>1. IInv => ScreensTellTheDay
  <2> SUFFICES ASSUME IInv PROVE ScreensTellTheDay
    OBVIOUS
  <2>1. UsageReport(platform).ceiling_warning \/ ~OverCeiling(platform)
    <3>1. platform \in Nat
      BY DEF IInv, TypeOK
    <3>2. Ceiling \in Nat
      BY UsageAssumption
    <3>3. UsageReport(platform).ceiling_warning = (10 * platform >= 8 * Ceiling)
      BY DEF UsageReport
    <3>4. platform >= Ceiling => 10 * platform >= 8 * Ceiling
      BY <3>1, <3>2
    <3>5. QED
      BY <3>3, <3>4 DEF OverCeiling
  <2>2. ASSUME NEW t \in Tenants, GatePage(t, TRUE).plot = "live"
        PROVE  /\ ~OverCeiling(platform)
               /\ ~OverQuota(share[t])
               /\ \E a \in Of(t) : now - rows[a].seen <= Stale
    <3> DEFINE health == AgentHealth(RowsOf(t), now)
               why == ThrottledReason(platform, share[t])
               axis == AxisState(health, why, TRUE)
    <3>1. PlotOf(axis) = "live"
      BY <2>2 DEF GatePage
    <3>2. health \notin {"never_connected", "degraded"} /\ why = "none"
      <4> HIDE DEF health, why
      <4>1. axis = IF health \in {"never_connected", "degraded"} THEN "no_signal"
                   ELSE IF why # "none" THEN "throttled" ELSE "fed"
        BY DEF AxisState
      <4> HIDE DEF axis
      <4>2. axis # "no_signal" /\ axis # "throttled"
        BY <3>1 DEF PlotOf
      <4>3. QED
        BY <4>1, <4>2
    <3>3. ~OverCeiling(platform) /\ ~OverQuota(share[t])
      BY <3>2 DEF ThrottledReason
    <3>4. Reporting(RowsOf(t), now) # {}
      BY <3>2 DEF AgentHealth
    <3>5. QED
      BY <3>3, <3>4 DEF Reporting, RowsOf
  <2>3. ASSUME NEW list \in Listings, NEW before \in [1..TrendDays - 1 -> 0..Ceiling]
        PROVE  LET Days(t) == [d \in 1..TrendDays |-> IF d = TrendDays THEN share[t] ELSE before[d]]
                   page == TenantRows(list, [t \in Tenants |-> Days(t)], TrendDays)
               IN \A i \in DOMAIN list :
                    LET bars == page[i].week
                        week == Days(list[i])
                    IN /\ page[i].used = share[list[i]]
                       /\ \A j, k \in DOMAIN bars : week[j] <= week[k] => bars[j] <= bars[k]
                       /\ (\E j \in DOMAIN bars : bars[j] > 0) => \E j \in DOMAIN bars : bars[j] = SparkLevels
    <3> DEFINE Days(t) == [d \in 1..TrendDays |-> IF d = TrendDays THEN share[t] ELSE before[d]]
               counts == [t \in Tenants |-> Days(t)]
               page == TenantRows(list, counts, TrendDays)
    <3> SUFFICES ASSUME NEW i \in DOMAIN list
                 PROVE  /\ page[i].used = share[list[i]]
                        /\ \A j, k \in DOMAIN page[i].week :
                            Days(list[i])[j] <= Days(list[i])[k] => page[i].week[j] <= page[i].week[k]
                        /\ (\E j \in DOMAIN page[i].week : page[i].week[j] > 0) =>
                            \E j \in DOMAIN page[i].week : page[i].week[j] = SparkLevels
      OBVIOUS
    <3>1. TrendDays \in Nat \ {0} /\ list[i] \in Tenants
      BY UsageAssumption DEF Listings
    <3>2. PICK days \in [1..TrendDays -> Nat] : days = Days(list[i])
      <4>1. share[list[i]] \in Nat
        BY <3>1 DEF IInv, TypeOK
      <4>2. \A d \in 1..TrendDays : d # TrendDays => before[d] \in Nat
        BY <3>1, UsageAssumption
      <4>3. Days(list[i]) \in [1..TrendDays -> Nat]
        BY <4>1, <4>2
      <4>4. QED
        BY <4>3
    <3>3. counts[list[i]] = days /\ days[TrendDays] = share[list[i]]
      BY <3>1, <3>2
    <3> HIDE DEF counts
    <3>4. /\ page[i].used = days[TrendDays]
          /\ page[i].week = Spark(days) \/ DOMAIN page[i].week = {}
      <4>1. page[i] = [used |-> RequestsOver(counts[list[i]], TrendDays, 1)[1],
                       week |-> IF i <= TenantsPerPage
                                THEN Spark(RequestsOver(counts[list[i]], TrendDays, TrendDays)) ELSE <<>>]
        BY DEF TenantRows
      <4>2. page[i].used = RequestsOver(days, TrendDays, 1)[1]
        BY <3>3, <4>1
      <4>3. \/ page[i].week = Spark(RequestsOver(days, TrendDays, TrendDays))
            \/ DOMAIN page[i].week = {}
        BY <3>3, <4>1
      <4>4. QED
        BY <4>2, <4>3, DaysOver
    <3>5. PICK bars : bars = page[i].week
      OBVIOUS
    <3> HIDE DEF page, Days
    <3>6. /\ \A j, k \in DOMAIN bars : days[j] <= days[k] => bars[j] <= bars[k]
          /\ (\E j \in DOMAIN bars : bars[j] > 0) => \E j \in DOMAIN bars : bars[j] = SparkLevels
      <4>1. CASE bars = Spark(days)
        BY <3>1, <4>1, SparkRanks
      <4>2. CASE DOMAIN bars = {}
        BY <4>2
      <4>3. QED
        BY <3>4, <3>5, <4>1, <4>2
    <3>7. QED
      BY <3>2, <3>3, <3>4, <3>5, <3>6
  <2>4. QED
    BY <2>1, <2>2, <2>3 DEF ScreensTellTheDay
<1>2. QED
  BY <1>1, Invariance, PTL
=============================================================================

---------------------------- MODULE ShaperProofs ----------------------------
(***************************************************************************)
(* Theorems about TrafficShaper, for any addresses, leases, agents and     *)
(* requests handled at once, whatever fails.                               *)
(*                                                                         *)
(* EnforcedWithinRecord says nothing of the leases on their way, which is  *)
(* where an agent gets its own from: IssuedWithinRecord says of a          *)
(* request's answer what it says of a server.  WithdrawnForCause needs to  *)
(* know of an answer that it serves what the agent holds (ServesHeld), and *)
(* renews none of it for less than it still has (RenewsLonger).            *)
(***************************************************************************)
EXTENDS TrafficShaper, TLAPS

\* What a request has issued has at most what the record has, unless the
\* record was cut short since.
IssuedWithinRecord ==
    \A w \in Workers, ip \in IPs :
        ip \in Leased(req[w].issued) /\ ip \notin missed[w]
            => req[w].issued[ip].left <= rows[ip].left

\* A row with time left is a decision.
RowsGranted == \A ip \in IPs : rows[ip].left > 0 => rows[ip].tier # 0

\* The blocks an answer has not cut off: the agent that waits for it holds no
\* other with time left and a standing record.
Standing(a) == InForce(held[a]) \ lapsed[a]

ServesHeld ==
    \A a \in Agents : \A w \in waiting[a] :
        req[w].pc = "replied" /\ ~req[w].paused
            => Standing(a) \subseteq req[w].active \union req[w].beyond

IInv == TypeOK /\ IssuedWithinRecord /\ EnforcedWithinRecord /\ RowsGranted /\ ServesHeld

-----------------------------------------------------------------------------
(* Tables of leases.                                                       *)

LEMMA GrantLease == \A k \in 1..2 : Grant(k) \in Lease /\ Grant(k).left = TTL[k] /\ TTL[k] \in Nat
BY LeaseAssumption DEF Grant, Lease

LEMMA NoLeaseLease == NoLease \in Lease /\ NoLeases \in [IPs -> Lease] /\ Leased(NoLeases) = {}
BY DEF NoLease, Lease, NoLeases, Leased

\* A lease is a tier and a time left, and nothing else.
LEMMA LeaseParts == \A d \in Lease : d.tier \in 0..2 /\ d.left \in Nat
BY DEF Lease

\* Time takes no entry from a table and gives no lease more.
LEMMA AgedTable ==
    ASSUME NEW t \in [IPs -> Lease]
    PROVE  /\ Aged(t) \in [IPs -> Lease]
           /\ Leased(Aged(t)) = Leased(t)
           /\ \A ip \in IPs : Aged(t)[ip].left = IF t[ip].left > 0 THEN t[ip].left - 1 ELSE 0
<1>1. \A d \in Lease : /\ Older(d) \in Lease /\ Older(d).tier = d.tier
                       /\ Older(d).left = IF d.left > 0 THEN d.left - 1 ELSE 0
  BY DEF Older, Lease
<1>2. \A ip \in IPs : Aged(t)[ip] = Older(t[ip])
  BY DEF Aged
<1>3. Aged(t) \in [IPs -> Lease]
  BY <1>1 DEF Aged
<1>4. QED
  BY <1>1, <1>2, <1>3 DEF Leased

\* Time keeps an order between two leases.
LEMMA AgedOrder ==
    ASSUME NEW t \in [IPs -> Lease], NEW u \in [IPs -> Lease], NEW ip \in IPs,
           t[ip].left <= u[ip].left
    PROVE  Aged(t)[ip].left <= Aged(u)[ip].left
<1>1. t[ip].left \in Nat /\ u[ip].left \in Nat
  BY LeaseParts
<1>2. QED
  BY <1>1, AgedTable

LEMMA WithoutTable ==
    ASSUME NEW t \in [IPs -> Lease], NEW S
    PROVE  /\ Without(t, S) \in [IPs -> Lease]
           /\ \A ip \in Leased(Without(t, S)) : ip \notin S /\ ip \in Leased(t) /\ Without(t, S)[ip] = t[ip]
<1>1. \A ip \in IPs : Without(t, S)[ip] = IF ip \in S THEN NoLease ELSE t[ip]
  BY DEF Without
<1>2. Without(t, S) \in [IPs -> Lease]
  BY NoLeaseLease DEF Without
<1>3. NoLease.tier = 0
  BY DEF NoLease
<1>4. QED
  BY <1>1, <1>2, <1>3 DEF Leased

LEMMA RenewedTable ==
    ASSUME NEW t \in [IPs -> Lease], NEW u \in [IPs -> Lease]
    PROVE  /\ Renewed(t, u) \in [IPs -> Lease]
           /\ \A ip \in IPs : Renewed(t, u)[ip] = IF ip \in Leased(u) THEN u[ip] ELSE t[ip]
BY DEF Renewed, Leased

\* A sweep keeps the leases it keeps as they are.
LEMMA SweptTable ==
    ASSUME NEW t \in [IPs -> Lease]
    PROVE  /\ Swept(t) \in [IPs -> Lease]
           /\ \A ip \in Leased(Swept(t)) : ip \notin RunOut(t) /\ ip \in Leased(t) /\ Swept(t)[ip] = t[ip]
BY WithoutTable DEF Swept

\* What is held with time left, and stands, only shrinks; and no answer is
\* changed once it is made.
LEMMA StillServed ==
    ASSUME ServesHeld,
           \A a \in Agents : Standing(a)' \subseteq Standing(a) \/ waiting'[a] = {},
           \A a \in Agents : \A w \in waiting'[a] :
               req'[w].pc = "replied" => w \in waiting[a] /\ req'[w] = req[w]
    PROVE  ServesHeld'
BY DEF ServesHeld

-----------------------------------------------------------------------------
(* Initial states, and the ways a step can change a table.                 *)

LEMMA InitInv == Init => IInv
<1> SUFFICES ASSUME Init PROVE IInv
  OBVIOUS
<1>1. Idle \in Request
  BY NoLeaseLease DEF Idle, Request
<1>2. TypeOK
  BY <1>1, NoLeaseLease DEF Init, TypeOK
<1>3. IssuedWithinRecord
  BY NoLeaseLease DEF Init, IssuedWithinRecord, Idle
<1>4. EnforcedWithinRecord
  BY NoLeaseLease DEF Init, EnforcedWithinRecord
<1>5. RowsGranted /\ ServesHeld
  BY DEF Init, RowsGranted, ServesHeld, NoLeases, NoLease
<1>6. QED
  BY <1>2, <1>3, <1>4, <1>5 DEF IInv

\* A request that ends has nothing issued.
LEMMA FinishInv ==
    ASSUME TypeOK, IssuedWithinRecord, NEW w \in Workers, Finish(w), UNCHANGED rows
    PROVE  /\ req' \in [Workers -> Request] /\ missed' \in [Workers -> SUBSET IPs]
           /\ IssuedWithinRecord'
<1>1. req' = [req EXCEPT ![w] = Idle] /\ missed' = [missed EXCEPT ![w] = {}]
  BY DEF Finish
<1>2. Idle \in Request /\ Idle.issued = NoLeases
  BY NoLeaseLease DEF Idle, Request
<1>3. req' \in [Workers -> Request] /\ missed' \in [Workers -> SUBSET IPs]
  BY <1>1, <1>2 DEF TypeOK
<1>4. ASSUME NEW v \in Workers, NEW ip \in IPs,
             ip \in Leased(req'[v].issued), ip \notin missed'[v]
      PROVE  req'[v].issued[ip].left <= rows[ip].left
  <2>1. v # w
    BY <1>1, <1>2, <1>4, NoLeaseLease DEF TypeOK
  <2>2. req'[v] = req[v] /\ missed'[v] = missed[v]
    BY <1>1, <2>1 DEF TypeOK
  <2>3. QED
    BY <1>4, <2>2 DEF IssuedWithinRecord
<1>5. QED
  BY <1>3, <1>4 DEF IssuedWithinRecord

LEMMA SweepInv ==
    ASSUME TypeOK, EnforcedWithinRecord, NEW S, Sweep(S), UNCHANGED rows
    PROVE  /\ held' \in [Agents -> [IPs -> Lease]] /\ lapsed' \in [Agents -> SUBSET IPs]
           /\ EnforcedWithinRecord'
           /\ \A a \in Agents : Standing(a)' \subseteq Standing(a)
<1>1. \A a \in Agents : /\ held'[a] = IF a \in S THEN Swept(held[a]) ELSE held[a]
                        /\ lapsed'[a] = IF a \in S THEN lapsed[a] \ RunOut(held[a]) ELSE lapsed[a]
  BY DEF Sweep
<1>2. \A a \in Agents : held[a] \in [IPs -> Lease] /\ lapsed[a] \subseteq IPs
  BY DEF TypeOK
<1>3. held' \in [Agents -> [IPs -> Lease]]
  BY <1>2, SweptTable DEF Sweep
<1>4. lapsed' \in [Agents -> SUBSET IPs]
  BY <1>2 DEF Sweep
<1>5. ASSUME NEW a \in Agents, NEW ip \in IPs, ip \in Leased(held'[a]), ip \notin lapsed'[a]
      PROVE  held'[a][ip].left <= rows[ip].left
  <2>1. /\ ip \in Leased(held[a]) /\ held'[a][ip] = held[a][ip]
        /\ a \in S => ip \notin RunOut(held[a])
    <3>1. CASE a \in S
      <4>1. held'[a] = Swept(held[a]) /\ held[a] \in [IPs -> Lease]
        BY <1>1, <1>2, <3>1
      <4>2. QED
        BY <1>5, <3>1, <4>1, SweptTable
    <3>2. CASE a \notin S
      BY <1>1, <1>5, <3>2
    <3>3. QED
      BY <3>1, <3>2
  <2>2. ip \notin lapsed[a]
    BY <1>1, <1>5, <2>1
  <2>3. QED
    BY <2>1, <2>2 DEF EnforcedWithinRecord
<1>6. ASSUME NEW a \in Agents, NEW ip \in Standing(a)' PROVE ip \in Standing(a)
  <2>1. ip \in Leased(held'[a]) /\ held'[a][ip].left > 0 /\ ip \notin lapsed'[a]
    BY <1>6 DEF Standing, InForce
  <2>2. ip \in Leased(held[a]) /\ held'[a][ip] = held[a][ip]
    <3>1. CASE a \in S
      <4>1. held'[a] = Swept(held[a]) /\ held[a] \in [IPs -> Lease]
        BY <1>1, <1>2, <3>1
      <4>2. QED
        BY <2>1, <4>1, SweptTable
    <3>2. CASE a \notin S
      BY <1>1, <2>1, <3>2
    <3>3. QED
      BY <3>1, <3>2
  <2>3. ip \notin RunOut(held[a])
    BY <2>1, <2>2 DEF RunOut
  <2>4. ip \notin lapsed[a]
    BY <1>1, <2>1, <2>3
  <2>5. QED
    BY <2>1, <2>2, <2>4 DEF Standing, InForce
<1>7. QED
  BY <1>3, <1>4, <1>5, <1>6 DEF EnforcedWithinRecord

\* A row is put over: with as much time as it had, or everyone whose lease
\* for the address outlives it is a named exception from then on.
LEMMA RowPut ==
    ASSUME IInv, NEW ip \in IPs, NEW d \in Lease, NEW others \in SUBSET Workers,
           d.left > 0 => d.tier # 0,
           rows' = [rows EXCEPT ![ip] = d], UNCHANGED held,
           Lapse(ip, others) \/ (rows[ip].left <= d.left /\ UNCHANGED <<lapsed, missed>>)
    PROVE  /\ rows' \in [IPs -> Lease]
           /\ lapsed' \in [Agents -> SUBSET IPs] /\ missed' \in [Workers -> SUBSET IPs]
           /\ EnforcedWithinRecord' /\ RowsGranted'
           /\ \A a \in Agents : Standing(a)' \subseteq Standing(a)
           /\ \A w \in Workers, j \in IPs :
                j \in Leased(req[w].issued) /\ j \notin missed'[w] /\ (w \in others \/ j # ip)
                    => req[w].issued[j].left <= rows'[j].left
<1>1. /\ rows \in [IPs -> Lease] /\ req \in [Workers -> Request]
      /\ held \in [Agents -> [IPs -> Lease]]
      /\ lapsed \in [Agents -> SUBSET IPs] /\ missed \in [Workers -> SUBSET IPs]
      /\ IssuedWithinRecord /\ EnforcedWithinRecord /\ RowsGranted
  BY DEF IInv, TypeOK
<1>2. rows' \in [IPs -> Lease] /\ \A j \in IPs : rows'[j] = IF j = ip THEN d ELSE rows[j]
  BY <1>1
<1>3. lapsed' \in [Agents -> SUBSET IPs] /\ missed' \in [Workers -> SUBSET IPs]
  BY <1>1 DEF Lapse
<1>4. ASSUME NEW a \in Agents, NEW j \in IPs, j \in Leased(held[a]), j \notin lapsed'[a]
      PROVE  held[a][j].left <= rows'[j].left
  <2>1. j \notin lapsed[a] /\ (j # ip \/ rows[ip].left <= d.left)
    BY <1>1, <1>4 DEF Lapse
  <2>2. held[a][j].left <= rows[j].left
    BY <1>1, <1>4, <2>1 DEF EnforcedWithinRecord
  <2>3. held[a][j].left \in Nat /\ rows[j].left \in Nat /\ d.left \in Nat
    BY <1>1, LeaseParts
  <2>4. QED
    BY <1>2, <2>1, <2>2, <2>3
<1>5. ASSUME NEW w \in Workers, NEW j \in IPs, j \in Leased(req[w].issued), j \notin missed'[w],
             w \in others \/ j # ip
      PROVE  req[w].issued[j].left <= rows'[j].left
  <2>1. j \notin missed[w] /\ (j # ip \/ rows[ip].left <= d.left)
    BY <1>1, <1>5 DEF Lapse
  <2>2. req[w].issued[j].left <= rows[j].left
    BY <1>1, <1>5, <2>1 DEF IssuedWithinRecord
  <2>3. req[w].issued \in [IPs -> Lease]
    BY <1>1 DEF Request
  <2>4. req[w].issued[j].left \in Nat /\ rows[j].left \in Nat /\ d.left \in Nat
    BY <1>1, <2>3, LeaseParts
  <2>5. QED
    BY <1>2, <2>1, <2>2, <2>4
<1>6. RowsGranted'
  BY <1>1, <1>2 DEF RowsGranted
<1>7. \A a \in Agents : Standing(a)' \subseteq Standing(a)
  BY <1>1 DEF Standing, Lapse
<1>8. QED
  BY <1>2, <1>3, <1>4, <1>5, <1>6, <1>7 DEF EnforcedWithinRecord

\* Steps of a request that issue nothing more.
LEMMA HandledInv ==
    ASSUME IInv, NEW w \in Workers, NEW r \in Request,
           req' = [req EXCEPT ![w] = r], r.issued = req[w].issued \/ r.issued = NoLeases,
           r.pc = "replied" /\ ~r.paused =>
               \A a \in Agents : Standing(a) \subseteq r.active \union r.beyond,
           waiting' \in [Agents -> SUBSET Workers],
           \A a \in Agents : \A v \in waiting'[a] : v \in waiting[a] \/ v = w,
           UNCHANGED <<consoleVars, rows, held, ghostVars>>
    PROVE  IInv'
<1>1. TypeOK /\ IssuedWithinRecord /\ EnforcedWithinRecord /\ RowsGranted /\ ServesHeld
  BY DEF IInv
<1>2. TypeOK'
  BY <1>1 DEF TypeOK, consoleVars, ghostVars
<1>3. ASSUME NEW v \in Workers, NEW ip \in IPs,
             ip \in Leased(req'[v].issued), ip \notin missed[v]
      PROVE  req'[v].issued[ip].left <= rows[ip].left
  <2>1. req'[v].issued = req[v].issued
    BY <1>1, <1>3, NoLeaseLease DEF TypeOK
  <2>2. QED
    BY <1>1, <1>3, <2>1 DEF IssuedWithinRecord
<1>4. IssuedWithinRecord'
  BY <1>3 DEF IssuedWithinRecord, ghostVars
<1>5. EnforcedWithinRecord'
  BY <1>1 DEF EnforcedWithinRecord, ghostVars
<1>6. RowsGranted'
  BY <1>1 DEF RowsGranted
<1>7. ServesHeld'
  <2> SUFFICES ASSUME NEW a \in Agents, NEW v \in waiting'[a],
                      req'[v].pc = "replied", ~req'[v].paused
               PROVE  Standing(a)' \subseteq req'[v].active \union req'[v].beyond
    BY DEF ServesHeld
  <2>1. v \in Workers /\ Standing(a)' = Standing(a)
    BY <1>2 DEF TypeOK, Standing, ghostVars
  <2>2. CASE v = w
    BY <1>1, <2>1, <2>2 DEF TypeOK
  <2>3. CASE v # w
    BY <1>1, <2>1, <2>3 DEF TypeOK, ServesHeld
  <2>4. QED
    BY <2>2, <2>3
<1>8. QED
  BY <1>2, <1>4, <1>5, <1>6, <1>7 DEF IInv

-----------------------------------------------------------------------------
(* The actions.                                                            *)

LEMMA RequestInv ==
    ASSUME IInv, NEW w \in Workers,
           \/ \E a \in Agents, ips \in SUBSET IPs : Post(a, w, ips)
           \/ ReadWhitelist(w)
           \/ Reply(w)
    PROVE  IInv'
<1>1. TypeOK /\ req[w] \in Request /\ EnforcedWithinRecord /\ RowsGranted
  BY DEF IInv, TypeOK
<1>2. ASSUME NEW a \in Agents, NEW ips \in SUBSET IPs, Post(a, w, ips) PROVE IInv'
  <2> DEFINE r == [Idle EXCEPT !.pc = "whitelist", !.paused = paused, !.todo = ips]
  <2>1. r \in Request /\ r.issued = NoLeases /\ r.pc = "whitelist"
    BY <1>1, NoLeaseLease DEF Idle, Request, TypeOK
  <2>2. req' = [req EXCEPT ![w] = r] /\ waiting' \in [Agents -> SUBSET Workers]
        /\ (\A b \in Agents : \A v \in waiting'[b] : v \in waiting[b] \/ v = w)
        /\ UNCHANGED <<consoleVars, rows, held, ghostVars>>
    BY <1>1, <1>2 DEF Post, TypeOK
  <2> HIDE DEF r
  <2>3. r.pc # "replied"
    BY <2>1
  <2>4. QED
    BY <1>1, <2>1, <2>2, <2>3, HandledInv
<1>3. CASE ReadWhitelist(w)
  <2> DEFINE r == [req[w] EXCEPT !.pc = "score", !.todo = @ \ allowed]
  <2>1. r \in Request /\ r.issued = req[w].issued /\ r.pc = "score"
    BY <1>1 DEF Request
  <2>2. req' = [req EXCEPT ![w] = r] /\ waiting' \in [Agents -> SUBSET Workers]
        /\ waiting' = waiting /\ UNCHANGED <<consoleVars, rows, held, ghostVars>>
    BY <1>1, <1>3 DEF ReadWhitelist, TypeOK
  <2> HIDE DEF r
  <2>3. QED
    BY <2>1, <2>2, HandledInv
<1>4. CASE Reply(w)
  <2>1. PICK beyond \in IF req[w].paused THEN {{}} ELSE PastPage(rows) :
          req' = [req EXCEPT ![w].pc = "replied",
                             ![w].active = IF req[w].paused THEN {} ELSE InForce(rows) \ beyond,
                             ![w].beyond = beyond,
                             ![w].issued = IF req[w].paused THEN NoLeases ELSE @]
    BY <1>4 DEF Reply
  <2> DEFINE r == [req[w] EXCEPT !.pc = "replied",
                                 !.active = IF req[w].paused THEN {} ELSE InForce(rows) \ beyond,
                                 !.beyond = beyond,
                                 !.issued = IF req[w].paused THEN NoLeases ELSE @]
  <2>2. beyond \subseteq IPs /\ InForce(rows) \subseteq IPs
    BY <2>1 DEF PastPage, InForce, Leased
  <2>3. /\ r \in Request /\ (r.issued = req[w].issued \/ r.issued = NoLeases)
        /\ r.paused = req[w].paused
        /\ ~r.paused => r.active \union r.beyond = InForce(rows) \union beyond
    BY <1>1, <2>2, NoLeaseLease DEF Request
  <2>4. req' = [req EXCEPT ![w] = r] /\ waiting' = waiting
        /\ UNCHANGED <<consoleVars, rows, held, ghostVars>>
    BY <1>1, <1>4, <2>1 DEF Reply, TypeOK
  <2>5. ASSUME NEW a \in Agents, NEW ip \in Standing(a) PROVE ip \in InForce(rows)
    <3>1. ip \in Leased(held[a]) /\ held[a][ip].left > 0 /\ ip \notin lapsed[a] /\ ip \in IPs
      BY DEF Standing, InForce, Leased
    <3>2. held[a][ip].left <= rows[ip].left
      BY <1>1, <3>1 DEF EnforcedWithinRecord
    <3>3. held[a][ip].left \in Nat /\ rows[ip].left \in Nat
      BY <1>1, <3>1, LeaseParts DEF TypeOK
    <3>4. QED
      BY <1>1, <3>1, <3>2, <3>3 DEF InForce, Leased, RowsGranted
  <2> HIDE DEF r
  <2>6. waiting' \in [Agents -> SUBSET Workers]
    BY <1>1, <2>4 DEF TypeOK
  <2>7. QED
    BY <2>3, <2>4, <2>5, <2>6, HandledInv
<1>5. QED
  BY <1>2, <1>3, <1>4

\* A decision is recorded and issued with the same time to run; the request
\* itself need not know of what it cuts short.
LEMMA ScoreInv ==
    ASSUME IInv, NEW w \in Workers, NEW ip \in IPs, NEW tier \in 0..2, Score(w, ip, tier)
    PROVE  IInv'
<1> DEFINE lease == IF tier = 0 THEN NoLease ELSE Grant(tier)
           r == [req[w] EXCEPT !.todo = @ \ {ip}, !.issued[ip] = lease]
<1>1. TypeOK /\ req[w] \in Request /\ req[w].issued \in [IPs -> Lease]
      /\ IssuedWithinRecord /\ EnforcedWithinRecord /\ RowsGranted /\ ServesHeld
  BY DEF IInv, TypeOK, Request
<1>2. lease \in Lease /\ (tier # 0 => lease.left = TTL[tier] /\ lease.tier = tier)
  BY NoLeaseLease, GrantLease DEF Grant
<1>3. /\ req' = [req EXCEPT ![w] = r]
      /\ rows' = IF tier = 0 THEN rows ELSE [rows EXCEPT ![ip] = lease]
      /\ UNCHANGED <<consoleVars, waiting, held>>
  BY <1>1 DEF Score
<1> HIDE DEF lease
<1>4. r \in Request /\ \A j \in IPs : r.issued[j] = IF j = ip THEN lease ELSE req[w].issued[j]
  BY <1>1, <1>2 DEF Request
<1> HIDE DEF r
<1>5. req' \in [Workers -> Request] /\ req'[w] = r /\ \A v \in Workers \ {w} : req'[v] = req[v]
  BY <1>1, <1>3, <1>4 DEF TypeOK
<1>9. r.pc = "score"
  BY <1>1 DEF Score, r, Request
<1>10. \A a \in Agents : \A v \in waiting'[a] :
         req'[v].pc = "replied" => v \in waiting[a] /\ req'[v] = req[v]
  BY <1>1, <1>3, <1>5, <1>9 DEF TypeOK
<1>6. CASE tier = 0
  <2>1. lease.tier = 0
    BY <1>6 DEF lease, NoLease
  <2>2. rows' = rows /\ UNCHANGED <<lapsed, missed>>
    BY <1>3, <1>6 DEF Score
  <2>3. TypeOK'
    BY <1>1, <1>3, <1>5, <2>2 DEF TypeOK, consoleVars
  <2>4. ASSUME NEW v \in Workers, NEW j \in IPs,
               j \in Leased(req'[v].issued), j \notin missed[v]
        PROVE  req'[v].issued[j].left <= rows[j].left
    <3>1. j \in Leased(req[v].issued) /\ req'[v].issued[j] = req[v].issued[j]
      BY <1>4, <1>5, <2>1, <2>4 DEF Leased
    <3>2. QED
      BY <1>1, <2>4, <3>1 DEF IssuedWithinRecord
  <2>5. IssuedWithinRecord' /\ EnforcedWithinRecord'
    BY <1>1, <1>3, <2>2, <2>4 DEF IssuedWithinRecord, EnforcedWithinRecord
  <2>6. RowsGranted' /\ \A a \in Agents : Standing(a)' = Standing(a)
    BY <1>1, <1>3, <2>2 DEF RowsGranted, Standing
  <2>7. QED
    BY <1>1, <1>10, <2>3, <2>5, <2>6, StillServed DEF IInv
<1>7. CASE tier # 0
  <2>1. rows' = [rows EXCEPT ![ip] = lease] /\ held' = held
    BY <1>3, <1>7
  <2>2. lease.left \in Nat /\ rows[ip].left \in Nat /\ lease.left = TTL[tier]
    BY <1>1, <1>2, <1>7, LeaseParts DEF TypeOK
  <2>3. Lapse(ip, Workers \ {w}) \/ (rows[ip].left <= lease.left /\ UNCHANGED <<lapsed, missed>>)
    BY <1>7, <2>2 DEF Score
  <2>4. /\ rows' \in [IPs -> Lease]
        /\ lapsed' \in [Agents -> SUBSET IPs] /\ missed' \in [Workers -> SUBSET IPs]
        /\ EnforcedWithinRecord' /\ RowsGranted'
        /\ \A a \in Agents : Standing(a)' \subseteq Standing(a)
        /\ \A v \in Workers, j \in IPs :
             j \in Leased(req[v].issued) /\ j \notin missed'[v] /\ (v \in Workers \ {w} \/ j # ip)
                 => req[v].issued[j].left <= rows'[j].left
    <3>1. Workers \ {w} \in SUBSET Workers
      OBVIOUS
    <3>2. QED
      BY <1>2, <1>7, <2>1, <2>3, <3>1, RowPut
  <2>5. TypeOK'
    BY <1>1, <1>3, <1>5, <2>4 DEF TypeOK, consoleVars
  <2>6. ASSUME NEW v \in Workers, NEW j \in IPs,
               j \in Leased(req'[v].issued), j \notin missed'[v]
        PROVE  req'[v].issued[j].left <= rows'[j].left
    <3>1. CASE v = w /\ j = ip
      <4>1. req'[v].issued[j] = lease /\ rows'[j] = lease
        BY <1>1, <1>4, <1>5, <2>1, <3>1 DEF TypeOK
      <4>2. QED
        BY <2>2, <4>1
    <3>2. CASE v # w \/ j # ip
      <4>1. req'[v].issued[j] = req[v].issued[j] /\ j \in Leased(req[v].issued)
        BY <1>4, <1>5, <2>6, <3>2 DEF Leased
      <4>2. QED
        BY <2>4, <2>6, <3>2, <4>1
    <3>3. QED
      BY <3>1, <3>2
  <2>7. IssuedWithinRecord'
    BY <2>6 DEF IssuedWithinRecord
  <2>8. ServesHeld'
    BY <1>1, <1>10, <2>4, StillServed
  <2>9. QED
    BY <2>4, <2>5, <2>7, <2>8 DEF IInv
<1>8. QED
  BY <1>6, <1>7

\* An agent holds what the answer issued, and of what it held before what is
\* still served.
LEMMA DeliverInv ==
    ASSUME IInv, NEW a \in Agents, NEW w \in Workers, Deliver(a, w)
    PROVE  IInv'
<1> DEFINE given  == req[w].issued
           merged == Renewed(held[a], given)
           kept   == Without(merged, IPs \ req[w].active)
           answered == Swept(kept)
<1>1. /\ TypeOK /\ IssuedWithinRecord /\ EnforcedWithinRecord /\ RowsGranted /\ ServesHeld
      /\ given \in [IPs -> Lease] /\ held[a] \in [IPs -> Lease]
  BY DEF IInv, TypeOK, Request
<1>2. /\ held' = [held EXCEPT ![a] = answered]
      /\ lapsed' = [lapsed EXCEPT ![a] =
            ((@ \ Leased(given)) \union (missed[w] \intersect Leased(given))) \intersect Leased(answered)]
      /\ waiting' = [waiting EXCEPT ![a] = {}]
      /\ Finish(w) /\ UNCHANGED <<consoleVars, rows>>
  BY DEF Deliver
<1> HIDE DEF given
<1>3. merged \in [IPs -> Lease]
      /\ \A ip \in IPs : merged[ip] = IF ip \in Leased(given) THEN given[ip] ELSE held[a][ip]
  BY <1>1, RenewedTable
<1> HIDE DEF merged
<1>4. kept \in [IPs -> Lease] /\ \A ip \in Leased(kept) : ip \in Leased(merged) /\ kept[ip] = merged[ip]
  BY <1>3, WithoutTable
<1> HIDE DEF kept
<1>5. answered \in [IPs -> Lease]
      /\ \A ip \in Leased(answered) : ip \in Leased(kept) /\ answered[ip] = kept[ip]
  BY <1>4, SweptTable
<1> HIDE DEF answered
<1>6. /\ req' \in [Workers -> Request] /\ missed' \in [Workers -> SUBSET IPs]
      /\ IssuedWithinRecord'
  BY <1>1, <1>2, FinishInv
<1>7. held'[a] = answered /\ \A b \in Agents \ {a} : held'[b] = held[b] /\ lapsed'[b] = lapsed[b]
  BY <1>1, <1>2 DEF TypeOK
<1>8. lapsed'[a] = ((lapsed[a] \ Leased(given)) \union (missed[w] \intersect Leased(given)))
                     \intersect Leased(answered)
  BY <1>1, <1>2 DEF TypeOK
<1>9. TypeOK'
  <2>1. held' \in [Agents -> [IPs -> Lease]]
    BY <1>1, <1>2, <1>5 DEF TypeOK
  <2>2. lapsed' \in [Agents -> SUBSET IPs]
    <3>1. Leased(answered) \subseteq IPs
      BY DEF Leased
    <3>2. QED
      BY <1>1, <1>2, <3>1 DEF TypeOK
  <2>3. QED
    BY <1>1, <1>2, <1>6, <2>1, <2>2 DEF TypeOK, consoleVars
<1>10. ASSUME NEW b \in Agents, NEW ip \in IPs, ip \in Leased(held'[b]), ip \notin lapsed'[b]
       PROVE  held'[b][ip].left <= rows[ip].left
  <2>1. CASE b # a
    BY <1>1, <1>7, <1>10, <2>1 DEF EnforcedWithinRecord
  <2>2. CASE b = a
    <3>1. ip \in Leased(answered) /\ held'[b][ip] = merged[ip]
      BY <1>4, <1>5, <1>7, <1>10, <2>2
    <3>2. CASE ip \in Leased(given)
      <4>1. ip \notin missed[w]
        BY <1>8, <1>10, <2>2, <3>1, <3>2
      <4>2. given[ip].left <= rows[ip].left
        BY <1>1, <3>2, <4>1 DEF IssuedWithinRecord, given
      <4>3. QED
        BY <1>3, <3>1, <3>2, <4>2
    <3>3. CASE ip \notin Leased(given)
      <4>1. ip \notin lapsed[a]
        BY <1>8, <1>10, <2>2, <3>1, <3>3
      <4>2. merged[ip] = held[a][ip] /\ ip \in Leased(held[a])
        BY <1>3, <1>4, <1>5, <3>1, <3>3 DEF Leased
      <4>3. QED
        BY <1>1, <3>1, <4>1, <4>2 DEF EnforcedWithinRecord
    <3>4. QED
      BY <3>2, <3>3
  <2>3. QED
    BY <2>1, <2>2
<1>11. EnforcedWithinRecord'
  BY <1>2, <1>10 DEF EnforcedWithinRecord
<1>12. RowsGranted'
  BY <1>1, <1>2 DEF RowsGranted
<1>13. ServesHeld'
  <2>1. \A b \in Agents : Standing(b)' \subseteq Standing(b) \/ waiting'[b] = {}
    BY <1>1, <1>2, <1>7 DEF Standing, TypeOK
  <2>2. \A b \in Agents : \A v \in waiting'[b] :
          req'[v].pc = "replied" => v \in waiting[b] /\ req'[v] = req[v]
    <3>1. req' = [req EXCEPT ![w] = Idle] /\ Idle.pc = "idle"
      BY <1>2 DEF Finish, Idle
    <3>2. QED
      BY <1>1, <1>2, <3>1 DEF TypeOK
  <2>3. QED
    BY <1>1, <2>1, <2>2, StillServed
<1>14. QED
  BY <1>6, <1>9, <1>11, <1>12, <1>13 DEF IInv

\* A turn without an answer sweeps, whatever became of the request.
LEMMA UnansweredInv ==
    ASSUME IInv, NEW w, NEW a,
           Quiet(a) \/ (w \in Workers /\ (GiveUp(a, w) \/ Fail(w) \/ Drop(w)))
    PROVE  IInv'
<1>1. TypeOK /\ IssuedWithinRecord /\ EnforcedWithinRecord /\ RowsGranted /\ ServesHeld
  BY DEF IInv
<1>2. /\ UNCHANGED <<consoleVars, rows>> /\ waiting' \in [Agents -> SUBSET Workers]
      /\ \A b \in Agents : waiting'[b] \subseteq waiting[b]
  BY <1>1 DEF Quiet, GiveUp, Fail, Drop, TypeOK
<1>3. (\E S : Sweep(S)) \/ UNCHANGED <<held, lapsed>>
  BY DEF Quiet, GiveUp, Fail, Drop
<1>4. (w \in Workers /\ Finish(w)) \/ UNCHANGED <<req, missed>>
  BY DEF Quiet, GiveUp, Fail, Drop
<1>5. /\ held' \in [Agents -> [IPs -> Lease]] /\ lapsed' \in [Agents -> SUBSET IPs]
      /\ EnforcedWithinRecord'
      /\ \A b \in Agents : Standing(b)' \subseteq Standing(b)
  <2>1. CASE \E S : Sweep(S)
    BY <1>1, <1>2, <2>1, SweepInv
  <2>2. CASE UNCHANGED <<held, lapsed>>
    BY <1>1, <1>2, <2>2 DEF TypeOK, EnforcedWithinRecord, Standing
  <2>3. QED
    BY <1>3, <2>1, <2>2
<1>6. /\ req' \in [Workers -> Request] /\ missed' \in [Workers -> SUBSET IPs]
      /\ IssuedWithinRecord'
  <2>1. CASE w \in Workers /\ Finish(w)
    BY <1>1, <1>2, <2>1, FinishInv
  <2>2. CASE UNCHANGED <<req, missed>>
    BY <1>1, <1>2, <2>2 DEF TypeOK, IssuedWithinRecord
  <2>3. QED
    BY <1>4, <2>1, <2>2
<1>7. TypeOK'
  BY <1>1, <1>2, <1>5, <1>6 DEF TypeOK, consoleVars
<1>8. RowsGranted'
  BY <1>1, <1>2 DEF RowsGranted
<1>9. ServesHeld'
  <2>1. \A b \in Agents : \A v \in waiting'[b] :
          req'[v].pc = "replied" => v \in waiting[b] /\ req'[v] = req[v]
    <3>1. CASE w \in Workers /\ Finish(w)
      <4>1. req' = [req EXCEPT ![w] = Idle] /\ Idle.pc = "idle"
        BY <3>1 DEF Finish, Idle
      <4>2. QED
        BY <1>1, <1>2, <4>1 DEF TypeOK
    <3>2. CASE UNCHANGED <<req, missed>>
      BY <1>2, <3>2
    <3>3. QED
      BY <1>4, <3>1, <3>2
  <2>2. QED
    BY <1>1, <1>5, <2>1, StillServed
<1>10. QED
  BY <1>5, <1>6, <1>7, <1>8, <1>9 DEF IInv

\* Only the delete of a block touches a lease.
LEMMA ConsoleInv == IInv /\ Console => IInv'
<1> SUFFICES ASSUME IInv, Console PROVE IInv'
  OBVIOUS
<1>1. TypeOK /\ IssuedWithinRecord /\ EnforcedWithinRecord /\ RowsGranted /\ ServesHeld
  BY DEF IInv
<1>2. ASSUME NEW ip \in IPs, Lift(ip) PROVE IInv'
  <2>1. /\ rows' = [rows EXCEPT ![ip] = NoLease] /\ Lapse(ip, Workers)
        /\ UNCHANGED <<allowed, paused, req, waiting, held>> /\ lifting' = lifting \ {ip}
    BY <1>2 DEF Lift
  <2>2. /\ rows' \in [IPs -> Lease]
        /\ lapsed' \in [Agents -> SUBSET IPs] /\ missed' \in [Workers -> SUBSET IPs]
        /\ EnforcedWithinRecord' /\ RowsGranted'
        /\ \A a \in Agents : Standing(a)' \subseteq Standing(a)
        /\ \A w \in Workers, j \in IPs :
             j \in Leased(req[w].issued) /\ j \notin missed'[w] /\ (w \in Workers \/ j # ip)
                 => req[w].issued[j].left <= rows'[j].left
    <3>1. NoLease \in Lease /\ ~(NoLease.left > 0) /\ Workers \in SUBSET Workers
      BY NoLeaseLease DEF NoLease
    <3>2. QED
      BY <2>1, <3>1, RowPut
  <2>3. TypeOK'
    BY <1>1, <2>1, <2>2 DEF TypeOK
  <2>4. IssuedWithinRecord'
    BY <2>1, <2>2 DEF IssuedWithinRecord
  <2>5. ServesHeld'
    BY <1>1, <2>1, <2>2, StillServed
  <2>6. QED
    BY <2>2, <2>3, <2>4, <2>5 DEF IInv
<1>3. ASSUME UNCHANGED <<rows, req, waiting, held, lapsed, missed>>,
             allowed' \subseteq IPs, lifting' \subseteq IPs, paused' \in BOOLEAN
      PROVE  IInv'
  BY <1>1, <1>3 DEF IInv, TypeOK, IssuedWithinRecord, EnforcedWithinRecord, RowsGranted, ServesHeld, Standing
<1>4. ASSUME NEW ip \in IPs, Allow(ip) \/ LiftFails(ip) \/ Disallow(ip) PROVE IInv'
  BY <1>1, <1>3, <1>4 DEF Allow, LiftFails, Disallow, TypeOK, ghostVars
<1>5. ASSUME NEW off \in BOOLEAN, SetEnforcement(off) PROVE IInv'
  BY <1>1, <1>3, <1>5 DEF SetEnforcement, TypeOK
<1>6. QED
  BY <1>2, <1>4, <1>5 DEF Console

\* Every lease grows shorter at once, and a row outlives its last tick.
LEMMA TimeInv == IInv /\ (Tick \/ \E ip \in IPs : Expire(ip)) => IInv'
<1> SUFFICES ASSUME IInv, Tick \/ \E ip \in IPs : Expire(ip) PROVE IInv'
  OBVIOUS
<1>1. /\ TypeOK /\ IssuedWithinRecord /\ EnforcedWithinRecord /\ RowsGranted /\ ServesHeld
      /\ rows \in [IPs -> Lease]
      /\ \A a \in Agents : held[a] \in [IPs -> Lease]
      /\ \A w \in Workers : req[w] \in Request /\ req[w].issued \in [IPs -> Lease]
  BY DEF IInv, TypeOK, Request
<1>2. CASE Tick
  <2>1. /\ rows' = Aged(rows)
        /\ \A a \in Agents : held'[a] = Aged(held[a])
        /\ \A w \in Workers : req'[w] = [req[w] EXCEPT !.issued = Aged(@)]
        /\ UNCHANGED <<consoleVars, waiting, lapsed, missed>>
    BY <1>2 DEF Tick
  <2>2. \A w \in Workers : req'[w] \in Request /\ req'[w].issued = Aged(req[w].issued)
    <3> SUFFICES ASSUME NEW w \in Workers
                 PROVE  req'[w] \in Request /\ req'[w].issued = Aged(req[w].issued)
      OBVIOUS
    <3>1. Aged(req[w].issued) \in [IPs -> Lease]
      BY <1>1, AgedTable
    <3> DEFINE t == Aged(req[w].issued)
    <3> HIDE DEF t
    <3>2. req[w] \in Request /\ t \in [IPs -> Lease] /\ req'[w] = [req[w] EXCEPT !.issued = t]
      BY <1>1, <2>1, <3>1 DEF t
    <3>3. req'[w] \in Request /\ req'[w].issued = t
      BY <3>2 DEF Request
    <3>4. QED
      BY <3>3 DEF t
  <2>3. TypeOK'
    <3>1. held' \in [Agents -> [IPs -> Lease]]
      BY <1>1, <1>2, AgedTable DEF Tick
    <3>2. req' \in [Workers -> Request]
      BY <1>2, <2>1, <2>2 DEF Tick
    <3>3. rows' \in [IPs -> Lease]
      BY <1>1, <2>1, AgedTable
    <3>4. QED
      BY <1>1, <2>1, <3>1, <3>2, <3>3 DEF TypeOK, consoleVars
  <2>4. ASSUME NEW t \in [IPs -> Lease], NEW ip \in IPs, ip \in Leased(t) => t[ip].left <= rows[ip].left,
               ip \in Leased(Aged(t))
        PROVE  Aged(t)[ip].left <= Aged(rows)[ip].left
    BY <1>1, <2>4, AgedTable, AgedOrder
  <2>5. EnforcedWithinRecord'
    BY <1>1, <2>1, <2>4, AgedTable DEF EnforcedWithinRecord
  <2>6. IssuedWithinRecord'
    BY <1>1, <2>1, <2>2, <2>4, AgedTable DEF IssuedWithinRecord
  <2>7. RowsGranted'
    <3>1. \A ip \in IPs : ip \in Leased(rows') <=> ip \in Leased(rows)
      BY <1>1, <2>1, AgedTable
    <3>2. \A ip \in IPs : rows[ip].left \in Nat /\ (rows'[ip].left > 0 => rows[ip].left > 0)
      BY <1>1, <2>1, AgedTable, LeaseParts
    <3>3. QED
      BY <1>1, <3>1, <3>2 DEF RowsGranted, Leased
  <2>8. ServesHeld'
    <3>1. ASSUME NEW a \in Agents, NEW ip \in Standing(a)' PROVE ip \in Standing(a)
      <4>1. ip \in IPs /\ ip \in Leased(held'[a]) /\ held'[a][ip].left > 0 /\ ip \notin lapsed[a]
        BY <2>1, <3>1 DEF Standing, InForce, Leased
      <4>2. ip \in Leased(held[a])
        BY <1>1, <2>1, <4>1, AgedTable
      <4>3. held[a][ip].left \in Nat /\ held'[a][ip].left = IF held[a][ip].left > 0 THEN held[a][ip].left - 1 ELSE 0
        BY <1>1, <2>1, <4>1, AgedTable, LeaseParts
      <4>4. QED
        BY <4>1, <4>2, <4>3 DEF Standing, InForce
    <3>2. \A w \in Workers : /\ req'[w].pc = req[w].pc /\ req'[w].paused = req[w].paused
                             /\ req'[w].active = req[w].active /\ req'[w].beyond = req[w].beyond
      BY <1>1, <2>1 DEF Request
    <3>3. \A a \in Agents : waiting[a] \subseteq Workers
      BY <1>1 DEF TypeOK
    <3>4. QED
      BY <1>1, <2>1, <3>1, <3>2, <3>3 DEF ServesHeld
  <2>9. QED
    BY <2>3, <2>5, <2>6, <2>7, <2>8 DEF IInv
<1>3. ASSUME NEW ip \in IPs, Expire(ip) PROVE IInv'
  <2>1. /\ rows' = [rows EXCEPT ![ip] = NoLease] /\ rows[ip].left = 0
        /\ UNCHANGED <<consoleVars, req, waiting, held, ghostVars>>
    BY <1>3 DEF Expire, RunOut
  <2>2. rows' \in [IPs -> Lease] /\ \A j \in IPs : rows'[j].left = rows[j].left
    BY <1>1, <2>1, NoLeaseLease DEF NoLease
  <2>3. TypeOK' /\ IssuedWithinRecord' /\ EnforcedWithinRecord'
    BY <1>1, <2>1, <2>2 DEF TypeOK, IssuedWithinRecord, EnforcedWithinRecord, consoleVars, ghostVars
  <2>4. RowsGranted'
    BY <1>1, <2>1, <2>2, NoLeaseLease DEF RowsGranted, NoLease
  <2>5. ServesHeld'
    BY <1>1, <2>1 DEF ServesHeld, Standing, ghostVars
  <2>6. QED
    BY <2>3, <2>4, <2>5 DEF IInv
<1>4. QED
  BY <1>2, <1>3

-----------------------------------------------------------------------------
(* What a server lifts, and why.                                           *)

\* An answer on its way renews no standing block for less than it still has.
RenewsLonger ==
    \A a \in Agents : \A w \in waiting[a] : \A ip \in Standing(a) :
        ip \in Leased(req[w].issued) => held[a][ip].left <= req[w].issued[ip].left

\* A step that leaves the standing leases it leaves standing as they are, and
\* issues nothing to a waiting agent.
LEMMA StillLonger ==
    ASSUME RenewsLonger,
           \A a \in Agents : \A ip \in Standing(a)' : ip \in Standing(a) /\ held'[a][ip] = held[a][ip],
           \A a \in Agents : \A w \in waiting'[a] :
               \/ req'[w].issued = NoLeases
               \/ w \in waiting[a] /\ req'[w].issued = req[w].issued
    PROVE  RenewsLonger'
<1> SUFFICES ASSUME NEW a \in Agents, NEW w \in waiting'[a], NEW ip \in Standing(a)',
                    ip \in Leased(req'[w].issued)
             PROVE  held'[a][ip].left <= req'[w].issued[ip].left
  BY DEF RenewsLonger
<1>1. w \in waiting[a] /\ req'[w].issued = req[w].issued
  BY NoLeaseLease
<1>2. QED
  BY <1>1 DEF RenewsLonger

\* A sweep takes only what has run out, and leaves the rest as it was.
LEMMA SweptKeeps ==
    ASSUME NEW t \in [IPs -> Lease], NEW ip \in Leased(t), t[ip].left > 0
    PROVE  ip \in Leased(Swept(t)) /\ Swept(t)[ip] = t[ip]
<1>1. ip \in IPs /\ ip \notin RunOut(t)
  BY LeaseParts DEF Leased, RunOut
<1>2. Swept(t)[ip] = t[ip]
  BY <1>1 DEF Swept, Without
<1>3. QED
  BY <1>1, <1>2 DEF Leased

LEMMA SweepKeeps ==
    ASSUME TypeOK, NEW S, Sweep(S), NEW a \in Agents
    PROVE  /\ \A ip \in InForce(held[a]) : ip \in Leased(held'[a])
           /\ \A ip \in Standing(a)' : ip \in Standing(a) /\ held'[a][ip] = held[a][ip]
<1>1. /\ held'[a] = IF a \in S THEN Swept(held[a]) ELSE held[a]
      /\ lapsed'[a] = IF a \in S THEN lapsed[a] \ RunOut(held[a]) ELSE lapsed[a]
      /\ held[a] \in [IPs -> Lease]
  BY DEF Sweep, TypeOK
<1>2. CASE a \notin S
  BY <1>1, <1>2 DEF InForce, Standing
<1>3. CASE a \in S
  <2>1. held'[a] = Swept(held[a]) /\ lapsed'[a] = lapsed[a] \ RunOut(held[a])
    BY <1>1, <1>3
  <2>2. \A ip \in InForce(held[a]) : ip \in Leased(held'[a])
    BY <1>1, <2>1, SweptKeeps DEF InForce
  <2>3. ASSUME NEW ip \in Standing(a)' PROVE ip \in Standing(a) /\ held'[a][ip] = held[a][ip]
    <3>1. ip \in Leased(held'[a]) /\ held'[a][ip].left > 0 /\ ip \notin lapsed'[a]
      BY <2>3 DEF Standing, InForce
    <3>2. ip \in Leased(held[a]) /\ held'[a][ip] = held[a][ip] /\ ip \notin RunOut(held[a])
      BY <1>1, <2>1, <3>1, SweptTable
    <3>3. QED
      BY <2>1, <3>1, <3>2 DEF Standing, InForce
  <2>4. QED
    BY <2>2, <2>3
<1>4. QED
  BY <1>2, <1>3

LEMMA RequestRenews ==
    ASSUME IInv, RenewsLonger, NEW w \in Workers,
           \/ \E a \in Agents, ips \in SUBSET IPs : Post(a, w, ips)
           \/ ReadWhitelist(w)
           \/ Reply(w)
    PROVE  RenewsLonger' /\ UNCHANGED held
<1>1. req \in [Workers -> Request] /\ waiting \in [Agents -> SUBSET Workers]
  BY DEF IInv, TypeOK
<1>2. UNCHANGED <<held, lapsed>>
  BY DEF Post, ReadWhitelist, Reply, ghostVars
<1>3. \A a \in Agents : \A ip \in Standing(a)' : ip \in Standing(a) /\ held'[a][ip] = held[a][ip]
  BY <1>2 DEF Standing
<1> DEFINE OthersKept ==
             /\ \A v \in Workers \ {w} : req'[v] = req[v]
             /\ req'[w].issued = NoLeases \/ (waiting' = waiting /\ req'[w].issued = req[w].issued)
             /\ \A a \in Agents : waiting'[a] \subseteq waiting[a] \union {w}
<1>4. OthersKept
  <2>1. ASSUME NEW a \in Agents, NEW ips \in SUBSET IPs, Post(a, w, ips) PROVE OthersKept
    BY <1>1, <2>1 DEF Post, Idle
  <2>2. CASE ReadWhitelist(w)
    BY <1>1, <2>2 DEF ReadWhitelist, Request
  <2>3. CASE Reply(w)
    <3>1. PICK beyond \in IF req[w].paused THEN {{}} ELSE PastPage(rows) :
            req' = [req EXCEPT ![w].pc = "replied",
                               ![w].active = IF req[w].paused THEN {} ELSE InForce(rows) \ beyond,
                               ![w].beyond = beyond,
                               ![w].issued = IF req[w].paused THEN NoLeases ELSE @]
      BY <2>3 DEF Reply
    <3>2. /\ \A v \in Workers \ {w} : req'[v] = req[v]
          /\ req'[w].issued = IF req[w].paused THEN NoLeases ELSE req[w].issued
      BY <1>1, <3>1 DEF Request
    <3>3. waiting' = waiting
      BY <2>3 DEF Reply
    <3>4. QED
      BY <3>2, <3>3
  <2>4. QED
    BY <2>1, <2>2, <2>3
<1>5. QED
  BY <1>1, <1>2, <1>3, <1>4, StillLonger

\* What a server holds for a source and what the answer renews it with run
\* out by the same row, or the row is cut short under the server.
LEMMA ScoreRenews ==
    ASSUME IInv, RenewsLonger, NEW w \in Workers, NEW ip \in IPs, NEW tier \in 0..2,
           Score(w, ip, tier)
    PROVE  RenewsLonger' /\ UNCHANGED held
<1>1. /\ req \in [Workers -> Request] /\ waiting \in [Agents -> SUBSET Workers]
      /\ rows \in [IPs -> Lease] /\ lapsed \in [Agents -> SUBSET IPs]
      /\ held \in [Agents -> [IPs -> Lease]] /\ EnforcedWithinRecord
  BY DEF IInv, TypeOK
<1>2. UNCHANGED <<waiting, held>>
  BY DEF Score
<1>3. /\ \A v \in Workers \ {w} : req'[v] = req[v]
      /\ \A j \in IPs \ {ip} : req'[w].issued[j] = req[w].issued[j]
      /\ req'[w].issued[ip] = IF tier = 0 THEN NoLease ELSE Grant(tier)
  BY <1>1 DEF Score, Request
<1>4. \A a \in Agents : Standing(a)' \subseteq Standing(a)
  BY <1>1, <1>2 DEF Score, Lapse, Standing
<1>5. ASSUME NEW a \in Agents, NEW v \in waiting[a], NEW j \in Standing(a)', j \in Leased(req'[v].issued)
      PROVE  held[a][j].left <= req'[v].issued[j].left
  <2>1. v \in Workers /\ j \in IPs /\ j \in Standing(a)
    BY <1>1, <1>4 DEF Standing, InForce, Leased
  <2>2. CASE v # w \/ j # ip
    <3>1. req'[v].issued[j] = req[v].issued[j]
      BY <1>3, <2>1, <2>2
    <3>2. j \in Leased(req[v].issued)
      BY <1>5, <2>1, <3>1 DEF Leased
    <3>3. QED
      BY <2>1, <3>1, <3>2 DEF RenewsLonger
  <2>3. CASE v = w /\ j = ip
    <3>1. tier # 0 /\ req'[v].issued[j].left = TTL[tier] /\ TTL[tier] \in Nat
      BY <1>3, <1>5, <2>3, GrantLease DEF Leased, NoLease
    <3>2. ip \in Leased(held[a]) /\ ip \notin lapsed'[a] /\ ip \notin lapsed[a]
      BY <1>2, <1>5, <2>1, <2>3 DEF Standing, InForce
    <3>3. ~(rows[ip].left > TTL[tier])
      BY <1>1, <3>1, <3>2 DEF Score, Lapse
    <3>4. held[a][ip].left <= rows[ip].left
      BY <1>1, <3>2 DEF EnforcedWithinRecord
    <3>5. held[a][ip].left \in Nat /\ rows[ip].left \in Nat
      BY <1>1, LeaseParts
    <3>6. QED
      BY <2>3, <3>1, <3>3, <3>4, <3>5
  <2>4. QED
    BY <2>2, <2>3
<1>6. QED
  BY <1>2, <1>5 DEF RenewsLonger

\* An answer lifts no standing block it serves, unless it is that of a paused
\* tenant.
LEMMA DeliverRenews ==
    ASSUME IInv, RenewsLonger, NEW a \in Agents, NEW w \in Workers, Deliver(a, w)
    PROVE  /\ RenewsLonger'
           /\ \A b \in Agents, ip \in IPs :
                ip \in InForce(held[b]) \ Leased(held'[b]) =>
                    ip \in lapsed[b] \/ \E v \in waiting[b] : req[v].paused \/ ip \in req[v].beyond
<1> DEFINE given  == req[w].issued
           merged == Renewed(held[a], given)
           kept   == Without(merged, IPs \ req[w].active)
<1>1. /\ req \in [Workers -> Request] /\ waiting \in [Agents -> SUBSET Workers]
      /\ held \in [Agents -> [IPs -> Lease]] /\ lapsed \in [Agents -> SUBSET IPs]
      /\ ServesHeld /\ given \in [IPs -> Lease] /\ held[a] \in [IPs -> Lease]
  BY DEF IInv, TypeOK, Request
<1>2. /\ held' = [held EXCEPT ![a] = Swept(kept)]
      /\ waiting' = [waiting EXCEPT ![a] = {}]
      /\ req' = [req EXCEPT ![w] = Idle]
      /\ \A b \in Agents \ {a} : lapsed'[b] = lapsed[b]
      /\ w \in waiting[a] /\ req[w].pc = "replied"
  BY <1>1 DEF Deliver, Finish
<1>3. held'[a] = Swept(kept) /\ waiting'[a] = {}
      /\ \A b \in Agents \ {a} : held'[b] = held[b] /\ waiting'[b] = waiting[b]
  BY <1>1, <1>2
<1> HIDE DEF given
<1>4. merged \in [IPs -> Lease]
      /\ \A ip \in IPs : merged[ip] = IF ip \in Leased(given) THEN given[ip] ELSE held[a][ip]
  BY <1>1, RenewedTable
<1> HIDE DEF merged
<1>5. kept \in [IPs -> Lease] /\ \A ip \in IPs : ip \in req[w].active => kept[ip] = merged[ip]
  <2>1. \A ip \in IPs : kept[ip] = IF ip \in IPs \ req[w].active THEN NoLease ELSE merged[ip]
    BY DEF Without
  <2>2. kept \in [IPs -> Lease]
    BY <1>4, WithoutTable
  <2>3. QED
    BY <2>1, <2>2
<1> HIDE DEF kept
<1>6. RenewsLonger'
  <2> SUFFICES ASSUME NEW b \in Agents, NEW v \in waiting'[b], NEW ip \in Standing(b)',
                      ip \in Leased(req'[v].issued)
               PROVE  held'[b][ip].left <= req'[v].issued[ip].left
    BY DEF RenewsLonger
  <2>1. b # a /\ v \in waiting[b] /\ v \in Workers
    BY <1>1, <1>3
  <2>2. v # w
    BY <1>1, <1>2, <2>1, NoLeaseLease DEF Idle
  <2>3. req'[v] = req[v] /\ held'[b] = held[b] /\ ip \in Standing(b)
    BY <1>1, <1>2, <1>3, <2>1, <2>2 DEF Standing
  <2>4. QED
    BY <2>1, <2>3 DEF RenewsLonger
<1>7. ASSUME NEW ip \in IPs, ip \in InForce(held[a]), ip \notin lapsed[a],
             ~req[w].paused, ip \notin req[w].beyond
      PROVE  ip \in Leased(held'[a])
  <2>1. ip \in Standing(a) /\ ip \in Leased(held[a]) /\ held[a][ip].left > 0
    BY <1>7 DEF Standing, InForce
  <2>2. ip \in req[w].active
    BY <1>1, <1>2, <1>7, <2>1 DEF ServesHeld
  <2>3. merged[ip].tier # 0 /\ merged[ip].left > 0
    <3>1. CASE ip \in Leased(given)
      <4>1. held[a][ip].left <= given[ip].left
        BY <1>2, <2>1, <3>1 DEF RenewsLonger, given
      <4>2. held[a][ip].left \in Nat /\ given[ip].left \in Nat
        BY <1>1, LeaseParts
      <4>3. QED
        BY <1>4, <2>1, <3>1, <4>1, <4>2 DEF Leased
    <3>2. CASE ip \notin Leased(given)
      BY <1>4, <2>1, <3>2 DEF Leased
    <3>3. QED
      BY <3>1, <3>2
  <2>4. ip \in Leased(kept) /\ kept[ip].left > 0
    BY <1>5, <2>2, <2>3 DEF Leased
  <2>5. QED
    BY <1>3, <1>5, <2>4, SweptKeeps
<1>8. ASSUME NEW b \in Agents, NEW ip \in IPs, ip \in InForce(held[b]) \ Leased(held'[b])
      PROVE  ip \in lapsed[b] \/ \E v \in waiting[b] : req[v].paused \/ ip \in req[v].beyond
  <2>1. b = a
    BY <1>3, <1>8 DEF InForce
  <2>2. QED
    BY <1>2, <1>7, <1>8, <2>1
<1>9. QED
  BY <1>6, <1>8

LEMMA UnansweredRenews ==
    ASSUME IInv, RenewsLonger, NEW w, NEW a,
           Quiet(a) \/ (w \in Workers /\ (GiveUp(a, w) \/ Fail(w) \/ Drop(w)))
    PROVE  /\ RenewsLonger'
           /\ \A b \in Agents : \A ip \in InForce(held[b]) : ip \in Leased(held'[b])
<1>1. TypeOK /\ req \in [Workers -> Request] /\ waiting \in [Agents -> SUBSET Workers]
  BY DEF IInv, TypeOK
<1>2. \A b \in Agents : waiting'[b] \subseteq waiting[b]
  BY <1>1 DEF Quiet, GiveUp, Fail, Drop
<1>3. (\E S : Sweep(S)) \/ UNCHANGED <<held, lapsed>>
  BY DEF Quiet, GiveUp, Fail, Drop
<1>4. req' = req \/ (w \in Workers /\ req' = [req EXCEPT ![w] = Idle])
  BY DEF Quiet, GiveUp, Fail, Drop, Finish
<1>5. \A b \in Agents :
        /\ \A ip \in InForce(held[b]) : ip \in Leased(held'[b])
        /\ \A ip \in Standing(b)' : ip \in Standing(b) /\ held'[b][ip] = held[b][ip]
  <2>1. CASE \E S : Sweep(S)
    BY <1>1, <2>1, SweepKeeps
  <2>2. CASE UNCHANGED <<held, lapsed>>
    BY <2>2 DEF InForce, Standing
  <2>3. QED
    BY <1>3, <2>1, <2>2
<1>6. \A b \in Agents : \A v \in waiting'[b] :
        \/ req'[v].issued = NoLeases
        \/ v \in waiting[b] /\ req'[v].issued = req[v].issued
  BY <1>1, <1>2, <1>4 DEF Idle
<1>7. QED
  BY <1>5, <1>6, StillLonger

LEMMA ConsoleRenews ==
    ASSUME IInv, RenewsLonger, Console \/ \E ip \in IPs : Expire(ip)
    PROVE  RenewsLonger' /\ UNCHANGED held
<1>1. UNCHANGED <<held, req, waiting>>
  BY DEF Console, Allow, Lift, LiftFails, Disallow, SetEnforcement, Expire
<1>2. \A a \in Agents : lapsed[a] \subseteq lapsed'[a]
  BY DEF Console, Allow, Lift, LiftFails, Disallow, SetEnforcement, Expire, Lapse, ghostVars, IInv, TypeOK
<1>3. \A a \in Agents : \A ip \in Standing(a)' : ip \in Standing(a) /\ held'[a][ip] = held[a][ip]
  BY <1>1, <1>2 DEF Standing
<1>4. QED
  BY <1>1, <1>3, StillLonger

LEMMA TickRenews ==
    ASSUME IInv, RenewsLonger, Tick
    PROVE  RenewsLonger' /\ \A a \in Agents : Leased(held'[a]) = Leased(held[a])
<1>1. /\ req \in [Workers -> Request] /\ waiting \in [Agents -> SUBSET Workers]
      /\ \A a \in Agents : held[a] \in [IPs -> Lease]
      /\ \A w \in Workers : req[w].issued \in [IPs -> Lease]
  BY DEF IInv, TypeOK, Request
<1>2. /\ \A a \in Agents : held'[a] = Aged(held[a])
      /\ \A w \in Workers : req'[w].issued = Aged(req[w].issued)
      /\ UNCHANGED <<waiting, lapsed>>
  BY <1>1 DEF Tick, Request
<1>3. \A a \in Agents : Leased(held'[a]) = Leased(held[a])
  BY <1>1, <1>2, AgedTable
<1>4. ASSUME NEW a \in Agents, NEW w \in waiting'[a], NEW ip \in Standing(a)',
             ip \in Leased(req'[w].issued)
      PROVE  held'[a][ip].left <= req'[w].issued[ip].left
  <2>1. w \in waiting[a] /\ w \in Workers /\ ip \in IPs
        /\ ip \in Leased(held'[a]) /\ held'[a][ip].left > 0 /\ ip \notin lapsed[a]
    BY <1>1, <1>2, <1>4 DEF Standing, InForce, Leased
  <2>2. held[a][ip].left \in Nat /\ held'[a][ip].left = IF held[a][ip].left > 0 THEN held[a][ip].left - 1 ELSE 0
    BY <1>1, <1>2, <2>1, AgedTable, LeaseParts
  <2>3. ip \in Standing(a)
    BY <1>3, <2>1, <2>2 DEF Standing, InForce
  <2>4. ip \in Leased(req[w].issued)
    BY <1>1, <1>2, <1>4, <2>1, AgedTable
  <2>5. held[a][ip].left <= req[w].issued[ip].left
    BY <2>1, <2>3, <2>4 DEF RenewsLonger
  <2>6. QED
    BY <1>1, <1>2, <2>1, <2>5, AgedOrder
<1>5. QED
  BY <1>3, <1>4 DEF RenewsLonger

LEMMA StepRenews ==
    ASSUME IInv, RenewsLonger, [Next]_vars
    PROVE  /\ RenewsLonger'
           /\ \A a \in Agents, ip \in IPs :
                ip \in InForce(held[a]) \ Leased(held'[a]) =>
                    ip \in lapsed[a] \/ \E w \in waiting[a] : req[w].paused \/ ip \in req[w].beyond
<1>1. UNCHANGED held \/ (\A a \in Agents : \A ip \in InForce(held[a]) : ip \in Leased(held'[a]))
      => \A a \in Agents, ip \in IPs : ip \notin InForce(held[a]) \ Leased(held'[a])
  BY DEF InForce
<1>2. ASSUME NEW a \in Agents, NEW w \in Workers, NEW ips \in SUBSET IPs, Post(a, w, ips)
      PROVE  RenewsLonger' /\ UNCHANGED held
  BY <1>2, RequestRenews
<1>3. ASSUME NEW w \in Workers, ReadWhitelist(w) \/ Reply(w)
      PROVE  RenewsLonger' /\ UNCHANGED held
  BY <1>3, RequestRenews
<1>4. ASSUME NEW w \in Workers, NEW ip \in IPs, NEW tier \in 0..2, Score(w, ip, tier)
      PROVE  RenewsLonger' /\ UNCHANGED held
  BY <1>4, ScoreRenews
<1>5. ASSUME NEW w, NEW a, Quiet(a) \/ (w \in Workers /\ (GiveUp(a, w) \/ Fail(w) \/ Drop(w)))
      PROVE  RenewsLonger' /\ \A b \in Agents : \A ip \in InForce(held[b]) : ip \in Leased(held'[b])
  BY <1>5, UnansweredRenews
<1>6. CASE Console \/ \E ip \in IPs : Expire(ip)
  BY <1>1, <1>6, ConsoleRenews
<1>7. CASE Tick
  BY <1>1, <1>7, TickRenews DEF InForce
<1>8. CASE UNCHANGED vars
  <2>1. UNCHANGED <<req, waiting, held, lapsed>>
    BY <1>8 DEF vars, ghostVars
  <2>2. RenewsLonger'
    BY <2>1 DEF RenewsLonger, Standing
  <2>3. QED
    BY <1>1, <2>1, <2>2
<1>9. ASSUME NEW a \in Agents, NEW w \in Workers, Deliver(a, w)
      PROVE  /\ RenewsLonger'
             /\ \A b \in Agents, ip \in IPs :
                  ip \in InForce(held[b]) \ Leased(held'[b]) =>
                      ip \in lapsed[b] \/ \E v \in waiting[b] : req[v].paused \/ ip \in req[v].beyond
  BY <1>9, DeliverRenews
<1>10. QED
  BY <1>1, <1>2, <1>3, <1>4, <1>5, <1>6, <1>7, <1>8, <1>9 DEF Next, Handle, Turn

-----------------------------------------------------------------------------
(* What an allowance or a pause leaves behind runs out.                    *)

\* The answer to a paused request carries no decision.
PausedSilent == \A w \in Workers : req[w].pc = "replied" /\ req[w].paused => Leased(req[w].issued) = {}

\* What a step does to the request a worker handles.
Moves(w) ==
    \/ req'[w].pc = "idle" /\ req'[w].issued = NoLeases
    \/ req'[w].pc = "whitelist" /\ req'[w].paused = paused /\ req'[w].issued = NoLeases
    \/ /\ req[w].pc = "whitelist" /\ req'[w].pc = "score"
       /\ req'[w].todo = req[w].todo \ allowed
       /\ req'[w].paused = req[w].paused /\ req'[w].issued = req[w].issued
    \/ /\ req[w].pc = "score" /\ req'[w].pc = "score" /\ req'[w].paused = req[w].paused
       /\ \E ip \in req[w].todo, tier \in 0..2 :
            /\ req'[w].todo = req[w].todo \ {ip}
            /\ req'[w].issued = [req[w].issued EXCEPT ![ip] = IF tier = 0 THEN NoLease ELSE Grant(tier)]
    \/ /\ req[w].pc = "score" /\ req'[w].pc = "replied" /\ req'[w].paused = req[w].paused
       /\ req'[w].issued = IF req[w].paused THEN NoLeases ELSE req[w].issued
    \/ /\ req'[w].pc = req[w].pc /\ req'[w].paused = req[w].paused /\ req'[w].todo = req[w].todo
       /\ req'[w].issued = req[w].issued \/ req'[w].issued = Aged(req[w].issued)

\* A server's lease grows only by an answer, to no more than the answer has.
Renews(a) ==
    \A ip \in IPs :
        \/ held'[a][ip].left <= held[a][ip].left
        \/ \E w \in Workers : /\ req[w].pc = "replied" /\ ip \in Leased(req[w].issued)
                              /\ held'[a][ip].left <= req[w].issued[ip].left

LEMMA RequestMoves ==
    ASSUME TypeOK, [Next]_vars, NEW w \in Workers
    PROVE  Moves(w)
<1>1. req \in [Workers -> Request] /\ req[w] \in Request
  BY DEF TypeOK
<1>2. Idle.pc = "idle" /\ Idle.issued = NoLeases
  BY DEF Idle
<1>3. req'[w] = req[w] => Moves(w)
  BY DEF Moves
<1>4. ASSUME NEW v \in Workers, Finish(v) PROVE Moves(w)
  BY <1>1, <1>2, <1>3, <1>4 DEF Finish, Moves
<1>5. ASSUME NEW a \in Agents, NEW v \in Workers, NEW ips \in SUBSET IPs, Post(a, v, ips)
      PROVE  Moves(w)
  <2>1. CASE v = w
    <3>1. req'[w].pc = "whitelist" /\ req'[w].paused = paused /\ req'[w].issued = NoLeases
      BY <1>1, <1>5, <2>1 DEF Post, Idle
    <3>2. QED
      BY <3>1 DEF Moves
  <2>2. CASE v # w
    BY <1>1, <1>3, <1>5, <2>2 DEF Post
  <2>3. QED
    BY <2>1, <2>2
<1>6. ASSUME NEW v \in Workers, ReadWhitelist(v) PROVE Moves(w)
  <2>1. CASE v = w
    BY <1>1, <1>6, <2>1 DEF ReadWhitelist, Moves, Request
  <2>2. CASE v # w
    BY <1>1, <1>3, <1>6, <2>2 DEF ReadWhitelist
  <2>3. QED
    BY <2>1, <2>2
<1>7. ASSUME NEW v \in Workers, NEW ip \in IPs, NEW tier \in 0..2, Score(v, ip, tier) PROVE Moves(w)
  <2>1. CASE v = w
    <3>1. /\ req[w].pc = "score" /\ ip \in req[w].todo
          /\ req'[w].pc = req[w].pc /\ req'[w].paused = req[w].paused
          /\ req'[w].todo = req[w].todo \ {ip}
          /\ req'[w].issued = [req[w].issued EXCEPT ![ip] = IF tier = 0 THEN NoLease ELSE Grant(tier)]
      BY <1>1, <1>7, <2>1 DEF Score, Request
    <3>2. QED
      BY <3>1 DEF Moves
  <2>2. CASE v # w
    BY <1>1, <1>3, <1>7, <2>2 DEF Score
  <2>3. QED
    BY <2>1, <2>2
<1>8. ASSUME NEW v \in Workers, Reply(v) PROVE Moves(w)
  <2>1. PICK beyond \in IF req[v].paused THEN {{}} ELSE PastPage(rows) :
          req' = [req EXCEPT ![v].pc = "replied",
                             ![v].active = IF req[v].paused THEN {} ELSE InForce(rows) \ beyond,
                             ![v].beyond = beyond,
                             ![v].issued = IF req[v].paused THEN NoLeases ELSE @]
    BY <1>8 DEF Reply
  <2>2. CASE v = w
    <3>1. /\ req[w].pc = "score" /\ req'[w].pc = "replied" /\ req'[w].paused = req[w].paused
          /\ req'[w].issued = IF req[w].paused THEN NoLeases ELSE req[w].issued
      BY <1>1, <1>8, <2>1, <2>2 DEF Reply, Request
    <3>2. QED
      BY <3>1 DEF Moves
  <2>3. CASE v # w
    BY <1>1, <1>3, <2>1, <2>3
  <2>4. QED
    BY <2>2, <2>3
<1>9. CASE Tick
  <2>1. /\ req'[w].pc = req[w].pc /\ req'[w].paused = req[w].paused /\ req'[w].todo = req[w].todo
        /\ req'[w].issued = Aged(req[w].issued)
    BY <1>1, <1>9 DEF Tick, Request
  <2>2. QED
    BY <2>1 DEF Moves
<1>10. (\E a \in Agents : Quiet(a) \/ \E v \in Workers : GiveUp(a, v))
       \/ Console \/ (\E ip \in IPs : Expire(ip)) \/ UNCHANGED vars => req' = req
  BY DEF Quiet, GiveUp, Console, Allow, Lift, LiftFails, Disallow, SetEnforcement, Expire, vars
<1>11. \A v \in Workers : Fail(v) \/ Drop(v) \/ (\E a \in Agents : Deliver(a, v)) => Finish(v)
  BY DEF Fail, Drop, Deliver
<1>12. QED
  BY <1>3, <1>4, <1>5, <1>6, <1>7, <1>8, <1>9, <1>10, <1>11 DEF Next, Handle, Turn

\* Withdrawing and sweeping give no lease more.
LEMMA WithoutLess ==
    ASSUME NEW t \in [IPs -> Lease], NEW S, NEW ip \in IPs
    PROVE  Without(t, S)[ip].left <= t[ip].left
<1>1. Without(t, S)[ip] = IF ip \in S THEN NoLease ELSE t[ip]
  BY DEF Without
<1>2. t[ip].left \in Nat /\ NoLease.left = 0
  BY LeaseParts DEF NoLease
<1>3. QED
  BY <1>1, <1>2

\* Only time, sweeps and answers change what is held.
LEMMA StepHolds ==
    ASSUME [Next]_vars
    PROVE  \/ UNCHANGED held
           \/ Tick
           \/ \E S : Sweep(S)
           \/ \E b \in Agents, w \in Workers : Deliver(b, w)
<1>1. \A w \in Workers : Handle(w) => UNCHANGED held
  BY DEF Handle, ReadWhitelist, Score, Reply, Drop
<1>2. (\E b \in Agents, w \in Workers, ips \in SUBSET IPs : Post(b, w, ips))
      \/ Console \/ (\E ip \in IPs : Expire(ip)) \/ UNCHANGED vars => UNCHANGED held
  BY DEF Post, Console, Allow, Lift, LiftFails, Disallow, SetEnforcement, Expire, vars
<1>3. \A b \in Agents : Quiet(b) \/ (\E w \in Workers : GiveUp(b, w)) => \E S : Sweep(S)
  BY DEF Quiet, GiveUp
<1>4. \A w \in Workers : Fail(w) => \E S : Sweep(S)
  BY DEF Fail
<1>5. QED
  BY <1>1, <1>2, <1>3, <1>4 DEF Next, Turn

LEMMA AgentRenews ==
    ASSUME TypeOK, [Next]_vars, NEW a \in Agents
    PROVE  Renews(a)
<1>1. /\ held \in [Agents -> [IPs -> Lease]] /\ held[a] \in [IPs -> Lease]
      /\ \A w \in Workers : req[w].issued \in [IPs -> Lease]
  BY DEF TypeOK, Request
<1>2. ASSUME UNCHANGED held PROVE Renews(a)
  <2>1. \A ip \in IPs : held[a][ip].left \in Nat
    BY <1>1, LeaseParts
  <2>2. QED
    BY <1>2, <2>1 DEF Renews
<1>3. ASSUME NEW S, Sweep(S) PROVE Renews(a)
  <2>1. held'[a] = Swept(held[a]) \/ held'[a] = held[a]
    BY <1>3 DEF Sweep
  <2>2. \A ip \in IPs : held[a][ip].left \in Nat /\ Swept(held[a])[ip].left <= held[a][ip].left
    BY <1>1, LeaseParts, WithoutLess DEF Swept
  <2>3. QED
    BY <2>1, <2>2 DEF Renews
<1>4. CASE Tick
  <2>1. held'[a] = Aged(held[a])
    BY <1>4 DEF Tick
  <2>2. \A ip \in IPs : held[a][ip].left \in Nat
    BY <1>1, LeaseParts
  <2>3. \A ip \in IPs : held'[a][ip].left <= held[a][ip].left
    BY <1>1, <2>1, <2>2, AgedTable
  <2>4. QED
    BY <2>3 DEF Renews
<1>5. ASSUME NEW b \in Agents, NEW w \in Workers, Deliver(b, w) PROVE Renews(a)
  <2>1. CASE a # b
    <3>1. held'[a] = held[a]
      BY <1>1, <1>5, <2>1 DEF Deliver
    <3>2. \A ip \in IPs : held[a][ip].left \in Nat
      BY <1>1, LeaseParts
    <3>3. QED
      BY <3>1, <3>2 DEF Renews
  <2>2. CASE a = b
    <3> DEFINE merged == Renewed(held[a], req[w].issued)
               kept   == Without(merged, IPs \ req[w].active)
    <3>1. held'[a] = Swept(kept) /\ req[w].pc = "replied"
      BY <1>1, <1>5, <2>2 DEF Deliver
    <3>2. /\ merged \in [IPs -> Lease]
          /\ \A ip \in IPs : merged[ip] = IF ip \in Leased(req[w].issued) THEN req[w].issued[ip]
                                                                         ELSE held[a][ip]
      BY <1>1, RenewedTable
    <3> HIDE DEF merged
    <3>3. kept \in [IPs -> Lease] /\ \A ip \in IPs : kept[ip].left <= merged[ip].left
      BY <3>2, WithoutTable, WithoutLess
    <3> HIDE DEF kept
    <3>4. ASSUME NEW ip \in IPs PROVE held'[a][ip].left <= merged[ip].left
      <4>1. held'[a][ip].left <= kept[ip].left
        BY <3>1, <3>3, WithoutLess DEF Swept
      <4>2. held'[a][ip].left \in Nat /\ kept[ip].left \in Nat /\ merged[ip].left \in Nat
        BY <3>1, <3>2, <3>3, SweptTable, LeaseParts
      <4>3. kept[ip].left <= merged[ip].left
        BY <3>3
      <4>4. QED
        BY <4>1, <4>2, <4>3
    <3>5. QED
      BY <3>1, <3>2, <3>4 DEF Renews
  <2>3. QED
    BY <2>1, <2>2
<1>6. QED
  BY <1>2, <1>3, <1>4, <1>5, StepHolds

LEMMA SilentInv ==
    ASSUME TypeOK, PausedSilent, [Next]_vars
    PROVE  PausedSilent'
<1> SUFFICES ASSUME NEW w \in Workers, req'[w].pc = "replied", req'[w].paused
             PROVE  Leased(req'[w].issued) = {}
  BY DEF PausedSilent
<1>1. Moves(w) /\ req[w].issued \in [IPs -> Lease]
  BY RequestMoves DEF TypeOK, Request
<1>2. Leased(Aged(req[w].issued)) = Leased(req[w].issued)
  BY <1>1, AgedTable
<1>3. QED
  BY <1>1, <1>2, NoLeaseLease DEF Moves, PausedSilent

\* A lease with at most n ticks has no more a tick later, and less if it has any.
LEMMA AgedLess ==
    ASSUME NEW t \in [IPs -> Lease], NEW ip \in IPs, NEW n \in Nat, t[ip].left <= n
    PROVE  Aged(t)[ip].left <= n /\ (n > 0 => Aged(t)[ip].left <= n - 1)
<1>1. t[ip].left \in Nat /\ Aged(t)[ip].left = IF t[ip].left > 0 THEN t[ip].left - 1 ELSE 0
  BY AgedTable, LeaseParts
<1>2. QED
  BY <1>1

LEMMA IssuedAtMost ==
    ASSUME TypeOK, [Next]_vars, NEW w \in Workers, NEW ip \in IPs, NEW n \in Nat,
           req[w].issued[ip].left <= n
    PROVE  \/ req'[w].issued[ip].left <= n
           \/ req[w].pc = "score" /\ req'[w].pc = "score" /\ ip \in req[w].todo
<1>1. Moves(w) /\ req[w].issued \in [IPs -> Lease]
  BY RequestMoves DEF TypeOK, Request
<1>2. NoLeases[ip].left = 0
  BY DEF NoLeases, NoLease
<1>3. Aged(req[w].issued)[ip].left <= n
  BY <1>1, AgedLess
<1>4. \/ req'[w].issued \in {req[w].issued, NoLeases, Aged(req[w].issued)}
      \/ /\ req[w].pc = "score" /\ req'[w].pc = "score"
         /\ \E j \in req[w].todo : \E d :
               req'[w].issued = [req[w].issued EXCEPT ![j] = d]
  BY <1>1 DEF Moves
<1>5. CASE req'[w].issued \in {req[w].issued, NoLeases, Aged(req[w].issued)}
  <2>1. n >= 0
    OBVIOUS
  <2>2. QED
    BY <1>2, <1>3, <1>5, <2>1
<1>6. ASSUME NEW j \in req[w].todo, NEW d, req'[w].issued = [req[w].issued EXCEPT ![j] = d], j # ip
      PROVE  req'[w].issued[ip].left <= n
  BY <1>1, <1>6
<1>7. QED
  BY <1>4, <1>5, <1>6

LEMMA HeldAtMost ==
    ASSUME IInv, IInv', [Next]_vars, NEW a \in Agents, NEW ip \in IPs, NEW n \in Nat,
           held[a][ip].left <= n,
           \A w \in Workers : req[w].pc = "replied" /\ ip \in Leased(req[w].issued)
                                => req[w].issued[ip].left <= n
    PROVE  held'[a][ip].left <= n
<1>1. TypeOK /\ held[a] \in [IPs -> Lease] /\ held'[a] \in [IPs -> Lease]
      /\ \A w \in Workers : req[w].issued \in [IPs -> Lease]
  BY DEF IInv, TypeOK, Request
<1>2. held[a][ip].left \in Nat /\ held'[a][ip].left \in Nat
      /\ \A w \in Workers : req[w].issued[ip].left \in Nat
  BY <1>1, LeaseParts
<1>3. \/ held'[a][ip].left <= held[a][ip].left
      \/ \E w \in Workers : /\ req[w].pc = "replied" /\ ip \in Leased(req[w].issued)
                            /\ held'[a][ip].left <= req[w].issued[ip].left
  BY <1>1, AgentRenews DEF Renews
<1>4. QED
  BY <1>2, <1>3

LEMMA AllowedKept ==
    ASSUME IInv, IInv', [Next]_vars, NEW ip \in IPs, NEW n \in Nat,
           ip \in allowed, AllowedAtMost(ip, n)
    PROVE  AllowedAtMost(ip, n)' /\ (Tick /\ n > 0 => AllowedAtMost(ip, n - 1)')
<1>1. TypeOK /\ \A w \in Workers : Moves(w)
  BY RequestMoves DEF IInv
<1>2. \A a \in Agents : held'[a][ip].left <= n
  BY HeldAtMost DEF AllowedAtMost
<1>3. \A w \in Workers : req'[w].issued[ip].left <= n
  BY <1>1, IssuedAtMost DEF AllowedAtMost
<1>4. ASSUME NEW w \in Workers, req'[w].pc = "score" PROVE ip \notin req'[w].todo
  BY <1>1, <1>4 DEF Moves, AllowedAtMost
<1>5. ASSUME Tick, n > 0 PROVE AllowedAtMost(ip, n - 1)'
  <2>1. \A a \in Agents : held[a] \in [IPs -> Lease] /\ held'[a] = Aged(held[a])
    BY <1>1, <1>5 DEF TypeOK, Tick
  <2>2. \A w \in Workers : req[w].issued \in [IPs -> Lease] /\ req'[w].issued = Aged(req[w].issued)
    BY <1>1, <1>5 DEF TypeOK, Request, Tick
  <2>3. \A a \in Agents : held'[a][ip].left <= n - 1
    BY <1>5, <2>1, AgedLess DEF AllowedAtMost
  <2>4. \A w \in Workers : req'[w].issued[ip].left <= n - 1
    BY <1>5, <2>2, AgedLess DEF AllowedAtMost
  <2>5. QED
    BY <1>4, <2>3, <2>4 DEF AllowedAtMost
<1>6. QED
  BY <1>2, <1>3, <1>4, <1>5 DEF AllowedAtMost

LEMMA PausedKept ==
    ASSUME IInv, IInv', PausedSilent, [Next]_vars, NEW n \in Nat, paused, PausedAtMost(n)
    PROVE  PausedAtMost(n)' /\ (Tick /\ n > 0 => PausedAtMost(n - 1)')
<1>1. TypeOK /\ \A w \in Workers : Moves(w)
  BY RequestMoves DEF IInv
<1>2. \A w \in Workers : req[w].pc = "replied" =>
        \A ip \in IPs : ip \in Leased(req[w].issued) => req[w].issued[ip].left <= n
  BY DEF PausedAtMost, PausedSilent
<1>3. \A a \in Agents, ip \in IPs : held'[a][ip].left <= n
  BY <1>2, HeldAtMost DEF PausedAtMost
<1>4. ASSUME NEW w \in Workers
      PROVE  \/ req'[w].paused
             \/ req'[w].pc = "idle" /\ req'[w].issued = NoLeases
             \/ /\ req'[w].pc \in {"idle", "replied"} /\ req'[w].pc = req[w].pc
                /\ \A ip \in IPs : req[w].issued[ip].left <= n
  BY <1>1 DEF Moves, PausedAtMost
<1>5. ASSUME NEW w \in Workers
      PROVE  \/ req'[w].paused
             \/ req'[w].pc \in {"idle", "replied"} /\ \A ip \in IPs : req'[w].issued[ip].left <= n
  <2>1. \A ip \in IPs : NoLeases[ip].left = 0
    BY DEF NoLeases, NoLease
  <2>2. CASE /\ req'[w].pc \in {"idle", "replied"} /\ req'[w].pc = req[w].pc
             /\ \A ip \in IPs : req[w].issued[ip].left <= n
    BY <1>1, <2>2, IssuedAtMost
  <2>3. QED
    BY <1>4, <2>1, <2>2
<1>6. ASSUME Tick, n > 0 PROVE PausedAtMost(n - 1)'
  <2>1. \A a \in Agents : held[a] \in [IPs -> Lease] /\ held'[a] = Aged(held[a])
    BY <1>1, <1>6 DEF TypeOK, Tick
  <2>2. \A w \in Workers : /\ req[w].issued \in [IPs -> Lease] /\ req'[w].issued = Aged(req[w].issued)
                           /\ req'[w].pc = req[w].pc /\ req'[w].paused = req[w].paused
    BY <1>1, <1>6 DEF TypeOK, Request, Tick
  <2>3. \A a \in Agents, ip \in IPs : held'[a][ip].left <= n - 1
    BY <1>6, <2>1, AgedLess DEF PausedAtMost
  <2>4. \A w \in Workers, ip \in IPs : req[w].issued[ip].left <= n => req'[w].issued[ip].left <= n - 1
    BY <1>6, <2>2, AgedLess
  <2>5. QED
    BY <2>2, <2>3, <2>4 DEF PausedAtMost
<1>7. QED
  BY <1>3, <1>5, <1>6 DEF PausedAtMost

-----------------------------------------------------------------------------
(* Every agent is the lease table of BlockLease.                           *)

\* What is on its way has no more left than its tier grants.
IssuedUnspent == \A w \in Workers : req[w].issued \in [IPs -> Unspent]

LEMMA UnspentAges ==
    ASSUME NEW t \in [IPs -> Unspent]
    PROVE  Aged(t) \in [IPs -> Unspent]
<1>1. ASSUME NEW d \in Unspent PROVE Older(d) \in Unspent
  <2>1. TTL[1] \in Nat /\ TTL[2] \in Nat
    BY LeaseAssumption
  <2>2. CASE d = NoLease
    BY <2>2 DEF Older, NoLease, Unspent
  <2>3. CASE d \in [tier : {1}, left : 0..TTL[1]]
    BY <2>1, <2>3 DEF Older, Unspent
  <2>4. CASE d \in [tier : {2}, left : 0..TTL[2]]
    BY <2>1, <2>4 DEF Older, Unspent
  <2>5. QED
    BY <1>1, <2>2, <2>3, <2>4 DEF Unspent
<1>2. QED
  BY <1>1 DEF Aged

LEMMA GrantUnspent == NoLeases \in [IPs -> Unspent] /\ NoLease \in Unspent /\ \A k \in 1..2 : Grant(k) \in Unspent
BY LeaseAssumption DEF NoLeases, Unspent, Grant

LEMMA UnspentInv ==
    ASSUME TypeOK, IssuedUnspent, [Next]_vars
    PROVE  IssuedUnspent'
<1> SUFFICES ASSUME NEW w \in Workers PROVE req'[w].issued \in [IPs -> Unspent]
  BY DEF IssuedUnspent
<1>1. Moves(w) /\ req[w].issued \in [IPs -> Unspent]
  BY RequestMoves DEF IssuedUnspent
<1>2. \A tier \in 0..2 : (IF tier = 0 THEN NoLease ELSE Grant(tier)) \in Unspent
  BY GrantUnspent
<1>3. \/ req'[w].issued \in {req[w].issued, NoLeases, Aged(req[w].issued)}
      \/ \E ip \in req[w].todo, tier \in 0..2 :
            req'[w].issued = [req[w].issued EXCEPT ![ip] = IF tier = 0 THEN NoLease ELSE Grant(tier)]
  BY <1>1 DEF Moves
<1>4. QED
  BY <1>1, <1>2, <1>3, UnspentAges, GrantUnspent

LEMMA LesseeSweeps ==
    ASSUME NEW a \in Agents, NEW S, Sweep(S)
    PROVE  Lessee(a)!Next \/ UNCHANGED held[a]
<1>1. held'[a] = Swept(held[a]) \/ held'[a] = held[a]
  BY DEF Sweep
<1>2. Swept(held[a]) = Lessee(a)!Without(held[a], Lessee(a)!RunOut(held[a]))
  BY DEF Swept, Without, RunOut, Leased, NoLease, Lessee!Without, Lessee!RunOut, Lessee!Leased,
         Lessee!NoLease
<1>3. QED
  BY <1>1, <1>2 DEF Lessee!Next, Lessee!Sweep

\* An answer and the sweep that ends its turn are an answer that does not
\* serve what has run out.
LEMMA LesseeTurns ==
    ASSUME TypeOK, IssuedUnspent, NEW a \in Agents, NEW w \in Workers, Deliver(a, w)
    PROVE  Lessee(a)!Next
<1> DEFINE merged == Renewed(held[a], req[w].issued)
           kept   == Without(merged, IPs \ req[w].active)
           served == req[w].active \ RunOut(kept)
<1>1. req[w].issued \in [IPs -> Unspent] /\ req[w].active \in SUBSET IPs
      /\ held \in [Agents -> [IPs -> Lease]]
  BY DEF TypeOK, Request, IssuedUnspent
<1>2. held'[a] = Swept(kept)
  BY <1>1 DEF Deliver
<1>3. merged = Lessee(a)!Renewed(held[a], req[w].issued)
  BY DEF Renewed, Lessee!Renewed
<1> HIDE DEF merged
<1>4. \A ip \in IPs : Swept(kept)[ip] = IF ip \in IPs \ served THEN NoLease ELSE merged[ip]
  BY DEF Swept, Without
<1>5. Swept(kept) = [ip \in IPs |-> IF ip \in IPs \ served THEN NoLease ELSE merged[ip]]
  BY <1>4 DEF Swept, Without
<1>6. Lessee(a)!Answer(req[w].issued, served)
  BY <1>2, <1>3, <1>5 DEF Lessee!Answer, Lessee!Without, Lessee!NoLease, NoLease
<1>7. served \in SUBSET IPs
  BY <1>1
<1>8. QED
  BY <1>1, <1>6, <1>7 DEF Lessee!Next

LEMMA StepIsLessees ==
    ASSUME TypeOK, IssuedUnspent, [Next]_vars, NEW a \in Agents
    PROVE  Lessee(a)!Next \/ UNCHANGED held[a]
<1>1. ASSUME NEW b \in Agents, NEW w \in Workers, Deliver(b, w)
      PROVE  Lessee(a)!Next \/ UNCHANGED held[a]
  <2>1. CASE b = a
    BY <1>1, <2>1, LesseeTurns
  <2>2. CASE b # a
    BY <1>1, <2>2 DEF Deliver, TypeOK
  <2>3. QED
    BY <2>1, <2>2
<1>2. ASSUME NEW S, Sweep(S) PROVE Lessee(a)!Next \/ UNCHANGED held[a]
  BY <1>2, LesseeSweeps
<1>3. CASE Tick
  <2>1. held'[a] = Aged(held[a])
    BY <1>3 DEF Tick
  <2>2. QED
    BY <2>1 DEF Aged, Older, Lessee!Next, Lessee!Tick, Lessee!Aged, Lessee!Older
<1>4. UNCHANGED held \/ Tick \/ (\E S : Sweep(S)) \/ (\E b \in Agents, w \in Workers : Deliver(b, w))
  BY StepHolds
<1>5. QED
  BY <1>1, <1>2, <1>3, <1>4

-----------------------------------------------------------------------------
(* Theorems.                                                               *)

LEMMA StepInv == IInv /\ [Next]_vars => IInv'
<1> SUFFICES ASSUME IInv, [Next]_vars PROVE IInv'
  OBVIOUS
<1>1. ASSUME NEW a \in Agents, NEW w \in Workers, NEW ips \in SUBSET IPs, Post(a, w, ips) PROVE IInv'
  BY <1>1, RequestInv
<1>2. ASSUME NEW w \in Workers, Handle(w) \/ Fail(w) PROVE IInv'
  <2>1. CASE ReadWhitelist(w) \/ Reply(w)
    BY <2>1, RequestInv
  <2>2. ASSUME NEW ip \in IPs, NEW tier \in 0..2, Score(w, ip, tier) PROVE IInv'
    BY <2>2, ScoreInv
  <2>3. CASE Drop(w) \/ Fail(w)
    BY <2>3, UnansweredInv
  <2>4. QED
    BY <1>2, <2>1, <2>2, <2>3 DEF Handle
<1>3. ASSUME NEW a \in Agents, Turn(a) \/ \E w \in Workers : GiveUp(a, w) PROVE IInv'
  BY <1>3, DeliverInv, UnansweredInv DEF Turn
<1>4. CASE Console
  BY <1>4, ConsoleInv
<1>5. CASE Tick \/ \E ip \in IPs : Expire(ip)
  BY <1>5, TimeInv
<1>6. CASE UNCHANGED vars
  BY <1>6 DEF vars, consoleVars, ghostVars, IInv, TypeOK, IssuedWithinRecord,
                EnforcedWithinRecord, RowsGranted, ServesHeld, Standing
<1>7. QED
  BY <1>1, <1>2, <1>3, <1>4, <1>5, <1>6 DEF Next

LEMMA Invariance == Spec => []IInv
<1>1. QED
  BY InitInv, StepInv, PTL DEF Spec

\* Every row, request and table of leases keeps its shape.
THEOREM TypeCorrect == Spec => []TypeOK
<1>1. IInv => TypeOK
  BY DEF IInv
<1>2. QED
  BY <1>1, Invariance, PTL

\* No server enforces a decision longer than its MitigationState row says,
\* but for one whose row was deleted or cut short since: for any number of
\* agents, requests and addresses, and any lengths of lease.
THEOREM NoLeaseOutlivesItsRow == Spec => []EnforcedWithinRecord
<1>1. IInv => EnforcedWithinRecord
  BY DEF IInv
<1>2. QED
  BY <1>1, Invariance, PTL

\* No server lifts a block before its time but for a cause: its answer was to
\* a paused request, the record ended or was cut short after the block was
\* issued, or its row did not fit in the page.  No other agent's requests, no
\* lost answer and no failed request can take a block away.
THEOREM BlocksStayForTheirTime == Spec => WithdrawnForCause
<1>1. Init => RenewsLonger
  BY DEF Init, RenewsLonger
<1>2. IInv /\ RenewsLonger /\ [Next]_vars => RenewsLonger'
  BY StepRenews
<1>3. IInv /\ RenewsLonger /\ [Next]_vars =>
        [\A a \in Agents, ip \in IPs :
            ip \in InForce(held[a]) \ Leased(held'[a]) =>
                ip \in lapsed[a] \/ \E w \in waiting[a] : req[w].paused \/ ip \in req[w].beyond]_vars
  BY StepRenews
<1>4. QED
  BY <1>1, <1>2, <1>3, Invariance, PTL DEF Spec, WithdrawnForCause

LEMMA ShaperNumbers == 0..TTL[2] \subseteq Nat
BY LeaseAssumption

\* What an allowance could not stop runs out, on every server, within the
\* ticks it has left: no request, answer or failure adds to them.
THEOREM AllowanceStands == Spec => AllowedRunsOut
<1>1. IInv /\ IInv' /\ [Next]_vars =>
        [\A ip \in IPs, n \in 0..TTL[2] :
            ip \in allowed /\ ip \in allowed' /\ AllowedAtMost(ip, n) =>
                /\ AllowedAtMost(ip, n)'
                /\ Tick /\ n > 0 => AllowedAtMost(ip, n - 1)']_vars
  BY ShaperNumbers, AllowedKept
<1>2. QED
  BY <1>1, Invariance, PTL DEF Spec, AllowedRunsOut

\* And what a pause found enforced runs out, whatever traffic comes.
THEOREM PauseStands == Spec => PausedRunsOut
<1>1. Init => PausedSilent
  BY DEF Init, PausedSilent, Idle
<1>2. IInv /\ PausedSilent /\ [Next]_vars => PausedSilent'
  BY SilentInv DEF IInv
<1>3. IInv /\ IInv' /\ PausedSilent /\ [Next]_vars =>
        [\A n \in 0..TTL[2] :
            paused /\ paused' /\ PausedAtMost(n) =>
                /\ PausedAtMost(n)'
                /\ Tick /\ n > 0 => PausedAtMost(n - 1)']_vars
  BY ShaperNumbers, PausedKept
<1>4. QED
  BY <1>1, <1>2, <1>3, Invariance, PTL DEF Spec, PausedRunsOut

\* What was enforced when it was allowed or paused runs out, by steps alone.
THEOREM WhatIsStoppedRunsOut == Spec => StoppedRunsOut
BY AllowanceStands, PauseStands DEF StoppedRunsOut

\* Each agent of the loop is the lease table that Enforcer implements: what a
\* server holds changes by an answer whose leases its tiers grant, by a sweep
\* and by time, whatever the backend, the console and the other agents do.
THEOREM AgentIsLessee == ASSUME NEW a \in Agents PROVE Spec => Lessee(a)!Spec
<1>1. Init => Lessee(a)!Init
  BY DEF Init, NoLeases, NoLease, Lessee!Init, Lessee!NoLeases, Lessee!NoLease
<1>2. Init => IssuedUnspent
  BY GrantUnspent DEF Init, IssuedUnspent, Idle
<1>3. IInv /\ IssuedUnspent /\ [Next]_vars => IssuedUnspent'
  BY UnspentInv DEF IInv
<1>4. IInv /\ IssuedUnspent /\ [Next]_vars => [Lessee(a)!Next]_(Lessee(a)!vars)
  BY StepIsLessees DEF IInv, Lessee!vars
<1>5. QED
  BY <1>1, <1>2, <1>3, <1>4, Invariance, PTL DEF Spec, Lessee!Spec

\* The same of all agents at once.
THEOREM AgentsLease == Spec => AgentsAreLessees
<1>1. Init => IssuedUnspent /\ \A a \in Agents : Lessee(a)!Init
  BY GrantUnspent DEF Init, IssuedUnspent, Idle, NoLeases, NoLease, Lessee!Init, Lessee!NoLeases, Lessee!NoLease
<1>2. IInv /\ IssuedUnspent /\ [Next]_vars => IssuedUnspent'
  BY UnspentInv DEF IInv
<1>3. IInv /\ IssuedUnspent /\ [Next]_vars => [\A a \in Agents : Lessee(a)!Next \/ UNCHANGED held[a]]_vars
  BY StepIsLessees DEF IInv
<1>4. QED
  BY <1>1, <1>2, <1>3, Invariance, PTL DEF Spec, AgentsAreLessees

=============================================================================

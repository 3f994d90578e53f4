------------------------------ MODULE Requests ------------------------------
(***************************************************************************)
(* What a request to the backend leaves behind besides its answer: the     *)
(* ceiling and the quota it is checked against, the counters it moves, the *)
(* timestamp on its agent's row, and so what the console then says of the  *)
(* tenant's protection.  Every check and the write it guards are separate  *)
(* calls to DynamoDB, with other requests, midnight and a revocation       *)
(* between them.  An agent posts one batch at a time and never an empty    *)
(* one; it reads no Retry-After, so a refused agent posts again.           *)
(***************************************************************************)
EXTENDS Usage, Fleet

CONSTANTS
    Agents,         \* machines, of any tenant
    Tenants,
    MaxNow,         \* bound: the last tick
    MaxCounted      \* bound: what a day's counter of requests is followed to

ASSUME RequestsAssumption ==
    /\ IsFiniteSet(Agents)
    /\ MaxNow \in Nat \ {0}
    /\ MaxCounted \in Nat
    /\ MaxCounted >= Ceiling

VARIABLES
    now,        \* the clock, in ticks
    platform,   \* requests on today's row
    share,      \* batches on today's row of each tenant
    rows,       \* the Agents table
    pc,         \* where each agent's request is
    decided,    \* decided_at of the tenant's decision in force, or NoDecision
    auth,       \* ghost: when each agent last passed authentication, 0 if never
    over,       \* ghost: batches counted today past the platform's ceiling
    answered,   \* ghost: agents answered since their tenant's decision
    letDown     \* ghost: agents authenticated and not answered since then

counters == <<platform, share, over>>
shown    == <<rows, auth>>
told     == <<answered, letDown>>
vars     == <<now, counters, shown, pc, decided, told>>

NoDecision == -1
Busy(a) == pc[a] # "idle"
Owner(a) == rows[a].tenant
Of(t) == {a \in DOMAIN rows : Owner(a) = t}
RowsOf(t) == [a \in Of(t) |-> rows[a]]
Judged(t) == decided[t] # NoDecision

(* The screens of a tenant that are read from these tables.                *)

\* protection_status, the page: marks are withheld unless the plot is live.
GatePage(t, modelReady) ==
    LET axis == AxisState(AgentHealth(RowsOf(t), now), ThrottledReason(platform, share[t]), modelReady)
    IN [axis |-> axis, plot |-> PlotOf(axis), marks |-> Judged(t) /\ PlotOf(axis) = "live"]

\* system_page.  The budget is read from the keys tenant_requests and
\* tenant_quota, which protection_status does not return.
SystemPage(t) == [behind |-> Behind({decided[t]}, RowsOf(t)), used |-> 0, quota |-> 0]

\* _rows: the column of the list of decisions.
Row(t, paused) == Reach(decided[t], RowsOf(t), paused)

\* export_mitigations: the same column, in a file.
Exported(t, paused) == IF Judged(t) THEN {Row(t, paused)} ELSE {}

\* That every machine of the tenant has collected the decision in force:
\* in the list of decisions or its export, or in the drawing of the system.
SaysCollected(t) ==
    \/ "in_effect" \in Exported(t, FALSE) \union {Row(t, FALSE)}
    \/ decided[t] > 0 /\ SystemPage(t).behind = {}

Init ==
    /\ now = 1
    /\ platform = 0
    /\ share = [t \in Tenants |-> 0]
    /\ over = 0
    /\ rows = [a \in {} |-> a]
    /\ pc = [a \in Agents |-> "idle"]
    /\ decided = [t \in Tenants |-> NoDecision]
    /\ auth = [a \in Agents |-> 0]
    /\ answered = {}
    /\ letDown = {}

-----------------------------------------------------------------------------
(* A batch, from the checks of its route to the counter of the middleware. *)

\* What the ghosts keep is about the decision in force.
Noted(S, a) == IF Judged(Owner(a)) THEN S \union {a} ELSE S
Forget(t) ==
    /\ answered' = answered \ Of(t)
    /\ letDown' = letDown \ Of(t)

Goes(a, to) == pc' = [pc EXCEPT ![a] = to]

\* Mutant: the ceiling is not asked for.
CheckNothing(a) ==
    /\ a \in DOMAIN rows
    /\ pc[a] = "idle"
    /\ Goes(a, "checked")
    /\ UNCHANGED <<now, counters, shown, decided, told>>

\* enforce_usage_ceiling, a dependency of the route itself and so the first:
\* a batch past the ceiling is refused before anyone asks whose it is.
CheckCeiling(a) ==
    /\ a \in DOMAIN rows
    /\ pc[a] = "idle"
    /\ IF OverCeiling(platform) THEN UNCHANGED pc ELSE Goes(a, "checked")
    /\ UNCHANGED <<now, counters, shown, decided, told>>

\* authenticated_agent: a revoked key is a 401, any other is touched.
Authenticate(a) ==
    /\ pc[a] = "checked"
    /\ IF rows[a].status = "revoked"
       THEN Goes(a, "idle") /\ UNCHANGED shown
       ELSE /\ Goes(a, "known")
            /\ rows' = [rows EXCEPT ![a] = Touch(@, now)]
            /\ auth' = [auth EXCEPT ![a] = now]
    /\ UNCHANGED <<now, counters, decided, told>>

\* Mutant: a refused batch is let through.
IgnoreQuota(a) ==
    /\ pc[a] = "known"
    /\ Goes(a, "accepted")
    /\ UNCHANGED <<now, counters, shown, decided, told>>

\* enforce_tenant_quota.  The agent was seen, and is told to come back
\* tomorrow: it has collected nothing.
CheckQuota(a) ==
    /\ pc[a] = "known"
    /\ IF OverQuota(share[Owner(a)])
       THEN Goes(a, "idle") /\ letDown' = Noted(letDown, a)
       ELSE Goes(a, "accepted") /\ UNCHANGED letDown
    /\ UNCHANGED <<now, counters, shown, decided, answered>>

\* record_tenant_ingest: one ADD on the tenant's row of the day it is now.
CountBatch(a) ==
    /\ pc[a] = "accepted"
    /\ Goes(a, "counted")
    /\ share' = [share EXCEPT ![Owner(a)] = @ + 1]
    /\ over' = IF OverCeiling(platform) THEN over + 1 ELSE over
    /\ UNCHANGED <<now, platform, shown, decided, told>>

\* Any of the reads and writes of an authenticated batch raises: the answer
\* is an error, and the middleware that would count the request is skipped.
Fail(a) ==
    /\ pc[a] \in {"known", "accepted", "counted", "judged"}
    /\ Goes(a, "idle")
    /\ letDown' = Noted(letDown, a)
    /\ UNCHANGED <<now, counters, shown, decided, answered>>

\* The rest of the route: the batch is judged (TrafficShaper has the detail),
\* and may leave a decision where the tenant has none.
Judge(a) ==
    LET t == Owner(a) IN
    /\ pc[a] = "counted"
    /\ Goes(a, "judged")
    /\ \/ UNCHANGED <<decided, told>>
       \/ /\ ~Judged(t)
          /\ decided' = [decided EXCEPT ![t] = now]
          /\ UNCHANGED told
    /\ UNCHANGED <<now, counters, shown>>

\* Past the ceiling no check tells one figure from another: the bound.
CountRequest == platform' = IF platform < MaxCounted THEN platform + 1 ELSE platform

\* track_usage, after the response: one ADD on the platform's row.  The
\* answer may still be lost on its way.
Answer(a) ==
    /\ pc[a] = "judged"
    /\ Goes(a, "idle")
    /\ CountRequest
    /\ \/ answered' = Noted(answered, a) /\ UNCHANGED letDown
       \/ letDown' = Noted(letDown, a) /\ UNCHANGED answered
    /\ UNCHANGED <<now, share, over, shown, decided>>

-----------------------------------------------------------------------------
(* Everything else that moves the counters, the rows or the clock.         *)

\* A page of the console, or a registration: counted, never refused.
View ==
    /\ CountRequest
    /\ UNCHANGED <<now, share, over, shown, pc, decided, told>>

\* register_agent, in the console's name.
Register(a, t) ==
    /\ a \notin DOMAIN rows
    /\ CountRequest
    /\ rows' = [b \in DOMAIN rows \union {a} |-> IF b = a THEN NewRow(t, now) ELSE rows[b]]
    /\ UNCHANGED <<now, share, over, auth, pc, decided, told>>

Revoke(a) ==
    /\ a \in DOMAIN rows
    /\ rows[a].status = "active"
    /\ rows' = [rows EXCEPT ![a].status = "revoked"]
    /\ UNCHANGED <<now, counters, auth, pc, decided, told>>

\* The decision's TTL ran out, or a human lifted it.
Expire(t) ==
    /\ Judged(t)
    /\ decided' = [decided EXCEPT ![t] = NoDecision]
    /\ Forget(t)
    /\ UNCHANGED <<now, counters, shown, pc>>

\* The rows are keyed by the UTC date: at midnight every counter is a new one.
Tick ==
    /\ now < MaxNow
    /\ now' = now + 1
    /\ IF Today(now') = Today(now)
       THEN UNCHANGED counters
       ELSE platform' = 0 /\ share' = [t \in Tenants |-> 0] /\ over' = 0
    /\ UNCHANGED <<shown, pc, decided, told>>

Next ==
    \/ \E a \in Agents : \/ CheckCeiling(a) \/ Authenticate(a) \/ CheckQuota(a)
                         \/ CountBatch(a) \/ Fail(a) \/ Judge(a) \/ Answer(a)
                         \/ Revoke(a)
                         \/ \E t \in Tenants : Register(a, t)
    \/ \E t \in Tenants : Expire(t)
    \/ View
    \/ Tick

Spec == Init /\ [][Next]_vars

-----------------------------------------------------------------------------
(* Properties.                                                             *)

\* Every counter, row and request is of its kind.
TypeOK ==
    /\ now \in 0..MaxNow
    /\ platform \in Nat
    /\ share \in [Tenants -> Nat]
    /\ over \in Nat
    /\ DOMAIN rows \subseteq Agents
    /\ rows \in [DOMAIN rows -> [tenant : Tenants, seen : 0..MaxNow, status : {"active", "revoked"}]]
    /\ pc \in [Agents -> {"idle", "checked", "known", "accepted", "counted", "judged"}]
    /\ decided \in [Tenants -> 0..MaxNow \union {NoDecision}]
    /\ auth \in [Agents -> 0..MaxNow]
    /\ answered \subseteq Agents
    /\ letDown \subseteq Agents

PastQuota(t) == {a \in Of(t) : pc[a] = "accepted"}
PastCeiling  == {a \in Agents : pc[a] \in {"checked", "known", "accepted"}}

\* The quota is checked and counted in two calls: a tenant's batches pass it
\* by no more than the batches its other machines had in flight, on the day
\* it is reached and on the day after.
ShareHolds ==
    \A t \in Tenants :
        share[t] + Cardinality(PastQuota(t)) < TenantQuota + Cardinality(Of(t))

\* Once the day's ceiling is reached, the only batches still counted are
\* those that had passed the check, whatever the console adds meanwhile.
CeilingStopsIngest ==
    OverCeiling(platform) =>
        over + Cardinality(PastCeiling) <= Cardinality(Agents)

\* A machine shown as reporting was authenticated, or registered, within the
\* last Stale; one shown as quiet may have been since its timestamp, but not
\* past the first Stale after it.  The customer's page and the operator's
\* lists and counts never disagree about a machine.
LivenessIsReal ==
    /\ \A a \in DOMAIN rows :
        /\ auth[a] <= rows[a].seen + Stale
        /\ AgentState(rows[a], now) = "live" => now <= Stale + (IF auth[a] > rows[a].seen
                                                              THEN auth[a] ELSE rows[a].seen)
    /\ QueryLive(rows, now) = AgentsIn(rows, now, "live")
    /\ QueryStale(rows, now) = AgentsIn(rows, now, "quiet")
    /\ \A t \in Tenants :
        LET page == AgentsPage(RowsOf(t), now)
        IN /\ page.live = Cardinality(QueryLive(rows, now) \intersect Of(t))
           /\ page.live + page.quiet <= page.total

\* When a screen says so, every machine was answered since the decision, but
\* for: one that was refused or failed after it was authenticated, one whose
\* request is still under way, one seen in the very second of the decision,
\* and one that registered since and never posted.  While the tenant's
\* enforcement is off, neither the list nor the file says so of anything.
CollectedIsTrue ==
    \A t \in Tenants :
        /\ Judged(t) /\ SaysCollected(t) =>
            \A a \in Of(t) : \/ a \in answered \union letDown
                            \/ Busy(a)
                            \/ rows[a].seen = decided[t]
                            \/ auth[a] < rows[a].seen
        /\ "in_effect" \notin Exported(t, TRUE) \union {Row(t, TRUE)}

\* And it says so in time: once every machine was authenticated at least
\* Stale after the decision, no screen shows it as still on its way.
CollectedIsShown ==
    \A t \in Tenants :
        /\ Judged(t)
        /\ Of(t) # {}
        /\ \A a \in Of(t) : auth[a] >= decided[t] + Stale
        => SaysCollected(t)

\* The tenants' table in any order.
Listings == {list \in [1..Cardinality(Tenants) -> Tenants] :
                \A i, j \in DOMAIN list : i # j => list[i] # list[j]}

\* The screens of a day agree with its service: a gate that shows a live
\* reading belongs to a tenant whose next batch passes both checks, the
\* operator's list names what each tenant used today, and whatever the days
\* before were its bars rank them as the counters do, the busiest at full
\* height.
ScreensTellTheDay ==
    /\ UsageReport(platform).ceiling_warning \/ ~OverCeiling(platform)
    /\ \A t \in Tenants :
        GatePage(t, TRUE).plot = "live" =>
            /\ ~OverCeiling(platform)
            /\ ~OverQuota(share[t])
            /\ \E a \in Of(t) : now - rows[a].seen <= Stale
    /\ \A list \in Listings, before \in [1..TrendDays - 1 -> 0..Ceiling] :
        LET Days(t) == [d \in 1..TrendDays |-> IF d = TrendDays THEN share[t] ELSE before[d]]
            page == TenantRows(list, [t \in Tenants |-> Days(t)], TrendDays)
        IN \A i \in DOMAIN list :
            LET bars == page[i].week
                week == Days(list[i])
            IN /\ page[i].used = share[list[i]]
               /\ \A j, k \in DOMAIN bars : week[j] <= week[k] => bars[j] <= bars[k]
               /\ (\E j \in DOMAIN bars : bars[j] > 0) => \E j \in DOMAIN bars : bars[j] = SparkLevels
=============================================================================

-------------------------------- MODULE Fleet --------------------------------
(***************************************************************************)
(* What the Agents table keeps of a machine, and every sentence the        *)
(* console derives from it.  rows maps agents to [tenant, seen, status]:   *)
(* last_seen_at in ticks, and whether the key was revoked; rows are never  *)
(* deleted, so a revoked agent stays in its tenant's list.                 *)
(***************************************************************************)
EXTENDS Integers, FiniteSets

CONSTANT Stale      \* STALE_AFTER_SECONDS and AGENT_STALE_AFTER_SECONDS, in ticks

ASSUME StaleAssumption == Stale \in Nat

NewRow(tenant, now) == [tenant |-> tenant, seen |-> now, status |-> "active"]

\* Mutant: the cutoff is taken off twice, by the caller and by the table.
TouchRarely(row, now) == IF row.seen < now - 2 * Stale THEN [row EXCEPT !.seen = now] ELSE row

\* AgentsTable.touch: a conditional write, refused while the stored
\* timestamp is no older than the cutoff; it does not look at the status.
Touch(row, now) == IF row.seen < now - Stale THEN [row EXCEPT !.seen = now] ELSE row

\* The two queries on LastSeenIndex, over active agents.
QueryLive(rows, now)  == {a \in DOMAIN rows : rows[a].status = "active" /\ rows[a].seen >= now - Stale}
QueryStale(rows, now) == {a \in DOMAIN rows : rows[a].status = "active" /\ rows[a].seen < now - Stale}

\* Mutant: a machine seen exactly at the cutoff is called quiet.
StateBefore(row, now) ==
    IF row.status = "revoked" THEN "revoked" ELSE IF now - row.seen < Stale THEN "live" ELSE "quiet"

AgentState(row, now) ==
    IF row.status = "revoked" THEN "revoked" ELSE IF now - row.seen <= Stale THEN "live" ELSE "quiet"

AgentsIn(rows, now, state) == {a \in DOMAIN rows : AgentState(rows[a], now) = state}

\* _agents_page, and the operator's pane beside a tenant.
AgentsPage(rows, now) ==
    [live  |-> Cardinality(AgentsIn(rows, now, "live")),
     quiet |-> Cardinality(AgentsIn(rows, now, "quiet")),
     total |-> Cardinality(DOMAIN rows)]

\* agent_health: every row counts, the revoked ones too.
Reporting(rows, now) == {a \in DOMAIN rows : now - rows[a].seen <= Stale}
AgentHealth(rows, now) ==
    IF DOMAIN rows = {} THEN "never_connected"
    ELSE IF Reporting(rows, now) # {} THEN "healthy" ELSE "degraded"

\* axis_state: what the gate screen may draw.
AxisState(health, throttled, modelReady) ==
    IF health \in {"never_connected", "degraded"} THEN "no_signal"
    ELSE IF throttled # "none" THEN "throttled"
    ELSE IF modelReady THEN "fed" ELSE "day_one"

PlotOf(axis) ==
    CASE axis = "no_signal" -> "outline" [] axis = "throttled" -> "frozen" [] OTHER -> "live"

\* Mutant: one machine of the fleet is enough.
ReachAny(decidedAt, rows, paused) ==
    IF paused THEN "watching"
    ELSE IF decidedAt = 0 THEN "unknown"
    ELSE IF \E a \in DOMAIN rows : rows[a].seen >= decidedAt THEN "in_effect" ELSE "behind"

\* reach: has every agent of the tenant been seen since the decision, in
\* whole seconds.  0 is a decision of before the field existed.
Reach(decidedAt, rows, paused) ==
    IF paused THEN "watching"
    ELSE IF decidedAt = 0 THEN "unknown"
    ELSE IF DOMAIN rows # {} /\ \A a \in DOMAIN rows : rows[a].seen >= decidedAt
         THEN "in_effect" ELSE "behind"

\* system_picture: a machine holds the set when it was seen since the OLDEST
\* decision in force; the drawing does not ask whether the tenant paused.
Behind(decisions, rows) ==
    LET stamped == {d \in decisions : d # 0}
        oldest  == CHOOSE d \in stamped : \A e \in stamped : d <= e
    IN IF stamped = {} THEN {} ELSE {a \in DOMAIN rows : rows[a].seen < oldest}
=============================================================================

-------------------------------- MODULE Usage --------------------------------
(***************************************************************************)
(* The daily counters and what is read from them (core/usage.py): one row  *)
(* per UTC date for the platform and one per date and tenant, the two      *)
(* limits on ingest, and the screens that show how much of a day is used.  *)
(* Counters are [Days -> Nat] and [Days -> [tenants -> Nat]], as read.     *)
(***************************************************************************)
EXTENDS Integers, Sequences, FiniteSets

CONSTANTS
    Ceiling,        \* _DAILY_REQUEST_CEILING, in requests
    SharePercent,   \* _TENANT_DAILY_SHARE, in percent
    DayLength,      \* ticks in a UTC day
    TrendDays,      \* days the operator's list charts
    TenantsPerPage  \* tenants it charts them for

\* BatchGetItem takes a hundred keys; the quota is not zero.
ASSUME UsageAssumption ==
    /\ Ceiling \in Nat
    /\ SharePercent \in 0..100
    /\ Ceiling * SharePercent >= 100
    /\ DayLength \in Nat \ {0}
    /\ TrendDays \in Nat \ {0}
    /\ TenantsPerPage \in Nat
    /\ TrendDays * TenantsPerPage <= 100

Today(t) == t \div DayLength

SecondsUntilReset(t) == (Today(t) + 1) * DayLength - t

TenantQuota == (Ceiling * SharePercent) \div 100

OverCeiling(n) == n >= Ceiling

OverQuota(n) == n >= TenantQuota

\* get_usage_report: the warning is up from 80% of the ceiling.
UsageReport(n) == [total_requests |-> n, ceiling_warning |-> 10 * n >= 8 * Ceiling]

\* Mutant: only the tenant's own share is looked at.
OwnShareOnly(platform, tenant) == IF OverQuota(tenant) THEN "tenant" ELSE "none"

\* protection_status: why ingest is refused, from one read of both rows; the
\* platform's reason first, as ingest checks it first.
ThrottledReason(platform, tenant) ==
    IF OverCeiling(platform) THEN "global" ELSE IF OverQuota(tenant) THEN "tenant" ELSE "none"

\* A day's last `days` counts, oldest first: every day has a figure.
RequestsOver(counts, today, days) ==
    [i \in 1..days |-> LET d == today - days + i IN IF d \in DOMAIN counts THEN counts[d] ELSE 0]

SparkLevels == 5

\* A week as bars, each of a height relative to the busiest day; a day
\* without requests is drawn as the least of them.
Spark(week) ==
    LET tallest == CHOOSE n \in {week[i] : i \in DOMAIN week} :
                        \A i \in DOMAIN week : week[i] <= n
        \* round(n / tallest * 5): halves go to the even neighbour
        Round(n) == LET whole == (2 * n * SparkLevels + tallest) \div (2 * tallest)
                        half  == (2 * n * SparkLevels + tallest) % (2 * tallest) = 0
                    IN IF half /\ whole % 2 = 1 THEN whole - 1 ELSE whole
        Level(n) == IF tallest = 0 THEN 0 ELSE IF Round(n) < 1 THEN 1 ELSE Round(n)
    IN [i \in DOMAIN week |-> Level(week[i])]

\* The operator's list: a week for as many tenants as one BatchGetItem takes,
\* today's count alone for the rest.  tenants is in table order, counts maps
\* each to its days.
TenantRows(tenants, counts, today) ==
    [i \in DOMAIN tenants |->
        LET own == counts[tenants[i]]
        IN [used |-> RequestsOver(own, today, 1)[1],
            week |-> IF i <= TenantsPerPage THEN Spark(RequestsOver(own, today, TrendDays))
                                            ELSE <<>>]]

NotCharted(tenants) == IF Len(tenants) > TenantsPerPage THEN Len(tenants) - TenantsPerPage ELSE 0
=============================================================================

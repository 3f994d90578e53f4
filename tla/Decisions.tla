------------------------------ MODULE Decisions ------------------------------
(***************************************************************************)
(* What the backend and the agent exchange: a mitigation decision, and the *)
(* three things that happen to a table of decisions.  A table is a total   *)
(* function on the addresses; the tier NORMAL (0) stands for "no entry".   *)
(***************************************************************************)
EXTENDS Integers

CONSTANTS
    IPs,        \* source addresses
    TTL         \* seconds (in clock ticks) a decision of each tier lasts

ASSUME TTLAssumption == TTL \in [1..2 -> Nat \ {0}]

Normal    == 0      \* AnomalyTier.NORMAL
RateLimit == 1      \* AnomalyTier.RATE_LIMIT
HardBlock == 2      \* AnomalyTier.HARD_BLOCK

Decision   == [tier : 0..2, expires : Nat]
NoDecision == [tier |-> Normal, expires |-> 0]
Table      == [IPs -> Decision]
EmptyTable == [ip \in IPs |-> NoDecision]

\* The addresses a table has an entry for.
Tracked(t) == {ip \in IPs : t[ip].tier # Normal}

\* A decision of tier k issued at time now.
Issue(k, now) == [tier |-> k, expires |-> now + TTL[k]]

\* The decisions of one answer: tiers[ip] is Normal where it has none for ip.
Issued(tiers, now) ==
    [ip \in IPs |-> IF tiers[ip] = Normal THEN NoDecision ELSE Issue(tiers[ip], now)]

\* t with the entries of u written over it, last writer wins.
Override(t, u) == [ip \in IPs |-> IF u[ip].tier # Normal THEN u[ip] ELSE t[ip]]

\* t without the entries outside S.
Keep(t, S) == [ip \in IPs |-> IF ip \in S THEN t[ip] ELSE NoDecision]

\* An expiry of 0 means "never", not the epoch.
IsExpired(d, now) == d.expires # 0 /\ d.expires <= now

Expired(t, now) == {ip \in Tracked(t) : IsExpired(t[ip], now)}

=============================================================================

------------------------------- MODULE Leases --------------------------------
(***************************************************************************)
(* Decisions as leases: what matters of an expiry is the time it still     *)
(* has, so a table of leases is the same table of decisions whatever the   *)
(* clock says, and time passing is every lease growing shorter.  A lease   *)
(* that has run out stays in its table until something removes it: the     *)
(* agent's sweep, an answer that no longer serves it, DynamoDB's TTL.      *)
(***************************************************************************)
EXTENDS Integers

CONSTANTS
    IPs,        \* source addresses
    TTL         \* ticks a decision of each tier lasts

ASSUME LeaseAssumption == TTL \in [1..2 -> Nat \ {0}]

Lease     == [tier : 0..2, left : Nat]
NoLease   == [tier |-> 0, left |-> 0]
NoLeases  == [ip \in IPs |-> NoLease]

Leased(t)  == {ip \in IPs : t[ip].tier # 0}
InForce(t) == {ip \in Leased(t) : t[ip].left > 0}
RunOut(t)  == {ip \in Leased(t) : t[ip].left = 0}

Grant(k) == [tier |-> k, left |-> TTL[k]]

\* t with the leases of u written over it.
Renewed(t, u) == [ip \in IPs |-> IF u[ip].tier # 0 THEN u[ip] ELSE t[ip]]

Without(t, S) == [ip \in IPs |-> IF ip \in S THEN NoLease ELSE t[ip]]

\* One tick later.
Older(d) == [d EXCEPT !.left = IF @ > 0 THEN @ - 1 ELSE 0]
Aged(t)  == [ip \in IPs |-> Older(t[ip])]

=============================================================================

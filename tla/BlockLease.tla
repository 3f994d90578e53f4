----------------------------- MODULE BlockLease ------------------------------
(***************************************************************************)
(* What an agent promises about the decisions it holds, whatever becomes   *)
(* of the commands it runs: it holds a decision from the answer that       *)
(* carried it until its lease runs out, until an answer that lists the     *)
(* served addresses leaves it out, or until the process ends.  A failed    *)
(* request is an answer with no decisions that withdraws nothing.          *)
(***************************************************************************)
EXTENDS Leases

CONSTANT Given  \* what an answer may bring for an address: leases, and NoLease

VARIABLE held   \* the leases the agent is holding

vars == <<held>>

Init == held = NoLeases

Tick == held' = Aged(held)

\* An answer: new decisions, and the addresses it does not withdraw.
Answer(given, served) == held' = Without(Renewed(held, given), IPs \ served)

Sweep == held' = Without(held, RunOut(held))

Exit == held' = NoLeases

Next ==
    \/ Tick
    \/ \E given \in [IPs -> Given], served \in SUBSET IPs : Answer(given, served)
    \/ Sweep
    \/ Exit

Spec == Init /\ [][Next]_vars

=============================================================================

---------------------------- MODULE TrafficShaper ----------------------------
(***************************************************************************)
(* The loop the product is: agents post the traffic they saw, the backend  *)
(* judges its sources against the tenant's whitelist and model, records    *)
(* its decisions and answers with them and with every address it serves,   *)
(* and the agents hold what came back.  Beside it, the tenant allows       *)
(* addresses and pauses enforcement in the console, leases run out and     *)
(* requests fail, all between any two reads and writes of a request.       *)
(*                                                                         *)
(* An agent is here what Enforcer shows it to be: a table of leases (see   *)
(* BlockLease) that one turn of its loop renews, withdraws and sweeps.     *)
(***************************************************************************)
EXTENDS Leases

CONSTANTS
    Agents,         \* the tenant's agents, one per server
    Workers,        \* requests the backend may be handling at once
    Deep,           \* addresses whose rows may lie past the first page of a query,
                    \* behind those of addresses that are not followed here
    Faults          \* what may fail: "request", "answer", "lift"

ASSUME ShaperAssumption == Faults \subseteq {"request", "answer", "lift"} /\ Deep \subseteq IPs

VARIABLES
    allowed,    \* the tenant's Whitelist rows
    lifting,    \* allowed a moment ago, MitigationState row not yet deleted
    paused,     \* enforce_paused_at is set on the tenant
    rows,       \* the MitigationState table, as leases
    req,        \* the request each worker is handling
    waiting,    \* {w} while the agent waits for worker w's answer, else {}
    held,       \* what each agent enforces, as leases
    lapsed,     \* ghost: the record of what the agent holds ended or shrank
    missed      \* ghost: the same for what a request has issued

consoleVars == <<allowed, lifting, paused>>
ghostVars   == <<lapsed, missed>>
vars == <<consoleVars, rows, req, waiting, held, ghostVars>>

Request == [pc     : {"idle", "whitelist", "score", "replied"},
            paused : BOOLEAN,
            todo   : SUBSET IPs,
            issued : [IPs -> Lease],
            active : SUBSET IPs,
            beyond : SUBSET IPs]    \* ghost: in force, and not in the page

Idle == [pc |-> "idle", paused |-> FALSE, todo |-> {}, issued |-> NoLeases,
         active |-> {}, beyond |-> {}]

Init ==
    /\ allowed = {}
    /\ lifting = {}
    /\ paused = FALSE
    /\ rows = NoLeases
    /\ req = [w \in Workers |-> Idle]
    /\ waiting = [a \in Agents |-> {}]
    /\ held = [a \in Agents |-> NoLeases]
    /\ lapsed = [a \in Agents |-> {}]
    /\ missed = [w \in Workers |-> {}]

Watched(w) == \E a \in Agents : w \in waiting[a]

-----------------------------------------------------------------------------
(* A telemetry request, one action for each read or write others can come  *)
(* between.                                                                *)

\* The agent flushes a batch with traffic from ips; authenticated_agent
\* reads the tenant item once, and the pause with it.
Post(a, w, ips) ==
    /\ waiting[a] = {}
    /\ req[w].pc = "idle"
    /\ waiting' = [waiting EXCEPT ![a] = {w}]
    /\ req' = [req EXCEPT ![w] = [Idle EXCEPT !.pc = "whitelist", !.paused = paused,
                                              !.todo = ips]]
    /\ UNCHANGED <<consoleVars, rows, held, ghostVars>>

\* Mutant: the whitelist is not consulted.
IgnoreWhitelist(w) ==
    /\ req[w].pc = "whitelist"
    /\ req' = [req EXCEPT ![w].pc = "score"]
    /\ UNCHANGED <<consoleVars, rows, waiting, held, ghostVars>>

\* The whitelist is read once for the batch; its addresses are skipped.
ReadWhitelist(w) ==
    /\ req[w].pc = "whitelist"
    /\ req' = [req EXCEPT ![w].pc = "score", ![w].todo = @ \ allowed]
    /\ UNCHANGED <<consoleVars, rows, waiting, held, ghostVars>>

\* The record of ip has been cut short: of what the agents hold for it, and of
\* what the other requests have issued for it.
Lapse(ip, others) ==
    /\ lapsed' = [a \in Agents |-> lapsed[a] \union ({ip} \intersect Leased(held[a]))]
    /\ missed' = [w \in Workers |->
                    IF w \in others /\ ip \in Leased(req[w].issued)
                    THEN missed[w] \union {ip} ELSE missed[w]]

\* Mutant: the decision in the answer has the longest lease, whatever its tier.
ScoreLongest(w, ip, tier) ==
    /\ req[w].pc = "score" /\ ip \in req[w].todo
    /\ req' = [req EXCEPT ![w].todo = @ \ {ip},
                          ![w].issued[ip] = IF tier = 0 THEN NoLease
                                            ELSE [tier |-> tier, left |-> TTL[2]]]
    /\ rows' = IF tier = 0 THEN rows ELSE [rows EXCEPT ![ip] = Grant(tier)]
    /\ IF tier # 0 /\ rows[ip].left > TTL[tier]
       THEN Lapse(ip, Workers \ {w}) ELSE UNCHANGED <<lapsed, missed>>
    /\ UNCHANGED <<consoleVars, waiting, held>>

\* One source is scored, to any tier its features may earn.  A decision is
\* put over the address's row, whatever the row said, paused or not.
Score(w, ip, tier) ==
    /\ req[w].pc = "score" /\ ip \in req[w].todo
    /\ req' = [req EXCEPT ![w].todo = @ \ {ip},
                          ![w].issued[ip] = IF tier = 0 THEN NoLease ELSE Grant(tier)]
    /\ rows' = IF tier = 0 THEN rows ELSE [rows EXCEPT ![ip] = Grant(tier)]
    /\ IF tier # 0 /\ rows[ip].left > TTL[tier]
       THEN Lapse(ip, Workers \ {w}) ELSE UNCHANGED <<lapsed, missed>>
    /\ UNCHANGED <<consoleVars, waiting, held>>

\* Mutant: the answer to a paused tenant is like any other.
ReplyUnpaused(w) ==
    /\ req[w].pc = "score" /\ req[w].todo = {} /\ Watched(w)
    /\ req' = [req EXCEPT ![w].pc = "replied", ![w].active = InForce(rows)]
    /\ UNCHANGED <<consoleVars, rows, waiting, held, ghostVars>>

\* What query_by_tenant may leave out of its answer: rows past its one page.
PastPage(t) == SUBSET (Deep \intersect InForce(t))

\* query_active and the answer: nothing at all for a tenant that was paused
\* when the request was authenticated.
Reply(w) ==
    /\ req[w].pc = "score" /\ req[w].todo = {} /\ Watched(w)
    /\ \E beyond \in IF req[w].paused THEN {{}} ELSE PastPage(rows) :
         req' = [req EXCEPT ![w].pc = "replied",
                            ![w].active = IF req[w].paused THEN {} ELSE InForce(rows) \ beyond,
                            ![w].beyond = beyond,
                            ![w].issued = IF req[w].paused THEN NoLeases ELSE @]
    /\ UNCHANGED <<consoleVars, rows, waiting, held, ghostVars>>

-----------------------------------------------------------------------------
(* The agent's turn: whatever the answer, it ends with a sweep.            *)

\* The worker is free for another request.
Finish(w) ==
    /\ req' = [req EXCEPT ![w] = Idle]
    /\ missed' = [missed EXCEPT ![w] = {}]

Swept(t) == Without(t, RunOut(t))

Sweep(S) ==
    /\ held' = [a \in Agents |-> IF a \in S THEN Swept(held[a]) ELSE held[a]]
    /\ lapsed' = [a \in Agents |-> IF a \in S THEN lapsed[a] \ RunOut(held[a]) ELSE lapsed[a]]

\* Mutant: what the batch itself did not decide is withdrawn.
DeliverBatchOnly(a, w) ==
    /\ w \in waiting[a] /\ req[w].pc = "replied"
    /\ LET answered == Swept(Without(Renewed(held[a], req[w].issued),
                                     IPs \ (req[w].active \intersect Leased(req[w].issued))))
       IN /\ held' = [held EXCEPT ![a] = answered]
          /\ lapsed' = [lapsed EXCEPT ![a] =
                ((@ \ Leased(req[w].issued)) \union (missed[w] \intersect Leased(req[w].issued)))
                    \intersect Leased(answered)]
    /\ waiting' = [waiting EXCEPT ![a] = {}]
    /\ Finish(w)
    /\ UNCHANGED <<consoleVars, rows>>

\* The decisions are applied, what is not served is withdrawn, and the table
\* is swept.
Deliver(a, w) ==
    /\ w \in waiting[a] /\ req[w].pc = "replied"
    /\ LET answered == Swept(Without(Renewed(held[a], req[w].issued),
                                     IPs \ req[w].active))
       IN /\ held' = [held EXCEPT ![a] = answered]
          /\ lapsed' = [lapsed EXCEPT ![a] =
                ((@ \ Leased(req[w].issued)) \union (missed[w] \intersect Leased(req[w].issued)))
                    \intersect Leased(answered)]
    /\ waiting' = [waiting EXCEPT ![a] = {}]
    /\ Finish(w)
    /\ UNCHANGED <<consoleVars, rows>>

\* A turn with nothing to send: no traffic since the last flush.
Quiet(a) ==
    /\ waiting[a] = {}
    /\ Sweep({a})
    /\ UNCHANGED <<consoleVars, rows, req, waiting, missed>>

\* The request raises, or its answer is lost: the agent's turn has none.
Fail(w) ==
    /\ "request" \in Faults /\ req[w].pc # "idle"
    /\ Finish(w)
    /\ waiting' = [a \in Agents |-> waiting[a] \ {w}]
    /\ Sweep({a \in Agents : w \in waiting[a]})
    /\ UNCHANGED <<consoleVars, rows>>

\* The edge answers for the backend (a 504), or the connection is lost: the
\* agent's turn has no answer, and the request goes on without it.
GiveUp(a, w) ==
    /\ "answer" \in Faults /\ w \in waiting[a] /\ req[w].pc # "replied"
    /\ waiting' = [waiting EXCEPT ![a] = {}]
    /\ Sweep({a})
    /\ UNCHANGED <<consoleVars, rows, req, missed>>

\* A request nobody waits for any more ends without an answer.
Drop(w) ==
    /\ req[w].pc = "score" /\ req[w].todo = {} /\ ~Watched(w)
    /\ Finish(w)
    /\ UNCHANGED <<consoleVars, rows, waiting, held, lapsed>>

-----------------------------------------------------------------------------
(* The console.                                                            *)

\* add_whitelist: the Whitelist row is put, then the block is deleted.
Allow(ip) ==
    /\ ip \notin lifting
    /\ allowed' = allowed \union {ip}
    /\ lifting' = lifting \union {ip}
    /\ UNCHANGED <<paused, rows, req, waiting, held, ghostVars>>

Lift(ip) ==
    /\ ip \in lifting
    /\ lifting' = lifting \ {ip}
    /\ rows' = [rows EXCEPT ![ip] = NoLease]
    /\ Lapse(ip, Workers)
    /\ UNCHANGED <<allowed, paused, req, waiting, held>>

\* The delete raises after the put: the console reports an error.
LiftFails(ip) ==
    /\ "lift" \in Faults /\ ip \in lifting
    /\ lifting' = lifting \ {ip}
    /\ UNCHANGED <<allowed, paused, rows, req, waiting, held, ghostVars>>

Disallow(ip) ==
    /\ ip \in allowed
    /\ allowed' = allowed \ {ip}
    /\ UNCHANGED <<lifting, paused, rows, req, waiting, held, ghostVars>>

SetEnforcement(off) ==
    /\ paused' = off
    /\ UNCHANGED <<allowed, lifting, rows, req, waiting, held, lapsed, missed>>

-----------------------------------------------------------------------------
(* Time.                                                                   *)

Tick ==
    /\ rows' = Aged(rows)
    /\ held' = [a \in Agents |-> Aged(held[a])]
    /\ req' = [w \in Workers |-> [req[w] EXCEPT !.issued = Aged(@)]]
    /\ UNCHANGED <<consoleVars, waiting, lapsed, missed>>

\* DynamoDB deletes a row some time after its expiry.
Expire(ip) ==
    /\ ip \in RunOut(rows)
    /\ rows' = [rows EXCEPT ![ip] = NoLease]
    /\ UNCHANGED <<consoleVars, req, waiting, held, ghostVars>>

-----------------------------------------------------------------------------

Handle(w) ==
    \/ ReadWhitelist(w)
    \/ \E ip \in IPs, tier \in 0..2 : Score(w, ip, tier)
    \/ Reply(w)
    \/ Drop(w)

Turn(a) == Quiet(a) \/ \E w \in Workers : Deliver(a, w)

Console ==
    \/ \E ip \in IPs : Allow(ip) \/ Lift(ip) \/ LiftFails(ip) \/ Disallow(ip)
    \/ \E off \in BOOLEAN : SetEnforcement(off)

Next ==
    \/ \E a \in Agents, w \in Workers, ips \in SUBSET IPs \ {{}} : Post(a, w, ips)
    \/ \E w \in Workers : Handle(w) \/ Fail(w)
    \/ \E a \in Agents : Turn(a) \/ \E w \in Workers : GiveUp(a, w)
    \/ Console
    \/ Tick
    \/ \E ip \in IPs : Expire(ip)

Spec == Init /\ [][Next]_vars

\* A request the backend has accepted runs to its end (the Lambda's timeout
\* ends it otherwise), an agent's loop turns whether or not there is traffic,
\* time passes.  Nothing is assumed of traffic, of the console or of failures.
FairSpec ==
    /\ Spec
    /\ \A w \in Workers : WF_vars(Handle(w))
    /\ \A a \in Agents : WF_vars(Turn(a))
    /\ WF_vars(Tick)

-----------------------------------------------------------------------------
(* Properties.                                                             *)

TypeOK ==
    /\ allowed \subseteq IPs
    /\ lifting \subseteq IPs
    /\ paused \in BOOLEAN
    /\ rows \in [IPs -> Lease]
    /\ req \in [Workers -> Request]
    /\ waiting \in [Agents -> SUBSET Workers]
    /\ held \in [Agents -> [IPs -> Lease]]
    /\ lapsed \in [Agents -> SUBSET IPs]
    /\ missed \in [Workers -> SUBSET IPs]

\* No server enforces a decision longer than the console shows it, however
\* the agents' requests interleave with each other's, with lost answers and
\* with time: a held lease has at most what its MitigationState row has left,
\* unless that row was deleted by an allowance or put over by a decision with
\* a shorter lease after this agent's decision was issued.
EnforcedWithinRecord ==
    \A a \in Agents, ip \in IPs :
        ip \in Leased(held[a]) /\ ip \notin lapsed[a] => held[a][ip].left <= rows[ip].left

\* No server lifts a block before its time without a cause: the answer it came
\* with was to a request of a paused tenant, the record ended or was cut short
\* after the block was issued, or its row did not fit in the page the answer
\* was made of.  Whatever else was in flight, and whatever failed, leaves it.
WithdrawnForCause ==
    [][\A a \in Agents, ip \in IPs :
        ip \in InForce(held[a]) \ Leased(held'[a]) =>
            ip \in lapsed[a] \/ \E w \in waiting[a] : req[w].paused \/ ip \in req[w].beyond]_vars

\* Every agent is the lease table BlockLease describes: what an answer brings
\* has no more left than its tier grants, and nothing but an answer, a sweep
\* and time changes what a server holds.
Unspent == {NoLease} \union [tier : {1}, left : 0..TTL[1]] \union [tier : {2}, left : 0..TTL[2]]

Lessee(a) == INSTANCE BlockLease WITH held <- held[a], Given <- Unspent
AgentsAreLessees ==
    /\ \A a \in Agents : Lessee(a)!Init
    /\ [][\A a \in Agents : Lessee(a)!Next \/ UNCHANGED held[a]]_vars

\* No server blocks ip for more than n ticks, nor will by an answer on its way,
\* and no request that has read the whitelist is still to judge ip.
AllowedAtMost(ip, n) ==
    /\ \A a \in Agents : held[a][ip].left <= n
    /\ \A w \in Workers : req[w].issued[ip].left <= n
                          /\ (req[w].pc = "score" => ip \notin req[w].todo)

\* No server blocks anything for more than n ticks, nor will by the answer to
\* a request that was let in before the pause.
PausedAtMost(n) ==
    /\ \A a \in Agents, ip \in IPs : held[a][ip].left <= n
    /\ \A w \in Workers :
         \/ req[w].paused
         \/ req[w].pc \in {"idle", "replied"} /\ \A ip \in IPs : req[w].issued[ip].left <= n

\* What an allowance could not stop runs out: once the requests that may have
\* read the whitelist before it have judged the address, no request, answer or
\* failed delete adds to the time it is blocked for as long as it stays
\* allowed, and every tick takes from it.
AllowedRunsOut ==
    [][\A ip \in IPs, n \in 0..TTL[2] :
        ip \in allowed /\ ip \in allowed' /\ AllowedAtMost(ip, n) =>
            /\ AllowedAtMost(ip, n)'
            /\ Tick /\ n > 0 => AllowedAtMost(ip, n - 1)']_vars

\* So does what was enforced when the tenant paused, once the requests that
\* were let in before have been answered: no batch, whatever it is judged to
\* be and whatever rows it puts, renews a lease.
PausedRunsOut ==
    [][\A n \in 0..TTL[2] :
        paused /\ paused' /\ PausedAtMost(n) =>
            /\ PausedAtMost(n)'
            /\ Tick /\ n > 0 => PausedAtMost(n - 1)']_vars

\* Both: neither needs a fair schedule, only requests that end and ticks.
StoppedRunsOut == AllowedRunsOut /\ PausedRunsOut

\* Allowing an address wins in the end: whatever was in flight when it was
\* allowed, and even when the delete failed, a moment comes from which no
\* server refuses it as long as it stays allowed.
AllowWins ==
    \A ip \in IPs :
        <>[](ip \in allowed) => <>[](\A a \in Agents : ip \notin InForce(held[a]))

\* So does the off switch, with or without traffic.
PauseWins == <>[]paused => <>[](\A a \in Agents : InForce(held[a]) = {})

=============================================================================

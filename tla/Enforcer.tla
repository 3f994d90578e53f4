------------------------------ MODULE Enforcer -------------------------------
(***************************************************************************)
(* The agent's enforcement path: runner._apply and runner._sweep driving   *)
(* DecisionStore, which drives the nginx and iptables adapters.  One turn  *)
(* of the run loop is                                                      *)
(*                                                                         *)
(*   poll -> apply -> reconcile -> sweep -> poll                           *)
(*                                                                         *)
(* and inside each phase every address is a job that goes through the      *)
(* adapters in order, one file write, reload or iptables command a step.   *)
(* A command may fail (Faults), and the process may end between any two    *)
(* steps (CanExit): the store is memory, the files nginx includes and the  *)
(* rules in the kernel are not.                                            *)
(***************************************************************************)
EXTENDS Decisions

CONSTANTS
    Detectable, \* the sets of adapters detect_adapters may find at a start
    Faults,     \* the commands that may fail
    CanExit,    \* whether the process may end
    MaxTime,    \* bound: last value of the clock
    MaxRules,   \* bound: iptables rules one address may pile up
    MaxFailures \* bound: failed commands and exits

FaultKinds == {"write", "torn", "reload", "iptables"}

ASSUME EnforcerAssumption ==
    /\ Detectable \subseteq SUBSET {"nginx", "iptables"}
    /\ Faults \subseteq FaultKinds
    /\ CanExit \in BOOLEAN
    /\ MaxTime \in Nat
    /\ MaxRules \in Nat
    /\ MaxFailures \in Nat

VARIABLES
    clock,
    pc,         \* the phase of the turn; "down" when no process runs
    adapters,   \* what this process detected when it started
    active,     \* DecisionStore._active
    batch,      \* decisions of this answer not applied yet
    served,     \* addresses this answer does not withdraw
    todo,       \* addresses this phase has yet to release
    jobs,       \* {ip} while the adapters are being called for ip, else {}
    stage,      \* the adapter command the job has come to
    files,      \* the two files nginx includes, as sets of addresses
    loaded,     \* the same two sets in the configuration nginx runs
    drops,      \* iptables: the number of DROP rules per address
    failures,   \* failed commands and exits so far
    excused,    \* ghost: a command for it failed, or it was held at an exit
    repeated    \* ghost: hard-blocked while it already had a DROP rule

storeVars == <<active, batch, served, todo>>
hostVars  == <<files, loaded, drops>>
ghostVars == <<failures, excused, repeated>>
vars == <<clock, pc, adapters, storeVars, jobs, stage, hostVars, ghostVars>>

Phases == {"down", "poll", "apply", "reconcile", "sweep"}
Stages == {"nginx", "reload", "iptables", "done"}
Config == [{"deny", "geo"} -> SUBSET IPs]
Held   == Tracked(active)

-----------------------------------------------------------------------------
(* The process starts with an empty store and whatever the host still has. *)

Init ==
    /\ clock = 0
    /\ pc = "poll"
    /\ adapters \in Detectable
    /\ active = EmptyTable
    /\ batch = EmptyTable
    /\ served = {}
    /\ todo = {}
    /\ jobs = {}
    /\ stage = "done"
    /\ files = [f \in {"deny", "geo"} |-> {}]
    /\ loaded = [f \in {"deny", "geo"} |-> {}]
    /\ drops = [ip \in IPs |-> 0]
    /\ failures = 0
    /\ excused = {}
    /\ repeated = {}

Tick ==
    /\ clock < MaxTime
    /\ clock' = clock + 1
    /\ UNCHANGED <<pc, adapters, storeVars, jobs, stage, hostVars, ghostVars>>

(***************************************************************************)
(* A turn begins with what collector.add or maybe_flush_on_interval        *)
(* returned.  Decisions were issued by the backend just now.  A failed or  *)
(* skipped POST (None), and an answer without "active_ips", withdraw       *)
(* nothing: served is then every address.                                  *)
(***************************************************************************)
Answers == [IPs -> 0..2]

Receive(tiers, kept) ==
    /\ pc = "poll"
    /\ \A ip \in IPs : tiers[ip] = HardBlock => drops[ip] < MaxRules
    /\ pc' = "apply"
    /\ batch' = Issued(tiers, clock)
    /\ served' = kept
    /\ UNCHANGED <<clock, adapters, active, todo, jobs, stage, hostVars, ghostVars>>

\* One more failure: a command that did not work, or an exit.
Fail == failures < MaxFailures /\ failures' = failures + 1

\* The first command of a job, and the one after nginx has been dealt with.
FirstStage == IF "nginx" \in adapters THEN "nginx"
              ELSE IF "iptables" \in adapters THEN "iptables" ELSE "done"
AfterNginx == IF "iptables" \in adapters THEN "iptables" ELSE "done"

\* DecisionStore.apply: the store is written before any adapter is called.
Apply(ip) ==
    /\ pc = "apply" /\ jobs = {} /\ ip \in Tracked(batch)
    /\ active' = [active EXCEPT ![ip] = batch[ip]]
    /\ batch' = [batch EXCEPT ![ip] = NoDecision]
    /\ jobs' = {ip}
    /\ stage' = FirstStage
    /\ UNCHANGED <<clock, pc, adapters, served, todo, hostVars, ghostVars>>

\* DecisionStore.reconcile: what is held and no longer served goes.
BeginReconcile ==
    /\ pc = "apply" /\ jobs = {} /\ Tracked(batch) = {}
    /\ pc' = "reconcile"
    /\ todo' = Held \ served
    /\ served' = {}
    /\ UNCHANGED <<clock, adapters, active, batch, jobs, stage, hostVars, ghostVars>>

\* Mutant: a decision is kept through the tick its lease ends at.
BeginSweepLate ==
    /\ pc = "reconcile" /\ jobs = {} /\ todo = {}
    /\ pc' = "sweep"
    /\ todo' = {ip \in Held : active[ip].expires < clock}
    /\ UNCHANGED <<clock, adapters, active, batch, served, jobs, stage,
                   hostVars, ghostVars>>

\* DecisionStore.sweep_expired reads the clock once, before any release.
BeginSweep ==
    /\ pc = "reconcile" /\ jobs = {} /\ todo = {}
    /\ pc' = "sweep"
    /\ todo' = Expired(active, clock)
    /\ UNCHANGED <<clock, adapters, active, batch, served, jobs, stage,
                   hostVars, ghostVars>>

EndTurn ==
    /\ pc = "sweep" /\ jobs = {} /\ todo = {}
    /\ pc' = "poll"
    /\ UNCHANGED <<clock, adapters, storeVars, jobs, stage, hostVars, ghostVars>>

Release(ip) ==
    /\ pc \in {"reconcile", "sweep"} /\ jobs = {} /\ ip \in todo
    /\ jobs' = {ip}
    /\ stage' = FirstStage
    /\ UNCHANGED <<clock, pc, adapters, storeVars, hostVars, ghostVars>>

-----------------------------------------------------------------------------
(* The adapters.                                                           *)

Blocking == pc = "apply"

\* Mutant: unblock cleans the deny file only.
TargetsDenyOnly(ip) ==
    IF Blocking
    THEN IF active[ip].tier = HardBlock THEN {"deny"} ELSE {"geo"}
    ELSE {f \in {"deny"} : ip \in files[f]}

\* The files NginxAdapter writes: block always writes the one of its tier,
\* unblock the ones that name the address.
Targets(ip) ==
    IF Blocking
    THEN IF active[ip].tier = HardBlock THEN {"deny"} ELSE {"geo"}
    ELSE {f \in {"deny", "geo"} : ip \in files[f]}

\* Mutant: block writes the new address without reading the file first.
RewrittenAfresh(F, ip) ==
    [f \in {"deny", "geo"} |->
        IF f \notin F THEN files[f]
        ELSE IF Blocking THEN {ip} ELSE files[f] \ {ip}]

\* The files, once those of F are rewritten for ip.
Rewritten(F, ip) ==
    [f \in {"deny", "geo"} |->
        IF f \notin F THEN files[f]
        ELSE IF Blocking THEN files[f] \union {ip} ELSE files[f] \ {ip}]

\* A reload is asked for only when a file was written.
NginxWrite(ip) ==
    /\ jobs = {ip} /\ stage = "nginx"
    /\ files' = Rewritten(Targets(ip), ip)
    /\ stage' = IF Targets(ip) # {} THEN "reload" ELSE AfterNginx
    /\ UNCHANGED <<clock, pc, adapters, storeVars, jobs, loaded, drops, ghostVars>>

(***************************************************************************)
(* write_text raises on file f: when it opens f ("write"), or after it     *)
(* truncated f ("torn").  unblock has already rewritten the deny file when *)
(* the geo file fails.  The store swallows the exception and goes on to    *)
(* the next adapter.                                                       *)
(***************************************************************************)
NginxWriteFails(ip, f) ==
    /\ Fail /\ jobs = {ip} /\ stage = "nginx" /\ f \in Targets(ip)
    /\ LET before == Rewritten(Targets(ip) \ {f, "geo"}, ip) IN
         \/ /\ "write" \in Faults
            /\ files' = before
            /\ excused' = excused \union {ip}
         \/ /\ "torn" \in Faults
            /\ files' = [before EXCEPT ![f] = {}]
            /\ excused' = excused \union {ip} \union files[f]
    /\ stage' = AfterNginx
    /\ UNCHANGED <<clock, pc, adapters, storeVars, jobs, loaded, drops, repeated>>

\* nginx -s reload: the running configuration becomes the files, or stays.
NginxReload(ip) ==
    /\ jobs = {ip} /\ stage = "reload"
    /\ loaded' = files
    /\ stage' = AfterNginx
    /\ UNCHANGED <<clock, pc, adapters, storeVars, jobs, files, drops, ghostVars>>

NginxReloadFails(ip) ==
    /\ Fail /\ "reload" \in Faults
    /\ jobs = {ip} /\ stage = "reload"
    /\ stage' = AfterNginx
    /\ excused' = excused \union {ip}
    /\ UNCHANGED <<clock, pc, adapters, storeVars, jobs, hostVars, repeated>>

\* Mutant: -D runs only for an address whose decision is a hard block.
RulesByTier(ip) ==
    IF Blocking
    THEN IF active[ip].tier = HardBlock THEN drops[ip] + 1 ELSE drops[ip]
    ELSE IF drops[ip] > 0 /\ active[ip].tier = HardBlock THEN drops[ip] - 1
    ELSE drops[ip]

\* -A appends a rule each time it is asked, and only for a hard block; -D
\* removes one rule, and fails harmlessly when there is none.
Rules(ip) ==
    IF Blocking
    THEN IF active[ip].tier = HardBlock THEN drops[ip] + 1 ELSE drops[ip]
    ELSE IF drops[ip] > 0 THEN drops[ip] - 1 ELSE 0

Iptables(ip) ==
    /\ jobs = {ip} /\ stage = "iptables"
    /\ drops' = [drops EXCEPT ![ip] = Rules(ip)]
    /\ repeated' = IF Blocking /\ active[ip].tier = HardBlock /\ drops[ip] > 0
                   THEN repeated \union {ip} ELSE repeated
    /\ stage' = "done"
    /\ UNCHANGED <<clock, pc, adapters, storeVars, jobs, files, loaded, failures,
                   excused>>

IptablesFails(ip) ==
    /\ Fail /\ "iptables" \in Faults
    /\ jobs = {ip} /\ stage = "iptables"
    /\ stage' = "done"
    /\ excused' = excused \union {ip}
    /\ UNCHANGED <<clock, pc, adapters, storeVars, jobs, hostVars, repeated>>

\* Mutant: the entry of a released address is not deleted.
DoneKeepsEntry(ip) ==
    /\ jobs = {ip} /\ stage = "done"
    /\ jobs' = {}
    /\ todo' = todo \ {ip}
    /\ UNCHANGED <<clock, pc, adapters, active, batch, served, stage, hostVars,
                   ghostVars>>

\* The loop over the adapters ends.  A release deletes the entry whatever
\* the adapters answered.
Done(ip) ==
    /\ jobs = {ip} /\ stage = "done"
    /\ jobs' = {}
    /\ IF Blocking
       THEN UNCHANGED <<active, todo>>
       ELSE /\ active' = [active EXCEPT ![ip] = NoDecision]
            /\ todo' = todo \ {ip}
    /\ UNCHANGED <<clock, pc, adapters, batch, served, stage, hostVars, ghostVars>>

-----------------------------------------------------------------------------
(* The process ends (killed, upgraded, rebooted) and starts again.         *)

Exit ==
    /\ Fail /\ CanExit /\ pc # "down"
    /\ pc' = "down"
    /\ active' = EmptyTable
    /\ batch' = EmptyTable
    /\ served' = {}
    /\ todo' = {}
    /\ jobs' = {}
    /\ stage' = "done"
    /\ excused' = excused \union Held
    /\ UNCHANGED <<clock, adapters, hostVars, repeated>>

Start ==
    /\ pc = "down"
    /\ pc' = "poll"
    /\ adapters' \in Detectable
    /\ UNCHANGED <<clock, storeVars, jobs, stage, hostVars, ghostVars>>

-----------------------------------------------------------------------------

Adapter(ip) ==
    \/ NginxWrite(ip)
    \/ \E f \in {"deny", "geo"} : NginxWriteFails(ip, f)
    \/ NginxReload(ip)
    \/ NginxReloadFails(ip)
    \/ Iptables(ip)
    \/ IptablesFails(ip)

Work ==
    \/ \E ip \in IPs : Apply(ip) \/ Release(ip) \/ Adapter(ip) \/ Done(ip)
    \/ BeginReconcile
    \/ BeginSweep
    \/ EndTurn

Next ==
    \/ \E tiers \in Answers, kept \in SUBSET IPs : Receive(tiers, kept)
    \/ Work
    \/ Tick
    \/ Exit
    \/ Start

Spec == Init /\ [][Next]_vars

\* The loop keeps turning: follow yields None every poll_seconds when the log
\* is quiet and _call survives every failed POST, so a turn always begins,
\* and no command blocks for ever.
FairSpec ==
    /\ Spec
    /\ WF_vars(\E tiers \in Answers, kept \in SUBSET IPs : Receive(tiers, kept))
    /\ WF_vars(Work)

-----------------------------------------------------------------------------
(* Properties.                                                             *)

\* The type invariant.
TypeOK ==
    /\ clock \in Nat
    /\ pc \in Phases
    /\ adapters \in Detectable
    /\ active \in Table
    /\ batch \in Table
    /\ served \subseteq IPs
    /\ todo \subseteq IPs
    /\ jobs \subseteq IPs
    /\ stage \in Stages
    /\ files \in Config
    /\ loaded \in Config
    /\ drops \in [IPs -> Nat]
    /\ excused \subseteq IPs
    /\ failures \in Nat
    /\ repeated \subseteq IPs

\* A decision is in force from the end of its job to the start of its
\* release, in every adapter the process has: nginx runs with the address in
\* the file of its tier, and a hard block has its DROP rule.  Other
\* addresses' jobs, which rewrite the same two files and reload the same
\* server, never undo it; only a failed command or an exit can.
HeldIsInForce ==
    \A ip \in Held \ (excused \union jobs) :
        LET file == IF active[ip].tier = HardBlock THEN "deny" ELSE "geo" IN
        /\ "nginx" \in adapters => ip \in files[file] \intersect loaded[file]
        /\ "iptables" \in adapters /\ active[ip].tier = HardBlock => drops[ip] > 0

\* nginx refuses or limits only an address the store still holds, so there is
\* always something that will release it; the exceptions are exactly the
\* addresses one of whose commands failed and those held when a process
\* ended.  A change of tier, which leaves the address in both files, is no
\* exception.
NginxLeaksOnlyByFailure ==
    \A ip \in IPs, f \in {"deny", "geo"} :
        ip \in files[f] \union loaded[f] => ip \in Held \union excused

\* The same for the kernel's DROP rules, with one more exception: an address
\* that was hard-blocked again while it already had a rule.
DropsLeakOnlyByRepeat ==
    \A ip \in IPs : drops[ip] > 0 => ip \in Held \union excused \union repeated

\* An expired decision does not stay in force: nginx drops the address, or a
\* new decision renews it.  No answer has to arrive for that: a turn whose
\* POST failed sweeps as well.
ExpiredIsLifted ==
    \A ip \in IPs :
        (ip \in Held /\ IsExpired(active[ip], clock))
            ~> \/ ip \notin loaded["deny"] \union loaded["geo"]
               \/ ip \in Held /\ ~IsExpired(active[ip], clock)

(***************************************************************************)
(* The store implements the lease table: whatever the adapters do, what    *)
(* the agent holds once the work it has begun is done changes only as      *)
(* BlockLease says, and each answer and each sweep takes effect at once.   *)
(***************************************************************************)
View ==
    IF pc = "apply" THEN Keep(Override(active, batch), served)
    ELSE IF pc \in {"reconcile", "sweep"} THEN Keep(active, IPs \ todo)
    ELSE active

Remaining(d) ==
    [tier |-> d.tier, left |-> IF d.expires > clock THEN d.expires - clock ELSE 0]

LeaseView == [ip \in IPs |-> Remaining(View[ip])]

\* The backend issues a decision for the whole of its tier's time.
Grants == {[tier |-> 0, left |-> 0]} \union {[tier |-> k, left |-> TTL[k]] : k \in 1..2}

Lessee == INSTANCE BlockLease WITH held <- LeaseView, Given <- Grants

LeaseSpec == Lessee!Spec

=============================================================================

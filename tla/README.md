# Traffic shaper: specification and proofs

The repository is a traffic shaper in three parts. A thin **agent** on each of
a tenant's servers follows the access log, posts what it saw and enforces the
decisions that come back, through nginx and iptables. A **backend** (FastAPI
on Lambda over DynamoDB) aggregates the traffic, scores each source address
against the tenant's model, records a mitigation decision with an expiry and
answers with it. A **console** lets the tenant allow addresses, pause
enforcement, move the gates and read history; a nightly **retrain** replaces
the model. This directory models the parts where the order of steps matters,
checks them with TLC and proves what matters most with TLAPS.

## 1. Inventory

| component | state | operations | what is hard |
|---|---|---|---|
| agent enforcement, `agent/enforcer/` | `DecisionStore._active` in memory; two nginx files; nginx's running configuration; kernel rules | apply, reconcile, sweep_expired; block, unblock, reload | the store and the host are changed in separate steps, each may fail, the process may end between them and only the store is forgotten |
| run loop, `agent/runner.py` | none | one turn: add or flush, apply, sweep | a failed POST must not stop the sweep or withdraw anything |
| collector, `agent/collector.py`, `http_client.py` | buffer, last flush time | add, maybe_flush_on_interval, flush | the buffer survives a failed POST: duplicates after a lost answer, drops at the cap, one bad record blocking a batch, a POST that never returns |
| log follower, `agent/logsource.py` | handle, position, signature | follow, rotation test | rotation between any two system calls, half-written lines |
| ingest, `backend/api/routes/agent.py` | none of its own | telemetry, decisions, register | reads the tenant, the whitelist and the gates once and writes decisions after them |
| tables, `backend/core/tables.py` | Tenants, Agents, Whitelist, MitigationState, TelemetryEvents, Models, UsageCounters, TenantHistory | put, update, query | lazy expiry, last writer wins, one page of a query |
| console, `backend/api/routes/dashboard.py`, `ui/dashboard.py` | none of its own | allow, disallow, pause, move gate, add agent, mark read | two writes per operation, check-then-act |
| tenant lifecycle, `api/dependencies.py`, `api/routes/admin.py` | status of tenant and agents | create, suspend, reactivate, register, authenticate | suspension racing registration and requests in flight |
| usage, `core/usage.py`, `main.py` | daily counters of the platform and of each tenant | ceiling, quota, metering middleware | check and count are two steps; refused requests are counted or not by who asks; midnight falls between any two |
| agents' rows and what is read off them, `core/tables.py`, `ui/presenters.py` | `last_seen_at`, status | touch, revoke, register; state, health, reach | a stamp written at most every five minutes is compared with a decision's second |
| scoring and gates, `ml/model.py`, `ui/dashboard.py`, `ui/charts.py` | gates on the tenant's item, settings ledger, hourly bins; model cache per container | classify, move gate, set enforcement, preview | check, write and telling of a move are three calls; a reading exactly on a line |
| history, `core/tables.py`, `ml/feature_engineering.py` | 5-second buckets and their flags, episodes by hour, hourly rows, read mark | count, judge, flag, record, list, mark read, exclude | seven writes for a batch, each of which may be the last; an hour that is both read and still growing |
| retrain, `retrain_handler.py`, `ml/` | staging and production model items | train, validate, promote | at-least-once invocations of one tenant overlapping |
| rendering, login, infrastructure | - | - | not modelled: formatting, an external identity provider, deployment |

**How they interact.** An agent posts a batch (HTTP, one at a time per agent)
and gets in one answer the decisions of that batch and every address the
tenant has in force (`active_ips`). The ingest request and the console meet
only in DynamoDB rows. The agent never hears from the backend otherwise.

**What makes each correct.** Enforcement: what is held is in force, what is in
force is held, and it ends. The loop through the backend: no server enforces
more than the record says, and the tenant's word (allow, pause) wins. Collector
and follower: no record is lost or counted twice without a cause that can be
named. Retrain: what serves has passed the gate and carries its own statistics. Lifecycle: what
is suspended stays so. Usage: a limit is passed by no more than what was in
flight, and the screens say so. Gates: the two stay in order, and preview,
ledger and axis describe the gates that judge. History: what was judged is
listed and is not learned as normal.

## 2. Modules

`Decisions` - a decision with an absolute expiry, tables of them, and the
operators on tables the store is built from. Tier 0 stands for "no entry".

`Leases` - the same tables seen as the time each decision still has. Two
tables that differ only in the date are the same table of leases, so the
composition needs no clock.

`BlockLease` - the abstract promise of an agent: it holds a decision from the
answer that brought it until its lease runs out, an answer withdraws it or
the process ends. Four actions, one variable. `Given` is what an answer may bring: for the store
a decision just issued, in the loop one that may have spent some of its time on the way.

`Enforcer` - the detailed agent: `DecisionStore`, both adapters, and the turn
of `run_loop`. A turn is `poll -> apply -> reconcile -> sweep`; within a
phase each address is a job that goes through the adapters in the order
`detect_adapters` found them, one file write, one reload or one iptables
command per step.

| variable | in the code |
|---|---|
| `active` | `DecisionStore._active` |
| `batch`, `served` | the answer's `decisions` and `active_ips` not handled yet |
| `todo` | `gone` and `expired`, the lists the release loops run over |
| `jobs`, `stage` | the address and the adapter the loop has come to |
| `files`, `loaded` | the deny and geo files, and the configuration nginx last loaded |
| `drops` | number of DROP rules per address in the INPUT chain |
| `excused`, `repeated` | history only: why a rule may be orphaned |

A write may raise before or after it truncated its file, a reload or an
iptables command may return non-zero, the process may end between any two
steps. The store then behaves as the code does: exceptions are swallowed, the
entry of a release is deleted whatever happened.

`TrafficShaper` - the loop between agents, backend and console. A telemetry
request is `Post` (authentication reads the pause), `ReadWhitelist`, one
`Score` per source, `Reply` (`query_active`), and `Deliver` on the agent; the
console's `Allow`/`Lift`, `Disallow` and `SetEnforcement`, other requests,
expiry and time come between any two. An agent is the lease table `BlockLease`
describes, which `Enforcer` is shown to implement, and `AgentsAreLessees` says that the loop
uses it as nothing else. Which tier a source earns
is left open: any. `lapsed` and `missed` are history variables that say whose
record was cut short after it was issued.

What may fail is the constant `Faults`: a request, its answer, the
console's delete. `query_by_tenant` returns one page, so `Reply` may leave out any
row of an address in `Deep` (`PastPage`): the rows that fill the page before it are of
addresses the module does not follow.

`LogFollow` - the follower, one action per system call (`Open`, `Seek`, `Sign`,
`ReadLine`, `EndOfFile`, `Leave`, `Quiet`), against nginx, which writes lines whole or
in two pieces to the file it has open, and logrotate, which renames and
creates, or truncates in place. `pc` is the place in `follow`'s loop; `handle`,
`position`, `signature` and `skip` are its variables, `ahead` the buffer of the
text file, which may hold lines that the file has lost. `lost` is a history
variable that says for which lines a named cause has struck.

`Collector` - the buffer of the agent and the part of the ingest route that
counts a batch. `Add`, `Tick` and `Stop` are the three calls of `run_loop`, each
with the post that belongs to it; the post ends in `Answer`, `Refuse`, `Fail`,
`Interrupt` or with a `Crash`. `Count` is one pass of `record_batch`'s loop, which
writes one address at a time; `todo[0]` is the batch the agent waits for, the
other entries (each the set of its records not counted yet) are batches that go
on although nobody waits for them, because
the edge answered in the backend's place or the agent is gone. `LogFollow` yields
the records `Collector` numbers; the two share no state otherwise and are
checked apart.

`Retrain` - one tenant's model. A worker is an invocation of `retrain_tenant`:
`Collect`, `Train` (the staging item is written), `ReadBack` (the forest is
read from the stage again), `Approve` or `Refuse`, `Promote`; `Abort` is an
exception or the end of the invocation at any of them. A model is the number of
its training, an item the training its forest is of and the one its statistics
are of. A get may return what an item was before (`earlier`). `Load` is
`ModelManager.load`, with the class's cache per container. Whether the gate
approves is left open.

`TenantLifecycle` - one tenant from its creation on. `create_tenant` is `Create`
(the row), `CreateUser` (Cognito) and `Activate`; `suspend_tenant` is `Suspend`,
`List` (the query of `revoke_all_for_tenant`) and one `Revoke` per agent;
`register_agent` is `Register` (the check) and `Mint` (the put);
`authenticated_agent` is `ReadTenant` and `FindAgent`. Each of them may fail at
any call, and reads may lag. An agent is its key. `word`, `overtaken`, `early`,
`condemned` and `excused` are history variables: what operators last decided, and
the causes for which it may not hold.

`Usage`, `Fleet`, `Requests` - the cost and the trace of a request. `Usage` has
the limits, the throttle reason, the usage report and the operator's week of bars as
operators over the counters; `Fleet` has the Agents table's row, `touch`, and
every sentence the console derives from it (`AgentState`, `AgentHealth`, `AxisState`,
`Behind`, `Reach`). `Requests` composes the two: an agent's post is `CheckCeiling`
(before authentication), `Authenticate` (with `touch`), `CheckQuota`, `CountBatch`,
`Judge`, `Answer`, and `Fail` at any of them; each is one call, and `View`, `Register`,
`Revoke`, other agents and midnight (`Tick`) come between. `CountRequest` is the
metering middleware. `auth`, `over`, `answered` and `letDown` are history variables.

`Scoring`, `Gates` - what a reading is made of. `Scoring` has `classify`, the bins of
near misses, the axis with its bands and marks, and the preview curve, over
integers: a bin is `Width` units, so that a reading may lie on a line or between two.
`Gates` has the tenant's settings: a move is `CheckMove` (the tenant is read),
`SetThreshold` and `Audit`; a switch is `SetEnforcement` and `Audit`; a batch reads the
gates in `Authenticate` and puts its bins in `RecordTraffic`. `raced` and `untold` say
which gate was written on a stale reading and which setting's ledger has a gap.

`History` - what a batch leaves behind. `Count` is `record_batch`, `Judge` the scoring
of one source over two buckets, `Flag`, `Record` and `Traffic` the writes that follow, `Abort`
the end of the request between any two; `Exclude` is `flag_all_for_ip`, `MarkRead` the
read mark. `Samples` is what the nightly job would train on, `HistoryPage`, `Flow` and
`BaselineCost` what the screens show. Which source earns a decision is left open.

`MCEnforcer`, `MCShaper`, `MCFollow`, `MCCollector`, `MCRetrain`, `MCLifecycle`, `MCRequests`,
`MCGates`, `MCHistory` - instances for TLC. `EnforcerProofs`, `ShaperProofs`,
`ReadingProofs` (of `LogFollow` and `Collector`), `TenantProofs` (of `TenantLifecycle` and
`Retrain`), `RequestsProofs`, `GatesProofs`, `HistoryProofs` - the theorems. `Sums` - lemmas about induction and
about sums over finite sets, on which the last three rest; `ReadingProofs` takes the first from it.

## 3. What the runs check

| run | instance | shows |
|---|---|---|
| `enforcer_faults` | 2 addresses, both adapters, every fault, exits, 1 failure in total, 2 rules per address | `HeldIsInForce`: a held decision is in force in each adapter; `NginxLeaksOnlyByFailure`, `DropsLeakOnlyByRepeat`: what is in force is held, up to the causes named; `LeaseSpec`: the store implements `BlockLease` |
| `enforcer_live` | 2 addresses, no fault, clock to 2 | `ExpiredIsLifted`: an expired decision leaves nginx |
| `shaper` | 2 agents, 2 requests at once, 1 address whose row may be past the page, failures, TTL 1 and 2 | `EnforcedWithinRecord`: a server's lease never outlives the record it came from; `WithdrawnForCause`: nor does a server lift it earlier, up to the causes named |
| `shaper_live` | 2 agents, 1 request at once, failures, failed deletes | `AllowWins`, `PauseWins` under fairness; `StoppedRunsOut`: without it, nothing adds to the time that is left; `AgentsAreLessees`: every agent is a `BlockLease` |
| `follow` | 3 lines, 3 files, 1 truncation, torn lines, history skipped | `InOrderOnce`: nothing is read twice or out of order; `NoLineUnaccounted`: the causes for which a line is not read are all named; `ReadInTheEnd`: every line is read, or struck by one of them, unless a signature was taken of the wrong file |
| `follow_rotation` | 3 lines, 2 files | **violated**: `SurvivesRotation` |
| `collector` | 6 records of 2 addresses, batches of 2, cap 3, one record the backend refuses, 1 unanswered post per record, 1 abandoned batch | `CollectorTypeOK`; `NoRecordUnaccounted`: a record leaves the buffer counted, overtaken by a full cap, or with the process; `TwiceOnlyUnanswered`: counted again only for a post without an answer; `CountedInTheEnd` |
| `retrain` | 2 workers, 1 container, 3 trainings, lagging reads | `OnlyApprovedServes`: no forest serves that the gate did not examine; `CachedTogether`: a container's forest and statistics were one production item; `MixedOnlyByRace`: the two causes for which production mixes trainings; `ServingCatchesUp` |
| `lifecycle` | 1 creation at once, 2 operators, 2 agents, 1 request at once, lagging reads | `OldKeysEnd`: a key from before a suspension ends with it, up to the causes named; `SuspensionStands`: only an operator, or a creation it overtook, undoes it; `ServedHasUser`: an active tenant has an owner, up to the causes named; `SuspendedGoesQuiet` |
| `requests` | 2 agents, 2 tenants in any ownership, ceiling 3, share 50%, days of 2 ticks, clock to 3 | `ShareHolds`, `CeilingStopsIngest`: a limit is passed by what was in flight and no more; `LivenessIsReal`, `CollectedIsTrue`, `CollectedIsShown`: what the console says of a machine and of a decision's reach, and when it is wrong; `ScreensTellTheDay`: gate page, report and bars agree with the service |
| `gates` | 3 legal positions, 2 operators, 1 request at once, readings on, between and beyond the lines, 2 moves, 1 batch | `CrossedOnlyByRace`; `LedgerTellsTheGate`; `CurveIsWhatAGateCatches`: the preview, compared with the readings themselves; `AxisShowsTheGates` |
| `history` | 2 sources, 2 requests at once, loads of 1 or 2 records, 2 batches, clock to 4 over three hours | `JudgedIsNotLearned`; `ChartIsTheTable`; `EveryDecisionIsListed`; `ReadOnce` |

A type invariant that is proved is not run again beside its module's other
properties, except in `Collector`, where it says more than types: what the buffer holds.

**Bounds.** Two addresses are enough for what one address's job can do to
another's (files are rewritten whole). `MaxTime` bounds the clock of
`Enforcer`, so that leases of one tick begin and end; `MaxRules` bounds how
often an address is hard-blocked while it has a rule (two are enough to orphan
one), `MaxFailures` the failed commands and exits. The proofs have none of these
bounds. `TrafficShaper` has no clock: leases are relative and bounded by TTL.
One address suffices there because nothing relates two addresses except the
answer that carries both and the page that may hold only one, and `Deep` is that address. TTL 1 and 2 keep the order of the real 300 and
3600 seconds, so that a soft decision cuts a hard one short. Three files are a
rotation during the recovery from another; three lines are one before, one
in and one after it. A batch of two under a cap of three is the least in which
a retry carries a newer record, the buffer overflows while one is waited for,
and a refused record is pushed out; six records let it recover afterwards.
Three trainings by two workers are a model in production and two that race to
replace it; a second container adds nothing, since containers only read. Two
agents are one revoked and one that escapes; two operators let a reactivation
fall into the loop of a suspension. `TenantLifecycle` has no counter and needs no
bound besides its sets. A ceiling of 3 with a share of one batch is reached, passed and
left behind by midnight within three ticks; two machines of one tenant race for its
quota, one of each tenant do not. In `Gates` the one batch holds a reading beyond
the block gate, on the slow gate, between two lines and on the harmless side; two
moves are one of each gate, or one of the same twice. In `History` one record is below
the threshold and two reach it; the short window is a part of an hour and the long one ends
inside an earlier one; two batches are two sources at once, one source twice in a bucket or
in two hours; `FlagLimit` 1 leaves an exclusion unfinished.

**Fairness.** `Enforcer`: a turn always begins (follow yields `None` when
the log is quiet, `_call` survives a failed POST) and adapter commands end.
This assumes that every POST returns; `http_client` sets no timeout, so that
is an assumption on the network and listed as a hazard. `TrafficShaper`: a
request the backend began ends, an agent's loop turns, time passes. Nothing
is assumed of traffic, of the console, or of DynamoDB's expiry. `LogFollow`: the
run loop asks for the next record for ever; nothing is assumed of nginx or
logrotate. `Collector`: the timed flush comes round while nothing is read, and
the backend's steps for the batch waited for are taken; that the backend can
be reached from some time on is the hypothesis of `CountedInTheEnd`. `Retrain`:
containers are recycled, as the handler's docstring relies on, and a write is
seen in the end; nothing is assumed of the workers. `TenantLifecycle`: a request
that was let in ends and a write is seen in the end; nothing is assumed of
operators, owners and agents. `Requests`, `Gates` and `History` have safety
properties only.

**Deadlock** is checked in every run: no state of these systems is final.

## 4. Findings

1. `iptables_adapter.py:36` - two hard blocks of one address leave a DROP rule
   behind when it is released. `DropsLeakOnlyByRepeat` says that this is the only
   way to leave one beside a failed command.
2. `enforcer/__init__.py:38` - a restarted agent never removes what the previous
   process had nginx refuse. `NginxLeaksOnlyByFailure` names the exit as a cause,
   and checks that beside a failed command it is the only one.
3. `routes/agent.py:150` - an allowance that arrives while a batch is scored is
   undone by that batch's decision. `AllowWins` says what is
   left: the block ends with its lease, not with the allowance.
4. `routes/agent.py:266` - decisions reach only the server that saw the traffic,
   not "every one of their servers": in `Deliver`, an address that `active_ips`
   names and the batch does not is not added to what the agent holds.
5. `collector.py:82` - a server without traffic does not hear of a pause within
   a flush interval. `PauseWins` says what is left.
6. `logsource.py:102` - a rotation between the open and the signature leaves the
   follower on the old handle for ever (`follow_rotation`). `ReadInTheEnd` says
   that this is the only such place.
7. `retrain_handler.py:47` - the forest promoted need not be the one the
   statistics were measured on. `MixedOnlyByRace` says when and is proved;
   `OnlyApprovedServes` says that the gate did examine the forest, whichever it
   was.
8. `routes/agent.py:83` - a key minted while its tenant was being suspended
   escapes the revocation and works after the reactivation; so does one whose
   revocation failed. `OldKeysEnd` names the cases.
9. `routes/admin.py:203` - a contact address that is another tenant's user counts as
   success: the new tenant is active without an owner. `ServedHasUser` names it.

10. `core/tables.py:466` - "has collected since" is measured by a stamp that is written
   at most every five minutes, for requests that fail as well, and by the
   registration. `CollectedIsTrue` and `CollectedIsShown` say how far it can be trusted.
11. `ui/presenters.py:117` - a revoked agent, which `agent_state` leaves out, counts in
   `reach` for ever.
12. `core/usage.py:72` - no agent reads the `Retry-After` the ceiling sends.
13. `ui/dashboard.py:634` - the system page reads two keys that `protection_status` does
   not return, and shows a budget of 0 of 0.
14. `ui/presenters.py:713` - two changes of a minute stand in the ledger's page oldest
   first.
15. `ui/charts.py:498` - the preview counts readings, both sides of normal, and those
   exactly on the line. `CurveIsWhatAGateCatches` says by how much it is wrong.
16. `ui/charts.py:98` - marks are coloured by the shipped gates, bands drawn by the tenant's.
17. `ui/dashboard.py:575` - a switch turned off twice is told as two changes from on.
18. `core/tables.py:896` - an episode counts a repeated batch again.
19. `api/routes/admin.py:140` - an exclusion that stopped at its limit is reported as complete.
20. `ui/dashboard.py:139` - the share an allowance costs is not of everything measured.
21. `ui/dashboard.py:280` - the lanes subtract decisions from requests.
22. `ui/presenters.py:572` - the drawing of the system claims reach while enforcement is
   paused.
23. `ui/presenters.py:668` - a label of the ledger that no row has.
24. `api/dependencies.py:95` - an agent refused by the ceiling is shown as gone.
25. `core/tables.py:236` - the addresses an agent is told to keep are read off one page:
   a block whose row is past it is lifted. `WithdrawnForCause` names the case.

Only 6 has a run of its own. For the others a passing run names the cause (1, 2, 3, 5,
7 to 10, 14 to 18, 25), or the model has the behaviour as it is and the finding is
read off it: 4 in `Deliver`, 11 in `Behind` and `Reach`, 12 in `CheckCeiling`, 13 in `SystemPage`,
19 in `Exclude`, 20 in `BaselineCost`, 21 in `Flow`, 22 in `SystemPage`, 24 in
`CheckCeiling`.

Two more disagreements are not about behaviour a run could show. The agent's
README (`services/agent/README.md:13-17`) says that counts leave the machine and no
URLs; `collector.py:89` posts whole records, request URI and user agent
included, and the counting is done in `record_batch`. And `record_batch` puts a
batch into the bucket of its arrival, so a buffer kept through an outage is
counted in five seconds.

## 5. Proofs

`EnforcerProofs` proves, for every finite or infinite set of addresses, every
TTL, every choice of adapters and every combination of faults, that `Enforcer`
keeps `TypeOK`, `HeldIsInForce`, `NginxLeaksOnlyByFailure` and
`DropsLeakOnlyByRepeat`, and that it implements `BlockLease`. The assumptions
are those on the constants (`TTLAssumption`, `EnforcerAssumption`).

None of the three safety properties is inductive. The invariant `IInv` adds
two things. `Shape` says what the program counter implies: at most one job, a
job of a release is for an address on the list, a batch is empty outside of
the apply phase. For an address none of whose commands failed, `NginxOf` and
`DropsOf` say exactly what the files, the running configuration and the rules
are at each stage of its own job, and that they are right when it has none.
`excused` is what makes this local: a failure of one address's command says
nothing of another's, except a torn file, which excuses every address it named.
`Invariance` proves `Spec => []IInv`, one step per action; the properties follow
from `IInv`; `StoreIsLease` uses it for the refinement, where the answer and the
sweep each happen at the moment the phase begins and the jobs are stutters.

For `Retrain`, `TenantProofs` proves `RetrainTypeOK`, `OnlyApprovedServes`, `CachedTogether` and
`MixedOnlyByRace` for any number of workers, containers and trainings, from
`RetrainAssumption`. What the invariant adds: `InHand`, a worker about to promote
has an approved forest; `Served`, everything readable in production or kept by a
container was promoted; `Own`, the reason mixing needs an excuse: until
something excuses a worker's training, the staging item it reads is its own.

`ShaperProofs` proves `EnforcedWithinRecord` and `WithdrawnForCause`, for any number of
agents, requests in flight and addresses and any leases. The first says nothing of a lease
that is still on its way, and that is where an agent's lease comes from:
`IssuedWithinRecord` says the same of every request's answer, and `RowPut` is the one lemma
both need, since a row is only ever cut short together with an entry in `lapsed` or
`missed`. The second follows from what an answer on its way is worth to the agent that
waits for it: `ServesHeld`, it serves every standing block the agent holds (because the
agent held it within its row, the first property) or has it named as past the page; and
`RenewsLonger`, it renews none of them for less than it still has.

It also proves what `AllowWins` and `PauseWins` owe to no fairness. The two halves of `StoppedRunsOut` are
their ranking argument: from the moment the requests that read the whitelist (the pause) too early
have judged (been answered), the most that any server or any answer on its way has left for the address
never grows and falls with every tick, so that the block is gone after no more ticks than it had. Fairness is
needed only for those requests to end and for time to pass. `PausedSilent`, that the
answer to a paused request carries no decision, is the invariant for it. `AgentIsLessee` closes
the composition: `TrafficShaper` implements `BlockLease` for each agent, where an answer and the sweep
that ends its turn are one answer that does not serve what has run out. `StoreIsLease` and
`AgentIsLessee` meet in `BlockLease`, with one difference: `Enforcer`'s answers bring decisions issued at that moment
(`Grants`), the loop's may have spent time on the way (`Unspent`, of which `Grants` is a part).

For `Collector`, `ReadingProofs` proves `NoRecordUnaccounted` and `TwiceOnlyUnanswered`, for any
batch size, cap, addresses, refused records and number of abandoned batches. `Waited` says what an
answer will be worth: of a posted buffer every record is counted already or still
in the batch waited for. `Balanced` is the account: how often a record has been
counted, and the batches it is still to be counted with, are the posts left
unanswered and at most one more. `Ended` is needed for a process that starts again.
`CollectorTypeOK` holds the buffer to the newest records in their order (`Capping`).

For `LogFollow` it proves `TypeOK`, `InOrderOnce` and `NoLineUnaccounted`, for any number of
lines, files and truncations. That a line is yielded once and in order depends on every file
there is, so the invariant relates them. `FilesInOrder`: the lines of a file precede
those of every later file, and a half-written line is where nginx writes. `AheadInOrder`: what the
text file has read ahead precedes what comes next, also when the file it was read from has
been emptied since. `Placed`: until then the follower's place and what is ahead are those of the
file, and a place past a file's end is one nginx has left. `SeenBefore` is the property itself,
turned forward: whatever the follower can still come to is later than everything it yielded.

`TenantProofs` proves `OldKeysEnd`, `SuspensionStands` and `ServedHasUser` for any number of
creations, operators, agents and requests. Beside the properties themselves the invariant
needs that no key is condemned before it exists, that a suspension has overtaken every
creation under way, and that a creation comes to its last call with a user.

`RequestsProofs` proves all of the `requests` run, for any machines,
tenants, ceiling, share and day, from the assumption that machines are
finitely many. `NoneOver` says that nothing is counted past a limit not reached;
`Stamps` bounds a stamp by the clock and by the last authentication; `Collects` says where
the request of a machine is whose stamp is later than the decision. `ScreensTellTheDay` needs
no invariant but types: it is arithmetic. Rounding half to even never puts a smaller figure above
a larger one (`RoundGrows`), so bars keep the order of the days and the tallest day has the full
height (`SparkRanks`).

`GatesProofs` proves all of the `gates` run, for any operators, requests, legal positions, loads
and moves, from the assumption that the readings of all loads are finitely many. `Moving` keeps
what a move in progress saw of the other gate in order with what it writes; the axis is
arithmetic on lines (`LinesPositive`). `Chained` is what `LedgerTellsTheGate` needs: of a setting of
which the ledger has missed nothing, at most one change is still to be told, and the rows end
at the setting or, with such a change, where it began. That the page shows every row once and in
order is a permutation (`PageIsRight`: two rows never have one place, and there are as many places
as rows). `Binned` is what `CurveIsWhatAGateCatches` needs: a bin holds the readings of that bin
that were left alone; the curve sums a table of bins and hours by hours, the property by readings.

`HistoryProofs` proves all of the `history` run, for any finite number of sources and of requests at
once, and any loads and lengths of bucket, hour and window. `Accounted`
says that a judged bucket is flagged, about to be, or was left behind; `Rows` that
every decision told has a row of its hour; `Spans` that outside of hours with
overlaps one request at a time widens a row, so that its span holds every
decision. `ChartIsTheTable` compares two tables written by separate calls of requests that overlap:
`Balanced` says that the episodes of an hour add up to its row and to what the requests under
way have still to enter there, in every hour in which no request was lost (`gaps`); `Booked` that no
request decides on more sources than it has records.

`Sums` has what these need of `SumFunctionOnSet`: that the fold's function exists, that a sum
does not depend on the order, and how it changes with an element, over parts and over a
table by rows and by columns. Induction is on the set of numbers or subsets for which a fact holds,
from the well-foundedness of the naturals, and not by an induction theorem about predicates.

All safety properties of the passing runs, and the refinement, are proved; no theorem has a
hypothesis beside the named assumptions on the constants. With TLC stay the liveness properties
(`ExpiredIsLifted`, `AllowWins`, `PauseWins`, `ReadInTheEnd`, `CountedInTheEnd`, `ServingCatchesUp`,
`SuspendedGoesQuiet`), which rest on fairness and so on `ENABLED`, of which the provers know nothing.

## 6. Not modelled

Addresses are values: syntax, validation and the files' text are left out.
The backend's and the agents' clocks are one clock. Which sources are
anomalous is left open. `list_decisions` exists in the backend and is not
called by this agent. A post that never
returns, and a library that repeats a write by itself, are left out of `Collector`;
`Retrain` has no training data: `Samples` in `History` says what a model may be trained
on, and the fan-out of the dispatcher is the workers' concurrency;
`LogFollow` leaves out the limit on a line's length and what a partial write of a
record could look like beyond two pieces. The monthly counter is moved with the daily one and limits nothing. Of
`query_by_tenant`'s one page only the served set is modelled (`PastPage`); the whitelist, the
agents and the tenants are assumed to fit in theirs. `History` keeps no time of a record beside its batch's
arrival, and rows are not deleted by their retention. The isolation forest is a
library over floating point: a reading is any value, and a tier any tier.
Sessions, cookies and the identity provider, templates and static files,
configuration and deployment have no state of their own to model.

## 7. Plan

1. The safe halves of the other liveness arguments, of `SuspendedGoesQuiet` and `CountedInTheEnd`: what
   each step towards them can no longer undo.
2. A record's own time in `History`, to say what a buffer kept through an outage does to
   the rates of its bucket.
3. Retention: rows that expire while they are read, and marks that outlive their hours.

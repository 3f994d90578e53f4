------------------------------ MODULE History ------------------------------
(***************************************************************************)
(* What a batch leaves behind once it is answered: the five-second buckets *)
(* the forest is trained on, the flags that keep judged traffic out of     *)
(* them, and the tenant's history - one row per source and hour of what    *)
(* was decided, one row per hour of traffic, and how far the customer has  *)
(* read.  Each is a write of its own; two requests, the console and the    *)
(* operator come between any two of them, and any of them may be the last. *)
(***************************************************************************)
EXTENDS Integers, FiniteSets, Functions

CONSTANTS
    Sources,
    Workers,        \* requests the backend may be handling at once
    Loads,          \* batches: how many records of each source they carry
    Threshold,      \* min_requests_threshold
    FlagLimit,      \* FLAG_LIMIT, in buckets
    BucketLength,   \* ticks in a bucket
    HourLength,     \* ticks in an hour
    Day,            \* ticks the short window looks back
    Week,           \* ticks the long window looks back
    MaxNow,         \* bound: the last tick
    MaxBatches      \* bound: batches

ASSUME HistoryAssumption ==
    /\ IsFiniteSet(Sources) /\ IsFiniteSet(Workers)
    /\ \A load \in Loads : DOMAIN load \subseteq Sources /\ \A s \in DOMAIN load : load[s] \in Nat \ {0}
    /\ {Threshold, FlagLimit, BucketLength, HourLength, Day, Week} \subseteq Nat \ {0}
    /\ HourLength % BucketLength = 0
    /\ {MaxNow, MaxBatches} \subseteq Nat

BucketStart(t) == (t \div BucketLength) * BucketLength
HourOf(t)      == (t \div HourLength) * HourLength
Buckets        == {BucketStart(t) : t \in 0..MaxNow}
Hours          == {HourOf(t) : t \in 0..MaxNow}

VARIABLES
    now,
    buckets,    \* TelemetryEvents: requests of a source in a bucket
    flagged,    \* the <<source, bucket>> items that carry the flag
    batch,      \* the request each worker is handling
    batches,    \* batches so far
    episodes,   \* the mit# rows, by <<hour, source>>
    series,     \* the agg# rows, by hour
    mark,       \* last_read_ts, or NoMark
    judged,     \* ghost: buckets whose own batch led to a decision on the source
    unflagged,  \* ghost: of these, where the batch ended between decision and flag
    forgotten,  \* ghost: buckets an exclusion that ran to its end was shown
    decisions,  \* ghost: [hour, source, at] of the decisions the history was told
    gaps,       \* ghost: hours of which a write of a decision was lost or never made
    overlaps    \* ghost: hours a batch of which overlapped with another

trainingVars == <<buckets, flagged, judged, unflagged, forgotten>>
historyVars  == <<episodes, series, decisions, gaps>>
batchVars    == <<batch, batches, overlaps>>
vars         == <<now, trainingVars, historyVars, batchVars, mark>>

Total(f, S) == SumFunctionOnSet(f, S)

NoMark == -1
Idle == [pc |-> "idle"]
NoTraffic == [batches |-> 0, requests |-> 0, tier1 |-> 0, tier2 |-> 0]

Init ==
    /\ now = 0
    /\ buckets = [s \in Sources |-> [b \in Buckets |-> 0]]
    /\ flagged = {}
    /\ batch = [w \in Workers |-> Idle]
    /\ batches = 0
    /\ episodes = [e \in {} |-> e]
    /\ series = [h \in Hours |-> NoTraffic]
    /\ mark = NoMark
    /\ judged = {}
    /\ unflagged = {}
    /\ forgotten = {}
    /\ decisions = {}
    /\ gaps = {}
    /\ overlaps = {}

-----------------------------------------------------------------------------
(* ingest_telemetry, from the count to the hour's row.                     *)

Goes(w, b) == batch' = [batch EXCEPT ![w] = b]
ItemOf(b) == <<b.ip, BucketStart(b.at)>>
Handling == {w \in Workers : batch[w] # Idle}

\* record_batch: one ADD for each source, into the bucket of the batch's own
\* arrival whenever its records are from (Collector has the batch that is cut
\* off between two of them).
Count(w, load) ==
    LET b == BucketStart(now) IN
    /\ batch[w] = Idle
    /\ batches < MaxBatches
    /\ batches' = batches + 1
    /\ buckets' = [s \in Sources |-> IF s \in DOMAIN load
                                     THEN [buckets[s] EXCEPT ![b] = @ + load[s]] ELSE buckets[s]]
    /\ Goes(w, [pc |-> "judging", at |-> now, todo |-> DOMAIN load,
                requests |-> Total(load, DOMAIN load), tier1 |-> 0, tier2 |-> 0])
    /\ overlaps' = IF Handling = {} THEN overlaps
                   ELSE overlaps \union {HourOf(now)} \union {HourOf(batch[v].at) : v \in Handling}
    /\ UNCHANGED <<now, flagged, judged, unflagged, forgotten, historyVars, mark>>

\* compute_features_for_ip, at the time of the call: the bucket it is now and
\* what is left of the one before, in BucketLength-ths of a request.
InSight(s) ==
    LET b == BucketStart(now)
    IN BucketLength * buckets[s][b]
       + (IF b = 0 THEN 0 ELSE (b + BucketLength - now) * buckets[s][b - BucketLength])

\* _vector_from_counts: below the threshold there is nothing to judge or learn.
Enough(requests) == requests >= BucketLength * Threshold

\* A source that is allowed, too little to judge or judged normal is passed
\* over; for one that is judged hostile the decision is put.  TrafficShaper
\* has the allowed list; the forest may say either.
Judge(w, s) ==
    LET b == batch[w] IN
    /\ b.pc = "judging"
    /\ s \in b.todo
    /\ \/ Goes(w, [b EXCEPT !.todo = @ \ {s}]) /\ UNCHANGED judged
       \/ /\ Enough(InSight(s))
          /\ \E tier \in {1, 2} :
                Goes(w, [pc |-> "decided", at |-> b.at, todo |-> b.todo \ {s}, requests |-> b.requests,
                         tier1 |-> b.tier1, tier2 |-> b.tier2, ip |-> s, tier |-> tier])
          /\ judged' = judged \union {<<s, BucketStart(b.at)>>}
    /\ UNCHANGED <<now, buckets, flagged, unflagged, forgotten, batches, overlaps, historyVars, mark>>

\* Mutant: the flag goes to the bucket of the moment, not the batch's.
FlagCurrent(w) ==
    LET b == batch[w] IN
    /\ b.pc = "decided"
    /\ Goes(w, [b EXCEPT !.pc = "flagged"])
    /\ flagged' = flagged \union {<<b.ip, BucketStart(now)>>}
    /\ UNCHANGED <<now, buckets, judged, unflagged, forgotten, batches, overlaps, historyVars, mark>>

\* mark_flagged, of the bucket the batch was counted in.
Flag(w) ==
    LET b == batch[w] IN
    /\ b.pc = "decided"
    /\ Goes(w, [b EXCEPT !.pc = "flagged"])
    /\ flagged' = flagged \union {ItemOf(b)}
    /\ UNCHANGED <<now, buckets, judged, unflagged, forgotten, batches, overlaps, historyVars, mark>>

Tally(r, tier) == [r EXCEPT !.tier1 = @ + (IF tier = 1 THEN 1 ELSE 0), !.tier2 = @ + (IF tier = 2 THEN 1 ELSE 0)]

\* record_decision: first_ts once, last_ts every time, both the batch's own
\* time of arrival, on the row of the hour it arrived in.
Recorded(b) ==
    LET key == <<HourOf(b.at), b.ip>>
        old == IF key \in DOMAIN episodes THEN episodes[key]
               ELSE [tier1 |-> 0, tier2 |-> 0, first |-> b.at, last |-> b.at]
        new == [Tally(old, b.tier) EXCEPT !.last = b.at]
    IN [e \in DOMAIN episodes \union {key} |-> IF e = key THEN new ELSE episodes[e]]

\* The decision is answered whether or not the history could be written.
Record(w) ==
    LET b == batch[w] IN
    /\ b.pc = "flagged"
    /\ Goes(w, Tally([pc |-> "judging", at |-> b.at, todo |-> b.todo, requests |-> b.requests,
                      tier1 |-> b.tier1, tier2 |-> b.tier2], b.tier))
    /\ \/ /\ episodes' = Recorded(b)
          /\ decisions' = decisions \union {[hour |-> HourOf(b.at), ip |-> b.ip, at |-> b.at]}
          /\ UNCHANGED gaps
       \/ gaps' = gaps \union {HourOf(b.at)} /\ UNCHANGED <<episodes, decisions>>
    /\ UNCHANGED <<now, trainingVars, series, batches, overlaps, mark>>

\* The hour that is short of the batch's decisions when its row is not written.
Missed(b) == IF b.tier1 + b.tier2 > 0 THEN {HourOf(b.at)} ELSE {}

With(row, b) == [batches |-> row.batches + 1, requests |-> row.requests + b.requests,
                 tier1 |-> row.tier1 + b.tier1, tier2 |-> row.tier2 + b.tier2]

\* Mutant: the hour is the one it is when the batch is done.
TrafficNow(w) ==
    LET b == batch[w] IN
    /\ b.pc = "judging"
    /\ b.todo = {}
    /\ Goes(w, Idle)
    /\ \/ /\ series' = [series EXCEPT ![HourOf(now)] = With(@, b)]
          /\ UNCHANGED gaps
       \/ gaps' = gaps \union Missed(b) /\ UNCHANGED series
    /\ UNCHANGED <<now, trainingVars, episodes, decisions, batches, overlaps, mark>>

\* record_traffic: one ADD for the batch, on the hour it arrived in.
Traffic(w) ==
    LET b == batch[w] IN
    /\ b.pc = "judging"
    /\ b.todo = {}
    /\ Goes(w, Idle)
    /\ \/ /\ series' = [series EXCEPT ![HourOf(b.at)] = With(@, b)]
          /\ UNCHANGED gaps
       \/ gaps' = gaps \union Missed(b) /\ UNCHANGED series
    /\ UNCHANGED <<now, trainingVars, episodes, decisions, batches, overlaps, mark>>

\* A read or a write that is not wrapped raises, or the invocation ends: what
\* was written stays, and the agent posts the batch again, as another one.
Abort(w) ==
    LET b == batch[w] IN
    /\ b # Idle
    /\ Goes(w, Idle)
    /\ unflagged' = IF b.pc = "decided" THEN unflagged \union {ItemOf(b)} ELSE unflagged
    /\ gaps' = gaps \union Missed(b)
    /\ UNCHANGED <<now, buckets, flagged, judged, forgotten, episodes, series, decisions,
                   batches, overlaps, mark>>

-----------------------------------------------------------------------------
(* The console, the operator and the clock.                                *)

Existing(s) == {b \in Buckets : buckets[s][b] > 0}
Newest(n, S) == {b \in S : Cardinality({c \in S : c > b}) < n}

\* flag_all_for_ip: the newest FlagLimit buckets, one write each and newest
\* first, so that a run cut off leaves the oldest of them; the answer is the
\* same whether or not there were more.  Flags are never taken back, so the
\* writes may as well be one step.
Exclude(s) ==
    /\ forgotten = {}
    /\ \E n \in 1..FlagLimit :
        /\ flagged' = flagged \union {<<s, b>> : b \in Newest(n, Existing(s))}
        /\ forgotten' = IF n = FlagLimit THEN forgotten \union {<<s, b>> : b \in Newest(n, Existing(s))}
                        ELSE forgotten
        /\ UNCHANGED <<now, buckets, judged, unflagged, historyVars, batchVars, mark>>

\* Mutant: the last request wins.
MarkLatest(through) ==
    /\ mark' = through
    /\ UNCHANGED <<now, trainingVars, historyVars, batchVars>>

\* mark_read.  The page's button sends no time and gets that of its handler,
\* which may be some way back when the write is made; the API's caller names
\* any.  A conditional write: never backwards.
MarkRead(through) ==
    /\ mark' = IF mark = NoMark \/ mark < through THEN through ELSE mark
    /\ UNCHANGED <<now, trainingVars, historyVars, batchVars>>

Tick ==
    /\ now' = IF now < MaxNow THEN now + 1 ELSE now
    /\ UNCHANGED <<trainingVars, historyVars, batchVars, mark>>

Next ==
    \/ \E w \in Workers : \/ \E load \in Loads : Count(w, load)
                          \/ \E s \in Sources : Judge(w, s)
                          \/ Flag(w) \/ Record(w) \/ Traffic(w) \/ Abort(w)
    \/ \E s \in Sources : Exclude(s)
    \/ \E through \in 0..now : MarkRead(through)
    \/ Tick

Spec == Init /\ [][Next]_vars

-----------------------------------------------------------------------------
(* What is read from it.                                                   *)

\* collect_training_vectors over the whole window: one sample for a bucket.
Samples(allowed) ==
    {item \in Sources \X Buckets :
        /\ item \notin flagged
        /\ item[1] \notin allowed
        /\ Enough(BucketLength * buckets[item[1]][item[2]])}

\* _baseline_cost: what the allowed list keeps out, of all that is counted for
\* it or trained on.  A bucket it keeps out is counted however little is in it.
BaselineCost(allowed) ==
    LET excluded == {item \in Sources \X Buckets :
                        item \notin flagged /\ item[1] \in allowed /\ buckets[item[1]][item[2]] > 0}
        used     == Samples(allowed)
        total    == Cardinality(excluded) + Cardinality(used)
    IN [excluded |-> Cardinality(excluded), total |-> total]

\* Mutant: the range ends where the last hour begins.
WholeHours(length) == {h \in Hours : HourOf(now - length) <= h /\ h < HourOf(now)}

\* query_episodes and query_series: the hours the window touches, the first
\* and the last of them whole.
InWindow(length) == {h \in Hours : HourOf(now - length) <= h /\ h <= HourOf(now)}

Listed(length) == {e \in DOMAIN episodes : e[1] \in InWindow(length)}

\* unread_since and is_new: by the hour the episode started in.
ReadThrough(length) == IF mark = NoMark THEN now - length ELSE mark
IsNew(e, length) == e[1] >= ReadThrough(length)

Blocked(S) == Total([e \in DOMAIN episodes |-> episodes[e].tier2], S)
Slowed(S)  == Total([e \in DOMAIN episodes |-> episodes[e].tier1], S)

\* _timeline: where on the window an episode's hour lies, in per cent.
Left(e, length) ==
    LET left == (100 * (e[1] - (now - length))) \div length
    IN IF left < 0 THEN 0 ELSE IF left > 100 THEN 100 ELSE left

HistoryPage(length) ==
    LET listed == Listed(length)
        points == [h \in InWindow(length) |-> series[h]]
    IN [episodes |-> listed,
        series   |-> points,
        has_feed |-> listed # {} \/ \E h \in DOMAIN points : points[h].batches > 0,
        left     |-> [e \in listed |-> Left(e, length)],
        unread   |-> {e \in listed : IsNew(e, length)},
        blocked  |-> Blocked(listed),
        slowed   |-> Slowed(listed)]

\* The lanes of the gate screen: the requests of the window's rows, and of
\* them the decisions, which are of sources, not of requests.
Flow(length) ==
    LET Sum(lane) == Total([h \in Hours |-> series[h][lane]], InWindow(length))
        rest == Sum("requests") - Sum("tier1") - Sum("tier2")
    IN [measured |-> Sum("requests"), slowed |-> Sum("tier1"), blocked |-> Sum("tier2"),
        passed   |-> IF rest > 0 THEN rest ELSE 0]

-----------------------------------------------------------------------------
(* Properties.                                                             *)

\* Every row, mark and request is of its kind.
TypeOK ==
    /\ now \in 0..MaxNow
    /\ buckets \in [Sources -> [Buckets -> Nat]]
    /\ flagged \subseteq Sources \X Buckets
    /\ DOMAIN batch = Workers
    /\ \A w \in Workers : batch[w].pc \in {"idle", "judging", "decided", "flagged"}
    /\ DOMAIN episodes \subseteq Hours \X Sources
    /\ DOMAIN series = Hours
    /\ mark \in 0..MaxNow \union {NoMark}

\* Nothing that was judged hostile is learned as normal: a bucket whose own
\* batch led to a decision on the source is no sample, unless its flag is
\* still to come or the request ended before it, which the batch posted again
\* does not make good; nor is one an exclusion had been shown.  And nothing
\* else is kept from the forest but what the operator excluded.  Allowing a
\* source costs the forest no more than the page says, and no more than the
\* source's own buckets.
JudgedIsNotLearned ==
    LET toCome == {ItemOf(batch[w]) : w \in {v \in Workers : batch[v].pc = "decided"}} IN
    /\ Samples({}) \intersect judged \subseteq unflagged \union toCome
    /\ Samples({}) \intersect forgotten = {}
    /\ \A item \in flagged : buckets[item[1]][item[2]] > 0
    /\ \A allowed \in SUBSET Sources :
        LET cost == Samples({}) \ Samples(allowed) IN
        /\ Cardinality(cost) <= BaselineCost(allowed).excluded
        /\ \A item \in cost : item[1] \in allowed

Settled(h) == h \notin gaps /\ \A w \in Workers : batch[w] # Idle => HourOf(batch[w].at) # h

\* The chart and the table of a page never disagree: in each hour of either
\* window with nothing under way and no write lost, the episodes' decisions
\* are the hour's, the totals are theirs, and an hour with a decision has a batch.
\* A later hour is never drawn before an earlier one, and the lanes of the gate
\* screen never stop more than was measured.
ChartIsTheTable ==
    \A length \in {Day, Week} :
        LET page  == HistoryPage(length)
            Of(h) == {e \in page.episodes : e[1] = h}
        IN /\ \A h \in DOMAIN page.series : Settled(h) =>
                /\ Slowed(Of(h)) = page.series[h].tier1
                /\ Blocked(Of(h)) = page.series[h].tier2
                /\ Of(h) # {} => page.series[h].batches > 0
           /\ (\A h \in DOMAIN page.series : Settled(h)) =>
                /\ page.blocked = Total([h \in DOMAIN page.series |-> page.series[h].tier2], DOMAIN page.series)
                /\ page.slowed = Total([h \in DOMAIN page.series |-> page.series[h].tier1], DOMAIN page.series)
           /\ \A e, f \in page.episodes : e[1] <= f[1] => page.left[e] <= page.left[f]
           /\ LET lanes == Flow(length) IN lanes.measured = lanes.passed + lanes.slowed + lanes.blocked

\* Every decision the history was told of within a window is listed, in the
\* hour it fell in and within the span its row names, unless batches of that
\* hour overlapped: the span is then of the last to be written.
EveryDecisionIsListed ==
    \A length \in {Day, Week}, d \in decisions :
        d.at >= now - length =>
            LET e == <<d.hour, d.ip>> IN
            /\ e \in HistoryPage(length).episodes
            /\ HistoryPage(length).has_feed
            /\ d.hour \notin overlaps => episodes[e].first <= d.at /\ d.at <= episodes[e].last
            /\ {HourOf(episodes[e].first), HourOf(episodes[e].last)} = {d.hour}

\* Against a mark, what was once not new never is again, whatever tabs and
\* retries there are; and what is decided of a batch that comes in an hour
\* after the mark's is new until the customer reads on.
ReadOnce ==
    [][mark # NoMark =>
        /\ mark' # NoMark
        /\ \A e \in DOMAIN episodes : ~IsNew(e, Day) => ~IsNew(e, Day)'
        /\ \A e \in DOMAIN episodes' :
            mark' = mark /\ e[1] > HourOf(mark) /\ e \in Listed(Day)' => e \in HistoryPage(Day)'.unread]_vars
=============================================================================

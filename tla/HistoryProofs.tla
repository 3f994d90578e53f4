---------------------------- MODULE HistoryProofs ----------------------------
(***************************************************************************)
(* Theorems about History, for any sources, requests at once and loads,    *)
(* and any lengths of bucket, hour and window.                             *)
(***************************************************************************)
EXTENDS History, Sums

\* A request in hand came in at some time, and was counted for the sources it
\* has still to look at and for the one it has decided on.
InHand ==
    \A w \in Workers :
        LET b == batch[w] IN
        b # Idle =>
            /\ b.at \in 0..now
            /\ b.todo \subseteq Sources
            /\ \A s \in b.todo : buckets[s][BucketStart(b.at)] > 0
            /\ b.pc \in {"decided", "flagged"} =>
                b.ip \in Sources /\ b.tier \in {1, 2} /\ buckets[b.ip][BucketStart(b.at)] > 0

\* Only what was counted is judged, and only what was counted is flagged.
Counted ==
    /\ judged \subseteq Sources \X Buckets
    /\ \A item \in flagged : buckets[item[1]][item[2]] > 0

ToCome == {ItemOf(batch[w]) : w \in {v \in Workers : batch[v].pc = "decided"}}

\* A judged bucket is flagged, about to be, or was left behind.
Accounted ==
    /\ judged \subseteq flagged \union unflagged \union ToCome
    /\ forgotten \subseteq flagged

\* A row is of the hour its span lies in, and has every decision it was told.
Rows ==
    /\ \A e \in DOMAIN episodes :
        LET row == episodes[e] IN
        /\ row.first \in 0..now /\ row.last \in 0..now
        /\ HourOf(row.first) = e[1] /\ HourOf(row.last) = e[1]
    /\ \A d \in decisions : d.at \in 0..now /\ d.hour = HourOf(d.at) /\ <<d.hour, d.ip>> \in DOMAIN episodes

\* In an hour without overlaps one request is handled at a time, and a row's
\* span holds what it was told of and ends no later than that request came in.
Spans ==
    /\ \A v, w \in Workers :
        v # w /\ batch[v] # Idle /\ batch[w] # Idle => HourOf(batch[v].at) \in overlaps
    /\ \A e \in DOMAIN episodes :
        e[1] \notin overlaps =>
            /\ episodes[e].first <= episodes[e].last
            /\ \A w \in Workers :
                batch[w] # Idle /\ HourOf(batch[w].at) = e[1] => episodes[e].last <= batch[w].at
            /\ \A d \in decisions :
                <<d.hour, d.ip>> = e => episodes[e].first <= d.at /\ d.at <= episodes[e].last

IInv == TypeOK /\ InHand /\ Counted /\ Accounted /\ Rows /\ Spans

-----------------------------------------------------------------------------
(* Buckets and hours.                                                      *)

LEMMA HoursOfTime ==
    /\ \A t \in Int : HourOf(t) \in Int /\ HourOf(t) <= t /\ t < HourOf(t) + HourLength
    /\ \A s, t \in Int : s <= t => HourOf(s) <= HourOf(t)
<1>1. HourLength \in Nat \ {0}
  BY HistoryAssumption
<1>2. \A t \in Int : t \div HourLength \in Int
  BY <1>1
<1>3. \A s, t \in Int : s <= t => s \div HourLength <= t \div HourLength
  BY <1>1
<1>4. QED
  BY <1>1, <1>2, <1>3 DEF HourOf

\* An hour that begins after the hour of a time begins after the time.
LEMMA LaterHours ==
    ASSUME NEW h \in Hours, NEW t \in Int, h > HourOf(t)
    PROVE  h > t
<1>1. HourLength \in Nat \ {0}
  BY HistoryAssumption
<1>2. PICK u \in 0..MaxNow : h = HourOf(u)
  BY DEF Hours
<1>3. u \in Int
  BY HistoryAssumption
<1>4. ~(u <= t)
  BY <1>2, <1>3, HoursOfTime
<1> DEFINE a == u \div HourLength   b == t \div HourLength
<1>5. a \in Int /\ b \in Int /\ h = a * HourLength /\ a * HourLength > b * HourLength
  BY <1>1, <1>2, <1>3 DEF HourOf
<1>6. a >= b + 1
  <2> HIDE DEF a, b
  <2>1. \A x, y \in Int, n \in Nat \ {0} : x * n > y * n => x >= y + 1
    OBVIOUS
  <2>2. QED
    BY <1>1, <1>5, <2>1
<1>7. a * HourLength >= b * HourLength + HourLength
  <2> HIDE DEF a, b
  <2>1. \A x, y \in Int, n \in Nat \ {0} : x >= y + 1 => x * n >= y * n + n
    OBVIOUS
  <2>2. QED
    BY <1>1, <1>5, <1>6, <2>1
<1>8. t < b * HourLength + HourLength /\ b * HourLength \in Int
  BY <1>1, HoursOfTime DEF HourOf
<1> HIDE DEF a, b
<1>9. QED
  BY <1>1, <1>5, <1>7, <1>8

LEMMA NowInHours ==
    ASSUME TypeOK
    PROVE  /\ now \in Nat /\ MaxNow \in Nat
           /\ \A t \in 0..now : HourOf(t) \in Hours /\ BucketStart(t) \in Buckets /\ t \in 0..MaxNow
BY HistoryAssumption DEF TypeOK, Hours, Buckets

LEMMA InitInv == Init => IInv
BY HistoryAssumption
DEF Init, IInv, TypeOK, InHand, Counted, Accounted, ToCome, Rows, Spans, Idle, NoMark

-----------------------------------------------------------------------------
(* The batch.                                                              *)

LEMMA CountInv ==
    ASSUME IInv, NEW w \in Workers, NEW load \in Loads, Count(w, load)
    PROVE  IInv'
<1> DEFINE b0 == BucketStart(now)
           b == [pc |-> "judging", at |-> now, todo |-> DOMAIN load,
                 requests |-> Total(load, DOMAIN load), tier1 |-> 0, tier2 |-> 0]
<1> USE DEF IInv
<1>1. /\ batch[w] = Idle /\ batch' = [batch EXCEPT ![w] = b]
      /\ UNCHANGED <<now, flagged, judged, unflagged, forgotten, episodes, series, decisions, gaps, mark>>
      /\ overlaps \subseteq overlaps'
      /\ Handling # {} => /\ HourOf(now) \in overlaps'
                          /\ \A v \in Handling : HourOf(batch[v].at) \in overlaps'
  BY DEF Count, Goes, historyVars
<1>2. DOMAIN load \subseteq Sources /\ \A s \in DOMAIN load : load[s] \in Nat \ {0}
  BY HistoryAssumption
<1>3. b0 \in Buckets /\ now \in Nat /\ HourOf(now) \in Hours
  BY NowInHours
<1>4. buckets' \in [Sources -> [Buckets -> Nat]]
  <2> DEFINE more(s) == [buckets[s] EXCEPT ![b0] = @ + load[s]]
  <2>1. \A s \in Sources : s \in DOMAIN load => more(s) \in [Buckets -> Nat]
    BY <1>2, <1>3 DEF TypeOK
  <2>2. buckets' = [s \in Sources |-> IF s \in DOMAIN load THEN more(s) ELSE buckets[s]]
    BY DEF Count
  <2> HIDE DEF more
  <2>3. QED
    BY <2>1, <2>2 DEF TypeOK
<1>5. /\ \A s \in Sources, c \in Buckets : buckets'[s][c] >= buckets[s][c]
      /\ \A s \in DOMAIN load : buckets'[s][b0] > 0
  <2>1. \A s \in Sources, c \in Buckets :
            buckets'[s][c] = IF s \in DOMAIN load /\ c = b0 THEN buckets[s][c] + load[s] ELSE buckets[s][c]
    BY <1>2, <1>3 DEF Count, TypeOK
  <2>2. \A s \in Sources, c \in Buckets : buckets[s][c] \in Nat
    BY DEF TypeOK
  <2>3. QED
    BY <1>2, <1>3, <2>1, <2>2
<1>6. TypeOK'
  BY <1>1, <1>4 DEF TypeOK
<1>7. InHand'
  <2> SUFFICES ASSUME NEW v \in Workers, batch'[v] # Idle
               PROVE  /\ batch'[v].at \in 0..now
                      /\ batch'[v].todo \subseteq Sources
                      /\ \A s \in batch'[v].todo : buckets'[s][BucketStart(batch'[v].at)] > 0
                      /\ batch'[v].pc \in {"decided", "flagged"} =>
                            /\ batch'[v].ip \in Sources /\ batch'[v].tier \in {1, 2}
                            /\ buckets'[batch'[v].ip][BucketStart(batch'[v].at)] > 0
    BY <1>1 DEF InHand
  <2>1. CASE v = w
    BY <1>1, <1>2, <1>3, <1>5, <2>1 DEF TypeOK
  <2>2. CASE v # w
    <3>1. batch'[v] = batch[v]
      BY <1>1, <2>2 DEF TypeOK
    <3>2. BucketStart(batch[v].at) \in Buckets
      BY <3>1, NowInHours DEF InHand
    <3>3. \A s \in Sources, c \in Buckets : buckets[s][c] \in Nat /\ buckets'[s][c] \in Nat
      BY <1>4 DEF TypeOK
    <3>4. QED
      BY <1>5, <3>1, <3>2, <3>3 DEF InHand
  <2>3. QED
    BY <2>1, <2>2
<1>8. Counted'
  <2>1. \A item \in flagged : item \in Sources \X Buckets /\ buckets[item[1]][item[2]] \in Nat
                              /\ buckets'[item[1]][item[2]] \in Nat
    BY <1>4 DEF TypeOK
  <2>2. QED
    BY <1>1, <1>5, <2>1 DEF Counted
<1>9. Accounted'
  <2>1. ToCome \subseteq ToCome'
    BY <1>1 DEF ToCome, TypeOK, Idle
  <2>2. QED
    BY <1>1, <2>1 DEF Accounted
<1>10. Rows'
  BY <1>1 DEF Rows
<1>11. Spans'
  <2>1. \A v \in Workers : v # w => batch'[v] = batch[v]
    BY <1>1 DEF TypeOK
  <2>2. batch'[w] = b
    BY <1>1 DEF TypeOK
  <2>3. \A u, v \in Workers :
            u # v /\ batch'[u] # Idle /\ batch'[v] # Idle => HourOf(batch'[u].at) \in overlaps'
    BY <1>1, <2>1, <2>2 DEF Spans, Handling
  <2>4. ASSUME NEW e \in DOMAIN episodes, e[1] \notin overlaps'
        PROVE  /\ episodes[e].first <= episodes[e].last
               /\ \A v \in Workers :
                    batch'[v] # Idle /\ HourOf(batch'[v].at) = e[1] => episodes[e].last <= batch'[v].at
               /\ \A d \in decisions :
                    <<d.hour, d.ip>> = e => episodes[e].first <= d.at /\ d.at <= episodes[e].last
    <3>1. e[1] \notin overlaps
      BY <1>1, <2>4
    <3>2. episodes[e].last <= now
      BY <1>3 DEF Rows
    <3>3. QED
      BY <2>1, <2>2, <3>1, <3>2 DEF Spans
  <2>5. QED
    BY <1>1, <2>3, <2>4 DEF Spans
<1>12. QED
  BY <1>6, <1>7, <1>8, <1>9, <1>10, <1>11

\* A step that only moves a request on within what it has in hand.
LEMMA MoveInv ==
    ASSUME IInv, NEW w \in Workers, batch[w] # Idle, NEW b, Goes(w, b),
           b = Idle \/ /\ b.pc \in {"judging", "decided", "flagged"} /\ b.at = batch[w].at
                       /\ b.todo \subseteq batch[w].todo
                       /\ b.pc \in {"decided", "flagged"} =>
                            /\ b.ip \in batch[w].todo \/ (batch[w].pc = "decided" /\ b.ip = batch[w].ip)
                            /\ b.tier \in {1, 2},
           UNCHANGED <<now, buckets, overlaps>>
    PROVE  /\ DOMAIN batch' = Workers
           /\ \A v \in Workers : batch'[v].pc \in {"idle", "judging", "decided", "flagged"}
           /\ InHand'
           /\ \A u, v \in Workers :
                u # v /\ batch'[u] # Idle /\ batch'[v] # Idle => HourOf(batch'[u].at) \in overlaps
           /\ \A v \in Workers : batch'[v] # Idle => batch[v] # Idle /\ batch'[v].at = batch[v].at
           /\ \A v \in Workers : v # w => batch'[v] = batch[v]
           /\ batch'[w] = b
<1> USE DEF IInv
<1>1. /\ DOMAIN batch' = Workers /\ batch'[w] = b
      /\ \A v \in Workers : v # w => batch'[v] = batch[v]
  BY DEF Goes, TypeOK
<1>2. \A v \in Workers : batch'[v].pc \in {"idle", "judging", "decided", "flagged"}
  BY <1>1 DEF TypeOK, Idle
<1>3. \A v \in Workers : batch'[v] # Idle => batch[v] # Idle /\ batch'[v].at = batch[v].at
  BY <1>1
<1>4. InHand'
  <2> SUFFICES ASSUME NEW v \in Workers, batch'[v] # Idle
               PROVE  /\ batch'[v].at \in 0..now
                      /\ batch'[v].todo \subseteq Sources
                      /\ \A s \in batch'[v].todo : buckets[s][BucketStart(batch'[v].at)] > 0
                      /\ batch'[v].pc \in {"decided", "flagged"} =>
                            /\ batch'[v].ip \in Sources /\ batch'[v].tier \in {1, 2}
                            /\ buckets[batch'[v].ip][BucketStart(batch'[v].at)] > 0
    BY DEF InHand
  <2>1. CASE v = w
    BY <1>1, <2>1 DEF InHand
  <2>2. CASE v # w
    BY <1>1, <2>2 DEF InHand
  <2>3. QED
    BY <2>1, <2>2
<1>5. \A u, v \in Workers :
        u # v /\ batch'[u] # Idle /\ batch'[v] # Idle => HourOf(batch'[u].at) \in overlaps
  BY <1>3 DEF Spans
<1>6. QED
  BY <1>1, <1>2, <1>3, <1>4, <1>5

\* When the history is not written, a request that moves on keeps its spans.
LEMMA SpansKept ==
    ASSUME IInv, UNCHANGED <<episodes, decisions, overlaps>>,
           \A u, v \in Workers :
                u # v /\ batch'[u] # Idle /\ batch'[v] # Idle => HourOf(batch'[u].at) \in overlaps,
           \A v \in Workers : batch'[v] # Idle => batch[v] # Idle /\ batch'[v].at = batch[v].at
    PROVE  Spans'
BY DEF IInv, Spans

\* What Rows says, when the history is not written.
LEMMA RowsKept ==
    ASSUME IInv, UNCHANGED <<now, episodes, decisions>>
    PROVE  Rows'
BY DEF IInv, Rows

LEMMA JudgeInv ==
    ASSUME IInv, NEW w \in Workers, NEW s \in Sources, Judge(w, s)
    PROVE  IInv'
<1> DEFINE old  == batch[w]
           item == <<s, BucketStart(old.at)>>
           on   == [old EXCEPT !.todo = @ \ {s}]
           to(tier) == [pc |-> "decided", at |-> old.at, todo |-> old.todo \ {s}, requests |-> old.requests,
                        tier1 |-> old.tier1, tier2 |-> old.tier2, ip |-> s, tier |-> tier]
<1> USE DEF IInv
<1>1. /\ old.pc = "judging" /\ s \in old.todo /\ old # Idle
      /\ UNCHANGED <<now, buckets, flagged, unflagged, forgotten, overlaps, episodes, series, decisions, mark>>
  BY DEF Judge, Idle, historyVars
<1>2. /\ old.at \in 0..now /\ BucketStart(old.at) \in Buckets
      /\ buckets[s][BucketStart(old.at)] > 0
  BY <1>1, NowInHours DEF InHand
<1>3. CASE Goes(w, on) /\ judged' = judged
  <2>1. on.pc = "judging" /\ on.at = old.at /\ on.todo \subseteq old.todo
    BY <1>1
  <2> HIDE DEF on
  <2>3. /\ DOMAIN batch' = Workers
        /\ \A v \in Workers : batch'[v].pc \in {"idle", "judging", "decided", "flagged"}
        /\ InHand'
        /\ Spans'
        /\ \A v \in Workers : v # w => batch'[v] = batch[v]
    BY <1>1, <1>3, <2>1, MoveInv, SpansKept
  <2>4. ToCome \subseteq ToCome'
    BY <1>1, <2>3 DEF ToCome
  <2>5. Accounted' /\ Counted'
    BY <1>1, <1>3, <2>4 DEF Accounted, Counted
  <2>6. TypeOK'
    BY <1>1, <2>3 DEF TypeOK
  <2>7. QED
    BY <1>1, <2>3, <2>5, <2>6, RowsKept
<1>4. ASSUME NEW tier \in {1, 2}, Goes(w, to(tier)), judged' = judged \union {item}
      PROVE  IInv'
  <2>1. /\ to(tier).pc = "decided" /\ to(tier).at = old.at /\ to(tier).todo \subseteq old.todo
        /\ to(tier).ip = s /\ to(tier).tier = tier /\ ItemOf(to(tier)) = item
    BY DEF ItemOf
  <2> HIDE DEF to
  <2>2. /\ DOMAIN batch' = Workers
        /\ \A v \in Workers : batch'[v].pc \in {"idle", "judging", "decided", "flagged"}
        /\ InHand'
        /\ Spans'
        /\ \A v \in Workers : v # w => batch'[v] = batch[v]
        /\ batch'[w] = to(tier)
    BY <1>1, <1>4, <2>1, MoveInv, SpansKept
  <2>3. ToCome \subseteq ToCome' /\ item \in ToCome'
    BY <1>1, <2>1, <2>2 DEF ToCome
  <2>4. Accounted' /\ Counted'
    BY <1>1, <1>2, <1>4, <2>3 DEF Accounted, Counted
  <2>5. TypeOK'
    BY <1>1, <2>2 DEF TypeOK
  <2>6. QED
    BY <1>1, <2>2, <2>4, <2>5, RowsKept
<1>5. QED
  BY <1>3, <1>4 DEF Judge

LEMMA FlagInv ==
    ASSUME IInv, NEW w \in Workers, Flag(w)
    PROVE  IInv'
<1> DEFINE old == batch[w]
           on  == [old EXCEPT !.pc = "flagged"]
<1> USE DEF IInv
<1>1. /\ old.pc = "decided" /\ old # Idle /\ Goes(w, on)
      /\ flagged' = flagged \union {ItemOf(old)}
      /\ UNCHANGED <<now, buckets, judged, unflagged, forgotten, overlaps, episodes, series, decisions, mark>>
  BY DEF Flag, Idle, historyVars
<1>2. /\ old.at \in 0..now /\ BucketStart(old.at) \in Buckets /\ old.ip \in Sources /\ old.tier \in {1, 2}
      /\ buckets[old.ip][BucketStart(old.at)] > 0
  BY <1>1, NowInHours DEF InHand
<1>3. /\ on.pc \in {"flagged", "decided"} /\ on.at = old.at /\ on.todo = old.todo
      /\ on.ip = old.ip /\ on.tier = old.tier
  BY <1>1
<1> HIDE DEF on
<1>4. /\ DOMAIN batch' = Workers
      /\ \A v \in Workers : batch'[v].pc \in {"idle", "judging", "decided", "flagged"}
      /\ InHand'
      /\ Spans'
      /\ \A v \in Workers : v # w => batch'[v] = batch[v]
  BY <1>1, <1>2, <1>3, MoveInv, SpansKept
<1>5. ToCome \subseteq ToCome' \union {ItemOf(old)}
  BY <1>4 DEF ToCome
<1>6. Accounted' /\ Counted'
  <2>1. \A item \in {ItemOf(old)} : buckets[item[1]][item[2]] > 0
    BY <1>2 DEF ItemOf
  <2>2. QED
    BY <1>1, <1>5, <2>1 DEF Accounted, Counted
<1>7. TypeOK'
  BY <1>1, <1>2, <1>4 DEF TypeOK, ItemOf
<1>8. QED
  BY <1>1, <1>4, <1>6, <1>7, RowsKept

\* A step of a request after its flag, that leaves the training data alone.
LEMMA LaterInv ==
    ASSUME IInv, NEW w \in Workers, batch[w] # Idle, batch[w].pc # "decided",
           NEW b, Goes(w, b),
           b = Idle \/ (b.pc = "judging" /\ b.at = batch[w].at /\ b.todo \subseteq batch[w].todo),
           UNCHANGED <<now, trainingVars, overlaps, mark>>,
           DOMAIN episodes' \subseteq Hours \X Sources, DOMAIN series' = DOMAIN series
    PROVE  TypeOK' /\ InHand' /\ Counted' /\ Accounted'
<1> USE DEF IInv
<1>1. UNCHANGED <<buckets, flagged, judged, unflagged, forgotten>>
  BY DEF trainingVars
<1>2. /\ DOMAIN batch' = Workers
      /\ \A v \in Workers : batch'[v].pc \in {"idle", "judging", "decided", "flagged"}
      /\ InHand'
      /\ \A v \in Workers : v # w => batch'[v] = batch[v]
  BY <1>1, MoveInv
<1>3. ToCome \subseteq ToCome'
  BY <1>2 DEF ToCome
<1>4. QED
  BY <1>1, <1>2, <1>3 DEF TypeOK, Counted, Accounted

LEMMA RecordInv ==
    ASSUME IInv, NEW w \in Workers, Record(w)
    PROVE  IInv'
<1> DEFINE old == batch[w]
           key == <<HourOf(old.at), old.ip>>
           d0  == [hour |-> HourOf(old.at), ip |-> old.ip, at |-> old.at]
           on  == Tally([pc |-> "judging", at |-> old.at, todo |-> old.todo, requests |-> old.requests,
                         tier1 |-> old.tier1, tier2 |-> old.tier2], old.tier)
<1> USE DEF IInv
<1>1. /\ old.pc = "flagged" /\ old # Idle /\ Goes(w, on)
      /\ UNCHANGED <<now, trainingVars, series, overlaps, mark>>
  BY DEF Record, Idle
<1>2. /\ old.at \in 0..now /\ HourOf(old.at) \in Hours /\ old.ip \in Sources
      /\ key \in Hours \X Sources
  BY <1>1, NowInHours DEF InHand
<1>3. on.pc = "judging" /\ on.at = old.at /\ on.todo = old.todo /\ on # Idle
  BY DEF Tally, Idle
<1> HIDE DEF on
<1>4. /\ \A v \in Workers : v # w => batch'[v] = batch[v]
      /\ batch'[w] = on
      /\ \A u, v \in Workers :
            u # v /\ batch'[u] # Idle /\ batch'[v] # Idle => HourOf(batch'[u].at) \in overlaps
      /\ \A v \in Workers : batch'[v] # Idle => batch[v] # Idle /\ batch'[v].at = batch[v].at
  BY <1>1, <1>3, MoveInv DEF trainingVars
<1>5. CASE UNCHANGED <<episodes, decisions>>
  <2>1. TypeOK' /\ InHand' /\ Counted' /\ Accounted'
    BY <1>1, <1>3, <1>5, LaterInv DEF TypeOK
  <2>2. Spans'
    BY <1>1, <1>4, <1>5, SpansKept
  <2>3. QED
    BY <1>1, <1>5, <2>1, <2>2, RowsKept
<1>6. CASE episodes' = Recorded(old) /\ decisions' = decisions \union {d0}
  <2>1. /\ DOMAIN episodes' = DOMAIN episodes \union {key}
        /\ \A e \in DOMAIN episodes : e # key => episodes'[e] = episodes[e]
        /\ episodes'[key].last = old.at
        /\ episodes'[key].first = IF key \in DOMAIN episodes THEN episodes[key].first ELSE old.at
    <3> DEFINE was == IF key \in DOMAIN episodes THEN episodes[key]
                      ELSE [tier1 |-> 0, tier2 |-> 0, first |-> old.at, last |-> old.at]
               new == [Tally(was, old.tier) EXCEPT !.last = old.at]
    <3>1. episodes' = [e \in DOMAIN episodes \union {key} |-> IF e = key THEN new ELSE episodes[e]]
      BY <1>6 DEF Recorded
    <3>2. new.first = was.first
      BY DEF Tally
    <3>3. was.first = IF key \in DOMAIN episodes THEN episodes[key].first ELSE old.at
      OBVIOUS
    <3>4. new.last = old.at
      BY <1>6 DEF Tally
    <3> HIDE DEF new, was
    <3>5. QED
      BY <3>1, <3>2, <3>3, <3>4
  <2>2. TypeOK' /\ InHand' /\ Counted' /\ Accounted'
    <3>1. DOMAIN episodes' \subseteq Hours \X Sources
      BY <1>2, <2>1 DEF TypeOK
    <3>2. QED
      BY <1>1, <1>3, <3>1, LaterInv
  <2>3. Rows'
    <3>1. ASSUME NEW e \in DOMAIN episodes'
          PROVE  /\ episodes'[e].first \in 0..now /\ episodes'[e].last \in 0..now
                 /\ HourOf(episodes'[e].first) = e[1] /\ HourOf(episodes'[e].last) = e[1]
      <4>1. CASE e = key
        BY <1>2, <2>1, <4>1 DEF Rows
      <4>2. CASE e # key
        BY <2>1, <4>2 DEF Rows
      <4>3. QED
        BY <4>1, <4>2
    <3>2. ASSUME NEW d \in decisions'
          PROVE  d.at \in 0..now /\ d.hour = HourOf(d.at) /\ <<d.hour, d.ip>> \in DOMAIN episodes'
      <4>1. CASE d = d0
        BY <1>2, <2>1, <4>1
      <4>2. CASE d \in decisions
        BY <2>1, <4>2 DEF Rows
      <4>3. QED
        BY <1>6, <4>1, <4>2
    <3>3. QED
      BY <1>1, <3>1, <3>2 DEF Rows
  <2>4. Spans'
    <3>1. ASSUME NEW e \in DOMAIN episodes', e[1] \notin overlaps
          PROVE  /\ episodes'[e].first <= episodes'[e].last
                 /\ \A v \in Workers :
                        batch'[v] # Idle /\ HourOf(batch'[v].at) = e[1] => episodes'[e].last <= batch'[v].at
                 /\ \A d \in decisions' :
                        <<d.hour, d.ip>> = e => episodes'[e].first <= d.at /\ d.at <= episodes'[e].last
      <4>1. CASE e # key
        <5>1. e \in DOMAIN episodes /\ episodes'[e] = episodes[e]
          BY <2>1, <4>1
        <5>2. \A d \in decisions' : <<d.hour, d.ip>> = e => d \in decisions
          BY <1>6, <4>1
        <5>3. QED
          BY <1>4, <3>1, <5>1, <5>2 DEF Spans
      <4>2. CASE e = key
        <5>1. \A v \in Workers : batch'[v] # Idle /\ HourOf(batch'[v].at) = e[1] => v = w
          BY <1>3, <1>4, <3>1
        <5>2. CASE key \in DOMAIN episodes
          <6>1. /\ episodes[key].first <= episodes[key].last /\ episodes[key].last <= old.at
                /\ episodes[key].first \in Nat /\ episodes[key].last \in Nat
                /\ \A d \in decisions :
                        <<d.hour, d.ip>> = key => episodes[key].first <= d.at /\ d.at <= episodes[key].last
            BY <1>1, <3>1, <4>2, <5>2 DEF Spans, Rows
          <6>2. \A d \in decisions : d.at \in Nat
            <7>1. now \in Nat /\ 0..now \subseteq Nat
              BY NowInHours
            <7>2. \A d \in decisions : d.at \in 0..now
              BY DEF Rows
            <7>3. QED
              BY <7>1, <7>2
          <6>3. episodes'[key].first = episodes[key].first /\ episodes'[key].last = old.at /\ old.at \in Nat
            BY <1>2, <2>1, <5>2
          <6>4. \A d \in decisions' :
                    <<d.hour, d.ip>> = e => episodes[key].first <= d.at /\ d.at <= old.at
            <7> SUFFICES ASSUME NEW d \in decisions', <<d.hour, d.ip>> = e
                         PROVE  episodes[key].first <= d.at /\ d.at <= old.at
              OBVIOUS
            <7>1. CASE d = d0
              BY <6>1, <6>3, <7>1
            <7>2. CASE d \in decisions
              BY <4>2, <6>1, <6>2, <6>3, <7>2
            <7>3. QED
              BY <1>6, <7>1, <7>2
          <6>5. QED
            BY <1>3, <1>4, <4>2, <5>1, <6>1, <6>3, <6>4
        <5>3. CASE key \notin DOMAIN episodes
          <6>1. \A d \in decisions' : <<d.hour, d.ip>> = e => d = d0
            BY <1>6, <4>2, <5>3 DEF Rows
          <6>2. episodes'[key].first = old.at /\ episodes'[key].last = old.at /\ old.at \in Nat
            BY <1>2, <2>1, <5>3
          <6>3. QED
            BY <1>3, <1>4, <4>2, <5>1, <6>1, <6>2
        <5>4. QED
          BY <5>2, <5>3
      <4>3. QED
        BY <4>1, <4>2
    <3>2. QED
      BY <1>1, <1>4, <3>1 DEF Spans
  <2>5. QED
    BY <2>2, <2>3, <2>4
<1>7. QED
  BY <1>5, <1>6 DEF Record

LEMMA TrafficInv ==
    ASSUME IInv, NEW w \in Workers, Traffic(w)
    PROVE  IInv'
<1> USE DEF IInv
<1>1. /\ batch[w].pc = "judging" /\ batch[w] # Idle /\ Goes(w, Idle)
      /\ UNCHANGED <<now, trainingVars, episodes, decisions, overlaps, mark>>
      /\ DOMAIN series' = DOMAIN series
  BY DEF Traffic, Idle
<1>2. TypeOK' /\ InHand' /\ Counted' /\ Accounted'
  BY <1>1, LaterInv DEF TypeOK
<1>3. Spans'
  BY <1>1, MoveInv, SpansKept DEF trainingVars
<1>4. QED
  BY <1>1, <1>2, <1>3, RowsKept

LEMMA AbortInv ==
    ASSUME IInv, NEW w \in Workers, Abort(w)
    PROVE  IInv'
<1> USE DEF IInv
<1>1. /\ batch[w] # Idle /\ Goes(w, Idle)
      /\ unflagged' = IF batch[w].pc = "decided" THEN unflagged \union {ItemOf(batch[w])} ELSE unflagged
      /\ UNCHANGED <<now, buckets, flagged, judged, forgotten, episodes, series, decisions, overlaps, mark>>
  BY DEF Abort
<1>2. /\ DOMAIN batch' = Workers
      /\ \A v \in Workers : batch'[v].pc \in {"idle", "judging", "decided", "flagged"}
      /\ InHand'
      /\ Spans'
      /\ \A v \in Workers : v # w => batch'[v] = batch[v]
  BY <1>1, MoveInv, SpansKept
<1>3. ToCome \subseteq ToCome' \union unflagged'
  BY <1>1, <1>2 DEF ToCome
<1>4. unflagged \subseteq unflagged'
  BY <1>1
<1>5. Accounted' /\ Counted'
  BY <1>1, <1>3, <1>4 DEF Accounted, Counted
<1>6. TypeOK'
  BY <1>1, <1>2 DEF TypeOK
<1>7. QED
  BY <1>1, <1>2, <1>5, <1>6, RowsKept

-----------------------------------------------------------------------------
(* The operator and the clock.                                             *)

LEMMA ExcludeInv ==
    ASSUME IInv, NEW s \in Sources, Exclude(s)
    PROVE  IInv'
<1> USE DEF IInv
<1>1. PICK n \in 1..FlagLimit :
        /\ flagged' = flagged \union {<<s, b>> : b \in Newest(n, Existing(s))}
        /\ forgotten' = IF n = FlagLimit THEN forgotten \union {<<s, b>> : b \in Newest(n, Existing(s))}
                        ELSE forgotten
        /\ UNCHANGED <<now, buckets, judged, unflagged, historyVars, batchVars, mark>>
  BY DEF Exclude
<1>2. \A b \in Newest(n, Existing(s)) : b \in Buckets /\ buckets[s][b] > 0
  BY DEF Newest, Existing
<1>3. UNCHANGED <<now, buckets, judged, unflagged, episodes, series, decisions, batch, overlaps, mark>>
  BY <1>1 DEF historyVars, batchVars
<1>4. TypeOK' /\ InHand' /\ Rows' /\ Spans'
  BY <1>1, <1>2, <1>3 DEF TypeOK, InHand, Rows, Spans
<1>5. Counted' /\ Accounted'
  BY <1>1, <1>2, <1>3 DEF Counted, Accounted, ToCome
<1>6. QED
  BY <1>4, <1>5

LEMMA MarkReadInv ==
    ASSUME IInv, NEW through \in 0..now, MarkRead(through)
    PROVE  IInv'
<1> USE DEF IInv
<1>1. UNCHANGED <<now, buckets, flagged, judged, unflagged, forgotten, episodes, series, decisions, batch, overlaps>>
  BY DEF MarkRead, trainingVars, historyVars, batchVars
<1>2. mark' \in 0..MaxNow \union {NoMark}
  BY NowInHours DEF MarkRead, TypeOK
<1>3. TypeOK' /\ InHand' /\ Rows' /\ Spans' /\ Counted' /\ Accounted'
  BY <1>1, <1>2 DEF TypeOK, InHand, Rows, Spans, Counted, Accounted, ToCome
<1>4. QED
  BY <1>3

LEMMA TickInv ==
    ASSUME IInv, Tick
    PROVE  IInv'
<1> USE DEF IInv
<1>1. UNCHANGED <<buckets, flagged, judged, unflagged, forgotten, episodes, series, decisions,
                  batch, overlaps, mark>>
  BY DEF Tick, trainingVars, historyVars, batchVars
<1>2. now' \in 0..MaxNow /\ now <= now' /\ now \in Nat
  BY NowInHours DEF Tick, TypeOK
<1>3. TypeOK' /\ Spans' /\ Counted' /\ Accounted'
  BY <1>1, <1>2 DEF TypeOK, Spans, Counted, Accounted, ToCome
<1>4. InHand' /\ Rows'
  BY <1>1, <1>2 DEF InHand, Rows
<1>5. QED
  BY <1>3, <1>4

LEMMA StepInv == IInv /\ [Next]_vars => IInv'
<1> SUFFICES ASSUME IInv, [Next]_vars PROVE IInv'
  OBVIOUS
<1>1. CASE UNCHANGED vars
  BY <1>1 DEF vars, trainingVars, historyVars, batchVars, IInv, TypeOK, InHand, Rows, Spans, Counted, Accounted, ToCome
<1>2. CASE Next
  BY <1>2, CountInv, JudgeInv, FlagInv, RecordInv, TrafficInv, AbortInv, ExcludeInv, MarkReadInv, TickInv DEF Next
<1>3. QED
  BY <1>1, <1>2

LEMMA Invariance == Spec => []IInv
BY InitInv, StepInv, PTL DEF Spec

-----------------------------------------------------------------------------
(* The books: what a request has yet to enter, the episodes and the hours. *)

Tier(row, n) == IF n = 1 THEN row.tier1 ELSE row.tier2
Row == [tier1 : Nat, tier2 : Nat, first : Nat, last : Nat]
Hour == [batches : Nat, requests : Nat, tier1 : Nat, tier2 : Nat]

\* A request has a record for every source it has decided on, is at or has
\* still to look at.  A row is of a decision.  An hour was told of no more
\* decisions than requests, and of a decision with the batch it is of.
Booked ==
    /\ \A w \in Workers :
        LET b == batch[w] IN
        b # Idle =>
            /\ b.requests \in Nat /\ b.tier1 \in Nat /\ b.tier2 \in Nat
            /\ b.tier1 + b.tier2 + Cardinality(b.todo) + (IF b.pc = "judging" THEN 0 ELSE 1) <= b.requests
    /\ \A e \in DOMAIN episodes : episodes[e] \in Row /\ episodes[e].tier1 + episodes[e].tier2 > 0
    /\ series \in [Hours -> Hour]
    /\ \A h \in Hours : /\ series[h].tier1 + series[h].tier2 <= series[h].requests
                        /\ series[h].tier1 + series[h].tier2 > 0 => series[h].batches > 0

\* By source, the decisions of an hour; by request, those its row will be told.
Decided(h, n) ==
    [s \in Sources |-> IF <<h, s>> \in DOMAIN episodes THEN Tier(episodes[<<h, s>>], n) ELSE 0]
Owed(h, n) ==
    [w \in Workers |-> IF batch[w] # Idle /\ HourOf(batch[w].at) = h THEN Tier(batch[w], n) ELSE 0]

\* The episodes of an hour add up to its row and what is under way.
Balanced ==
    \A h \in Hours \ gaps, n \in {1, 2} :
        Total(Decided(h, n), Sources) = Tier(series[h], n) + Total(Owed(h, n), Workers)

LEMMA BooksInit == Init => Booked /\ Balanced
<1> SUFFICES ASSUME Init PROVE Booked /\ Balanced
  OBVIOUS
<1>1. Booked
  BY DEF Init, Booked, NoTraffic, Hour, Idle
<1>2. ASSUME NEW h \in Hours, NEW n \in {1, 2}
      PROVE  Total(Decided(h, n), Sources) = Tier(series[h], n) + Total(Owed(h, n), Workers)
  <2>1. PICK f, g : f = Decided(h, n) /\ g = Owed(h, n)
    OBVIOUS
  <2>2. (\A s \in Sources : f[s] = 0) /\ (\A w \in Workers : g[w] = 0)
    BY <2>1 DEF Init, Decided, Owed
  <2>3. IsFiniteSet(Sources) /\ IsFiniteSet(Workers)
    BY HistoryAssumption
  <2>4. SumFunctionOnSet(f, Sources) = 0 /\ SumFunctionOnSet(g, Workers) = 0
    BY <2>2, <2>3, SumZero
  <2>5. Tier(series[h], n) = 0
    BY DEF Init, NoTraffic, Tier
  <2>6. QED
    BY <2>1, <2>4, <2>5 DEF Total
<1>3. QED
  BY <1>1, <1>2 DEF Balanced

\* Booked, when the history is not written.
LEMMA BookedKept ==
    ASSUME IInv, IInv', Booked, NEW w \in Workers, NEW b, Goes(w, b), UNCHANGED <<episodes, series>>,
           b # Idle =>
                /\ b.requests \in Nat /\ b.tier1 \in Nat /\ b.tier2 \in Nat
                /\ b.tier1 + b.tier2 + Cardinality(b.todo) + (IF b.pc = "judging" THEN 0 ELSE 1) <= b.requests
    PROVE  Booked'
<1>1. batch'[w] = b /\ \A v \in Workers : v # w => batch'[v] = batch[v]
  BY DEF Goes, IInv, TypeOK
<1>2. QED
  BY <1>1 DEF Booked

LEMMA CountBooked ==
    ASSUME IInv, IInv', Booked, NEW w \in Workers, NEW load \in Loads, Count(w, load)
    PROVE  Booked'
<1>1. IsFiniteSet(DOMAIN load) /\ \A s \in DOMAIN load : load[s] \in Nat \ {0}
  BY HistoryAssumption, FS_Subset
<1>2. PICK S : S = DOMAIN load
  OBVIOUS
<1>3. SumFunctionOnSet(load, S) \in Nat /\ Cardinality(S) <= SumFunctionOnSet(load, S)
  BY <1>1, <1>2, SumAtLeast
<1>4. Cardinality(S) \in Nat
  BY <1>1, <1>2, FS_CardinalityType
<1> DEFINE b == [pc |-> "judging", at |-> now, todo |-> DOMAIN load,
                 requests |-> Total(load, DOMAIN load), tier1 |-> 0, tier2 |-> 0]
<1>5. /\ b.requests \in Nat /\ b.tier1 \in Nat /\ b.tier2 \in Nat
      /\ b.tier1 + b.tier2 + Cardinality(b.todo) + (IF b.pc = "judging" THEN 0 ELSE 1) <= b.requests
  BY <1>2, <1>3, <1>4 DEF Total
<1>6. Goes(w, b) /\ UNCHANGED <<episodes, series>>
  BY DEF Count, historyVars
<1> HIDE DEF b
<1>7. QED
  BY <1>5, <1>6, BookedKept

\* A source less to look at.
LEMMA OneLess ==
    ASSUME IInv, NEW w \in Workers, batch[w] # Idle, NEW s \in batch[w].todo
    PROVE  /\ Cardinality(batch[w].todo) \in Nat
           /\ Cardinality(batch[w].todo \ {s}) = Cardinality(batch[w].todo) - 1
<1>1. PICK S : S = batch[w].todo
  OBVIOUS
<1>2. S \subseteq Sources
  BY <1>1 DEF IInv, InHand
<1>3. IsFiniteSet(S)
  BY <1>2, HistoryAssumption, FS_Subset
<1>4. Cardinality(S) \in Nat /\ Cardinality(S \ {s}) = Cardinality(S) - 1
  BY <1>1, <1>3, FS_CardinalityType, FS_RemoveElement
<1>5. QED
  BY <1>1, <1>4

LEMMA JudgeBooked ==
    ASSUME IInv, IInv', Booked, NEW w \in Workers, NEW s \in Sources, Judge(w, s)
    PROVE  Booked'
<1> DEFINE old  == batch[w]
           on   == [old EXCEPT !.todo = @ \ {s}]
           to(tier) == [pc |-> "decided", at |-> old.at, todo |-> old.todo \ {s}, requests |-> old.requests,
                        tier1 |-> old.tier1, tier2 |-> old.tier2, ip |-> s, tier |-> tier]
<1>1. /\ old.pc = "judging" /\ s \in old.todo /\ old # Idle
      /\ UNCHANGED <<episodes, series>>
  BY DEF Judge, Idle, historyVars
<1>2. PICK n, m : n = Cardinality(old.todo) /\ m = Cardinality(old.todo \ {s})
  OBVIOUS
<1>3. n \in Nat /\ m = n - 1
  BY <1>1, <1>2, OneLess
<1>4. /\ old.requests \in Nat /\ old.tier1 \in Nat /\ old.tier2 \in Nat
      /\ old.tier1 + old.tier2 + n <= old.requests
  <2>1. old.tier1 + old.tier2 + n + 0 <= old.requests
    BY <1>1, <1>2 DEF Booked
  <2>2. old.requests \in Nat /\ old.tier1 \in Nat /\ old.tier2 \in Nat
    BY <1>1 DEF Booked
  <2>3. QED
    BY <1>3, <2>1, <2>2
<1>5. CASE Goes(w, on)
  <2>1. on.pc = "judging" /\ on.todo = old.todo \ {s} /\ on.requests = old.requests
        /\ on.tier1 = old.tier1 /\ on.tier2 = old.tier2
    BY <1>1
  <2> HIDE DEF on
  <2>2. on.tier1 + on.tier2 + Cardinality(on.todo) + (IF on.pc = "judging" THEN 0 ELSE 1) <= on.requests
    BY <1>2, <1>3, <1>4, <2>1
  <2>3. QED
    BY <1>1, <1>4, <1>5, <2>1, <2>2, BookedKept
<1>6. ASSUME NEW tier \in {1, 2}, Goes(w, to(tier)) PROVE Booked'
  <2> DEFINE b == to(tier)
  <2>1. b.pc = "decided" /\ b.todo = old.todo \ {s} /\ b.requests = old.requests
        /\ b.tier1 = old.tier1 /\ b.tier2 = old.tier2
    OBVIOUS
  <2>2. Goes(w, b)
    BY <1>6
  <2> HIDE DEF b
  <2>3. b.tier1 + b.tier2 + Cardinality(b.todo) + (IF b.pc = "judging" THEN 0 ELSE 1) <= b.requests
    BY <1>2, <1>3, <1>4, <2>1
  <2>4. QED
    BY <1>1, <1>4, <2>1, <2>2, <2>3, BookedKept
<1>7. QED
  BY <1>5, <1>6 DEF Judge

LEMMA FlagBooked ==
    ASSUME IInv, IInv', Booked, NEW w \in Workers, Flag(w)
    PROVE  Booked'
<1> DEFINE old == batch[w]
           on  == [old EXCEPT !.pc = "flagged"]
<1>1. old.pc = "decided" /\ old # Idle /\ Goes(w, on) /\ UNCHANGED <<episodes, series>>
  BY DEF Flag, Idle, historyVars
<1>2. on.pc = "flagged" /\ on.todo = old.todo /\ on.requests = old.requests
      /\ on.tier1 = old.tier1 /\ on.tier2 = old.tier2
  BY <1>1
<1> HIDE DEF on
<1>3. /\ on.requests \in Nat /\ on.tier1 \in Nat /\ on.tier2 \in Nat
      /\ on.tier1 + on.tier2 + Cardinality(on.todo) + (IF on.pc = "judging" THEN 0 ELSE 1) <= on.requests
  BY <1>1, <1>2 DEF Booked
<1>4. QED
  BY <1>1, <1>3, BookedKept

LEMMA RecordBooked ==
    ASSUME IInv, IInv', Booked, NEW w \in Workers, Record(w)
    PROVE  Booked'
<1> DEFINE old == batch[w]
           key == <<HourOf(old.at), old.ip>>
           on  == Tally([pc |-> "judging", at |-> old.at, todo |-> old.todo, requests |-> old.requests,
                         tier1 |-> old.tier1, tier2 |-> old.tier2], old.tier)
<1>1. old.pc = "flagged" /\ old # Idle /\ Goes(w, on) /\ UNCHANGED series
  BY DEF Record, Idle
<1>2. old.tier \in {1, 2} /\ old.at \in Nat
  <2>1. old.at \in 0..now /\ now \in Nat
    BY <1>1, NowInHours DEF IInv, InHand
  <2>2. QED
    BY <1>1, <2>1 DEF IInv, InHand
<1>3. /\ old.requests \in Nat /\ old.tier1 \in Nat /\ old.tier2 \in Nat
      /\ old.tier1 + old.tier2 + Cardinality(old.todo) + 1 <= old.requests
  BY <1>1 DEF Booked
<1>4. Cardinality(old.todo) \in Nat
  <2>1. old.todo \in SUBSET Sources
    BY <1>1 DEF IInv, InHand
  <2>2. QED
    BY <2>1, HistoryAssumption, FS_Subset, FS_CardinalityType
<1>5. /\ on.pc = "judging" /\ on.todo = old.todo /\ on.requests = old.requests
      /\ on.tier1 = old.tier1 + (IF old.tier = 1 THEN 1 ELSE 0)
      /\ on.tier2 = old.tier2 + (IF old.tier = 2 THEN 1 ELSE 0)
  BY DEF Tally
<1> HIDE DEF on
<1>6. on # Idle =>
        /\ on.requests \in Nat /\ on.tier1 \in Nat /\ on.tier2 \in Nat
        /\ on.tier1 + on.tier2 + Cardinality(on.todo) + (IF on.pc = "judging" THEN 0 ELSE 1) <= on.requests
  BY <1>2, <1>3, <1>4, <1>5
<1>7. CASE UNCHANGED episodes
  BY <1>1, <1>6, <1>7, BookedKept
<1>8. CASE episodes' = Recorded(old)
  <2> DEFINE was == IF key \in DOMAIN episodes THEN episodes[key]
                    ELSE [tier1 |-> 0, tier2 |-> 0, first |-> old.at, last |-> old.at]
             new == [Tally(was, old.tier) EXCEPT !.last = old.at]
  <2>1. was \in Row
    BY <1>2 DEF Booked, Row
  <2>2. new \in Row /\ new.tier1 + new.tier2 > 0
    <3>1. PICK r \in Row : r = was
      BY <2>1
    <3>2. [Tally(r, old.tier) EXCEPT !.last = old.at] \in Row
      <4>1. PICK x \in Nat, y \in Nat :
                /\ x = r.tier1 + (IF old.tier = 1 THEN 1 ELSE 0)
                /\ y = r.tier2 + (IF old.tier = 2 THEN 1 ELSE 0)
        BY <1>2 DEF Row
      <4>2. Tally(r, old.tier) = [r EXCEPT !.tier1 = x, !.tier2 = y]
        BY <4>1 DEF Tally
      <4>3. [r EXCEPT !.tier1 = x] \in Row
        BY DEF Row
      <4>4. [r EXCEPT !.tier1 = x, !.tier2 = y] \in Row
        BY <4>3 DEF Row
      <4>5. PICK t \in Row : t = Tally(r, old.tier)
        BY <4>2, <4>4
      <4>6. [t EXCEPT !.last = old.at] \in Row
        BY <1>2 DEF Row
      <4>7. QED
        BY <4>5, <4>6
    <3>3. /\ [Tally(r, old.tier) EXCEPT !.last = old.at].tier1 = r.tier1 + (IF old.tier = 1 THEN 1 ELSE 0)
          /\ [Tally(r, old.tier) EXCEPT !.last = old.at].tier2 = r.tier2 + (IF old.tier = 2 THEN 1 ELSE 0)
      BY DEF Row, Tally
    <3>4. r.tier1 \in Nat /\ r.tier2 \in Nat
      BY DEF Row
    <3> HIDE DEF was
    <3>5. new = [Tally(r, old.tier) EXCEPT !.last = old.at]
      BY <3>1
    <3> HIDE DEF new
    <3>6. QED
      BY <1>2, <3>2, <3>3, <3>4, <3>5
  <2>3. episodes' = [e \in DOMAIN episodes \union {key} |-> IF e = key THEN new ELSE episodes[e]]
    BY <1>8 DEF Recorded
  <2> HIDE DEF new, was
  <2>4. \A e \in DOMAIN episodes' : episodes'[e] \in Row /\ episodes'[e].tier1 + episodes'[e].tier2 > 0
    BY <2>2, <2>3 DEF Booked
  <2>5. batch'[w] = on /\ \A v \in Workers : v # w => batch'[v] = batch[v]
    BY <1>1 DEF Goes, IInv, TypeOK
  <2>6. ASSUME NEW v \in Workers, batch'[v] # Idle
        PROVE  /\ batch'[v].requests \in Nat /\ batch'[v].tier1 \in Nat /\ batch'[v].tier2 \in Nat
               /\ batch'[v].tier1 + batch'[v].tier2 + Cardinality(batch'[v].todo)
                    + (IF batch'[v].pc = "judging" THEN 0 ELSE 1) <= batch'[v].requests
    <3>1. CASE v = w
      BY <1>6, <2>5, <2>6, <3>1
    <3>2. CASE v # w
      BY <2>5, <2>6, <3>2 DEF Booked
    <3>3. QED
      BY <3>1, <3>2
  <2>7. QED
    BY <1>1, <2>4, <2>6 DEF Booked
<1>9. QED
  BY <1>7, <1>8 DEF Record

\* The hour's row, when it is told of a batch.
LEMMA WithBooked ==
    ASSUME NEW row \in Hour, NEW b, b.requests \in Nat, b.tier1 \in Nat, b.tier2 \in Nat,
           row.tier1 + row.tier2 <= row.requests, b.tier1 + b.tier2 <= b.requests
    PROVE  /\ With(row, b) \in Hour
           /\ With(row, b).tier1 + With(row, b).tier2 <= With(row, b).requests
           /\ With(row, b).batches > 0
           /\ \A n \in {1, 2} : /\ Tier(row, n) \in Nat /\ Tier(b, n) \in Nat
                                /\ Tier(With(row, b), n) = Tier(row, n) + Tier(b, n)
<1>1. row.tier1 \in Nat /\ row.tier2 \in Nat /\ row.requests \in Nat /\ row.batches \in Nat
  BY DEF Hour
<1>2. /\ With(row, b).tier1 = row.tier1 + b.tier1 /\ With(row, b).tier2 = row.tier2 + b.tier2
      /\ With(row, b).requests = row.requests + b.requests /\ With(row, b).batches = row.batches + 1
      /\ With(row, b) \in Hour
  BY <1>1 DEF With, Hour
<1>3. QED
  BY <1>1, <1>2 DEF Tier

LEMMA TrafficBooked ==
    ASSUME IInv, IInv', Booked, NEW w \in Workers, Traffic(w)
    PROVE  Booked'
<1> DEFINE b == batch[w]
<1>1. b.pc = "judging" /\ b # Idle /\ b.todo = {} /\ Goes(w, Idle) /\ UNCHANGED episodes
  BY DEF Traffic, Idle
<1>2. CASE UNCHANGED series
  BY <1>1, <1>2, BookedKept
<1>3. CASE series' = [series EXCEPT ![HourOf(b.at)] = With(@, b)]
  <2>1. b.requests \in Nat /\ b.tier1 \in Nat /\ b.tier2 \in Nat /\ b.tier1 + b.tier2 <= b.requests
    <3>1. b.tier1 + b.tier2 + Cardinality({}) + 0 <= b.requests
      BY <1>1 DEF Booked
    <3>2. b.requests \in Nat /\ b.tier1 \in Nat /\ b.tier2 \in Nat
      BY <1>1 DEF Booked
    <3>3. QED
      BY <3>1, <3>2, FS_EmptySet
  <2>2. HourOf(b.at) \in Hours
    BY <1>1, NowInHours DEF IInv, InHand
  <2>3. PICK row \in Hour : row = series[HourOf(b.at)] /\ row.tier1 + row.tier2 <= row.requests
    BY <2>2 DEF Booked
  <2>4. PICK new \in Hour : new = With(row, b) /\ new.tier1 + new.tier2 <= new.requests /\ new.batches > 0
    BY <2>1, <2>3, WithBooked
  <2>5. series' = [series EXCEPT ![HourOf(b.at)] = new]
    BY <1>3, <2>3, <2>4
  <2>6. /\ series' \in [Hours -> Hour]
        /\ \A h \in Hours : /\ series'[h].tier1 + series'[h].tier2 <= series'[h].requests
                            /\ series'[h].tier1 + series'[h].tier2 > 0 => series'[h].batches > 0
    BY <2>2, <2>4, <2>5 DEF Booked
  <2>7. batch'[w] = Idle /\ \A v \in Workers : v # w => batch'[v] = batch[v]
    BY <1>1 DEF Goes, IInv, TypeOK
  <2>8. QED
    BY <1>1, <2>6, <2>7 DEF Booked
<1>4. QED
  BY <1>2, <1>3 DEF Traffic

\* A step moves what is owed of an hour by as much as it moves what one
\* request owes.
LEMMA OwedMoves ==
    ASSUME IInv, Booked, NEW w \in Workers, \A v \in Workers : v # w => batch'[v] = batch[v],
           NEW h \in Hours, NEW n \in {1, 2}, NEW d \in Int, Owed(h, n)'[w] = Owed(h, n)[w] + d
    PROVE  Total(Owed(h, n)', Workers) = Total(Owed(h, n), Workers) + d
<1>1. PICK f, g : f = Owed(h, n) /\ g = Owed(h, n)'
  OBVIOUS
<1>2. \A v \in Workers : f[v] \in Int
  <2> SUFFICES ASSUME NEW v \in Workers PROVE f[v] \in Int
    OBVIOUS
  <2>1. f[v] = IF batch[v] # Idle /\ HourOf(batch[v].at) = h THEN Tier(batch[v], n) ELSE 0
    BY <1>1 DEF Owed
  <2>2. batch[v] # Idle => Tier(batch[v], n) \in Nat
    BY DEF Booked, Tier
  <2>3. QED
    BY <2>1, <2>2
<1>3. \A v \in Workers \ {w} : g[v] = f[v]
  BY <1>1 DEF Owed
<1>4. g[w] = f[w] + d
  BY <1>1
<1>5. IsFiniteSet(Workers)
  BY HistoryAssumption
<1>6. SumFunctionOnSet(g, Workers) = SumFunctionOnSet(f, Workers) + d
  BY <1>2, <1>3, <1>4, <1>5, SumChanged
<1>7. QED
  BY <1>1, <1>6 DEF Total

\* The sums are numbers.
LEMMA TotalsAre ==
    ASSUME Booked, NEW h \in Hours, NEW n \in {1, 2}
    PROVE  /\ Total(Decided(h, n), Sources) \in Nat
           /\ \A s \in Sources : Decided(h, n)[s] \in Nat /\ Decided(h, n)[s] <= Total(Decided(h, n), Sources)
           /\ Total(Owed(h, n), Workers) \in Nat
           /\ Tier(series[h], n) \in Nat
<1>1. PICK f, g : f = Decided(h, n) /\ g = Owed(h, n)
  OBVIOUS
<1>2. \A s \in Sources : f[s] \in Nat
  <2> SUFFICES ASSUME NEW s \in Sources PROVE f[s] \in Nat
    OBVIOUS
  <2>1. f[s] = IF <<h, s>> \in DOMAIN episodes THEN Tier(episodes[<<h, s>>], n) ELSE 0
    BY <1>1 DEF Decided
  <2>2. <<h, s>> \in DOMAIN episodes => Tier(episodes[<<h, s>>], n) \in Nat
    BY DEF Booked, Row, Tier
  <2>3. QED
    BY <2>1, <2>2
<1>3. \A w \in Workers : g[w] \in Nat
  <2> SUFFICES ASSUME NEW w \in Workers PROVE g[w] \in Nat
    OBVIOUS
  <2>1. g[w] = IF batch[w] # Idle /\ HourOf(batch[w].at) = h THEN Tier(batch[w], n) ELSE 0
    BY <1>1 DEF Owed
  <2>2. batch[w] # Idle => Tier(batch[w], n) \in Nat
    BY DEF Booked, Tier
  <2>3. QED
    BY <2>1, <2>2
<1>4. IsFiniteSet(Sources) /\ IsFiniteSet(Workers)
  BY HistoryAssumption
<1>5. SumFunctionOnSet(f, Sources) \in Nat /\ \A s \in Sources : f[s] <= SumFunctionOnSet(f, Sources)
  BY <1>2, <1>4, SumNat
<1>6. SumFunctionOnSet(g, Workers) \in Nat
  BY <1>3, <1>4, SumNat
<1>7. Tier(series[h], n) \in Nat
  <2>1. series[h] \in Hour
    BY DEF Booked
  <2>2. QED
    BY <2>1 DEF Hour, Tier
<1>8. QED
  BY <1>1, <1>2, <1>5, <1>6, <1>7 DEF Total

\* An hour whose rows the step does not write, and of which nothing is owed
\* more or less, stays balanced.
LEMMA BalanceKept ==
    ASSUME IInv, Booked, Balanced, NEW w \in Workers, \A v \in Workers : v # w => batch'[v] = batch[v],
           NEW h \in Hours, h \notin gaps, NEW n \in {1, 2},
           UNCHANGED episodes, series'[h] = series[h], Owed(h, n)'[w] = Owed(h, n)[w]
    PROVE  Total(Decided(h, n)', Sources) = Tier(series'[h], n) + Total(Owed(h, n)', Workers)
<1>1. Owed(h, n)[w] \in Int
  <2>1. batch[w] # Idle => Tier(batch[w], n) \in Nat
    BY DEF Booked, Tier
  <2>2. QED
    BY <2>1 DEF Owed
<1>2. Owed(h, n)'[w] = Owed(h, n)[w] + 0
  BY <1>1
<1>3. Total(Owed(h, n)', Workers) = Total(Owed(h, n), Workers) + 0
  BY <1>2, OwedMoves
<1>4. Decided(h, n)' = Decided(h, n)
  BY DEF Decided
<1>5. Total(Owed(h, n), Workers) \in Nat
  BY TotalsAre
<1>6. QED
  BY <1>3, <1>4, <1>5 DEF Balanced

\* The steps of a request that leave the history, what it owes and its time.
LEMMA StillBalanced ==
    ASSUME IInv, Booked, Balanced, NEW w \in Workers, NEW b, Goes(w, b), UNCHANGED <<episodes, series, gaps>>,
           \/ batch[w] = Idle /\ b.tier1 = 0 /\ b.tier2 = 0
           \/ /\ batch[w] # Idle /\ b # Idle
              /\ b.at = batch[w].at /\ b.tier1 = batch[w].tier1 /\ b.tier2 = batch[w].tier2
    PROVE  Balanced'
<1>1. batch'[w] = b /\ \A v \in Workers : v # w => batch'[v] = batch[v]
  BY DEF Goes, IInv, TypeOK
<1>2. ASSUME NEW h \in Hours, NEW n \in {1, 2} PROVE Owed(h, n)'[w] = Owed(h, n)[w]
  BY <1>1 DEF Owed, Tier
<1>3. QED
  BY <1>1, <1>2, BalanceKept DEF Balanced

\* The steps that write no row: of the hour they keep from the books nothing
\* is claimed.
LEMMA LeftBalanced ==
    ASSUME IInv, Booked, Balanced, NEW w \in Workers, batch[w] # Idle, NEW b, Goes(w, b),
           UNCHANGED <<episodes, series>>, b = Idle \/ b.at = batch[w].at,
           gaps \subseteq gaps',
           HourOf(batch[w].at) \in gaps' \/ (b = Idle /\ batch[w].tier1 + batch[w].tier2 = 0)
    PROVE  Balanced'
<1>1. batch'[w] = b /\ \A v \in Workers : v # w => batch'[v] = batch[v]
  BY DEF Goes, IInv, TypeOK
<1>2. batch[w].tier1 \in Nat /\ batch[w].tier2 \in Nat
  BY DEF Booked
<1>3. ASSUME NEW h \in Hours, h \notin gaps', NEW n \in {1, 2} PROVE Owed(h, n)'[w] = Owed(h, n)[w]
  <2>1. CASE HourOf(batch[w].at) = h
    <3>1. b = Idle /\ Tier(batch[w], n) = 0
      BY <1>2, <1>3, <2>1 DEF Tier
    <3>2. QED
      BY <1>1, <3>1 DEF Owed
  <2>2. CASE HourOf(batch[w].at) # h
    BY <1>1, <2>2 DEF Owed
  <2>3. QED
    BY <2>1, <2>2
<1>4. QED
  BY <1>1, <1>3, BalanceKept DEF Balanced

LEMMA RecordBalanced ==
    ASSUME IInv, Booked, Booked', Balanced, NEW w \in Workers, Record(w)
    PROVE  Balanced'
<1> DEFINE old == batch[w]
           hour == HourOf(old.at)
           key == <<hour, old.ip>>
           on  == Tally([pc |-> "judging", at |-> old.at, todo |-> old.todo, requests |-> old.requests,
                         tier1 |-> old.tier1, tier2 |-> old.tier2], old.tier)
<1>1. old.pc = "flagged" /\ old # Idle /\ Goes(w, on) /\ UNCHANGED series
  BY DEF Record, Idle
<1>2. old.tier \in {1, 2} /\ old.ip \in Sources /\ old.tier1 \in Nat /\ old.tier2 \in Nat
  BY <1>1 DEF IInv, InHand, Booked
<1>3. on.at = old.at /\ on # Idle /\ \A n \in {1, 2} : Tier(on, n) = Tier(old, n) + (IF old.tier = n THEN 1 ELSE 0)
  <2>1. /\ on.tier1 = old.tier1 + (IF old.tier = 1 THEN 1 ELSE 0)
        /\ on.tier2 = old.tier2 + (IF old.tier = 2 THEN 1 ELSE 0)
        /\ on.pc = "judging" /\ on.at = old.at
    BY DEF Tally
  <2> HIDE DEF on
  <2>2. QED
    BY <2>1 DEF Tier, Idle
<1> HIDE DEF on
<1>4. CASE UNCHANGED episodes /\ gaps' = gaps \union {hour}
  BY <1>1, <1>3, <1>4, LeftBalanced
<1>5. CASE episodes' = Recorded(old) /\ UNCHANGED gaps
  <2>1. batch'[w] = on /\ \A v \in Workers : v # w => batch'[v] = batch[v]
    BY <1>1 DEF Goes, IInv, TypeOK
  <2>2. /\ DOMAIN episodes' = DOMAIN episodes \union {key}
        /\ \A e \in DOMAIN episodes : e # key => episodes'[e] = episodes[e]
        /\ \A n \in {1, 2} :
            Tier(episodes'[key], n) = (IF key \in DOMAIN episodes THEN Tier(episodes[key], n) ELSE 0)
                                        + (IF old.tier = n THEN 1 ELSE 0)
    <3> DEFINE was == IF key \in DOMAIN episodes THEN episodes[key]
                      ELSE [tier1 |-> 0, tier2 |-> 0, first |-> old.at, last |-> old.at]
               new == [Tally(was, old.tier) EXCEPT !.last = old.at]
    <3>1. episodes' = [e \in DOMAIN episodes \union {key} |-> IF e = key THEN new ELSE episodes[e]]
      BY <1>5 DEF Recorded
    <3>2. /\ new.tier1 = was.tier1 + (IF old.tier = 1 THEN 1 ELSE 0)
          /\ new.tier2 = was.tier2 + (IF old.tier = 2 THEN 1 ELSE 0)
      BY DEF Tally
    <3>3. /\ key \in DOMAIN episodes => was = episodes[key]
          /\ key \notin DOMAIN episodes => was.tier1 = 0 /\ was.tier2 = 0
      OBVIOUS
    <3> HIDE DEF new, was
    <3>4. episodes'[key] = new
      BY <3>1
    <3>5. QED
      BY <3>1, <3>2, <3>3, <3>4 DEF Tier
  <2>3. ASSUME NEW h \in Hours, h \notin gaps, NEW n \in {1, 2}
        PROVE  Total(Decided(h, n)', Sources) = Tier(series[h], n) + Total(Owed(h, n)', Workers)
    <3> DEFINE d == IF h = hour /\ old.tier = n THEN 1 ELSE 0
    <3>1. d \in Nat
      OBVIOUS
    <3>2. Owed(h, n)'[w] = Owed(h, n)[w] + d
      <4>1. /\ Owed(h, n)[w] = IF h = hour THEN Tier(old, n) ELSE 0
            /\ Owed(h, n)'[w] = IF h = hour THEN Tier(on, n) ELSE 0
        BY <1>1, <1>3, <2>1 DEF Owed
      <4>2. Tier(on, n) = Tier(old, n) + (IF old.tier = n THEN 1 ELSE 0) /\ Tier(old, n) \in Nat
        BY <1>2, <1>3 DEF Tier
      <4>3. QED
        BY <4>1, <4>2
    <3>3. PICK f, g : f = Decided(h, n) /\ g = Decided(h, n)'
      OBVIOUS
    <3>4. \A s \in Sources : f[s] \in Int
      BY <3>3, TotalsAre
    <3>5. \A s \in Sources \ {old.ip} : g[s] = f[s]
      BY <2>2, <3>3 DEF Decided
    <3>6. g[old.ip] = f[old.ip] + d
      <4>1. CASE h = hour
        <5>1. /\ f[old.ip] = IF key \in DOMAIN episodes THEN Tier(episodes[key], n) ELSE 0
              /\ g[old.ip] = Tier(episodes'[key], n)
          BY <1>2, <2>2, <3>3, <4>1 DEF Decided
        <5>2. QED
          BY <2>2, <4>1, <5>1
      <4>2. CASE h # hour
        <5>1. g[old.ip] = f[old.ip]
          BY <1>2, <2>2, <3>3, <4>2 DEF Decided
        <5>2. QED
          BY <1>2, <3>4, <4>2, <5>1
      <4>3. QED
        BY <4>1, <4>2
    <3> HIDE DEF d
    <3>7. SumFunctionOnSet(g, Sources) = SumFunctionOnSet(f, Sources) + d
      <4>1. IsFiniteSet(Sources) /\ old.ip \in Sources /\ d \in Int
        BY <1>2, <3>1, HistoryAssumption
      <4>2. PICK x, y : x = old.ip /\ y = d
        OBVIOUS
      <4>3. SumFunctionOnSet(g, Sources) = SumFunctionOnSet(f, Sources) + y
        BY <3>4, <3>5, <3>6, <4>1, <4>2, SumChanged
      <4>4. QED
        BY <4>2, <4>3
    <3>8. Total(Owed(h, n)', Workers) = Total(Owed(h, n), Workers) + d
      <4>1. PICK y \in Int : y = d
        BY <3>1
      <4>2. Owed(h, n)'[w] = Owed(h, n)[w] + y
        BY <3>2, <4>1
      <4>3. Total(Owed(h, n)', Workers) = Total(Owed(h, n), Workers) + y
        BY <2>1, <4>2, OwedMoves
      <4>4. QED
        BY <4>1, <4>3
    <3>9. Total(Decided(h, n), Sources) = Tier(series[h], n) + Total(Owed(h, n), Workers)
      BY <2>3 DEF Balanced
    <3>10. Tier(series[h], n) \in Nat /\ Total(Owed(h, n), Workers) \in Nat
      BY TotalsAre
    <3>11. QED
      BY <3>1, <3>3, <3>7, <3>8, <3>9, <3>10 DEF Total
  <2>4. QED
    BY <1>1, <1>5, <2>3 DEF Balanced
<1>6. QED
  BY <1>4, <1>5 DEF Record

LEMMA TrafficBalanced ==
    ASSUME IInv, Booked, Booked', Balanced, NEW w \in Workers, Traffic(w)
    PROVE  Balanced'
<1> DEFINE b == batch[w]
           hour == HourOf(b.at)
<1>1. b.pc = "judging" /\ b # Idle /\ b.todo = {} /\ Goes(w, Idle) /\ UNCHANGED episodes
  BY DEF Traffic, Idle
<1>2. b.requests \in Nat /\ b.tier1 \in Nat /\ b.tier2 \in Nat
  BY <1>1 DEF Booked
<1>3. CASE UNCHANGED series /\ gaps' = gaps \union Missed(b)
  <2>1. hour \in gaps' \/ b.tier1 + b.tier2 = 0
    BY <1>2, <1>3 DEF Missed
  <2>2. QED
    BY <1>1, <1>3, <2>1, LeftBalanced
<1>4. CASE series' = [series EXCEPT ![hour] = With(@, b)] /\ UNCHANGED gaps
  <2>1. batch'[w] = Idle /\ \A v \in Workers : v # w => batch'[v] = batch[v]
    BY <1>1 DEF Goes, IInv, TypeOK
  <2>2. hour \in Hours /\ series \in [Hours -> Hour]
    BY <1>1, NowInHours DEF IInv, InHand, Booked
  <2>3. series'[hour] = With(series[hour], b) /\ \A h \in Hours : h # hour => series'[h] = series[h]
    BY <1>4, <2>2
  <2>4. ASSUME NEW h \in Hours, h \notin gaps, NEW n \in {1, 2}
        PROVE  Total(Decided(h, n)', Sources) = Tier(series'[h], n) + Total(Owed(h, n)', Workers)
    <3>1. CASE h = hour
      <4>1. PICK y \in Nat : y = Tier(b, n)
        BY <1>2 DEF Tier
      <4>2. PICK d \in Int : d = -y
        OBVIOUS
      <4>3. Owed(h, n)[w] = y /\ Owed(h, n)'[w] = 0
        BY <1>1, <2>1, <3>1, <4>1 DEF Owed
      <4>4. Owed(h, n)'[w] = Owed(h, n)[w] + d
        BY <4>2, <4>3
      <4>5. Total(Owed(h, n)', Workers) = Total(Owed(h, n), Workers) + d
        BY <2>1, <4>4, OwedMoves
      <4>6. Tier(series'[h], n) = Tier(series[h], n) + y
        BY <2>3, <3>1, <4>1 DEF Tier, With
      <4>7. Decided(h, n)' = Decided(h, n)
        BY <1>1 DEF Decided
      <4>8. Total(Decided(h, n), Sources) = Tier(series[h], n) + Total(Owed(h, n), Workers)
        BY <2>4 DEF Balanced
      <4>9. Tier(series[h], n) \in Nat /\ Total(Owed(h, n), Workers) \in Nat
        BY TotalsAre
      <4>10. QED
        BY <4>2, <4>5, <4>6, <4>7, <4>8, <4>9
    <3>2. CASE h # hour
      <4>1. Owed(h, n)'[w] = Owed(h, n)[w]
        BY <2>1, <3>2 DEF Owed
      <4>2. QED
        BY <1>1, <2>1, <2>3, <2>4, <3>2, <4>1, BalanceKept
    <3>3. QED
      BY <3>1, <3>2
  <2>5. QED
    BY <1>4, <2>4 DEF Balanced
<1>5. QED
  BY <1>3, <1>4 DEF Traffic

LEMMA AbortBooks ==
    ASSUME IInv, IInv', Booked, Balanced, NEW w \in Workers, Abort(w)
    PROVE  Booked' /\ Balanced'
<1>1. batch[w] # Idle /\ Goes(w, Idle) /\ gaps' = gaps \union Missed(batch[w]) /\ UNCHANGED <<episodes, series>>
  BY DEF Abort
<1>2. batch[w].tier1 \in Nat /\ batch[w].tier2 \in Nat
  BY <1>1 DEF Booked
<1>3. HourOf(batch[w].at) \in gaps' \/ batch[w].tier1 + batch[w].tier2 = 0
  BY <1>1, <1>2 DEF Missed
<1>4. QED
  BY <1>1, <1>3, BookedKept, LeftBalanced

LEMMA RestBooks ==
    ASSUME Booked, Balanced, UNCHANGED <<batch, episodes, series, gaps>>
    PROVE  Booked' /\ Balanced'
BY DEF Booked, Balanced, Decided, Owed

LEMMA BooksStep == IInv /\ IInv' /\ Booked /\ Balanced /\ [Next]_vars => Booked' /\ Balanced'
<1> SUFFICES ASSUME IInv, IInv', Booked, Balanced, [Next]_vars PROVE Booked' /\ Balanced'
  OBVIOUS
<1>1. ASSUME NEW w \in Workers, NEW load \in Loads, Count(w, load) PROVE Booked' /\ Balanced'
  <2> DEFINE b == [pc |-> "judging", at |-> now, todo |-> DOMAIN load,
                   requests |-> Total(load, DOMAIN load), tier1 |-> 0, tier2 |-> 0]
  <2>1. batch[w] = Idle /\ Goes(w, b) /\ UNCHANGED <<episodes, series, gaps>>
    BY <1>1 DEF Count, historyVars
  <2>2. b.tier1 = 0 /\ b.tier2 = 0
    OBVIOUS
  <2> HIDE DEF b
  <2>3. QED
    BY <1>1, <2>1, <2>2, CountBooked, StillBalanced
<1>2. ASSUME NEW w \in Workers, NEW s \in Sources, Judge(w, s) PROVE Booked' /\ Balanced'
  <2> DEFINE old == batch[w]
             on  == [old EXCEPT !.todo = @ \ {s}]
             to(tier) == [pc |-> "decided", at |-> old.at, todo |-> old.todo \ {s}, requests |-> old.requests,
                          tier1 |-> old.tier1, tier2 |-> old.tier2, ip |-> s, tier |-> tier]
  <2>1. batch[w] # Idle /\ UNCHANGED <<episodes, series, gaps>>
    BY <1>2 DEF Judge, Idle, historyVars
  <2>2. PICK b : Goes(w, b) /\ (b = on \/ \E tier \in {1, 2} : b = to(tier))
    BY <1>2 DEF Judge
  <2>3. b # Idle /\ b.at = old.at /\ b.tier1 = old.tier1 /\ b.tier2 = old.tier2
    <3>1. old.pc = "judging"
      BY <1>2 DEF Judge
    <3>2. /\ b.pc = "judging" \/ b.pc = "decided"
          /\ b.at = old.at /\ b.tier1 = old.tier1 /\ b.tier2 = old.tier2
      <4>1. /\ on.pc = "judging" /\ on.at = old.at
            /\ on.tier1 = old.tier1 /\ on.tier2 = old.tier2
        BY <3>1
      <4>2. \A tier \in {1, 2} :
                /\ to(tier).pc = "decided" /\ to(tier).at = old.at
                /\ to(tier).tier1 = old.tier1 /\ to(tier).tier2 = old.tier2
        OBVIOUS
      <4> HIDE DEF on, to
      <4>3. QED
        BY <2>2, <4>1, <4>2
    <3>3. QED
      BY <3>1, <3>2 DEF Idle
  <2>4. QED
    BY <1>2, <2>1, <2>2, <2>3, JudgeBooked, StillBalanced
<1>3. ASSUME NEW w \in Workers, Flag(w) PROVE Booked' /\ Balanced'
  <2>1. PICK b : b = [batch[w] EXCEPT !.pc = "flagged"]
    OBVIOUS
  <2>2. batch[w].pc = "decided" /\ Goes(w, b) /\ UNCHANGED <<episodes, series, gaps>>
    BY <1>3, <2>1 DEF Flag, historyVars
  <2>3. /\ b.pc = "flagged" /\ b.at = batch[w].at
        /\ b.tier1 = batch[w].tier1 /\ b.tier2 = batch[w].tier2
    BY <2>1, <2>2
  <2>4. batch[w] # Idle /\ b # Idle
    BY <2>2, <2>3 DEF Idle
  <2>5. QED
    BY <1>3, <2>2, <2>3, <2>4, FlagBooked, StillBalanced
<1>4. ASSUME NEW w \in Workers, Record(w) \/ Traffic(w) \/ Abort(w) PROVE Booked' /\ Balanced'
  BY <1>4, RecordBooked, RecordBalanced, TrafficBooked, TrafficBalanced, AbortBooks
<1>5. ASSUME (\E s \in Sources : Exclude(s)) \/ (\E through \in 0..now : MarkRead(through)) \/ Tick
             \/ UNCHANGED vars
      PROVE  Booked' /\ Balanced'
  <2>1. UNCHANGED <<batch, episodes, series, gaps>>
    BY <1>5 DEF Exclude, MarkRead, Tick, vars, historyVars, batchVars
  <2>2. QED
    BY <2>1, RestBooks
<1>6. QED
  BY <1>1, <1>2, <1>3, <1>4, <1>5 DEF Next

LEMMA BooksInvariance == Spec => [](IInv /\ Booked /\ Balanced)
<1>1. Spec => [](Booked /\ Balanced)
  BY Invariance, BooksInit, BooksStep, PTL DEF Spec
<1>2. QED
  BY <1>1, Invariance, PTL

-----------------------------------------------------------------------------
(* The theorems.                                                           *)

\* Every row, mark and request is of its kind.
THEOREM TypeCorrect == Spec => []TypeOK
BY Invariance, PTL DEF IInv

LEMMA ItemsFinite == IsFiniteSet(Sources \X Buckets)
<1>1. IsFiniteSet(0..MaxNow)
  BY HistoryAssumption, FS_Interval
<1>2. IsFiniteSet(Buckets)
  <2> DEFINE start == [t \in 0..MaxNow |-> BucketStart(t)]
  <2>1. start \in Surjection(0..MaxNow, Buckets)
    BY DEF Surjection, Buckets
  <2> HIDE DEF start
  <2>2. QED
    BY <1>1, <2>1, FS_Surjection
<1>3. QED
  BY <1>2, HistoryAssumption, FS_Product

\* A sample is of a bucket with something in it.
LEMMA SampleCounted ==
    ASSUME TypeOK, NEW item \in Samples({})
    PROVE  buckets[item[1]][item[2]] > 0
<1>1. item \in Sources \X Buckets /\ BucketLength * buckets[item[1]][item[2]] >= BucketLength * Threshold
  BY DEF Samples, Enough
<1>2. buckets[item[1]][item[2]] \in Nat /\ BucketLength \in Nat \ {0} /\ Threshold \in Nat \ {0}
  BY <1>1, HistoryAssumption DEF TypeOK
<1>3. \A n \in Nat : ~(n > 0) => BucketLength * n = 0
  BY <1>2
<1>4. BucketLength * Threshold > 0 /\ BucketLength * Threshold \in Nat
  BY <1>2
<1>5. QED
  BY <1>1, <1>2, <1>3, <1>4

\* JudgedIsNotLearned of every reachable state: a judged bucket is learned
\* from only while its flag is to come or once its request ended without it,
\* and an allowed source costs no more than _baseline_cost says.
THEOREM NothingJudgedLearned == Spec => []JudgedIsNotLearned
<1>1. IInv => JudgedIsNotLearned
  <2> SUFFICES ASSUME IInv PROVE JudgedIsNotLearned
    OBVIOUS
  <2> USE DEF IInv
  <2>1. Samples({}) \intersect judged \subseteq unflagged \union ToCome
    BY DEF Accounted, Samples
  <2>2. Samples({}) \intersect forgotten = {}
    BY DEF Accounted, Samples
  <2>3. ASSUME NEW allowed \in SUBSET Sources
        PROVE  /\ Cardinality(Samples({}) \ Samples(allowed)) <= BaselineCost(allowed).excluded
               /\ \A item \in Samples({}) \ Samples(allowed) : item[1] \in allowed
    <3> DEFINE cost == Samples({}) \ Samples(allowed)
               kept == {item \in Sources \X Buckets :
                            item \notin flagged /\ item[1] \in allowed /\ buckets[item[1]][item[2]] > 0}
    <3>1. \A item \in cost : item[1] \in allowed
      BY DEF Samples
    <3>2. cost \subseteq kept
      BY <3>1, SampleCounted DEF Samples
    <3>3. IsFiniteSet(kept)
      BY ItemsFinite, FS_Subset
    <3>4. Cardinality(cost) <= Cardinality(kept)
      BY <3>2, <3>3, FS_Subset
    <3>5. BaselineCost(allowed).excluded = Cardinality(kept)
      BY DEF BaselineCost
    <3>6. QED
      BY <3>1, <3>4, <3>5
  <2>4. QED
    BY <2>1, <2>2, <2>3 DEF JudgedIsNotLearned, ToCome, Counted
<1>2. QED
  BY <1>1, Invariance, PTL

\* EveryDecisionIsListed of every reachable state, whatever the lengths of the
\* windows: what the history was told of within a window is on its page.
THEOREM DecisionsListed == Spec => []EveryDecisionIsListed
<1>1. IInv => EveryDecisionIsListed
  <2> SUFFICES ASSUME IInv, NEW length \in {Day, Week}, NEW d \in decisions, d.at >= now - length
               PROVE  LET e == <<d.hour, d.ip>> IN
                      /\ e \in HistoryPage(length).episodes
                      /\ HistoryPage(length).has_feed
                      /\ d.hour \notin overlaps => episodes[e].first <= d.at /\ d.at <= episodes[e].last
                      /\ {HourOf(episodes[e].first), HourOf(episodes[e].last)} = {d.hour}
    BY DEF EveryDecisionIsListed
  <2> DEFINE e == <<d.hour, d.ip>>
  <2> USE DEF IInv
  <2>1. d.at \in 0..now /\ d.hour = HourOf(d.at) /\ e \in DOMAIN episodes
    BY DEF Rows
  <2>2. now \in Nat /\ d.at \in Int /\ now - length \in Int /\ d.hour \in Hours
    BY <2>1, NowInHours, HistoryAssumption
  <2>3. HourOf(now - length) <= d.hour /\ d.hour <= HourOf(now)
    BY <2>1, <2>2, HoursOfTime
  <2>4. e \in Listed(length)
    BY <2>1, <2>2, <2>3 DEF Listed, InWindow
  <2>5. HistoryPage(length).episodes = Listed(length)
        /\ (Listed(length) # {} => HistoryPage(length).has_feed)
    BY DEF HistoryPage
  <2>6. d.hour \notin overlaps => episodes[e].first <= d.at /\ d.at <= episodes[e].last
    BY <2>1 DEF Spans
  <2>7. {HourOf(episodes[e].first), HourOf(episodes[e].last)} = {d.hour}
    BY <2>1 DEF Rows
  <2>8. QED
    BY <2>4, <2>5, <2>6, <2>7
<1>2. QED
  BY <1>1, Invariance, PTL

LEMMA MarkGrows ==
    ASSUME TypeOK, [Next]_vars, mark # NoMark
    PROVE  mark' \in Nat /\ mark \in Nat /\ mark <= mark' /\ mark' # NoMark
<1>1. mark \in Nat
  BY NowInHours DEF TypeOK, NoMark
<1>2. CASE mark' = mark
  BY <1>1, <1>2 DEF NoMark
<1>3. CASE mark' # mark
  <2>1. PICK through \in 0..now : MarkRead(through)
    BY <1>3 DEF Next, vars, Count, Judge, Flag, Record, Traffic, Abort, Exclude, Tick
  <2>2. QED
    BY <1>1, <1>3, <2>1, NowInHours DEF MarkRead, NoMark
<1>4. QED
  BY <1>2, <1>3

\* ReadOnce of every behaviour: the mark only moves on, and an hour after its
\* own begins after it.
THEOREM ReadsOnce == Spec => ReadOnce
<1>1. IInv /\ IInv' /\ [Next]_vars =>
        [mark # NoMark =>
            /\ mark' # NoMark
            /\ \A e \in DOMAIN episodes : ~IsNew(e, Day) => ~IsNew(e, Day)'
            /\ \A e \in DOMAIN episodes' :
                mark' = mark /\ e[1] > HourOf(mark) /\ e \in Listed(Day)' => e \in HistoryPage(Day)'.unread]_vars
  <2> SUFFICES ASSUME IInv, IInv', [Next]_vars, mark # NoMark
               PROVE  /\ mark' # NoMark
                      /\ \A e \in DOMAIN episodes : ~IsNew(e, Day) => ~IsNew(e, Day)'
                      /\ \A e \in DOMAIN episodes' :
                            mark' = mark /\ e[1] > HourOf(mark) /\ e \in Listed(Day)'
                                => e \in HistoryPage(Day)'.unread
    OBVIOUS
  <2> USE DEF IInv
  <2>1. mark' \in Nat /\ mark \in Nat /\ mark <= mark' /\ mark' # NoMark
    BY MarkGrows
  <2>2. \A h \in Hours : h \in Int
    BY HoursOfTime, HistoryAssumption DEF Hours
  <2>3. ASSUME NEW e \in DOMAIN episodes, ~IsNew(e, Day)
        PROVE  ~IsNew(e, Day)'
    <3>1. e[1] \in Int
      BY <2>2 DEF TypeOK
    <3>2. QED
      BY <2>1, <2>3, <3>1 DEF IsNew, ReadThrough
  <2>4. ASSUME NEW e \in DOMAIN episodes', mark' = mark, e[1] > HourOf(mark), e \in Listed(Day)'
        PROVE  e \in HistoryPage(Day)'.unread
    <3>1. e[1] \in Hours
      BY DEF TypeOK
    <3>2. e[1] > mark
      BY <2>1, <2>4, <3>1, LaterHours
    <3>3. IsNew(e, Day)'
      BY <2>1, <2>2, <2>4, <3>1, <3>2 DEF IsNew, ReadThrough
    <3>4. HistoryPage(Day)'.unread = {f \in Listed(Day)' : IsNew(f, Day)'}
      BY DEF HistoryPage
    <3>5. QED
      BY <2>4, <3>3, <3>4
  <2>5. QED
    BY <2>1, <2>3, <2>4
<1>2. QED
  BY <1>1, Invariance, PTL DEF Spec, ReadOnce

-----------------------------------------------------------------------------
(* The chart and the table.                                                *)

LEMMA WindowsFinite ==
    ASSUME TypeOK, NEW length
    PROVE  /\ IsFiniteSet(InWindow(length)) /\ InWindow(length) \subseteq Hours
           /\ \A S \in SUBSET DOMAIN episodes : IsFiniteSet(S)
<1>1. IsFiniteSet(Hours)
  <2>1. IsFiniteSet(0..MaxNow)
    BY HistoryAssumption, FS_Interval
  <2> DEFINE hour == [t \in 0..MaxNow |-> HourOf(t)]
  <2>2. hour \in Surjection(0..MaxNow, Hours)
    BY DEF Surjection, Hours
  <2> HIDE DEF hour
  <2>3. QED
    BY <2>1, <2>2, FS_Surjection
<1>2. InWindow(length) \in SUBSET Hours
  BY DEF InWindow
<1>3. IsFiniteSet(Hours \X Sources)
  BY <1>1, HistoryAssumption, FS_Product
<1>4. DOMAIN episodes \in SUBSET (Hours \X Sources)
  BY DEF TypeOK
<1>5. QED
  BY <1>1, <1>2, <1>3, <1>4, FS_Subset

Counts(n) == [e \in DOMAIN episodes |-> Tier(episodes[e], n)]
EpisodesOf(h) == {e \in DOMAIN episodes : e[1] = h}

LEMMA CountsAre ==
    ASSUME Booked, NEW n \in {1, 2}
    PROVE  \A e \in DOMAIN episodes : Counts(n)[e] \in Nat /\ Counts(n)[e] = Tier(episodes[e], n)
<1> SUFFICES ASSUME NEW e \in DOMAIN episodes PROVE Tier(episodes[e], n) \in Nat
  BY DEF Counts
<1>1. episodes[e] \in Row
  BY DEF Booked
<1>2. QED
  BY <1>1 DEF Row, Tier

\* An hour's episodes are one for each source that has one.
LEMMA HourIsDecided ==
    ASSUME TypeOK, Booked, NEW h \in Hours, NEW n \in {1, 2}
    PROVE  Total(Counts(n), EpisodesOf(h)) = Total(Decided(h, n), Sources)
<1>1. PICK f, g, S : f = Counts(n) /\ g = Decided(h, n) /\ S = EpisodesOf(h)
  OBVIOUS
<1>2. S \subseteq DOMAIN episodes /\ IsFiniteSet(S) /\ IsFiniteSet(Sources)
  BY <1>1, WindowsFinite, HistoryAssumption DEF EpisodesOf
<1>3. \A e \in S : f[e] \in Nat /\ f[e] = Tier(episodes[e], n)
  BY <1>1, <1>2, CountsAre
<1>4. \A e \in S : e[2] \in Sources /\ e = <<h, e[2]>>
  BY <1>1 DEF EpisodesOf, TypeOK
<1> DEFINE k == [e \in S |-> e[2]]
           part == [s \in Sources |-> {e \in S : e[2] = s}]
<1>5. ASSUME NEW s \in Sources PROVE g[s] = SumFunctionOnSet(f, part[s])
  <2>1. CASE <<h, s>> \in DOMAIN episodes
    <3>1. PICK e : e = <<h, s>>
      OBVIOUS
    <3>2. e \in S /\ part[s] = {e}
      BY <1>1, <1>4, <2>1, <3>1 DEF EpisodesOf
    <3>3. SumFunctionOnSet(f, {e}) = f[e]
      <4>1. f[e] \in Int
        BY <1>3, <3>2
      <4>2. QED
        BY ONLY <4>1, SumSingle
    <3>4. g[s] = Tier(episodes[e], n)
      BY <1>1, <2>1, <3>1 DEF Decided
    <3>5. QED
      BY <1>3, <3>2, <3>3, <3>4
  <2>2. CASE <<h, s>> \notin DOMAIN episodes
    <3>1. part[s] = {}
      BY <1>2, <1>4, <2>2
    <3>2. g[s] = 0
      BY <1>1, <2>2 DEF Decided
    <3>3. QED
      BY <3>1, <3>2, SumEmpty
  <2>3. QED
    BY <2>1, <2>2
<1>6. PICK kk, pp : kk = k /\ pp = part
  OBVIOUS
<1>7. /\ \A e \in S : f[e] \in Int
      /\ \A e \in S : kk[e] \in Sources
      /\ \A s \in Sources : \A e : e \in pp[s] <=> e \in S /\ kk[e] = s
      /\ \A s \in Sources : g[s] = SumFunctionOnSet(f, pp[s])
  BY <1>3, <1>4, <1>5, <1>6
<1> HIDE DEF k, part
<1>8. SumFunctionOnSet(f, S) = SumFunctionOnSet(g, Sources)
  BY ONLY <1>2, <1>7, SumParts
<1>9. QED
  BY <1>1, <1>8 DEF Total

\* When nothing of an hour is under way or lost, its episodes are its row.
LEMMA SettledBalances ==
    ASSUME TypeOK, Booked, Balanced, NEW h \in Hours, Settled(h), NEW n \in {1, 2}
    PROVE  Total(Counts(n), EpisodesOf(h)) = Tier(series[h], n)
<1>1. PICK g : g = Owed(h, n)
  OBVIOUS
<1>2. \A w \in Workers : g[w] = 0
  BY <1>1 DEF Owed, Settled
<1>3. SumFunctionOnSet(g, Workers) = 0
  BY <1>2, HistoryAssumption, SumZero
<1>4. Total(Decided(h, n), Sources) = Tier(series[h], n) + 0
  BY <1>1, <1>3 DEF Balanced, Settled, Total
<1>5. QED
  BY <1>4, HourIsDecided, TotalsAre

LEMMA SettledHasBatch ==
    ASSUME TypeOK, Booked, Balanced, NEW h \in Hours, Settled(h), EpisodesOf(h) # {}
    PROVE  series[h].batches > 0
<1>1. PICK e \in EpisodesOf(h) : TRUE
  OBVIOUS
<1>2. e \in DOMAIN episodes /\ episodes[e].tier1 + episodes[e].tier2 > 0 /\ episodes[e] \in Row
  BY DEF EpisodesOf, Booked
<1>3. PICK n \in {1, 2} : Tier(episodes[e], n) > 0
  BY <1>2 DEF Tier, Row
<1>4. PICK f, S : f = Counts(n) /\ S = EpisodesOf(h)
  OBVIOUS
<1>5. \A d \in S : f[d] \in Nat
  BY <1>4, CountsAre DEF EpisodesOf
<1>6. IsFiniteSet(S) /\ e \in S /\ f[e] = Tier(episodes[e], n)
  BY <1>2, <1>4, CountsAre, WindowsFinite DEF EpisodesOf
<1>7. f[e] <= SumFunctionOnSet(f, S)
  BY <1>5, <1>6, SumNat
<1>8. SumFunctionOnSet(f, S) = Tier(series[h], n)
  BY <1>4, SettledBalances DEF Total
<1>9. PICK row : row = series[h] /\ row \in Hour
  BY DEF Booked
<1>10. row.tier1 + row.tier2 > 0
  BY <1>3, <1>5, <1>6, <1>7, <1>8, <1>9 DEF Tier, Hour
<1>11. QED
  BY <1>9, <1>10 DEF Booked

\* When every hour of a window is settled, its episodes are its rows.
LEMMA WindowBalances ==
    ASSUME TypeOK, Booked, Balanced, NEW length, NEW n \in {1, 2}, \A h \in InWindow(length) : Settled(h)
    PROVE  Total(Counts(n), Listed(length)) =
            Total([h \in InWindow(length) |-> Tier(series[h], n)], InWindow(length))
<1>1. PICK f, g, S, W : /\ f = Counts(n) /\ S = Listed(length) /\ W = InWindow(length)
                        /\ g = [h \in W |-> Tier(series[h], n)]
  OBVIOUS
<1>2. S \subseteq DOMAIN episodes /\ IsFiniteSet(S) /\ IsFiniteSet(W) /\ W \subseteq Hours
  BY <1>1, WindowsFinite DEF Listed
<1>3. \A e \in S : f[e] \in Int /\ e[1] \in W
  BY <1>1, <1>2, CountsAre DEF Listed
<1> DEFINE k == [e \in S |-> e[1]]
           part == [h \in W |-> {e \in S : e[1] = h}]
<1>4. ASSUME NEW h \in W PROVE g[h] = SumFunctionOnSet(f, part[h])
  <2>1. part[h] = EpisodesOf(h)
    BY <1>1, <1>4 DEF EpisodesOf, Listed
  <2>2. Total(Counts(n), EpisodesOf(h)) = Tier(series[h], n)
    BY <1>1, <1>2, SettledBalances
  <2>3. QED
    BY <1>1, <2>1, <2>2 DEF Total
<1>5. PICK kk, pp : kk = k /\ pp = part
  OBVIOUS
<1>6. /\ \A e \in S : f[e] \in Int
      /\ \A e \in S : kk[e] \in W
      /\ \A h \in W : \A e : e \in pp[h] <=> e \in S /\ kk[e] = h
      /\ \A h \in W : g[h] = SumFunctionOnSet(f, pp[h])
  BY <1>3, <1>4, <1>5
<1> HIDE DEF k, part
<1>7. SumFunctionOnSet(f, S) = SumFunctionOnSet(g, W)
  BY ONLY <1>2, <1>6, SumParts
<1>8. QED
  BY <1>1, <1>7 DEF Total

\* A later hour is never drawn before an earlier one.
LEMMA LeftGrows ==
    ASSUME TypeOK, NEW length \in {Day, Week}, NEW e \in DOMAIN episodes, NEW f \in DOMAIN episodes, e[1] <= f[1]
    PROVE  Left(e, length) <= Left(f, length)
<1>1. length \in Nat \ {0} /\ now \in Nat
  BY NowInHours, HistoryAssumption
<1>2. e[1] \in Int /\ f[1] \in Int
  BY HoursOfTime, HistoryAssumption DEF TypeOK, Hours
<1>3. PICK x \in Int, y \in Int : x = 100 * (e[1] - (now - length)) /\ y = 100 * (f[1] - (now - length)) /\ x <= y
  BY <1>1, <1>2
<1>4. x \div length \in Int /\ y \div length \in Int /\ x \div length <= y \div length
  BY <1>1, <1>3
<1>5. /\ Left(e, length) = LET left == x \div length IN IF left < 0 THEN 0 ELSE IF left > 100 THEN 100 ELSE left
      /\ Left(f, length) = LET left == y \div length IN IF left < 0 THEN 0 ELSE IF left > 100 THEN 100 ELSE left
  BY <1>3 DEF Left
<1>6. PICK a \in Int, b \in Int : a = x \div length /\ b = y \div length
  BY <1>4
<1>7. QED
  BY <1>4, <1>5, <1>6

\* The lanes of the gate screen add up: no hour stops more than it measured,
\* and so no window does.
LEMMA LanesAddUp ==
    ASSUME TypeOK, Booked, NEW length
    PROVE  LET lanes == Flow(length) IN lanes.measured = lanes.passed + lanes.slowed + lanes.blocked
<1> DEFINE W == InWindow(length)
           Of(lane) == [h \in Hours |-> series[h][lane]]
           rest == [h \in Hours |-> series[h]["requests"] - series[h]["tier1"] - series[h]["tier2"]]
           both == [h \in Hours |-> series[h]["tier1"] + series[h]["tier2"]]
<1>1. PICK V, q, a, b, r, c : /\ V = W /\ q = Of("requests") /\ a = Of("tier1") /\ b = Of("tier2")
                              /\ r = rest /\ c = both
  OBVIOUS
<1>2. IsFiniteSet(V) /\ V \subseteq Hours
  BY <1>1, WindowsFinite
<1>3. \A h \in V : /\ a[h] \in Int /\ b[h] \in Int /\ q[h] \in Int /\ r[h] \in Nat
                   /\ c[h] = a[h] + b[h] /\ c[h] \in Int /\ q[h] = c[h] + r[h]
  <2> SUFFICES ASSUME NEW h \in V
               PROVE  /\ a[h] \in Int /\ b[h] \in Int /\ q[h] \in Int /\ r[h] \in Nat
                      /\ c[h] = a[h] + b[h] /\ c[h] \in Int /\ q[h] = c[h] + r[h]
    OBVIOUS
  <2>1. series[h] \in Hour /\ series[h].tier1 + series[h].tier2 <= series[h].requests
    BY <1>2 DEF Booked
  <2>2. PICK t1 \in Nat, t2 \in Nat, n \in Nat :
            t1 = series[h].tier1 /\ t2 = series[h].tier2 /\ n = series[h].requests /\ t1 + t2 <= n
    BY <2>1 DEF Hour
  <2>3. a[h] = t1 /\ b[h] = t2 /\ q[h] = n /\ r[h] = n - t1 - t2 /\ c[h] = t1 + t2
    BY <1>1, <1>2, <2>2
  <2>4. QED
    BY <2>2, <2>3
<1>4. SumFunctionOnSet(c, V) = SumFunctionOnSet(a, V) + SumFunctionOnSet(b, V)
  BY ONLY <1>2, <1>3, SumPlus
<1>5. SumFunctionOnSet(q, V) = SumFunctionOnSet(c, V) + SumFunctionOnSet(r, V)
  BY ONLY <1>2, <1>3, SumPlus
<1>6. SumFunctionOnSet(r, V) \in Nat
  BY ONLY <1>2, <1>3, SumNat
<1>7. SumFunctionOnSet(a, V) \in Int /\ SumFunctionOnSet(b, V) \in Int
  BY ONLY <1>2, <1>3, SumInt
<1>8. PICK m, s1, s2, d : /\ m = SumFunctionOnSet(q, V) /\ s1 = SumFunctionOnSet(a, V)
                         /\ s2 = SumFunctionOnSet(b, V) /\ d = SumFunctionOnSet(r, V)
  OBVIOUS
<1>9. s1 \in Int /\ s2 \in Int /\ d \in Nat /\ m = (s1 + s2) + d
  BY <1>4, <1>5, <1>6, <1>7, <1>8
<1>10. m = Total(Of("requests"), W) /\ s1 = Total(Of("tier1"), W) /\ s2 = Total(Of("tier2"), W)
  BY <1>1, <1>8 DEF Total
<1>11. Flow(length) = [measured |-> m, slowed |-> s1, blocked |-> s2,
                       passed |-> IF m - s1 - s2 > 0 THEN m - s1 - s2 ELSE 0]
  BY <1>10 DEF Flow
<1>12. QED
  BY <1>9, <1>11

\* ChartIsTheTable of every reachable state, whatever the sources, loads and
\* lengths of the windows: in an hour that is settled, and in a window whose
\* hours are, the two tables that are written apart say the same.
THEOREM ChartTellsTheTable == Spec => []ChartIsTheTable
<1>1. IInv /\ Booked /\ Balanced => ChartIsTheTable
  <2> SUFFICES ASSUME IInv, Booked, Balanced, NEW length \in {Day, Week}
               PROVE  LET page  == HistoryPage(length)
                          Of(h) == {e \in page.episodes : e[1] = h}
                      IN /\ \A h \in DOMAIN page.series : Settled(h) =>
                            /\ Slowed(Of(h)) = page.series[h].tier1
                            /\ Blocked(Of(h)) = page.series[h].tier2
                            /\ Of(h) # {} => page.series[h].batches > 0
                         /\ (\A h \in DOMAIN page.series : Settled(h)) =>
                            /\ page.blocked = Total([h \in DOMAIN page.series |-> page.series[h].tier2],
                                                    DOMAIN page.series)
                            /\ page.slowed = Total([h \in DOMAIN page.series |-> page.series[h].tier1],
                                                   DOMAIN page.series)
                         /\ \A e, f \in page.episodes : e[1] <= f[1] => page.left[e] <= page.left[f]
                         /\ LET lanes == Flow(length) IN lanes.measured = lanes.passed + lanes.slowed + lanes.blocked
    BY DEF ChartIsTheTable
  <2> DEFINE W == InWindow(length)
             page == HistoryPage(length)
             Of(h) == {e \in Listed(length) : e[1] = h}
  <2>1. TypeOK
    BY DEF IInv
  <2>2. /\ page.episodes = Listed(length) /\ page.series = [h \in W |-> series[h]]
        /\ page.blocked = Blocked(Listed(length)) /\ page.slowed = Slowed(Listed(length))
        /\ page.left = [e \in Listed(length) |-> Left(e, length)]
    BY DEF HistoryPage
  <2>3. \A S : Slowed(S) = Total(Counts(1), S) /\ Blocked(S) = Total(Counts(2), S)
    <3>1. Counts(1) = [e \in DOMAIN episodes |-> episodes[e].tier1]
          /\ Counts(2) = [e \in DOMAIN episodes |-> episodes[e].tier2]
      BY DEF Counts, Tier
    <3>2. QED
      BY <3>1 DEF Slowed, Blocked
  <2>4. W \subseteq Hours
    BY <2>1, WindowsFinite
  <2>5. ASSUME NEW h \in W, Settled(h)
        PROVE  /\ Slowed(Of(h)) = series[h].tier1
               /\ Blocked(Of(h)) = series[h].tier2
               /\ Of(h) # {} => series[h].batches > 0
    <3>1. Of(h) = EpisodesOf(h)
      BY DEF Listed, EpisodesOf
    <3>2. Tier(series[h], 1) = series[h].tier1 /\ Tier(series[h], 2) = series[h].tier2
      BY DEF Tier
    <3>3. Total(Counts(1), EpisodesOf(h)) = Tier(series[h], 1) /\ Total(Counts(2), EpisodesOf(h)) = Tier(series[h], 2)
      BY <2>1, <2>4, <2>5, SettledBalances
    <3>4. EpisodesOf(h) # {} => series[h].batches > 0
      BY <2>1, <2>4, <2>5, SettledHasBatch
    <3> HIDE DEF Of
    <3>5. QED
      BY <2>3, <3>1, <3>2, <3>3, <3>4
  <2>6. ASSUME \A h \in W : Settled(h)
        PROVE  /\ Blocked(Listed(length)) = Total([h \in W |-> series[h].tier2], W)
               /\ Slowed(Listed(length)) = Total([h \in W |-> series[h].tier1], W)
    <3>1. /\ [h \in W |-> Tier(series[h], 1)] = [h \in W |-> series[h].tier1]
          /\ [h \in W |-> Tier(series[h], 2)] = [h \in W |-> series[h].tier2]
      BY DEF Tier
    <3>2. /\ Total(Counts(1), Listed(length)) = Total([h \in W |-> Tier(series[h], 1)], W)
          /\ Total(Counts(2), Listed(length)) = Total([h \in W |-> Tier(series[h], 2)], W)
      BY <2>1, <2>6, WindowBalances
    <3>3. QED
      BY <2>3, <3>1, <3>2
  <2>7. ASSUME NEW e \in Listed(length), NEW f \in Listed(length), e[1] <= f[1]
        PROVE  Left(e, length) <= Left(f, length)
    BY <2>1, <2>7, LeftGrows DEF Listed
  <2>8. LET lanes == Flow(length) IN lanes.measured = lanes.passed + lanes.slowed + lanes.blocked
    BY <2>1, LanesAddUp
  <2>9. /\ DOMAIN page.series = W
        /\ \A h \in W : page.series[h] = series[h]
        /\ [h \in DOMAIN page.series |-> page.series[h].tier1] = [h \in W |-> series[h].tier1]
        /\ [h \in DOMAIN page.series |-> page.series[h].tier2] = [h \in W |-> series[h].tier2]
    BY <2>2
  <2>10. \A e, f \in page.episodes : e[1] <= f[1] => page.left[e] <= page.left[f]
    BY <2>2, <2>7
  <2> HIDE DEF W, page
  <2>11. \A h \in DOMAIN page.series : Settled(h) =>
            LET mine == {e \in page.episodes : e[1] = h} IN
            /\ Slowed(mine) = page.series[h].tier1
            /\ Blocked(mine) = page.series[h].tier2
            /\ mine # {} => page.series[h].batches > 0
    BY <2>2, <2>5, <2>9
  <2>12. (\A h \in DOMAIN page.series : Settled(h)) =>
            /\ page.blocked = Total([h \in DOMAIN page.series |-> page.series[h].tier2], DOMAIN page.series)
            /\ page.slowed = Total([h \in DOMAIN page.series |-> page.series[h].tier1], DOMAIN page.series)
    BY <2>2, <2>6, <2>9
  <2>13. QED
    BY <2>8, <2>10, <2>11, <2>12 DEF page
<1>2. QED
  BY <1>1, BooksInvariance, PTL
=============================================================================

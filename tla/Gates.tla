-------------------------------- MODULE Gates --------------------------------
(***************************************************************************)
(* A tenant's settings: operators move its two gates, each by a check and  *)
(* a write, and turn enforcement off and on; the ledger is told            *)
(* afterwards.  Batches are judged by the gates their request read when it *)
(* was authenticated, and the console previews a move from the hourly      *)
(* shape of what was left alone.                                           *)
(***************************************************************************)
EXTENDS Scoring, Sequences

CONSTANTS
    Operators,      \* sessions of the tenant's console
    Workers,        \* requests the backend may be handling at once
    Loads,          \* the sets of readings a batch may come with
    Shipped,        \* TIER1_Z and TIER2_Z
    HourLength,     \* ticks in an hour
    Window,         \* ticks the curve looks back
    MinuteLength,   \* ticks the ledger's page can tell apart
    MaxNow,         \* bound: the last tick
    MaxBatches,     \* bound: batches
    MaxMoves        \* bound: moves of a gate

\* A reading is a number of the machine: there are finitely many.
ASSUME GatesAssumption ==
    /\ Loads \subseteq SUBSET Int
    /\ IsFiniteSet(UNION Loads)
    /\ Shipped \in [tier1_z : Legal, tier2_z : Legal]
    /\ Shipped.tier2_z < Shipped.tier1_z
    /\ HourLength \in Nat \ {0}
    /\ MinuteLength \in Nat \ {0}
    /\ MaxNow \in Nat
    /\ MaxBatches \in Nat

Readings == UNION Loads
HourOf(t) == (t \div HourLength) * HourLength
Hours == {HourOf(t) : t \in 0..MaxNow}
Whiches == {"tier1_z", "tier2_z"}
Settings == Whiches \union {"enforcement"}
Values == Legal \union {0, 1}
Other(which) == IF which = "tier1_z" THEN "tier2_z" ELSE "tier1_z"

VARIABLES
    now,        \* the clock
    gates,      \* the gates of record, on the Tenants item
    enforce,    \* 1, or 0 while enforce_paused_at is on it
    mover,      \* where each operator's move is
    ledger,     \* the rows of the settings ledger, in the order of their keys
    batch,      \* the request each worker is handling
    series,     \* the hourly rows: how many readings each bin holds
    batches,    \* batches so far
    leftAlone,  \* ghost: by hour, how often each reading was recorded as normal
    raced,      \* ghost: gates whose last write was on a stale reading of the other
    untold      \* ghost: settings of which the ledger missed a change or has two out of order

gateVars  == <<gates, enforce, mover, ledger, raced, untold>>
batchVars == <<batch, series, batches, leftAlone>>
vars      == <<now, gateVars, batchVars>>

Idle == [pc |-> "idle"]

Init ==
    /\ now = 0
    /\ gates = Shipped
    /\ enforce = 1
    /\ mover = [o \in Operators |-> Idle]
    /\ ledger = <<>>
    /\ batch = [w \in Workers |-> Idle]
    /\ series = [h \in Hours |-> [i \in 1..Bins |-> 0]]
    /\ batches = 0
    /\ leftAlone = [h \in Hours |-> [z \in Readings |-> 0]]
    /\ raced = {}
    /\ untold = {}

-----------------------------------------------------------------------------
(* move_gate: the tenant is read, the gate is set, the ledger is told.     *)

InOrder(which, z, other) == IF which = "tier1_z" THEN z > other ELSE z < other

\* The bound on moves, those under way included.
Room == Len(ledger) + Cardinality({p \in Operators : mover[p] # Idle}) < MaxMoves

\* Mutant: the move is not compared with the other gate.
CheckPosition(o, which, sigma) ==
    /\ mover[o] = Idle
    /\ Room
    /\ sigma \in Lines
    /\ mover' = [mover EXCEPT ![o] = [pc |-> "checked", which |-> which, z |-> -sigma,
                                      other |-> gates[Other(which)]]]
    /\ UNCHANGED <<now, gates, enforce, ledger, raced, untold, batchVars>>

\* One of the legal positions, on the right side of the other gate as read.
CheckMove(o, which, sigma) ==
    /\ mover[o] = Idle
    /\ Room
    /\ sigma \in Lines
    /\ InOrder(which, -sigma, gates[Other(which)])
    /\ mover' = [mover EXCEPT ![o] = [pc |-> "checked", which |-> which, z |-> -sigma,
                                      other |-> gates[Other(which)]]]
    /\ UNCHANGED <<now, gates, enforce, ledger, raced, untold, batchVars>>

\* Changes of a setting that were made and that the ledger has yet to hear of.
Unaudited(which) == {p \in Operators : mover[p].pc = "set" /\ mover[p].which = which}

\* set_threshold, which returns the value it replaced.
SetThreshold(o) ==
    LET m == mover[o] IN
    /\ m.pc = "checked"
    /\ gates' = [gates EXCEPT ![m.which] = m.z]
    /\ mover' = [mover EXCEPT ![o] = [pc |-> "set", which |-> m.which, z |-> m.z,
                                      old |-> gates[m.which]]]
    /\ raced' = IF gates[Other(m.which)] = m.other THEN {} ELSE {m.which}
    /\ untold' = IF Unaudited(m.which) = {} THEN untold ELSE untold \union {m.which}
    /\ UNCHANGED <<now, enforce, ledger, batchVars>>

\* set_enforcement.  The row of the ledger is written from the new state: the
\* old one, which the update returns, is not looked at.
SetEnforcement(o, on) ==
    /\ mover[o] = Idle
    /\ Room
    /\ enforce' = on
    /\ mover' = [mover EXCEPT ![o] = [pc |-> "set", which |-> "enforcement", z |-> on, old |-> 1 - on]]
    /\ untold' = IF Unaudited("enforcement") = {} THEN untold ELSE untold \union {"enforcement"}
    /\ UNCHANGED <<now, gates, ledger, raced, batchVars>>

\* Mutant: the row's key is its second alone, and replaces another's.
AuditBySecond(o) ==
    LET m == mover[o] IN
    /\ m.pc = "set"
    /\ mover' = [mover EXCEPT ![o] = Idle]
    /\ ledger' = SelectSeq(ledger, LAMBDA e : e.at # now)
                    \o <<[at |-> now, what |-> m.which, old |-> m.old, new |-> m.z]>>
    /\ UNCHANGED <<now, gates, enforce, raced, untold, batchVars>>

\* record_setting, at the time it is called and with a key of its own; it is
\* wrapped, so a row that cannot be written is lost and the move stands.
Audit(o) ==
    LET m == mover[o] IN
    /\ m.pc = "set"
    /\ mover' = [mover EXCEPT ![o] = Idle]
    /\ \/ /\ ledger' = Append(ledger, [at |-> now, what |-> m.which, old |-> m.old, new |-> m.z])
          /\ UNCHANGED untold
       \/ untold' = untold \union {m.which} /\ UNCHANGED ledger
    /\ UNCHANGED <<now, gates, enforce, raced, batchVars>>

-----------------------------------------------------------------------------
(* A batch, as far as its readings go.                                     *)

\* authenticated_agent reads the tenant item, and the gates with it.
Authenticate(w, zs) ==
    /\ batch[w] = Idle
    /\ batches < MaxBatches
    /\ batches' = batches + 1
    /\ batch' = [batch EXCEPT ![w] = [pc |-> "judging", zs |-> zs, gates |-> gates,
                                      hour |-> HourOf(now)]]
    /\ UNCHANGED <<now, gateVars, series, leftAlone>>

Normal(b) == {z \in b.zs : Classify(z, b.gates) = 0}

\* record_traffic, one ADD on the row of the hour the batch came in, for the
\* sources below the gates; wrapped, so it may be lost.
RecordTraffic(w) ==
    LET b == batch[w] IN
    /\ b.pc = "judging"
    /\ batch' = [batch EXCEPT ![w] = Idle]
    /\ \/ /\ series' = [series EXCEPT ![b.hour] =
                [i \in 1..Bins |-> @[i] + Cardinality({z \in Normal(b) : BinOf(z) = i})]]
          /\ leftAlone' = [leftAlone EXCEPT ![b.hour] =
                [z \in Readings |-> @[z] + IF z \in Normal(b) THEN 1 ELSE 0]]
       \/ UNCHANGED <<series, leftAlone>>
    /\ UNCHANGED <<now, gateVars, batches>>

\* The clock stops at its bound.
Tick ==
    /\ now' = IF now < MaxNow THEN now + 1 ELSE now
    /\ UNCHANGED <<gateVars, batchVars>>

Next ==
    \/ \E o \in Operators : \/ \E which \in Whiches, sigma \in Lines : CheckMove(o, which, sigma)
                            \/ \E on \in {0, 1} : SetEnforcement(o, on)
                            \/ SetThreshold(o) \/ Audit(o)
    \/ \E w \in Workers : \/ \E zs \in Loads : Authenticate(w, zs)
                          \/ RecordTraffic(w)
    \/ Tick

Spec == Init /\ [][Next]_vars

-----------------------------------------------------------------------------
(* The pages that are drawn from it.                                       *)

\* query_series: the rows of the hours the window touches.
InWindow == {h \in Hours : HourOf(now - Window) <= h /\ h <= now}
Shape == [i \in 1..Bins |-> SumFunctionOnSet([h \in Hours |-> series[h][i]], InWindow)]

\* held are the readings of the sources MitigationState holds.
GatePage(held) == [curve |-> GateCurve(Shape, Cardinality(held)),
             bands |-> AxisBands(gates),
             marks |-> SourceMarks(held, Shipped),
             density |-> DensityBars(Shape)]

\* ledger_rows: sorted by a stamp of whole minutes, latest first, by a sort
\* that keeps rows of the same minute as they came, which is oldest first.
MinuteOf(e) == e.at \div MinuteLength
Above(i, j) == \/ MinuteOf(ledger[i]) > MinuteOf(ledger[j])
               \/ (MinuteOf(ledger[i]) = MinuteOf(ledger[j]) /\ i < j)
Place(i) == 1 + Cardinality({j \in DOMAIN ledger : Above(j, i)})
LedgerRows == [n \in DOMAIN ledger |-> ledger[CHOOSE i \in DOMAIN ledger : Place(i) = n]]

-----------------------------------------------------------------------------
(* Properties.                                                             *)

\* Every gate is a legal line, every counter a count.
TypeOK ==
    /\ now \in 0..MaxNow
    /\ enforce \in {0, 1}
    /\ gates \in [tier1_z : Legal, tier2_z : Legal]
    /\ DOMAIN mover = Operators /\ DOMAIN batch = Workers
    /\ \A o \in Operators : mover[o].pc \in {"idle", "checked", "set"}
    /\ ledger \in Seq([at : 0..MaxNow, what : Settings, old : Values, new : Values])
    /\ \A w \in Workers : batch[w].pc \in {"idle", "judging"}
    /\ series \in [Hours -> [1..Bins -> Nat]]
    /\ leftAlone \in [Hours -> [Readings -> Nat]]
    /\ raced \subseteq Whiches
    /\ untold \subseteq Settings

\* The slow gate stays closer to normal than the block gate, unless the last
\* move was written after the other gate had been moved from where it saw it:
\* the check and the write of move_gate are two calls.
CrossedOnlyByRace == gates.tier1_z > gates.tier2_z \/ raced # {}

\* A setting's value, where it started, and where the first n rows leave it.
Value(which) == IF which = "enforcement" THEN enforce ELSE gates[which]
Start(which) == IF which = "enforcement" THEN 1 ELSE Shipped[which]
Told(rows, which, n) ==
    LET about == {i \in 1..n : rows[i].what = which}
    IN IF about = {} THEN Start(which)
       ELSE rows[CHOOSE i \in about : \A j \in about : j <= i].new

\* The ledger's last word on a setting is the setting, and each move of a gate
\* starts where the rows before it leave the gate, but for a row that was lost
\* or two changes of one setting that overlapped, or one still to be told.  A
\* switch turned off twice is told twice, as if it had been on in between.  The
\* page shows every change once, a later one above an earlier one unless both
\* fall in the same minute.
LedgerTellsTheGate ==
    /\ \A which \in Settings \ untold : Unaudited(which) = {} =>
        /\ Told(ledger, which, Len(ledger)) = Value(which)
        /\ which \in Whiches => \A i \in DOMAIN ledger :
            ledger[i].what = which => ledger[i].old = Told(ledger, which, i - 1)
    /\ Len(LedgerRows) = Len(ledger)
    /\ Range(LedgerRows) = Range(ledger)
    /\ \A i, j \in DOMAIN LedgerRows :
        i < j => LedgerRows[i].at >= LedgerRows[j].at
                 \/ MinuteOf(LedgerRows[i]) = MinuteOf(LedgerRows[j])

LeftAlone(S) ==
    SumFunctionOnSet([h \in Hours |-> SumFunctionOnSet(leftAlone[h], S)], InWindow)

\* What the preview adds to the sources held is, for every legal position,
\* the readings of the window that were left alone and that a gate there
\* catches, and besides them only those on the line itself, which a gate
\* lets through, and those as far out on the harmless side of normal.
CurveIsWhatAGateCatches ==
    \A i \in 1..Bins :
        LET held     == {z \in Readings : Classify(z, gates) # 0}
            caught   == {z \in Readings : z < -Edge(i)}
            onLine   == {z \in Readings : z = -Edge(i)}
            harmless == {z \in Readings : z >= Edge(i)}
        IN GatePage(held).curve[i] - Cardinality(held) = LeftAlone(caught \union onLine \union harmless)

\* The anomalous side of the scale, to beyond its ceiling.
Scale == -(SigmaCeiling + Width)..0

\* The axis shows the gates it judges by: unless the gates are crossed its
\* bands cover it without a gap, each anomalous reading lies in the band of its
\* tier but for one on a line or beyond the ceiling, and
\* the marks have the colour of their tier while the gates are as shipped.
AxisShowsTheGates ==
    LET bands == GatePage({}).bands IN
    gates.tier1_z > gates.tier2_z =>
        /\ \A tier \in 1..2 : bands[tier].lo = bands[tier - 1].hi
        /\ \A tier \in 0..2 : bands[tier].lo <= bands[tier].hi
        /\ \A z \in Scale :
            -z \notin Lines /\ -z < SigmaCeiling =>
                LET band == bands[Classify(z, gates)]
                IN band.lo <= AxisX(z) /\ AxisX(z) <= band.hi
        /\ gates = Shipped => \A z \in Scale :
            -z \notin Lines => TierCss(z, Shipped) = Classify(z, gates)
=============================================================================

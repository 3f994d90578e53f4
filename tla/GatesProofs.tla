----------------------------- MODULE GatesProofs -----------------------------
(***************************************************************************)
(* Theorems about Gates, for any number of operators and requests, any     *)
(* lines and any gates among them.                                         *)
(***************************************************************************)
EXTENDS Gates, Sums

\* A move that has passed its check is a legal one, in order with what it saw
\* of the other gate; a change that is made has an old and a new value.
Moving ==
    \A o \in Operators :
        LET m == mover[o] IN
        /\ m.pc = "checked" => /\ m.which \in Whiches /\ m.z \in Legal /\ m.other \in Legal
                               /\ InOrder(m.which, m.z, m.other)
        /\ m.pc = "set" => m.which \in Settings /\ m.z \in Values /\ m.old \in Values

\* A request has one of the batches in hand, and the hour it came in.
Judging ==
    \A w \in Workers : batch[w].pc = "judging" => batch[w].zs \in Loads /\ batch[w].hour \in Hours

\* Of a setting the ledger has missed nothing of, every row but a switch's
\* starts where the rows before it end, and one change at most is still to be
\* told: without it the rows end at the setting, with it the setting is what
\* the change made it and the rows end where the change began.
Chained ==
    \A which \in Settings \ untold :
        LET end == Told(ledger, which, Len(ledger)) IN
        /\ which \in Whiches => \A i \in DOMAIN ledger :
            ledger[i].what = which => ledger[i].old = Told(ledger, which, i - 1)
        /\ Unaudited(which) = {} => end = Value(which)
        /\ \A p \in Unaudited(which) :
            /\ Unaudited(which) = {p}
            /\ mover[p].z = Value(which)
            /\ which \in Whiches => mover[p].old = end

\* A bin of an hour's row holds the readings of that bin that were left alone.
Binned ==
    \A h \in Hours, i \in 1..Bins :
        series[h][i] = SumFunctionOnSet(leftAlone[h], {z \in Readings : BinOf(z) = i})

IInv == TypeOK /\ Moving /\ Judging /\ CrossedOnlyByRace /\ Chained /\ Binned

-----------------------------------------------------------------------------

\* Every line is positive, and none is beyond the ceiling.
LEMMA LinesPositive == \A n \in Lines : n \in Nat \ {0} /\ n <= SigmaCeiling /\ SigmaCeiling \in Nat
<1> SUFFICES ASSUME NEW i \in 1..Bins
             PROVE  Edge(i) \in Nat \ {0} /\ Edge(i) <= SigmaCeiling /\ SigmaCeiling \in Nat
  BY DEF Lines
<1>1. \A w \in Nat \ {0}, m \in Nat \ {0}, n \in Nat \ {0} : m <= n =>
        w * m \in Nat \ {0} /\ w * m <= w * n /\ w * n \in Nat
  OBVIOUS
<1>2. /\ Lowest + i - 1 \in Nat \ {0} /\ Lowest + Bins - 1 \in Nat \ {0}
      /\ Lowest + i - 1 <= Lowest + Bins - 1
  BY ScoringAssumption
<1>3. QED
  BY <1>1, <1>2, ScoringAssumption DEF Edge, SigmaCeiling

LEMMA LegalNegative == \A z \in Legal : z \in Int /\ z < 0 /\ -z \in Lines /\ -z <= SigmaCeiling
BY LinesPositive DEF Legal

\* What a ledger tells when a row is appended to it: the same by each of its
\* rows, and by the new one its value if it is about the setting.
LEMMA ToldByAppend ==
    ASSUME NEW R, NEW rows \in Seq(R), NEW e \in R, NEW which
    PROVE  LET longer == Append(rows, e) IN
           /\ \A n \in 0..Len(rows) : Told(longer, which, n) = Told(rows, which, n)
           /\ Told(longer, which, Len(longer)) =
                IF e.what = which THEN e.new ELSE Told(rows, which, Len(rows))
<1> DEFINE longer == Append(rows, e)
           l == Len(rows)
           About(s, n) == {i \in 1..n : s[i].what = which}
           Last(S) == CHOOSE i \in S : \A j \in S : j <= i
<1>1. l \in Nat /\ Len(longer) = l + 1 /\ longer[l + 1] = e
      /\ \A i \in 1..l : longer[i] = rows[i]
  OBVIOUS
<1> HIDE DEF longer, l
<1>t. \A s, n : Told(s, which, n) = IF About(s, n) = {} THEN Start(which) ELSE s[Last(About(s, n))].new
  BY DEF Told
<1>2. ASSUME NEW n \in 0..l PROVE Told(longer, which, n) = Told(rows, which, n)
  <2>1. About(longer, n) = About(rows, n)
    BY <1>1
  <2>2. CASE About(rows, n) = {}
    BY <1>t, <2>1, <2>2
  <2>3. CASE About(rows, n) # {}
    <3>1. About(rows, n) \in SUBSET (1..n) /\ n \in Nat
      BY <1>1
    <3>2. \E m \in About(rows, n) : \A k \in About(rows, n) : k <= m
      BY <2>3, <3>1, GreatestOf
    <3>3. Last(About(rows, n)) \in About(rows, n)
      BY <3>2
    <3>4. longer[Last(About(rows, n))] = rows[Last(About(rows, n))]
      BY <1>1, <3>1, <3>3
    <3>5. QED
      <4> HIDE DEF About, Last
      <4>1. QED
        BY <1>t, <2>1, <2>3, <3>4
  <2>4. QED
    BY <2>2, <2>3
<1>3. CASE e.what = which
  <2>1. l + 1 \in About(longer, l + 1)
    BY <1>1, <1>3
  <2>2. \A j \in About(longer, l + 1) : j \in Nat /\ j <= l + 1
    BY <1>1
  <2>3. Last(About(longer, l + 1)) = l + 1
    <3>1. ASSUME NEW i \in About(longer, l + 1), \A j \in About(longer, l + 1) : j <= i
          PROVE  i = l + 1
      BY <1>1, <2>1, <2>2, <3>1
    <3>2. \A j \in About(longer, l + 1) : j <= l + 1
      BY <2>2
    <3> HIDE DEF About
    <3>3. QED
      BY <2>1, <3>1, <3>2
  <2>4. QED
    <3>1. Told(longer, which, l + 1) = e.new
      <4> HIDE DEF About, Last
      <4>1. QED
        BY <1>1, <1>t, <2>1, <2>3
    <3>2. QED
      BY <1>1, <1>2, <1>3, <3>1 DEF longer, l
<1>4. CASE e.what # which
  <2>1. About(longer, l + 1) = About(longer, l)
    BY <1>1, <1>4
  <2>2. Told(longer, which, l + 1) = Told(longer, which, l)
    <3> HIDE DEF About, Last
    <3>1. QED
      BY <1>t, <2>1
  <2>3. QED
    BY <1>1, <1>2, <1>4, <2>2 DEF longer, l
<1>5. QED
  BY <1>2, <1>3, <1>4 DEF longer, l

-----------------------------------------------------------------------------
(* The chain of a setting's rows.                                          *)

LEMMA ChainStarts == Init => Chained
<1> SUFFICES ASSUME Init PROVE Chained
  OBVIOUS
<1>1. ledger = <<>> /\ \A which : Unaudited(which) = {}
  BY DEF Init, Idle, Unaudited
<1>2. \A which : Told(ledger, which, 0) = Start(which)
  BY DEF Told
<1>3. \A which : Start(which) = Value(which)
  BY DEF Init, Start, Value
<1>4. Len(ledger) = 0 /\ DOMAIN ledger = {}
  BY <1>1
<1>5. QED
  BY <1>1, <1>2, <1>3, <1>4 DEF Chained

\* Nothing of it changes unless a change is made or told.
LEMMA ChainKept ==
    ASSUME Chained, UNCHANGED <<gates, enforce, ledger, untold>>,
           \A p \in Operators : \/ mover'[p] = mover[p]
                                \/ mover[p].pc # "set" /\ mover'[p].pc # "set"
    PROVE  Chained'
<1>1. \A which : /\ Unaudited(which)' = Unaudited(which)
                 /\ \A p \in Unaudited(which) : mover'[p] = mover[p]
                 /\ Value(which)' = Value(which)
  BY DEF Unaudited, Value
<1>2. QED
  BY <1>1 DEF Chained

LEMMA ChainUntouched ==
    ASSUME Chained, UNCHANGED gateVars
    PROVE  Chained'
<1>1. UNCHANGED <<gates, enforce, ledger, untold, mover>>
  BY DEF gateVars
<1>2. \A p \in Operators : mover'[p] = mover[p]
  BY <1>1
<1>3. QED
  BY <1>1, <1>2, ChainKept

\* A change is made: to a setting of which another is still to be told the
\* ledger has a gap from here on.
LEMMA ChainSet ==
    ASSUME Chained, NEW o \in Operators, NEW which \in Settings, NEW z, NEW old,
           mover[o].pc # "set", DOMAIN mover = Operators,
           mover' = [mover EXCEPT ![o] = [pc |-> "set", which |-> which, z |-> z, old |-> old]],
           untold' = IF Unaudited(which) = {} THEN untold ELSE untold \union {which},
           UNCHANGED ledger,
           \A other \in Settings \ {which} : Value(other)' = Value(other),
           Value(which)' = z, which \in Whiches => old = Value(which)
    PROVE  Chained'
<1> DEFINE end(w) == Told(ledger, w, Len(ledger))
<1> HIDE DEF end
<1>1. /\ mover'[o] = [pc |-> "set", which |-> which, z |-> z, old |-> old]
      /\ \A p \in Operators \ {o} : mover'[p] = mover[p]
  OBVIOUS
<1>2. \A w \in Settings \ {which} : Unaudited(w)' = Unaudited(w) /\ o \notin Unaudited(w)
  BY <1>1 DEF Unaudited
<1>3. Unaudited(which) = {} => Unaudited(which)' = {o}
  BY <1>1 DEF Unaudited
<1> SUFFICES ASSUME NEW w \in Settings, w \notin untold'
             PROVE  /\ w \in Whiches => \A i \in DOMAIN ledger :
                        ledger[i].what = w => ledger[i].old = Told(ledger, w, i - 1)
                    /\ Unaudited(w)' = {} => end(w) = Value(w)'
                    /\ \A p \in Unaudited(w)' :
                        /\ Unaudited(w)' = {p}
                        /\ mover'[p].z = Value(w)'
                        /\ w \in Whiches => mover'[p].old = end(w)
  BY DEF Chained, end
<1>4. /\ w \in Whiches => \A i \in DOMAIN ledger :
            ledger[i].what = w => ledger[i].old = Told(ledger, w, i - 1)
      /\ Unaudited(w) = {} => end(w) = Value(w)
      /\ \A p \in Unaudited(w) : /\ Unaudited(w) = {p}
                                 /\ mover[p].z = Value(w)
                                 /\ w \in Whiches => mover[p].old = end(w)
  BY DEF Chained, end
<1>5. CASE w = which
  <2>1. Unaudited(which) = {}
    BY <1>5
  <2>2. QED
    BY <1>1, <1>3, <1>4, <1>5, <2>1
<1>6. CASE w # which
  <2>1. \A p \in Unaudited(w) : mover'[p] = mover[p]
    BY <1>1, <1>2, <1>6 DEF Unaudited
  <2>2. QED
    BY <1>2, <1>4, <1>6, <2>1
<1>7. QED
  BY <1>5, <1>6

\* A change is told, or never will be.
LEMMA ChainAudit ==
    ASSUME TypeOK, Moving, Chained, NEW o \in Operators, Audit(o)
    PROVE  Chained'
<1> DEFINE Rows == [at : 0..MaxNow, what : Settings, old : Values, new : Values]
<1>1. PICK which \in Settings, z \in Values, old \in Values :
            which = mover[o].which /\ z = mover[o].z /\ old = mover[o].old
  BY DEF Audit, Moving
<1>2. PICK row \in Rows : row = [at |-> now, what |-> which, old |-> old, new |-> z]
  BY <1>1 DEF TypeOK
<1>3. /\ mover[o].pc = "set" /\ mover' = [mover EXCEPT ![o] = Idle]
      /\ UNCHANGED <<gates, enforce>>
      /\ \/ ledger' = Append(ledger, row) /\ untold' = untold
         \/ untold' = untold \union {which} /\ ledger' = ledger
  BY <1>1, <1>2 DEF Audit
<1>4. /\ o \in Unaudited(which) /\ o \notin Unaudited(which)'
      /\ \A p \in Operators \ {o} : mover'[p] = mover[p]
      /\ \A w \in Settings \ {which} : Unaudited(w)' = Unaudited(w) /\ o \notin Unaudited(w)
      /\ Unaudited(which)' = Unaudited(which) \ {o}
  BY <1>1, <1>3 DEF Unaudited, TypeOK, Idle
<1>5. \A w : Value(w)' = Value(w)
  BY <1>3 DEF Value
<1>6. ledger \in Seq(Rows)
  BY DEF TypeOK
<1> HIDE DEF Rows
<1>7. \A w \in Settings \ {which} : \A p \in Unaudited(w) : mover'[p] = mover[p]
  BY <1>4 DEF Unaudited
<1>8. CASE ledger' = ledger /\ untold' = untold \union {which}
  BY <1>4, <1>5, <1>7, <1>8 DEF Chained
<1>9. CASE ledger' = Append(ledger, row) /\ untold' = untold
  <2> DEFINE l == Len(ledger)
  <2>1. /\ l \in Nat /\ Len(ledger') = l + 1 /\ ledger'[l + 1] = row
        /\ DOMAIN ledger = 1..l /\ DOMAIN ledger' = 1..(l + 1)
        /\ \A i \in 1..l : ledger'[i] = ledger[i]
    BY <1>6, <1>9
  <2>2. \A w : /\ \A n \in 0..l : Told(ledger', w, n) = Told(ledger, w, n)
               /\ Told(ledger', w, l + 1) = IF row.what = w THEN row.new ELSE Told(ledger, w, l)
    BY <1>6, <1>9, <2>1, ToldByAppend
  <2> HIDE DEF l
  <2>3. row.what = which /\ row.new = z /\ row.old = old
    BY <1>2
  <2> SUFFICES ASSUME NEW w \in Settings, w \notin untold
               PROVE  /\ w \in Whiches => \A i \in 1..(l + 1) :
                          ledger'[i].what = w => ledger'[i].old = Told(ledger', w, i - 1)
                      /\ Unaudited(w)' = {} => Told(ledger', w, l + 1) = Value(w)'
                      /\ \A p \in Unaudited(w)' :
                          /\ Unaudited(w)' = {p}
                          /\ mover'[p].z = Value(w)'
                          /\ w \in Whiches => mover'[p].old = Told(ledger', w, l + 1)
    BY <1>9, <2>1 DEF Chained
  <2>4. /\ w \in Whiches => \A i \in 1..l :
              ledger[i].what = w => ledger[i].old = Told(ledger, w, i - 1)
        /\ Unaudited(w) = {} => Told(ledger, w, l) = Value(w)
        /\ \A p \in Unaudited(w) : /\ Unaudited(w) = {p}
                                   /\ mover[p].z = Value(w)
                                   /\ w \in Whiches => mover[p].old = Told(ledger, w, l)
    BY <2>1 DEF Chained, l
  <2>5. ASSUME w \in Whiches, NEW i \in 1..(l + 1), ledger'[i].what = w
        PROVE  ledger'[i].old = Told(ledger', w, i - 1)
    <3>1. CASE i = l + 1
      <4>1. w = which /\ ledger'[i].old = old /\ i - 1 = l /\ l \in 0..l
        BY <2>1, <2>3, <2>5, <3>1
      <4>2. Told(ledger', w, l) = Told(ledger, w, l)
        BY <2>2, <4>1
      <4>3. old = Told(ledger, w, l)
        BY <1>1, <1>4, <2>4, <2>5, <4>1
      <4>4. QED
        BY <4>1, <4>2, <4>3
    <3>2. CASE i # l + 1
      <4>1. i \in 1..l /\ i - 1 \in 0..l
        BY <2>1, <3>2
      <4>2. ledger[i].what = w /\ ledger[i].old = ledger'[i].old
        BY <2>1, <2>5, <4>1
      <4>3. QED
        BY <2>2, <2>4, <2>5, <4>1, <4>2
    <3>3. QED
      BY <3>1, <3>2
  <2>6. CASE w = which
    <3>1. Unaudited(w)' = {} /\ Told(ledger', w, l + 1) = z /\ z = Value(w)'
      BY <1>1, <1>4, <1>5, <2>2, <2>3, <2>4, <2>6
    <3>2. QED
      BY <2>5, <3>1
  <2>7. CASE w # which
    <3>1. Unaudited(w)' = Unaudited(w) /\ Told(ledger', w, l + 1) = Told(ledger, w, l)
      BY <1>4, <2>2, <2>3, <2>7
    <3>2. QED
      BY <1>5, <1>7, <2>4, <2>5, <2>7, <3>1
  <2>8. QED
    BY <2>6, <2>7
<1>10. QED
  BY <1>3, <1>8, <1>9

-----------------------------------------------------------------------------
(* The bins of an hour's row.                                              *)

LEMMA FiniteReadings ==
    /\ IsFiniteSet(Readings) /\ Readings \subseteq Int
    /\ \A i : IsFiniteSet({z \in Readings : BinOf(z) = i})
<1>1. IsFiniteSet(Readings) /\ Readings \subseteq Int
  BY GatesAssumption DEF Readings
<1>2. QED
  BY <1>1, FS_Subset

LEMMA BinsStart == Init => Binned
<1> SUFFICES ASSUME Init, NEW h \in Hours, NEW i \in 1..Bins
             PROVE  series[h][i] = SumFunctionOnSet(leftAlone[h], {z \in Readings : BinOf(z) = i})
  BY DEF Binned
<1> DEFINE R == {z \in Readings : BinOf(z) = i}
<1>1. IsFiniteSet(R)
  BY FiniteReadings
<1>2. PICK f, N : f = leftAlone[h] /\ N = {}
  OBVIOUS
<1>3. \A z \in R : f[z] = IF z \in N THEN 1 ELSE 0
  BY <1>2 DEF Init
<1>4. series[h][i] = 0
  BY DEF Init
<1> HIDE DEF R
<1>5. SumFunctionOnSet(f, R) = Cardinality(R \intersect N)
  BY <1>1, <1>3, SumOnes
<1>6. R \intersect N = {}
  BY <1>2
<1>7. SumFunctionOnSet(f, R) = 0
  BY <1>5, <1>6, FS_EmptySet
<1>8. QED
  BY <1>2, <1>4, <1>7 DEF R

\* A batch adds to each bin as many as it adds readings of that bin.
LEMMA BinsAdd ==
    ASSUME TypeOK, Judging, Binned, NEW w \in Workers, RecordTraffic(w)
    PROVE  Binned'
<1> SUFFICES ASSUME NEW h \in Hours, NEW i \in 1..Bins
             PROVE  series'[h][i] = SumFunctionOnSet(leftAlone'[h], {z \in Readings : BinOf(z) = i})
  BY DEF Binned
<1> DEFINE b == batch[w]
           R == {z \in Readings : BinOf(z) = i}
<1>1. IsFiniteSet(R) /\ series[h][i] = SumFunctionOnSet(leftAlone[h], R)
  BY FiniteReadings DEF Binned
<1>2. b.hour \in Hours /\ Normal(b) \subseteq Readings
  BY DEF Judging, RecordTraffic, Normal, Readings
<1>3. /\ DOMAIN series = Hours /\ DOMAIN series[h] = 1..Bins
      /\ DOMAIN leftAlone = Hours /\ DOMAIN leftAlone[h] = Readings
      /\ \A z \in R : leftAlone[h][z] \in Int
  BY DEF TypeOK
<1>4. CASE series'[h] = series[h] /\ leftAlone'[h] = leftAlone[h]
  BY <1>1, <1>4
<1>5. CASE h = b.hour
           /\ series'[h] = [k \in 1..Bins |-> series[h][k] + Cardinality({z \in Normal(b) : BinOf(z) = k})]
           /\ leftAlone'[h] = [z \in Readings |-> leftAlone[h][z] + IF z \in Normal(b) THEN 1 ELSE 0]
  <2> DEFINE ones == [z \in Readings |-> IF z \in Normal(b) THEN 1 ELSE 0]
  <2>1. SumFunctionOnSet(ones, R) = Cardinality(R \intersect Normal(b))
    <3>1. \A z \in R : ones[z] = IF z \in Normal(b) THEN 1 ELSE 0
      OBVIOUS
    <3> HIDE DEF ones, R
    <3>2. QED
      BY <1>1, <3>1, SumOnes
  <2>2. R \intersect Normal(b) = {z \in Normal(b) : BinOf(z) = i}
    BY <1>2
  <2>3. \A z \in R : /\ leftAlone[h][z] \in Int /\ ones[z] \in Int
                     /\ leftAlone'[h][z] = leftAlone[h][z] + ones[z]
    BY <1>3, <1>5
  <2>4. SumFunctionOnSet(leftAlone'[h], R) = SumFunctionOnSet(leftAlone[h], R) + SumFunctionOnSet(ones, R)
    <3> HIDE DEF ones, R
    <3>1. PICK f, g, k : f = leftAlone[h] /\ g = ones /\ k = leftAlone'[h]
      OBVIOUS
    <3>2. \A z \in R : f[z] \in Int /\ g[z] \in Int /\ k[z] = f[z] + g[z]
      BY <2>3, <3>1
    <3>3. SumFunctionOnSet(k, R) = SumFunctionOnSet(f, R) + SumFunctionOnSet(g, R)
      BY <1>1, <3>2, SumPlus
    <3>4. QED
      BY <3>1, <3>3
  <2>5. series'[h][i] = series[h][i] + Cardinality({z \in Normal(b) : BinOf(z) = i})
    BY <1>5
  <2> HIDE DEF ones, R, b
  <2>6. series'[h][i] = SumFunctionOnSet(leftAlone'[h], R)
    BY <1>1, <2>1, <2>2, <2>4, <2>5
  <2>7. QED
    BY <2>6 DEF R
<1>6. QED
  <2>1. CASE UNCHANGED <<series, leftAlone>>
    BY <1>4, <2>1
  <2>2. CASE /\ series' = [series EXCEPT ![b.hour] =
                [k \in 1..Bins |-> @[k] + Cardinality({z \in Normal(b) : BinOf(z) = k})]]
             /\ leftAlone' = [leftAlone EXCEPT ![b.hour] =
                [z \in Readings |-> @[z] + IF z \in Normal(b) THEN 1 ELSE 0]]
    <3>1. CASE h = b.hour
      BY <1>3, <1>5, <2>2, <3>1
    <3>2. CASE h # b.hour
      BY <1>2, <1>3, <1>4, <2>2, <3>2
    <3>3. QED
      BY <3>1, <3>2
  <2>3. QED
    BY <2>1, <2>2 DEF RecordTraffic

LEMMA InitInv == Init => IInv
<1> SUFFICES ASSUME Init PROVE IInv
  OBVIOUS
<1>1. TypeOK
  BY GatesAssumption DEF Init, TypeOK, Idle
<1>2. Moving /\ Judging
  BY DEF Init, Moving, Judging, Idle
<1>3. CrossedOnlyByRace
  BY GatesAssumption, LegalNegative DEF Init, CrossedOnlyByRace
<1>4. QED
  BY <1>1, <1>2, <1>3, ChainStarts, BinsStart DEF IInv

\* A gate's name and value, put on the right side of the other's.
LEMMA Ordered ==
    ASSUME TypeOK, NEW which \in Whiches, NEW z \in Legal, InOrder(which, z, gates[Other(which)])
    PROVE  LET g == [gates EXCEPT ![which] = z] IN
           g \in [tier1_z : Legal, tier2_z : Legal] /\ g.tier1_z > g.tier2_z
BY LegalNegative DEF TypeOK, Whiches, InOrder, Other

LEMMA SetThresholdInv ==
    ASSUME IInv, NEW o \in Operators, SetThreshold(o)
    PROVE  IInv'
<1> DEFINE m == mover[o]
<1> USE DEF IInv
<1>1. /\ m.pc = "checked" /\ m.which \in Whiches /\ m.z \in Legal /\ m.other \in Legal
      /\ InOrder(m.which, m.z, m.other)
      /\ gates' = [gates EXCEPT ![m.which] = m.z]
      /\ mover' = [mover EXCEPT ![o] = [pc |-> "set", which |-> m.which, z |-> m.z,
                                        old |-> gates[m.which]]]
      /\ UNCHANGED <<now, enforce, ledger, batchVars>>
  BY DEF SetThreshold, Moving
<1>2. gates' \in [tier1_z : Legal, tier2_z : Legal] /\ gates[m.which] \in Legal
  BY <1>1 DEF TypeOK, Whiches
<1>3. raced' \subseteq Whiches /\ untold' \subseteq Settings
  BY <1>1 DEF SetThreshold, TypeOK, Whiches, Settings
<1>4. TypeOK'
  BY <1>1, <1>2, <1>3 DEF TypeOK, batchVars
<1>5. Moving'
  BY <1>1, <1>2 DEF Moving, Settings, Values, TypeOK
<1>6. Judging'
  BY <1>1 DEF Judging, batchVars
<1>7. CrossedOnlyByRace'
  <2>1. CASE gates[Other(m.which)] = m.other
    BY <1>1, <2>1, Ordered DEF CrossedOnlyByRace
  <2>2. CASE gates[Other(m.which)] # m.other
    BY <2>2 DEF SetThreshold, CrossedOnlyByRace
  <2>3. QED
    BY <2>1, <2>2
<1>8. Chained'
  <2>1. PICK which \in Whiches, z \in Legal, old \in Legal :
            which = m.which /\ z = m.z /\ old = gates[which]
    BY <1>1, <1>2
  <2>2. mover' = [mover EXCEPT ![o] = [pc |-> "set", which |-> which, z |-> z, old |-> old]]
    BY <1>1, <2>1
  <2>3. untold' = IF Unaudited(which) = {} THEN untold ELSE untold \union {which}
    BY <2>1 DEF SetThreshold
  <2>4. /\ \A other \in Settings \ {which} : Value(other)' = Value(other)
        /\ Value(which)' = z /\ old = Value(which)
    <3>1. gates' = [gates EXCEPT ![which] = z] /\ enforce' = enforce
      BY <1>1, <2>1
    <3>2. gates \in [tier1_z : Legal, tier2_z : Legal]
      BY DEF TypeOK
    <3>3. \A other \in Settings \ {which} : Value(other)' = Value(other)
      BY <3>1, <3>2 DEF Value, Settings, Whiches
    <3>4. Value(which)' = z /\ old = Value(which)
      BY <2>1, <3>1, <3>2 DEF Value, Whiches
    <3>5. QED
      BY <3>3, <3>4
  <2>5. which \in Settings /\ ledger' = ledger /\ mover[o].pc # "set" /\ DOMAIN mover = Operators
    BY <1>1 DEF Settings, TypeOK
  <2>6. QED
    BY <2>2, <2>3, <2>4, <2>5, ChainSet
<1>9. QED
  <2>1. Binned'
    BY <1>1 DEF Binned, batchVars
  <2>2. QED
    BY <1>4, <1>5, <1>6, <1>7, <1>8, <2>1

\* The row of the hour, one more for each reading left alone.
LEMMA RecordTrafficInv ==
    ASSUME IInv, NEW w \in Workers, RecordTraffic(w)
    PROVE  IInv'
<1> DEFINE b == batch[w]
<1> USE DEF IInv
<1>1. b.pc = "judging" /\ b.zs \in Loads /\ b.hour \in Hours
  BY DEF RecordTraffic, Judging
<1>2. \A i \in 1..Bins : Cardinality({z \in Normal(b) : BinOf(z) = i}) \in Nat
  <2> SUFFICES ASSUME NEW i \in 1..Bins PROVE Cardinality({z \in Normal(b) : BinOf(z) = i}) \in Nat
    OBVIOUS
  <2>1. {z \in Normal(b) : BinOf(z) = i} \in SUBSET b.zs /\ IsFiniteSet(b.zs)
    <3>1. b.zs \in SUBSET Readings /\ {z \in Normal(b) : BinOf(z) = i} \in SUBSET b.zs
      BY <1>1 DEF Normal, Readings
    <3>2. QED
      BY <3>1, FiniteReadings, FS_Subset
  <2>2. QED
    BY <2>1, FS_Subset, FS_CardinalityType
<1>3. series' \in [Hours -> [1..Bins -> Nat]]
  <2> DEFINE more == [i \in 1..Bins |-> series[b.hour][i] + Cardinality({z \in Normal(b) : BinOf(z) = i})]
  <2>1. more \in [1..Bins -> Nat]
    <3>1. \A i \in 1..Bins : series[b.hour][i] \in Nat
      BY <1>1 DEF TypeOK
    <3>2. \A i \in 1..Bins : more[i] \in Nat
      BY <1>2, <3>1
    <3>3. QED
      BY <3>2
  <2>2. series' = [series EXCEPT ![b.hour] = more] \/ series' = series
    BY DEF RecordTraffic
  <2> HIDE DEF more
  <2>3. QED
    BY <2>1, <2>2 DEF TypeOK
<1>4. leftAlone' \in [Hours -> [Readings -> Nat]]
  <2> DEFINE more == [z \in Readings |-> leftAlone[b.hour][z] + IF z \in Normal(b) THEN 1 ELSE 0]
  <2>1. more \in [Readings -> Nat]
    BY <1>1 DEF TypeOK
  <2>2. leftAlone' = [leftAlone EXCEPT ![b.hour] = more] \/ leftAlone' = leftAlone
    BY DEF RecordTraffic
  <2> HIDE DEF more
  <2>3. QED
    BY <2>1, <2>2 DEF TypeOK
<1>5. /\ batch' = [batch EXCEPT ![w] = Idle] /\ UNCHANGED <<now, gateVars, batches>>
  BY DEF RecordTraffic
<1>6. TypeOK'
  BY <1>3, <1>4, <1>5 DEF TypeOK, gateVars, Idle
<1>7. Moving' /\ CrossedOnlyByRace'
  BY <1>5 DEF Moving, CrossedOnlyByRace, gateVars
<1>8. Judging'
  BY <1>5 DEF Judging, TypeOK, Idle
<1>9. Chained'
  BY <1>5, ChainUntouched
<1>10. QED
  BY <1>6, <1>7, <1>8, <1>9, BinsAdd

LEMMA AuditInv ==
    ASSUME IInv, NEW o \in Operators, Audit(o)
    PROVE  IInv'
<1> DEFINE m == mover[o]
           row == [at |-> now, what |-> m.which, old |-> m.old, new |-> m.z]
<1> USE DEF IInv
<1>1. m.pc = "set" /\ m.which \in Settings /\ m.z \in Values /\ m.old \in Values
  BY DEF Audit, Moving
<1>2. row \in [at : 0..MaxNow, what : Settings, old : Values, new : Values]
  BY <1>1 DEF TypeOK
<1>3. ledger' \in Seq([at : 0..MaxNow, what : Settings, old : Values, new : Values])
  <2> DEFINE Rows == [at : 0..MaxNow, what : Settings, old : Values, new : Values]
  <2>1. row \in Rows /\ ledger \in Seq(Rows)
    BY <1>2 DEF TypeOK
  <2>2. ledger' = Append(ledger, row) \/ ledger' = ledger
    BY DEF Audit
  <2> HIDE DEF row, Rows
  <2>3. ledger' \in Seq(Rows)
    BY <2>1, <2>2
  <2>4. QED
    BY <2>3 DEF Rows
<1>4. mover' = [mover EXCEPT ![o] = Idle] /\ UNCHANGED <<now, gates, enforce, raced, batchVars>>
  BY DEF Audit
<1>5. TypeOK'
  BY <1>1, <1>3, <1>4 DEF Audit, TypeOK, Idle, batchVars
<1>6. Moving'
  BY <1>4 DEF Moving, TypeOK, Idle
<1>7. Judging' /\ CrossedOnlyByRace'
  BY <1>4 DEF Judging, CrossedOnlyByRace, Binned, batchVars
<1>8. QED
  BY <1>4, <1>5, <1>6, <1>7, ChainAudit DEF Binned, batchVars

LEMMA StepInv == IInv /\ [Next]_vars => IInv'
<1> SUFFICES ASSUME IInv, [Next]_vars PROVE IInv'
  OBVIOUS
<1> USE DEF IInv
<1>1. CASE UNCHANGED vars
  <2>1. Chained'
    BY <1>1, ChainUntouched DEF vars
  <2>2. QED
    BY <1>1, <2>1 DEF vars, gateVars, batchVars, TypeOK, Moving, Judging, CrossedOnlyByRace, Binned
<1>2. ASSUME NEW o \in Operators, NEW which \in Whiches, NEW sigma \in Lines,
             CheckMove(o, which, sigma)
      PROVE  IInv'
  <2>1. -sigma \in Legal /\ gates[Other(which)] \in Legal
    BY DEF Legal, TypeOK, Other, Whiches
  <2>2. /\ mover' = [mover EXCEPT ![o] = [pc |-> "checked", which |-> which, z |-> -sigma,
                                          other |-> gates[Other(which)]]]
        /\ InOrder(which, -sigma, gates[Other(which)])
        /\ UNCHANGED <<now, gates, enforce, ledger, raced, untold, batchVars>>
    BY <1>2 DEF CheckMove
  <2>3. TypeOK'
    BY <2>2 DEF TypeOK, batchVars
  <2>4. Moving'
    BY <2>1, <2>2 DEF Moving, TypeOK
  <2>5. Chained'
    <3>1. \A p \in Operators : \/ mover'[p] = mover[p]
                               \/ mover[p].pc # "set" /\ mover'[p].pc # "set"
      <4>1. DOMAIN mover = Operators /\ mover[o].pc = "idle"
        BY <1>2 DEF CheckMove, TypeOK, Idle
      <4>2. mover'[o].pc = "checked" /\ \A p \in Operators \ {o} : mover'[p] = mover[p]
        BY <2>2, <4>1
      <4>3. QED
        BY <4>1, <4>2
    <3>2. QED
      BY <2>2, <3>1, ChainKept
  <2>6. QED
    BY <2>2, <2>3, <2>4, <2>5 DEF Judging, CrossedOnlyByRace, Binned, batchVars
<1>3. ASSUME NEW o \in Operators, NEW on \in {0, 1}, SetEnforcement(o, on) PROVE IInv'
  <2>1. /\ mover' = [mover EXCEPT ![o] = [pc |-> "set", which |-> "enforcement", z |-> on,
                                          old |-> 1 - on]]
        /\ enforce' = on /\ UNCHANGED <<now, gates, ledger, raced, batchVars>>
        /\ untold' \subseteq Settings
    BY <1>3 DEF SetEnforcement, TypeOK, Settings
  <2>2. TypeOK'
    BY <2>1 DEF TypeOK, batchVars
  <2>3. Moving'
    BY <2>1 DEF Moving, TypeOK, Settings, Values
  <2>4. Chained'
    <3>1. untold' = IF Unaudited("enforcement") = {} THEN untold ELSE untold \union {"enforcement"}
      BY <1>3 DEF SetEnforcement
    <3>2. mover[o].pc # "set" /\ DOMAIN mover = Operators
      BY <1>3 DEF SetEnforcement, TypeOK, Idle
    <3>3. /\ \A other \in Settings \ {"enforcement"} : Value(other)' = Value(other)
          /\ Value("enforcement")' = on
          /\ "enforcement" \in Settings /\ "enforcement" \notin Whiches
      BY <2>1 DEF Value, Settings, Whiches
    <3>4. PICK old : old = 1 - on
      OBVIOUS
    <3>5. QED
      BY <2>1, <3>1, <3>2, <3>3, <3>4, ChainSet
  <2>5. QED
    BY <2>1, <2>2, <2>3, <2>4 DEF Judging, CrossedOnlyByRace, Binned, batchVars
<1>4. ASSUME NEW o \in Operators, SetThreshold(o) PROVE IInv'
  BY <1>4, SetThresholdInv
<1>5. ASSUME NEW o \in Operators, Audit(o) PROVE IInv'
  BY <1>5, AuditInv
<1>6. ASSUME NEW w \in Workers, NEW zs \in Loads, Authenticate(w, zs) PROVE IInv'
  <2>1. HourOf(now) \in Hours
    BY DEF TypeOK, Hours
  <2>2. Chained'
    BY <1>6, ChainUntouched DEF Authenticate
  <2>3. QED
    BY <1>6, <2>1, <2>2 DEF Authenticate, TypeOK, Moving, Judging, CrossedOnlyByRace, Binned, gateVars
<1>7. ASSUME NEW w \in Workers, RecordTraffic(w) PROVE IInv'
  BY <1>7, RecordTrafficInv
<1>8. CASE Tick
  <2>1. Chained'
    BY <1>8, ChainUntouched DEF Tick
  <2>2. QED
    BY <1>8, <2>1, GatesAssumption
    DEF Tick, gateVars, batchVars, TypeOK, Moving, Judging, CrossedOnlyByRace, Binned
<1>9. QED
  BY <1>1, <1>2, <1>3, <1>4, <1>5, <1>6, <1>7, <1>8 DEF Next

LEMMA Invariance == Spec => []IInv
<1>1. Init => IInv
  BY InitInv
<1>2. IInv /\ [Next]_vars => IInv'
  BY StepInv
<1>3. QED
  BY <1>1, <1>2, PTL DEF Spec

\* Every state of the gates, the ledger and the batches is well typed.
THEOREM TypeCorrect == Spec => []TypeOK
<1>1. IInv => TypeOK
  BY DEF IInv
<1>2. QED
  BY Invariance, <1>1, PTL

\* Nothing but the window between the check of a move and its write crosses
\* the gates, and a later move that sees them as they are puts them right.
THEOREM CrossedByRace == Spec => []CrossedOnlyByRace
<1>1. IInv => CrossedOnlyByRace
  BY DEF IInv
<1>2. QED
  BY Invariance, <1>1, PTL

-----------------------------------------------------------------------------
(* The ledger's page.                                                      *)

\* A row's place on the page counts the rows above it, and those are put in a
\* total order by their minutes and then by their keys: every place is taken
\* once, so the page has every row once, and in that order.
LEMMA PageIsRight ==
    ASSUME TypeOK
    PROVE  /\ Len(LedgerRows) = Len(ledger)
           /\ Range(LedgerRows) = Range(ledger)
           /\ \A i, j \in DOMAIN LedgerRows :
                i < j => \/ LedgerRows[i].at >= LedgerRows[j].at
                         \/ MinuteOf(LedgerRows[i]) = MinuteOf(LedgerRows[j])
<1> DEFINE Rows == [at : 0..MaxNow, what : Settings, old : Values, new : Values]
           D == DOMAIN ledger
           l == Len(ledger)
           Row(n) == CHOOSE i \in D : Place(i) = n
<1>1. ledger \in Seq(Rows) /\ l \in Nat /\ D = 1..l /\ \A i \in D : ledger[i] \in Rows
  <2>1. ledger \in Seq(Rows)
    BY DEF TypeOK
  <2> HIDE DEF Rows
  <2>2. QED
    BY <2>1
<1>2. /\ \A i \in D : ledger[i].at \in Int /\ MinuteOf(ledger[i]) \in Int
      /\ \A i, j \in D : ledger[i].at <= ledger[j].at => MinuteOf(ledger[i]) <= MinuteOf(ledger[j])
  <2>1. MinuteLength \in Nat \ {0} /\ MaxNow \in Nat
    BY GatesAssumption
  <2>2. \A x, y \in Int, n \in Nat \ {0} : x \div n \in Int /\ (x <= y => x \div n <= y \div n)
    OBVIOUS
  <2>3. \A i \in D : ledger[i].at \in Int
    BY <1>1, <2>1
  <2>4. QED
    BY <2>1, <2>2, <2>3 DEF MinuteOf
<1> HIDE DEF Rows, D, l
<1>3. /\ \A i \in D : ~Above(i, i)
      /\ \A i, j \in D : i # j => Above(i, j) \/ Above(j, i)
      /\ \A i, j, k \in D : Above(i, j) /\ Above(j, k) => Above(i, k)
  BY <1>1, <1>2 DEF Above
<1>4. \A i \in D : IsFiniteSet({j \in D : Above(j, i)})
  <2>1. IsFiniteSet(D)
    BY <1>1, FS_Interval
  <2>2. QED
    BY <2>1, FS_Subset
<1>5. ASSUME NEW i \in D PROVE Place(i) \in D
  <2> DEFINE S == {j \in D : Above(j, i)}
  <2>1. IsFiniteSet(D \ {i}) /\ Cardinality(D \ {i}) = l - 1
    <3>1. IsFiniteSet(D) /\ Cardinality(D) = l
      <4>1. i \in 1..l /\ 1 \in Int /\ l \in Int /\ ~(1 > l) /\ l - 1 + 1 = l
        BY <1>1
      <4>2. QED
        BY <1>1, <4>1, FS_Interval
    <3>2. QED
      BY <3>1, FS_RemoveElement
  <2>2. S \in SUBSET (D \ {i})
    BY <1>3
  <2>3. Cardinality(S) \in Nat /\ Cardinality(S) <= l - 1
    BY <2>1, <2>2, FS_Subset, FS_CardinalityType
  <2>4. Place(i) = 1 + Cardinality(S)
    BY DEF Place, D
  <2> HIDE DEF S
  <2>5. QED
    BY <1>1, <2>3, <2>4
<1>6. ASSUME NEW i \in D, NEW j \in D, Above(i, j) PROVE Place(i) < Place(j)
  <2> DEFINE S == {k \in D : Above(k, i)}
             T == {k \in D : Above(k, j)}
  <2>1. S \in SUBSET T /\ i \in T /\ i \notin S
    BY <1>3, <1>6
  <2>2. IsFiniteSet(S) /\ IsFiniteSet(T)
    BY <1>4
  <2>3. Place(i) = 1 + Cardinality(S) /\ Place(j) = 1 + Cardinality(T)
    BY DEF Place, D
  <2> HIDE DEF S, T
  <2>4. Cardinality(S) <= Cardinality(T) /\ Cardinality(S) # Cardinality(T)
    BY <2>1, <2>2, FS_Subset
  <2>5. Cardinality(S) \in Nat /\ Cardinality(T) \in Nat
    BY <2>2, FS_CardinalityType
  <2>6. QED
    BY <2>3, <2>4, <2>5
<1>7. \A i, j \in D : Place(i) \in Int /\ (Place(i) = Place(j) => i = j)
                      /\ (Place(i) < Place(j) => Above(i, j))
  <2>1. \A i \in D : Place(i) \in Int
    BY <1>1, <1>5
  <2>2. QED
    BY <1>3, <1>6, <2>1
<1>8. \A n \in D : \E i \in D : Place(i) = n
  <2> DEFINE f == [i \in D |-> Place(i)]
  <2>1. f \in Injection(D, D)
    BY <1>5, <1>7 DEF Injection, IsInjective
  <2>2. IsFiniteSet(D)
    BY <1>1, FS_Interval
  <2>3. f \in Surjection(D, D)
    BY <2>1, <2>2, FS_Injection
  <2>4. QED
    BY <2>3 DEF Surjection
<1>9. \A n \in D : Row(n) \in D /\ Place(Row(n)) = n
  BY <1>8
<1>10. \A i \in D : Place(i) \in D /\ Row(Place(i)) = i
  BY <1>5, <1>7, <1>9
<1>11. LedgerRows = [n \in D |-> ledger[Row(n)]]
  BY DEF LedgerRows, D
<1> HIDE DEF Row
<1>12. LedgerRows \in Seq(Rows) /\ DOMAIN LedgerRows = D /\ Len(LedgerRows) = l
  <2>1. LedgerRows \in [1..l -> Rows]
    BY <1>1, <1>9, <1>11
  <2>2. QED
    BY <1>1, <2>1
<1>13. Range(LedgerRows) = Range(ledger)
  <2>1. \A n \in D : LedgerRows[n] = ledger[Row(n)]
    BY <1>11
  <2>2. Range(LedgerRows) = {LedgerRows[n] : n \in D} /\ Range(ledger) = {ledger[n] : n \in D}
    BY <1>12 DEF Range, D
  <2>3. QED
    BY <1>9, <1>10, <2>1, <2>2
<1>14. ASSUME NEW i \in D, NEW j \in D, i < j
       PROVE  \/ LedgerRows[i].at >= LedgerRows[j].at
              \/ MinuteOf(LedgerRows[i]) = MinuteOf(LedgerRows[j])
  <2>1. LedgerRows[i] = ledger[Row(i)] /\ LedgerRows[j] = ledger[Row(j)]
    BY <1>11
  <2>2. Row(i) \in D /\ Row(j) \in D /\ Above(Row(i), Row(j))
    BY <1>7, <1>9, <1>14
  <2>3. QED
    BY <1>2, <2>1, <2>2 DEF Above
<1>15. QED
  BY <1>12, <1>13, <1>14 DEF l

\* The ledger's last word on a setting is the setting, every move of a gate
\* starts where the one before it ended, and the page shows each row once and
\* in its order, for any number of operators, moves and rows.
THEOREM LedgerIsTold == Spec => []LedgerTellsTheGate
<1>1. IInv => LedgerTellsTheGate
  BY PageIsRight DEF IInv, Chained, LedgerTellsTheGate
<1>2. QED
  BY Invariance, <1>1, PTL

-----------------------------------------------------------------------------
(* The curve.                                                              *)

\* A reading is in a position's bin or a higher one when it lies at least as
\* far out as its line: the lines are in order.
LEMMA BinIs ==
    ASSUME NEW z \in Int
    PROVE  /\ BinOf(z) \in 0..Bins
           /\ \A i \in 1..Bins : BinOf(z) >= i <=> Edge(i) <= Abs(z)
<1> DEFINE S == {k \in 1..Bins : Edge(k) <= Abs(z)}
<1>1. Bins \in Nat \ {0} /\ Abs(z) \in Int
  BY ScoringAssumption DEF Abs
<1>2. \A j, k \in 1..Bins : Edge(j) \in Int /\ (j <= k => Edge(j) <= Edge(k))
  <2>1. \A w \in Nat \ {0}, m \in Nat \ {0}, n \in Nat \ {0} : m <= n => w * m <= w * n
    OBVIOUS
  <2>2. \A j \in 1..Bins : Lowest + j - 1 \in Nat \ {0} /\ Edge(j) \in Int
    BY ScoringAssumption DEF Edge
  <2>3. QED
    BY <2>1, <2>2, ScoringAssumption DEF Edge
<1>3. IsFiniteSet(1..Bins) /\ Cardinality(1..Bins) = Bins
  BY <1>1, FS_Interval
<1>4. IsFiniteSet(S) /\ Cardinality(S) <= Bins /\ Cardinality(S) \in Nat
  <2>1. S \in SUBSET (1..Bins)
    OBVIOUS
  <2> HIDE DEF S
  <2>2. QED
    BY <1>3, <2>1, FS_Subset, FS_CardinalityType
<1>5. BinOf(z) = Cardinality(S)
  BY DEF BinOf
<1>6. ASSUME NEW i \in 1..Bins, Edge(i) <= Abs(z) PROVE Cardinality(S) >= i
  <2>1. 1..i \in SUBSET S
    BY <1>1, <1>2, <1>6
  <2>2. Cardinality(1..i) = i
    BY FS_Interval
  <2> HIDE DEF S
  <2>3. QED
    BY <1>4, <2>1, <2>2, FS_Subset
<1>7. ASSUME NEW i \in 1..Bins, ~(Edge(i) <= Abs(z)) PROVE Cardinality(S) <= i - 1
  <2>1. S \in SUBSET (1..i - 1)
    BY <1>1, <1>2, <1>7
  <2>2. IsFiniteSet(1..i - 1) /\ Cardinality(1..i - 1) = i - 1
    BY FS_Interval
  <2> HIDE DEF S
  <2>3. QED
    BY <2>1, <2>2, FS_Subset
<1> HIDE DEF S
<1>8. ASSUME NEW i \in 1..Bins PROVE Cardinality(S) >= i <=> Edge(i) <= Abs(z)
  BY <1>4, <1>6, <1>7
<1>9. QED
  BY <1>1, <1>4, <1>5, <1>8

\* The curve at a position, above the sources held, adds up a table with a row
\* for each hour and a column for each bin; by its rows it is what was left
\* alone, hour by hour, as far out as the position's line.
LEMMA CurveIsRight ==
    ASSUME TypeOK, Binned, NEW i \in 1..Bins, NEW held \in SUBSET Readings
    PROVE  GatePage(held).curve[i] - Cardinality(held) =
            LeftAlone({z \in Readings : Edge(i) <= Abs(z)})
<1> DEFINE S == {z \in Readings : Edge(i) <= Abs(z)}
           W == InWindow
           J == i..Bins
           row == [h \in W |-> SumFunctionOnSet(series[h], J)]
           out == [h \in Hours |-> SumFunctionOnSet(leftAlone[h], S)]
<1>1. /\ IsFiniteSet(W) /\ W \subseteq Hours
      /\ IsFiniteSet(J) /\ J \subseteq 1..Bins
      /\ IsFiniteSet(S) /\ S \subseteq Readings /\ S \subseteq Int
  <2>1. IsFiniteSet(Hours)
    <3>1. IsFiniteSet(0..MaxNow)
      BY GatesAssumption, FS_Interval
    <3> DEFINE f == [t \in 0..MaxNow |-> HourOf(t)]
    <3>2. f \in Surjection(0..MaxNow, Hours)
      BY DEF Surjection, Hours
    <3> HIDE DEF f
    <3>3. QED
      BY <3>1, <3>2, FS_Surjection
  <2>2. W \in SUBSET Hours /\ J \in SUBSET (1..Bins) /\ IsFiniteSet(J)
    BY ScoringAssumption, FS_Interval DEF InWindow
  <2>3. S \in SUBSET Readings
    OBVIOUS
  <2>4. QED
    BY <2>1, <2>2, <2>3, FiniteReadings, FS_Subset
<1>2. \A h \in Hours : /\ \A j \in 1..Bins : series[h][j] \in Int
                       /\ \A z \in Readings : leftAlone[h][z] \in Int
  <2> SUFFICES ASSUME NEW h \in Hours
               PROVE  /\ \A j \in 1..Bins : series[h][j] \in Int
                      /\ \A z \in Readings : leftAlone[h][z] \in Int
    OBVIOUS
  <2>1. series[h] \in [1..Bins -> Nat]
    BY DEF TypeOK
  <2>2. leftAlone[h] \in [Readings -> Nat]
    BY DEF TypeOK
  <2>3. \A j \in 1..Bins : series[h][j] \in Nat
    BY <2>1
  <2>4. \A z \in Readings : leftAlone[h][z] \in Nat
    BY <2>2
  <2>5. QED
    BY <2>3, <2>4
<1>3. GatePage(held).curve[i] = Cardinality(held) + SumFunctionOnSet(Shape, J)
  BY DEF GatePage, GateCurve
<1> HIDE DEF S, W, J
<1>4. \A j \in J : Shape[j] = SumFunctionOnSet([h \in W |-> series[h][j]], W)
  <2> SUFFICES ASSUME NEW j \in J
               PROVE  Shape[j] = SumFunctionOnSet([h \in W |-> series[h][j]], W)
    OBVIOUS
  <2> DEFINE all == [h \in Hours |-> series[h][j]]
             some == [h \in W |-> series[h][j]]
  <2>1. Shape[j] = SumFunctionOnSet(all, W)
    BY <1>1 DEF Shape, W
  <2>2. \A h \in W : all[h] \in Int /\ some[h] = all[h]
    BY <1>1, <1>2
  <2> HIDE DEF all, some
  <2>3. SumFunctionOnSet(some, W) = SumFunctionOnSet(all, W)
    BY <1>1, <2>2, SumSame
  <2>4. QED
    BY <2>1, <2>3 DEF some
<1>5. SumFunctionOnSet(row, W) = SumFunctionOnSet(Shape, J)
  <2>1. \A h \in W : row[h] = SumFunctionOnSet(series[h], J)
    OBVIOUS
  <2>2. \A h \in W : \A j \in J : series[h][j] \in Int
    BY <1>1, <1>2
  <2> HIDE DEF row
  <2>3. PICK a, c : a = series /\ c = Shape
    OBVIOUS
  <2>4. SumFunctionOnSet(row, W) = SumFunctionOnSet(c, J)
    <3>1. \A h \in W : \A j \in J : a[h][j] \in Int
      BY <2>2, <2>3
    <3>2. \A h \in W : row[h] = SumFunctionOnSet(a[h], J)
      BY <2>1, <2>3
    <3> DEFINE cols == [j \in J |-> [h \in W |-> a[h][j]]]
    <3>3. \A j \in J : c[j] = SumFunctionOnSet(cols[j], W)
      <4> SUFFICES ASSUME NEW j \in J
                   PROVE  c[j] = SumFunctionOnSet([h \in W |-> a[h][j]], W)
        OBVIOUS
      <4>1. [h \in W |-> a[h][j]] = [h \in W |-> series[h][j]]
        BY <2>3
      <4>2. QED
        BY <1>4, <2>3, <4>1
    <3>4. IsFiniteSet(W) /\ IsFiniteSet(J)
      BY <1>1
    <3>5. \A j \in J : \A h \in W : cols[j][h] = a[h][j]
      OBVIOUS
    <3> HIDE DEF cols
    <3>6. PICK r : r = row
      OBVIOUS
    <3>7. \A h \in W : r[h] = SumFunctionOnSet(a[h], J)
      BY <3>2, <3>6
    <3>8. SumFunctionOnSet(r, W) = SumFunctionOnSet(c, J)
      BY ONLY <3>1, <3>3, <3>4, <3>7, <3>5, SumTable
    <3>9. QED
      BY <3>6, <3>8
  <2>5. QED
    BY <2>3, <2>4
<1>6. \A h \in W : row[h] = out[h] /\ out[h] \in Int
  <2> SUFFICES ASSUME NEW h \in W
               PROVE  /\ SumFunctionOnSet(series[h], J) = SumFunctionOnSet(leftAlone[h], S)
                      /\ SumFunctionOnSet(leftAlone[h], S) \in Int
    BY <1>1
  <2>1. PICK f, g : f = leftAlone[h] /\ g = series[h]
    OBVIOUS
  <2>2. \A z \in S : f[z] \in Int
    BY <1>1, <1>2, <2>1
  <2> DEFINE k == [z \in S |-> BinOf(z)]
  <2>3. \A z \in S : k[z] \in J
    <3> SUFFICES ASSUME NEW z \in S PROVE BinOf(z) \in J
      OBVIOUS
    <3>1. z \in Int /\ Edge(i) <= Abs(z)
      BY <1>1 DEF S
    <3>2. BinOf(z) \in 0..Bins /\ BinOf(z) >= i
      BY <3>1, BinIs
    <3>3. QED
      BY <3>2 DEF J
  <2>4. \A j \in J : g[j] = SumFunctionOnSet(f, {z \in S : k[z] = j})
    <3> SUFFICES ASSUME NEW j \in J PROVE g[j] = SumFunctionOnSet(f, {z \in S : k[z] = j})
      OBVIOUS
    <3>1. {z \in S : k[z] = j} = {z \in Readings : BinOf(z) = j}
      <4>1. ASSUME NEW z \in Readings, BinOf(z) = j PROVE z \in S
        <5>1. z \in Int /\ BinOf(z) >= i
          BY <4>1, FiniteReadings DEF J
        <5>2. Edge(i) <= Abs(z)
          BY <5>1, BinIs
        <5>3. QED
          BY <5>2 DEF S
      <4>2. QED
        BY <1>1, <4>1
    <3>2. g[j] = SumFunctionOnSet(f, {z \in Readings : BinOf(z) = j})
      BY <1>1, <2>1 DEF Binned
    <3>3. QED
      BY <3>1, <3>2
  <2> HIDE DEF k
  <2>5. SumFunctionOnSet(f, S) = SumFunctionOnSet(g, J)
    <3>1. IsFiniteSet(S) /\ IsFiniteSet(J)
      BY <1>1
    <3>2. PICK kk : kk = k
      OBVIOUS
    <3>3. \A z \in S : kk[z] \in J
      BY <2>3, <3>2
    <3> DEFINE part == [j \in J |-> {z \in S : kk[z] = j}]
    <3>4. \A j \in J : /\ g[j] = SumFunctionOnSet(f, part[j])
                       /\ \A z : z \in part[j] <=> z \in S /\ kk[z] = j
      <4> SUFFICES ASSUME NEW j \in J
                   PROVE  g[j] = SumFunctionOnSet(f, {z \in S : kk[z] = j})
        OBVIOUS
      <4>1. {z \in S : kk[z] = j} = {z \in S : k[z] = j}
        BY <3>2
      <4>2. QED
        BY <2>4, <4>1
    <3> HIDE DEF part
    <3>5. QED
      BY ONLY <2>2, <3>1, <3>3, <3>4, SumParts
  <2>6. SumFunctionOnSet(f, S) \in Int
    BY <1>1, <2>2, SumInt
  <2>7. QED
    BY <2>1, <2>5, <2>6
<1> HIDE DEF row, out
<1>7. SumFunctionOnSet(row, W) = SumFunctionOnSet(out, W)
  BY <1>1, <1>6, SumSame
<1>8. LeftAlone(S) = SumFunctionOnSet(out, W)
  BY DEF LeftAlone, out, W
<1>9. Cardinality(held) \in Nat
  BY FiniteReadings, FS_Subset, FS_CardinalityType
<1>10. SumFunctionOnSet(out, W) \in Int
  BY <1>1, <1>6, SumInt
<1>11. QED
  <2>1. \A x \in Nat, y \in Int : (x + y) - x = y
    OBVIOUS
  <2>2. GatePage(held).curve[i] = Cardinality(held) + SumFunctionOnSet(out, W)
    BY <1>3, <1>5, <1>7
  <2>3. GatePage(held).curve[i] - Cardinality(held) = LeftAlone(S)
    BY <1>8, <1>9, <1>10, <2>1, <2>2
  <2>4. QED
    BY <2>3 DEF S

\* What the preview promises of a legal position is what was left alone of
\* the window that a gate there catches, and of the rest only what lies on the
\* line and as far out on the other side.
THEOREM CurveIsTrue == Spec => []CurveIsWhatAGateCatches
<1>1. ASSUME IInv PROVE CurveIsWhatAGateCatches
  <2> SUFFICES ASSUME NEW i \in 1..Bins
               PROVE  LET held     == {z \in Readings : Classify(z, gates) # 0}
                          caught   == {z \in Readings : z < -Edge(i)}
                          onLine   == {z \in Readings : z = -Edge(i)}
                          harmless == {z \in Readings : z >= Edge(i)}
                      IN GatePage(held).curve[i] - Cardinality(held) =
                            LeftAlone(caught \union onLine \union harmless)
    BY DEF CurveIsWhatAGateCatches
  <2> DEFINE held == {z \in Readings : Classify(z, gates) # 0}
             S == {z \in Readings : z < -Edge(i)} \union {z \in Readings : z = -Edge(i)}
                    \union {z \in Readings : z >= Edge(i)}
  <2>1. held \in SUBSET Readings
    OBVIOUS
  <2>2. Edge(i) \in Nat \ {0}
    BY LinesPositive DEF Lines
  <2>3. \A z \in Readings : z \in Int /\ (Edge(i) <= Abs(z) <=> z < -Edge(i) \/ z = -Edge(i) \/ z >= Edge(i))
    BY <2>2, FiniteReadings DEF Abs
  <2>4. S = {z \in Readings : Edge(i) <= Abs(z)}
    BY <2>3
  <2> HIDE DEF held, S
  <2>5. GatePage(held).curve[i] - Cardinality(held) = LeftAlone(S)
    BY <1>1, <2>1, <2>4, CurveIsRight DEF IInv
  <2>6. QED
    BY <2>5 DEF held, S
<1>2. QED
  BY Invariance, <1>1, PTL

-----------------------------------------------------------------------------

\* What the axis draws, for gates in order.
LEMMA AxisIsRight ==
    ASSUME TypeOK, gates.tier1_z > gates.tier2_z
    PROVE  LET bands == AxisBands(gates) IN
           /\ \A tier \in 1..2 : bands[tier].lo = bands[tier - 1].hi
           /\ \A tier \in 0..2 : bands[tier].lo <= bands[tier].hi
           /\ \A z \in Scale :
                -z \notin Lines /\ -z < SigmaCeiling =>
                    LET band == bands[Classify(z, gates)]
                    IN band.lo <= AxisX(z) /\ AxisX(z) <= band.hi
           /\ gates = Shipped => \A z \in Scale :
                -z \notin Lines => TierCss(z, Shipped) = Classify(z, gates)
<1> DEFINE bands == AxisBands(gates)
           x1 == -gates.tier1_z
           x2 == -gates.tier2_z
<1>1. /\ gates.tier1_z \in Legal /\ gates.tier2_z \in Legal /\ SigmaCeiling \in Nat
      /\ x1 \in Lines /\ x2 \in Lines /\ x1 \in Nat /\ x2 \in Nat
      /\ 0 < x1 /\ x1 < x2 /\ x2 <= SigmaCeiling
  BY LegalNegative, LinesPositive DEF TypeOK
<1>2. AxisX(gates.tier1_z) = x1 /\ AxisX(gates.tier2_z) = x2
  BY <1>1, LegalNegative DEF AxisX, Abs
<1>3. /\ bands[0] = [lo |-> 0, hi |-> x1] /\ bands[1] = [lo |-> x1, hi |-> x2]
      /\ bands[2] = [lo |-> x2, hi |-> SigmaCeiling]
  BY <1>2 DEF AxisBands
<1>4. ASSUME NEW z \in Scale, -z \notin Lines
      PROVE  z \in Int /\ z <= 0 /\ -z # x1 /\ -z # x2
  BY <1>1, <1>4, ScoringAssumption DEF Scale
<1>5. ASSUME NEW z \in Scale, -z \notin Lines, -z < SigmaCeiling
      PROVE  bands[Classify(z, gates)].lo <= AxisX(z) /\ AxisX(z) <= bands[Classify(z, gates)].hi
  <2>1. AxisX(z) = -z
    BY <1>1, <1>4, <1>5 DEF AxisX, Abs
  <2>2. Classify(z, gates) = IF -z > x2 THEN 2 ELSE IF -z > x1 THEN 1 ELSE 0
    BY <1>1, <1>4, <1>5, LegalNegative DEF Classify
  <2>3. QED
    BY <1>1, <1>3, <1>4, <1>5, <2>1, <2>2
<1>6. ASSUME gates = Shipped, NEW z \in Scale, -z \notin Lines
      PROVE  TierCss(z, Shipped) = Classify(z, gates)
  BY <1>1, <1>4, <1>6, LegalNegative DEF TierCss, Classify, Abs
<1>7. QED
  BY <1>1, <1>3, <1>5, <1>6

\* The bands of the axis are the tiers, whatever the gates, while they are in
\* order.
THEOREM AxisIsTheGates == Spec => []AxisShowsTheGates
<1>1. IInv => AxisShowsTheGates
  <2>1. \A held : GatePage(held).bands = AxisBands(gates)
    BY DEF GatePage
  <2>2. QED
    BY <2>1, AxisIsRight DEF IInv, AxisShowsTheGates
<1>2. QED
  BY Invariance, <1>1, PTL
=============================================================================

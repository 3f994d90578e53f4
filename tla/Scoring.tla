------------------------------- MODULE Scoring -------------------------------
(***************************************************************************)
(* A reading is how many standard deviations a source's score lies from    *)
(* its tenant's normal, in whole units, negative for the anomalous side.   *)
(* Gates, bins and the pictures of them: the thirteen bins of a quarter    *)
(* sigma are Bins bins of Width units, so that a reading can lie on a line *)
(* or between two.                                                         *)
(***************************************************************************)
EXTENDS Integers, FiniteSets, Functions

CONSTANTS
    Bins,       \* legal positions of a gate, and bins of the histogram
    Width,      \* units in a bin
    Lowest      \* the lowest line, in bins from zero

ASSUME ScoringAssumption ==
    /\ Bins \in Nat \ {0}
    /\ Width \in Nat \ {0}
    /\ Lowest \in Nat \ {0}

Abs(n) == IF n < 0 THEN -n ELSE n

Edge(i) == Width * (Lowest + i - 1)
Lines == {Edge(i) : i \in 1..Bins}
Legal == {-n : n \in Lines}
SigmaCeiling == Edge(Bins)

\* bin_name of |z|: the last line at or below it, 0 below the lowest.
BinOf(z) == Cardinality({i \in 1..Bins : Edge(i) <= Abs(z)})

\* Mutant: the soft gate is asked first.
ClassifySoftFirst(z, gates) ==
    IF z < gates.tier1_z THEN 1 ELSE IF z < gates.tier2_z THEN 2 ELSE 0

\* classify: strictly past the gate; past the block gate whatever the other.
Classify(z, gates) ==
    IF z < gates.tier2_z THEN 2 ELSE IF z < gates.tier1_z THEN 1 ELSE 0

\* Mutant: a position's own bin is left out of what it would have caught.
CurveAbove(bins, held) == [i \in 1..Bins |-> held + SumFunctionOnSet(bins, i + 1..Bins)]

\* gate_curve: for each legal position, every reading recorded in its bin or
\* a higher one, and the sources already held.
GateCurve(bins, held) == [i \in 1..Bins |-> held + SumFunctionOnSet(bins, i..Bins)]

(* The axis, from zero to the ceiling.                                     *)

AxisX(z) == IF Abs(z) < SigmaCeiling THEN Abs(z) ELSE SigmaCeiling

\* axis_bands: where each tier's band begins and ends, from the tenant's gates.
AxisBands(gates) ==
    [tier \in 0..2 |->
        CASE tier = 0 -> [lo |-> 0, hi |-> AxisX(gates.tier1_z)]
          [] tier = 1 -> [lo |-> AxisX(gates.tier1_z), hi |-> AxisX(gates.tier2_z)]
          [] tier = 2 -> [lo |-> AxisX(gates.tier2_z), hi |-> SigmaCeiling]]

\* _tier_css: a mark's colour, by the SHIPPED gates and at the line itself.
TierCss(z, shipped) ==
    IF Abs(z) >= Abs(shipped.tier2_z) THEN 2 ELSE IF Abs(z) >= Abs(shipped.tier1_z) THEN 1 ELSE 0

\* source_marks: one for each source held with a reading.
SourceMarks(zs, shipped) == {[x |-> AxisX(z), css |-> TierCss(z, shipped)] : z \in zs}

\* density_bars, of heights in per cent of the tallest; every bin is drawn.
DensityBars(bins) ==
    LET tallest == CHOOSE n \in Range(bins) : \A m \in Range(bins) : m <= n
    IN [i \in 1..Bins |-> [x |-> Edge(i), height |-> IF tallest = 0 THEN 0 ELSE (100 * bins[i]) \div tallest]]
=============================================================================

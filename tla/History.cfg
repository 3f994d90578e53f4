SPECIFICATION Spec
CONSTANTS
    Sources = {s1, s2}
    Workers = {w1, w2}
    Loads <- MCLoads
    Threshold = 2
    FlagLimit = 1
    BucketLength = 2
    HourLength = 2
    Day = 1
    Week = 2
    MaxNow = 4
    MaxBatches = 2
SYMMETRY Alike
INVARIANTS
    JudgedIsNotLearned
    ChartIsTheTable
    EveryDecisionIsListed
PROPERTIES
    ReadOnce

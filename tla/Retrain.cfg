SPECIFICATION RetrainFairSpec
CONSTANTS
    Workers = {w1, w2}
    Containers = {c1}
    StaleReads = TRUE
    MaxTrained = 3
INVARIANTS
    OnlyApprovedServes
    CachedTogether
    MixedOnlyByRace
PROPERTY
    ServingCatchesUp

SPECIFICATION CollectorFairSpec
CONSTANTS
    Batch = 2
    Cap = 3
    Accepts = 3
    Poison = {2}
    From <- MCFrom
    MaxRecords = 6
    MaxRepeats = 1
    MaxLate = 1
INVARIANTS
    CollectorTypeOK
    NoRecordUnaccounted
    TwiceOnlyUnanswered
PROPERTY
    CountedInTheEnd

SPECIFICATION Spec
CONSTANTS
    Bins = 3
    Width = 2
    Lowest = 2
    Operators = {o1, o2}
    Workers = {w1}
    Loads <- MCLoads
    Shipped <- MCShipped
    HourLength = 1
    Window = 1
    MinuteLength = 2
    MaxNow = 2
    MaxBatches = 1
    MaxMoves = 2
SYMMETRY Alike
INVARIANTS
    CrossedOnlyByRace
    
    CurveIsWhatAGateCatches
    AxisShowsTheGates

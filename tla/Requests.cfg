SPECIFICATION Spec
CONSTANTS
    Ceiling = 3
    SharePercent = 50
    DayLength = 2
    TrendDays = 2
    TenantsPerPage = 1
    Stale = 1
    Agents = {a1, a2}
    Tenants = {t1, t2}
    MaxNow = 3
    MaxCounted = 3
SYMMETRY Alike
INVARIANTS
    
    
    LivenessIsReal
    CollectedIsTrue
    CollectedIsShown
    ScreensTellTheDay

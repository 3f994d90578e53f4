SPECIFICATION Spec
CONSTANTS
    IPs = {a1}
    TTL <- MCTTL
    Agents = {A, B}
    Workers = {w1, w2}
    Deep = {a1}
    Faults = {"answer"}
SYMMETRY MCSymmetry
INVARIANTS
    EnforcedWithinRecord

    

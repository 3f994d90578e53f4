SPECIFICATION FairSpec
CONSTANTS
    IPs = {a1}
    TTL <- MCTTL
    Agents = {A, B}
    Workers = {w1}
    Deep = {a1}
    Faults = {"request", "answer", "lift"}
PROPERTIES
    AllowWins
    PauseWins
    
    AgentsAreLessees

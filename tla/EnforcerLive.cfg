SPECIFICATION FairSpec
CONSTANTS
    a1 = a1
    a2 = a2
    IPs <- MCIPs
    TTL <- MCTTL
    Detectable <- MCBoth
    Faults = {}
    CanExit = FALSE
    MaxTime = 2
    MaxRules = 2
    MaxFailures = 0
PROPERTY
    ExpiredIsLifted

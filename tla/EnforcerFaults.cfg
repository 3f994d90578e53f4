\* Every command may fail, the process may end at any step.
SPECIFICATION Spec
CONSTANTS
    a1 = a1
    a2 = a2
    IPs <- MCIPs
    TTL <- MCShort
    Detectable <- MCBoth
    Faults = {"write", "torn", "reload", "iptables"}
    CanExit = TRUE
    MaxTime = 1
    MaxRules = 2
    MaxFailures = 1
SYMMETRY MCSym
INVARIANTS
    HeldIsInForce
    NginxLeaksOnlyByFailure
    DropsLeakOnlyByRepeat
PROPERTY
    LeaseSpec

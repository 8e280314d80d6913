SPECIFICATION Spec
CONSTANTS
    p1 = p1
    p2 = p2
    w1 = w1
    w2 = w2
    s1 = s1
    NoProcess = NoProcess
    NoSession = NoSession
    Processes <- MCProcesses
    Workers <- MCWorkers
    Sessions <- MCSessionIds
    RevocationTTL = 1
    Expiry = 1
    RefreshExpiry = 2
    MaxLatency = 1
    MaxTime = 2
SYMMETRY Symmetry
CHECK_DEADLOCK FALSE
INVARIANTS
    TypeOK
    RevokedWasAsked
PROPERTIES
    LogoutIsImmediate
    LogoutReachesAll

SPECIFICATION Spec
CONSTANTS
    p1 = p1
    p2 = p2
    w1 = w1
    w2 = w2
    s1 = s1
    NoProcess = NoProcess
    NoSession = NoSession
    Processes <- MCProcesses
    Workers <- MCWorkers
    Sessions <- MCSessionIds
    RevocationTTL = 2
    Expiry = 1
    RefreshExpiry = 3
    MaxLatency = 0
    MaxTime = 4
SYMMETRY Symmetry
CHECK_DEADLOCK FALSE
PROPERTIES
    LoggedOutForGood

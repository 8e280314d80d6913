SPECIFICATION FairSpec
CONSTANTS
    m1 = m1
    m2 = m2
    m3 = m3
    w1 = w1
    w2 = w2
    NoMessage = NoMessage
    Messages <- MCMessages
    Parseable <- MCParseable
    Workers <- MCWorkers
    MaxFaults = 2
    MaxForgets = 1
CHECK_DEADLOCK FALSE
INVARIANTS
    TypeOK
    MarkerIsWork
    AckedIsApplied
PROPERTIES
    PromiseSpec
    EventuallyApplied

SPECIFICATION FairSpec
CONSTANTS
    m1 = m1
    m2 = m2
    k1 = k1
    w1 = w1
    w2 = w2
    r1 = r1
    NoMessage = NoMessage
    Keys <- MCKeys
    Messages <- MCMessages
    KeyOf <- MCKeyOf
    SequenceOf <- MCSequenceOf
    Earlier = {1}
    Workers <- MCWorkers
    Rebuilders <- MCRebuilders
    Engines = {"sqlite", "postgres"}
    MaxFaults = 1
    MaxRebuilds = 1
CHECK_DEADLOCK FALSE
INVARIANTS
    TypeOK
    AckedIsProjected
PROPERTIES
    NeverBack
    CatchesUp

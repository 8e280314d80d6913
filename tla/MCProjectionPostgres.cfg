SPECIFICATION Spec
CONSTANTS
    m1 = m1
    m2 = m2
    k1 = k1
    w1 = w1
    w2 = w2
    r1 = r1
    NoMessage = NoMessage
    Keys <- MCKeys
    Messages <- MCMessages
    KeyOf <- MCKeyOf
    SequenceOf <- MCSequenceOf
    Earlier = {1}
    Workers <- MCWorkers
    Rebuilders <- MCRebuilders
    Engines = {"postgres"}
    MaxFaults = 0
    MaxRebuilds = 0
CHECK_DEADLOCK FALSE
PROPERTY
    FreshIsKept

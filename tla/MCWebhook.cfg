SPECIFICATION MCSpec
CONSTANTS
    k1 = k1
    k2 = k2
    e1 = e1
    e2 = e2
    d1 = d1
    d2 = d2
    w1 = w1
    w2 = w2
    m1 = m1
    NoDelivery = NoDelivery
    NoMessage = NoMessage
    Deliveries <- MCDeliveries
    Endpoints <- MCEndpoints
    EndpointOf <- MCEndpointOf
    Drainers <- MCDrainers
    Workers <- MCWorkers
    Messages <- MCMessages
    EventOf <- MCEventOf
    MaxAttempts = 2
    BatchSize = 1
    MaxFaults = 2
    MaxReplays = 1
    MaxEdits = 1
CHECK_DEADLOCK FALSE
INVARIANTS
    PipelineTypeOK
    AckedIsQueued
    DeliveredWasAccepted
    RowsAgree
    DuplicatesAreExplained
PROPERTIES
    UnracedIsFinal
    EventsSettle

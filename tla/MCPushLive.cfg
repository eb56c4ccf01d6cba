SPECIFICATION FairSpec
CONSTANTS
    Messages = {m1}
    Keys = {k1}
    Devices = {d1, d2}
    Workers = {w1}
    NoKey = NoKey
    NoMsg = NoMsg
    NoDelivery = NoDelivery
    MaxAttempt = 2
    BatchSize = 2
    Churn = TRUE
    MaxFaults = 0
    MaxStops = 0
PROPERTIES
    DeliveriesFinish
CHECK_DEADLOCK FALSE

SPECIFICATION FairSpec
CONSTANTS
    Messages = {m1, m2}
    Keys = {k1}
    Devices = {d1}
    Workers = {w1}
    NoKey = NoKey
    NoMsg = NoMsg
    NoDelivery = NoDelivery
    MaxAttempt = 2
    BatchSize = 2
    Churn = FALSE
    MaxFaults = 1
    MaxStops = 0
PROPERTIES
    DuplicateIsQueued
CHECK_DEADLOCK FALSE

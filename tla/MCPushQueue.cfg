SPECIFICATION Spec
CONSTANTS
    Messages = {m1, m2}
    Keys = {k1}
    Devices = {d1}
    Workers = {w1, w2}
    NoKey = NoKey
    NoMsg = NoMsg
    NoDelivery = NoDelivery
    MaxAttempt = 2
    BatchSize = 2
    Churn = TRUE
    MaxFaults = 1
    MaxStops = 1
SYMMETRY QueueSymmetry
INVARIANTS
    SingleOwner
    PushesBounded
    OneMessagePerKey
    SingleTargetCompleted
PROPERTIES
    ImplementsDelivery
CHECK_DEADLOCK FALSE

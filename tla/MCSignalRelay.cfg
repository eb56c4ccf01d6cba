SPECIFICATION Spec
CONSTANTS
    Users = {u1, u2}
    Talkers = {u1, u2}
    Roamers = {u2}
    MaxSignals = 2
    MaxLog = 1
    ChanSize = 1
    SendBuf = 2
    MaxFaults = 1
INVARIANTS
    NoSilentGap
    NoOrphanLog
CHECK_DEADLOCK FALSE

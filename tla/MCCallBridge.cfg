SPECIFICATION FairBridge
CONSTANTS
    Users = {u1, u2, u3}
    Calls = {c1}
    NoUser = NoUser
    Callers = {u1}
    Reachable = {u1, u2}
    RoomMayFail = TRUE
    MaxHandlers = 2
    MaxFaults = 1
INVARIANTS
    AnsweredElsewhere
    NoFalseNotice
PROPERTIES
    CalleesAreRung
    RingIsWithdrawn
    EndIsTold
CHECK_DEADLOCK FALSE

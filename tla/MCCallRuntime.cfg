SPECIFICATION MCSpec
CONSTANTS
    Users = {u1, u2, u3}
    Calls = {c1}
    NoUser = NoUser
    FirstUser = u1
    MediaReports = TRUE
    RoomMayFail = TRUE
    MaxFaults = 1
INVARIANTS
    NoRingAfterStop
    DirectNobodyGone
    RingingHasTimer
    EndedOnce
PROPERTIES
    ImplementsLifecycle
    ImplementsOutcome
    RingingEnds
    EndsAreCounted
CHECK_DEADLOCK FALSE

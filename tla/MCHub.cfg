SPECIFICATION MCFairSpec
CONSTANTS
    n1 = n1
    u1 = u1
    u2 = u2
    d1 = d1
    d2 = d2
    Conns = {c1, c2}
    Again = {c1}
    Nodes = {n1}
    UserIDs = {u1, u2}
    Devices = {d1, d2}
    Events = {e1}
    NodeOf <- OneNode
    Owner <- TwoUsers
    NoDevice = NoDevice
    NoSub = NoSub
    ChanSize = 1
    SendBuf = 1
    PresenceExpires = TRUE
INVARIANTS
    SubscribedWhileConnected
    NoSubscriptionLeak
    NoGhostOnline
CHECK_DEADLOCK FALSE
PROPERTIES
    EventsArrive

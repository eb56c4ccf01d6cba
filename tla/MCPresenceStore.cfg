SPECIFICATION FairSpec
CONSTANTS
    Devices = {d1, d2}
    Users = {u1, u2}
    NoUser = NoUser
    Calls = {c1, c2}
    Statuses = {"offline", "online"}
    TTL = 2
    MaxUpdates = 2
    MaxFaults = 1
INVARIANTS
    IndexCoversLive
    ReadsOwnWrite
PROPERTIES
    GhostsEnd
CHECK_DEADLOCK FALSE

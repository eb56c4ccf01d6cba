SPECIFICATION Spec
CONSTANTS
    Calls = {c1}
    Users = {u1, u2}
    Clients = {k1, k2, k3}
    Readers = {r1}
    NoCall = NoCall
    NoUser = NoUser
    MaxRetries = 2
    MaxFaults = 1
SYMMETRY StoreSymmetry
INVARIANTS
    NoLostUpdate
    LiveCallsIndexed
PROPERTIES
    ImplementsAtomicStore
CHECK_DEADLOCK FALSE

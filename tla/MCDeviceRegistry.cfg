SPECIFICATION MCSpec
CONSTANTS
    i1 = i1
    Installs = {i1}
    Platform <- OnePhone
    Providers = {"apns", "apns_voip"}
    Users = {u1, u2}
    NoUser = NoUser
    MaxGen = 1
SYMMETRY UserSymmetry
INVARIANTS
    CancelFollowsRing
    InvalidIsDead
    BindingFollowsLogin
CHECK_DEADLOCK FALSE

SPECIFICATION AccountsSpec
CONSTANTS
    r1 = r1
    r2 = r2
    i1 = i1
    i2 = i2
    i3 = i3
    Users = {"u1"}
    Instances = {i1, i2, i3}
    Requests = {r1, r2}
    NoUser = NoUser
    NoInstance = NoInstance
    Quotas = {0, 1}
    MaxInstances = 1
    MaxKeys = 2
    MaxFaults = 1
CHECK_DEADLOCK FALSE
SYMMETRY Symmetry
INVARIANTS QuotaOvershootBounded CachedKeyIsValid KeylessHasCause

SPECIFICATION Spec
CONSTANTS
    r1 = r1
    r2 = r2
    r3 = r3
    r4 = r4
    f1 = f1
    f2 = f2
    Requests = {r1, r2, r3, r4}
    Fingerprints = {f1, f2}
    FingerprintOf <- Contents
    NoRequest = NoRequest
    MaxFaults = 2
CHECK_DEADLOCK FALSE
SYMMETRY Symmetry
INVARIANTS OwnerHoldsKey DuplicatesExcused ReplayIsOriginal

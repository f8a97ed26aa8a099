SPECIFICATION Spec
CONSTANTS
    r1 = r1
    r2 = r2
    s1 = s1
    s2 = s2
    d1 = d1
    Requests = {r1, r2}
    Sessions = {s1, s2}
    Devices = {d1}
    NoSession = NoSession
    NoDevice = NoDevice
    MaxFaults = 1
CHECK_DEADLOCK FALSE
SYMMETRY Symmetry
INVARIANTS  LeakHasCause 

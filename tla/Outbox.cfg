SPECIFICATION FairSpec
CONSTANTS
    m1 = m1
    m2 = m2
    i1 = i1
    i2 = i2
    w1 = w1
    w2 = w2
    Msgs = {m1, m2}
    Instances = {i1}
    InstanceOf <- SameInstance
    Workers = {w1, w2}
    BatchSize = 2
    MaxSendRetries = 1
    MaxFaults = 1
    SlowBatches = FALSE
    Nobody = Nobody
    NoMsg = NoMsg
CHECK_DEADLOCK FALSE
INVARIANTS  DuplicatesExcused 
PROPERTIES  KeepsContract FulfilsContract

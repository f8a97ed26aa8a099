SPECIFICATION FairSpec
CONSTANTS
    e1 = e1
    e2 = e2
    e3 = e3
    Events = {e1, e2, e3}
    Refused = {e3}
    BatchSize = 2
    MaxFaults = 2
    NoEvent = NoEvent
CHECK_DEADLOCK FALSE
INVARIANTS NothingLost DuplicatesExcused OrderExcused
PROPERTY EveryEventPublished

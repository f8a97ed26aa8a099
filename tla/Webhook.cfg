SPECIFICATION FairSpec
CONSTANTS
    Events = {"e1", "e2"}
    NoEvent = "none"
    BufferSize = 1
    MaxInflight = 1
    MaxAttempts = 2
    MaxChanges = 2
    MaxFaults = 1
CHECK_DEADLOCK FALSE
INVARIANTS FreshPerAttempt  RelayStopsLast
PROPERTY DeliveriesSettle

SPECIFICATION FairSpec
CONSTANTS
    Media = {"m1", "m2"}
    Inbound = {"m1"}
    NoMedia = "none"
    MaxFaults = 2
CHECK_DEADLOCK FALSE
INVARIANTS OrphanHasCause ReferencesHold MissHasCause
PROPERTY ExpiredIsRemoved

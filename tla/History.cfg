SPECIFICATION Spec
CONSTANTS
    Synced = {"a", "b"}
    Old = {"a"}
    Unwritable = {}
    Live = {"b"}
    Triggers = {"auto", "cron"}
    Reopen = {TRUE, FALSE}
    ChunkSize = 1
    MaxAttempts = 2
    MaxConvs = 2
    MaxFaults = 1
CHECK_DEADLOCK FALSE
INVARIANTS  ImportedOnce OneConversation

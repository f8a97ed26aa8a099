SPECIFICATION Spec
CONSTANTS
    q1 = q1
    q2 = q2
    Received = {"m1"}
    Replies = {"r1", "r2"}
    Files = {"a", "b"}
    Attachments <- MCAttachments
    WithText = {"r1", "r2"}
    Requests = {q1, q2}
    MaxReplies = 1
    MaxFaults = 2
SYMMETRY Symmetry
CHECK_DEADLOCK FALSE
INVARIANTS  DuplicatesExcused RefusedHasNoEffect 

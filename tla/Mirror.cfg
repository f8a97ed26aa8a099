SPECIFICATION MirrorSpec
CONSTANTS
    Streams <- MCStreams
    MaxDeliver = 2
    MaxFaults = 4
CHECK_DEADLOCK FALSE
INVARIANTS DuplicatesExcused RevokedIsHidden MissedHasCause LastNoticeTrue

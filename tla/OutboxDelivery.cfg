SPECIFICATION FairSpec
CONSTANTS
    Messages <- TwoMessages
    Workers = {w1, w2}
    MaxAttempts = 2
    Limits = {1, 2}
    Ranks = {0}
    MaxLapses = 1
    MaxCrashes = 1
CHECK_DEADLOCK FALSE
INVARIANTS
    DuplicatesFollowExpiry
PROPERTIES
    OvertakenWorkerChangesNothing
    ImplementsAtLeastOnce
    EventuallySettled

SPECIFICATION Spec
CONSTANTS
    Messages <- TwoMessages
    Workers = {w1}
    MaxAttempts = 2
    Limits = {1}
    Ranks = {0, 1}
    MaxLapses = 1
    MaxCrashes = 1
CHECK_DEADLOCK FALSE
INVARIANT AttemptsLimited

SPECIFICATION SigningSpec
CONSTANTS
    Messages = {r1}
    Workers = {w1}
    MaxAttempts = 3
    MaxLapses = 0
    MaxFaults = 0
    MaxStops = 0
    MaxRequeues = 0
    MaxClaimLapses = 0
CHECK_DEADLOCK FALSE
INVARIANT CompletedIsSigned

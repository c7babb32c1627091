SPECIFICATION FairSigning
CONSTANTS
    Messages = {r1}
    Workers = {w1, w2}
    MaxAttempts = 2
    MaxLapses = 1
    MaxFaults = 1
    MaxStops = 1
    MaxRequeues = 1
    MaxClaimLapses = 1
CHECK_DEADLOCK FALSE
INVARIANTS DuplicatesAccounted ClaimsTellCustody SignaturesFollowLapses
PROPERTIES StaleStaysLost EventuallySettled EventuallySigned

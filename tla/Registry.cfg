SPECIFICATION Spec
CONSTANTS
    dose = dose
    redose = redose
    rival = rival
    dan = dan
    ann = ann
    bob = bob
    cay = cay
    limit = limit
    r1 = r1
    r2 = r2
    r3 = r3
    None = None
    Candidates = {dose, redose, rival}
    Mechanism <- SameMechanism
    Version <- VersionNumbers
    Risk <- RiskOf
    Conflicts <- OneConflict
    Runs = {r1, r2, r3}
    CandidatesOf <- RunContents
    Submissions <- FewReviews
    Callers = {c1, c2}
    MaxChanges = 2
INVARIANTS PromotedIsApproved ActiveIsLastReleased
PROPERTIES VerdictIsFinal
CHECK_DEADLOCK FALSE

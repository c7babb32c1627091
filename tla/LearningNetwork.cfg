SPECIFICATION Spec
CONSTANTS
    lesson = lesson
    drill = drill
    ann = ann
    bob = bob
    None = None
    Experiences = {lesson, drill}
    Protected = {}
    Unverified = {}
    Required <- TwoDimensions
    Submissions <- FewReviews
    Records = {g1, g2}
    ForTraining = {g1, g2}
    Releases = {r1}
    Models = {m1}
    Callers = {c1}
SYMMETRY Symmetry
INVARIANTS UsesTraceToReviews
PROPERTIES RefusalIsFinal WithdrawalIsFinal
CHECK_DEADLOCK FALSE

SPECIFICATION Spec
CONSTANTS
    Clients = {c1, c2}
    Tokens = {t1, t2}
    EventIds = {e1, e2}
    Created = WORLD_CREATED
    Bodies <- OneBody
    Lineages = {l1}
    Direct = operator
    Missing = missing
    MaxTTL = 1
    MaxTime = 2
    MaxVersion = 1
    MaxCrashes = 1
SYMMETRY Symmetry
INVARIANTS
    TokenSpentOnItsEvent
    AnswerIsDurable
    UnspentOnlyInFlight
PROPERTY SpentTokenCommitsNothing

SPECIFICATION Spec
CONSTANTS
    Clients = {c1}
    Tokens = {t1}
    EventIds = {e1, e2}
    Created = WORLD_CREATED
    Bodies <- ManyBodies
    Lineages = {l1, l2}
    Direct = operator
    Missing = missing
    MaxTTL = 1
    MaxTime = 0
    MaxVersion = 2
    MaxCrashes = 1
INVARIANTS
    VerifyWorld
PROPERTY ImplementsAuthorizedLog

SPECIFICATION Spec
CONSTANTS
    None = None
    Scopes = {site}
    Values = {base, low}
    Base = base
    Odd = odd
    e1 = e1
    e2 = e2
    Events = {e1, e2}
    ProjectedId <- Distinct
    Proposals = {p1}
    Commands = {k1}
    Keys = {x1}
    Clients = {ann}
    Stamps = {1}
    Opening = {1}
    MaxReceived = 2
INVARIANTS ObservationsAdvance
CHECK_DEADLOCK FALSE

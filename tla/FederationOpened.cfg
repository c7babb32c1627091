SPECIFICATION Spec
CONSTANTS
    global = global
    rival = rival
    region = region
    north = north
    south = south
    plant = plant
    depot = depot
    Root = Root
    None = None
    Scopes = {global, region}
    Rank <- Ranks
    Worlds = {plant, depot}
    WorldOf <- Bindings
    Decisions = {d1}
    EscalationIds = {e1}
    Callers = {c1}
    Requests <- FewRequests
    MaxEvents = 0
    MaxProjections = 0
SYMMETRY Symmetry
INVARIANT EscalatedIsOpened
CHECK_DEADLOCK FALSE

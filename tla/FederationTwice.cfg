SPECIFICATION Spec
CONSTANTS
    global = global
    rival = rival
    region = region
    north = north
    south = south
    plant = plant
    depot = depot
    Root = Root
    None = None
    Scopes = {global, region, north, south}
    Rank <- Ranks
    Worlds = {plant, depot}
    WorldOf <- Bindings
    Decisions = {}
    EscalationIds = {}
    Callers = {c1}
    Requests <- FewRequests
    MaxEvents = 0
    MaxProjections = 3
SYMMETRY Symmetry
INVARIANT EachWorldOnce
CHECK_DEADLOCK FALSE

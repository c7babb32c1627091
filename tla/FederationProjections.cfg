SPECIFICATION Spec
CONSTANTS
    global = global
    rival = rival
    region = region
    north = north
    south = south
    plant = plant
    depot = depot
    Root = Root
    None = None
    Scopes = {global, rival, region, north, south}
    Rank <- Ranks
    Worlds = {plant, depot}
    WorldOf <- Bindings
    Decisions = {}
    EscalationIds = {}
    Callers = {c1, c2}
    Requests <- FewRequests
    MaxEvents = 0
    MaxProjections = 3
SYMMETRY Symmetry
INVARIANTS FiguresGoUp
CHECK_DEADLOCK FALSE

SPECIFICATION Spec
CONSTANTS
    global = global
    rival = rival
    region = region
    north = north
    south = south
    plant = plant
    depot = depot
    Root = Root
    None = None
    Scopes = {global, region, north, south}
    Rank <- Ranks
    Worlds = {plant}
    WorldOf <- Bindings
    Decisions = {d1, d2}
    EscalationIds = {e1}
    Callers = {c1, c2}
    Requests <- FewRequests
    MaxEvents = 1
    MaxProjections = 2
SYMMETRY Symmetry
INVARIANTS RoutedToTheLowest EscalationsFollowRoutes FiguresGoUp
CHECK_DEADLOCK FALSE

SPECIFICATION GatewaySpec
CONSTANTS
    mcp = mcp
    shared = shared
    dev = dev
    None = None
    Connectors = {mcp}
    Profiles = {shared, dev}
    Secured = {shared}
    Messages <- FewMessages
    Accepts <- AcceptsMost
    Reviews = {r1, r2}
    Callers = {c1, c2}
    MaxChanges = 3
SYMMETRY Symmetry
PROPERTY SuspensionStopsCustody
CHECK_DEADLOCK FALSE

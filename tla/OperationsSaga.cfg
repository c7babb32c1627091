SPECIFICATION Spec
CONSTANTS
    first = first
    second = second
    None = None
    Settable = {}
    Goals = {g1}
    Plans = {p1}
    Steps = {first, second}
    Agents = {a1}
    Pools = {r1}
    Outcomes = {o1}
    Observations = {x}
    DependsOn <- ThenSecond
    Requests <- FirstNeedsOne
    Capable <- AnyAgent
    MaxConcurrent <- OneAtATime
    Capacity <- One
    Renewable = {r1}
    MaxDisturbed = 1
INVARIANT InterruptedCanBeRetried
CHECK_DEADLOCK FALSE

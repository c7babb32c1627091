SPECIFICATION Spec
CONSTANTS
    first = first
    second = second
    None = None
    Settable = {"AVAILABLE", "DEGRADED", "OFFLINE", "RETIRED"}
    Goals = {g1}
    Plans = {p1, p2}
    Steps = {first, second}
    Agents = {a1}
    Pools = {r1, r2}
    Outcomes = {o1, o2}
    Observations = {x}
    DependsOn <- ThenSecond
    Requests <- FirstNeedsOne
    Capable <- AnyAgent
    MaxConcurrent <- OneAtATime
    Capacity <- One
    Renewable = {r1}
    MaxDisturbed = 1
SYMMETRY Symmetry
INVARIANTS NoPlanIsStuck CompletedExactlyWhenDone AgentLoad StoresAgree
PROPERTIES GoalMovesAreExplained ImplementsLedger
CHECK_DEADLOCK FALSE

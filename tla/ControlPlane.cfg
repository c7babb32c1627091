SPECIFICATION Spec
CONSTANTS
    None = None
    Scopes = {site, incident}
    Values = {base, low}
    Base = base
    Odd = odd
    e1 = e1
    e2 = e2
    Events = {e1, e2, e3}
    ProjectedId <- Taken
    Proposals = {p1}
    Commands = {k1, k2}
    Keys = {x1}
    Clients = {ann, bob}
    Stamps = {1, 2}
    Opening = {2}
    MaxReceived = 2
SYMMETRY Symmetry
INVARIANTS StateIsContiguous DecisionsAreGrounded ReviewStandsWhole TransitionsExplainStatus
PROPERTIES WhatIsDecidedStands
CHECK_DEADLOCK FALSE

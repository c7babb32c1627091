SPECIFICATION StoresSpec
CONSTANTS
    Outcomes = {o}
    Observations = {x}
    MaxDisturbed = 2
INVARIANTS StoresTypeOK StoresAgree
CHECK_DEADLOCK FALSE

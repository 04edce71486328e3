SPECIFICATION Spec
CONSTANTS
    Subs = {1}
    Requests = {}
    MaxGen = 2
    MaxReacts = 2
    MaxFaults = 1
INVARIANTS ReconnectHolds
CHECK_DEADLOCK FALSE

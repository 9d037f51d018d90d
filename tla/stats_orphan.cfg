CONSTANTS
    Call = {c1, c2}
    HubQueue = 1
    MaxOps = 4
    MaxCrashes = 0
    c1 = c1
    c2 = c2
SPECIFICATION Spec
CHECK_DEADLOCK FALSE
INVARIANTS
    OneOpenLoop

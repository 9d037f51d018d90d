CONSTANTS
    Call = {c1, c2}
    HubQueue = 1
    MaxOps = 2
    MaxCrashes = 1
    c1 = c1
    c2 = c2
SPECIFICATION FairSpec
CHECK_DEADLOCK FALSE
INVARIANTS
    ServiceLoopOwned
PROPERTIES
    CallsReturn
    ReplayRestoresUnlessShed
    

CONSTANTS
    Queue = 1
    MaxSets = 3
    MaxWrites = 2
SPECIFICATION FairSpec
CHECK_DEADLOCK FALSE
INVARIANTS
    WaiterSeesDeadline
PROPERTIES
    CloseReleases

CONSTANTS
    Trigger = {t1, t2}
    MaxSessions = 2
    MaxStops = 2
    MaxTriggers = 3
    Caller = {c1, c2}
    DownAfter = 2
    MaxStarts = 2
    MaxProbes = 3
    MaxChunks = 5
    Tags = 3
    minTagTrafficDelta = 2
    tagTrafficLead = 2
    MaxDelta = 4
    t1 = t1
    t2 = t2
    c1 = c1
    c2 = c2
SPECIFICATION ReportSpec
CHECK_DEADLOCK FALSE
INVARIANTS
    StateOfGeneration
    LinkHasOwner
    OnlyProxied
    PickStandsOut
PROPERTIES
    TriggersServed
    StopsReturn

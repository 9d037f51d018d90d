CONSTANTS
    Engine = {"xray", "awg"}
    Start = {r1, r2}
    Stop = {p1}
    Client = {c1}
    OneCaller = FALSE
    r1 = r1
    r2 = r2
    p1 = p1
    c1 = c1
SPECIFICATION Spec
SYMMETRY Symmetry
INVARIANTS
    OneEngine
    StoppedStaysDown
    ProbesOfRunningInstance
    NothingOutlivesSession
    StatsOfLiveSession
PROPERTIES
    CurrentInstanceSurvives

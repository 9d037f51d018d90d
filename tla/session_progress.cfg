CONSTANTS
    Engine = {"xray"}
    Start = {r1, r2}
    Stop = {p1}
    Client = {}
    OneCaller = FALSE
    r1 = r1
    r2 = r2
    p1 = p1
SPECIFICATION FairSpec
PROPERTIES
    CallsEnd
    StopTakesEffect

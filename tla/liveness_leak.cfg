CONSTANTS
    Engine = {"awg"}
    Start = {r1}
    Stop = {p1}
    Client = {}
    OneCaller = TRUE
    r1 = r1
    p1 = p1
SPECIFICATION Spec
SYMMETRY Symmetry
INVARIANTS
    LivenessEndsWithSession

CONSTANTS
    Gateway = {"g1", "g2"}
    Server = {"s1", "s2"}
    Platform = {"windows", "android", "linux"}
    Default = "app"
    Request <- MCRequest
SPECIFICATION Spec
INVARIANTS
    AllOrNothing
    GeoOfSession
    
    

CONSTANTS
    Emitter = {g1, g2}
    Second = g2
    Caller = {c1}
    maxDeferredStatus = 1
    MaxEvents = 3
    MaxIsolates = 2
    g1 = g1
    g2 = g2
    c1 = c1
SPECIFICATION MCSpec
INVARIANTS
    EmissionOrder
PROPERTIES
    OnlyLogsShed
    QueueDrains

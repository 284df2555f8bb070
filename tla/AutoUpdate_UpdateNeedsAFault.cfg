SPECIFICATION Spec
CONSTANTS
    Autos = {}
    Requests = {r1}
    Services = {s1, s2}
    MaxRelease = 1
    Concurrency = 1
    MaxFaults = 0
    None = None
INVARIANTS
    UpdateNeedsAFault
CHECK_DEADLOCK FALSE

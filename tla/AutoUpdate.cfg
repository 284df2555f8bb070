SPECIFICATION FairSpec
CONSTANTS
    Autos = {a1}
    Requests = {r1}
    Services = {s1, s2}
    MaxRelease = 1
    Concurrency = 1
    MaxFaults = 2
    None = None
INVARIANTS
    UnfinishedHasCause
PROPERTIES
    VerdictIsTrue
    CooldownHolds
    NeverBlocked
CHECK_DEADLOCK FALSE

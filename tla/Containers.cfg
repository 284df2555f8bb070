SPECIFICATION FairSpec
CONSTANTS
    Reqs = {r1, r2}
    Transport = "local"
    MaxIds = 3
    MaxFaults = 1
    Limit = 1
    None = None
INVARIANTS
    RemovedIsGone
    LossHasCause
PROPERTIES
    DeadComesBack

SPECIFICATION MCSpec
CONSTANTS
    Ops = {p1, p2, p3}
    Readers = {r1}
    NoLock = NoLock
    Old = Old
INVARIANTS
    OrphanHasCause
    FilesMatch
PROPERTIES
    ListSettles
CHECK_DEADLOCK FALSE

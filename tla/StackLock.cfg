SPECIFICATION Spec
CONSTANTS
    Ops = {p1, p2, p3, p4}
    NoLock = NoLock
INVARIANTS
    NoPanic
    NoLockout
    NoLeak
CHECK_DEADLOCK FALSE

SPECIFICATION FairConnectSpec
CONSTANTS
    Instances = {i1}
    Conns = {c1, c2}
    Requests = {}
    Admins = {a1}
    Direct = {}
    NoConn = NoConn
INVARIANTS
    NoSuccessorBeforeOffline
    OnlineNeedsAgent
PROPERTIES
    ReconnectGetsThrough
    ImplementsManager
CHECK_DEADLOCK FALSE

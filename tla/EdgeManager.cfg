SPECIFICATION FairSpec
CONSTANTS
    Instances = {i1}
    Conns = {c1, c2, c3}
    Requests = {r1}
    NoConn = NoConn
INVARIANTS
    LiveOrRetired
    AnswerIsOwn
PROPERTIES
    SuccessorSurvives
    StrandedCallReturns
    ImplementsLink
CHECK_DEADLOCK FALSE

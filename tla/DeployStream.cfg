SPECIFICATION FairStreamSpec
CONSTANTS
    Readers = {r1, r2}
    Producers = {"stack", "agentstack", "app", "agentapp"}
    MaxLines = 2
    Slack = 1
INVARIANTS
    NoPanic
    LossIsCounted
    FailedRunIsShown
PROPERTIES
    LocalDeployEnds
CHECK_DEADLOCK FALSE

\* Releases tagged without a "v" (a DOCKPAL_REPO of one's own), which update.sh
\* finds.
SPECIFICATION FairSpec
CONSTANTS
    Checks = {k1, k2}
    Tagged = FALSE
    MaxVersion = 3
    MaxRequests = 3
    MaxFaults = 2
    None = None
INVARIANTS
    WrongDoneHasCause
    LockoutHasCause
PROPERTIES
    PanelComesBack
CHECK_DEADLOCK FALSE

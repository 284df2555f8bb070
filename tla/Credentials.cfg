SPECIFICATION Spec
CONSTANTS
    Logins = {l1}
    Calls = {c1}
    MaxVersion = 1
    MaxIssued = 1
    MaxTokens = 2
    MaxSecret = 2
    None = None
INVARIANTS
    AcceptedIsCurrent
    UnreadableHasCause
    LostUpdateHasCause

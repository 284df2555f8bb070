SPECIFICATION Spec
CONSTANTS
    r1 = r1
    r2 = r2
    r3 = r3
    Reqs = {r1, r2, r3}
    Panel = "local"
    Edge = "edge"
    LocalNames = {"web", "api"}
    EdgeNames = {"web"}
    TemplateDomains = {FALSE}
    Nobody = Nobody
    MaxAtOnce = 2
SYMMETRY Symmetry
INVARIANTS
    AppsMatchRecords
    RoutesMatchRecords
    VersionHasCause
    SourceIsOwn
CHECK_DEADLOCK FALSE

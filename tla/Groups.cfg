\* Eight contents, two edits, two processes.
SPECIFICATION Spec
CONSTANTS
    Contents <- AllContents
    normalizeExpr <- Spaceless
    queryHash <- Hashed
    external = {}
    default <- OneMinute
    MaxEdits = 2
    MaxRuns = 2
CHECK_DEADLOCK FALSE
INVARIANTS
    TypeOK
    RunsAsDeclared
    NoFiringIsOrphaned
PROPERTIES
    RulesThatStayKeepAlerts
    RestartKeepsHeld

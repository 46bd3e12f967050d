\* A rule and its edited version over two starts, with every fault.
SPECIFICATION Spec
CONSTANTS
    r1 = r1
    r2 = r2
    Rule <- TwoRules
    Faults = {"crash", "load", "save", "history", "limit"}
    MaxEdits = 2
    MaxRuns = 2
SYMMETRY RuleSymmetry
CHECK_DEADLOCK FALSE
INVARIANTS
    NeverStuckFiring
    SettledOnce
PROPERTIES
    RestartKeepsAlerts

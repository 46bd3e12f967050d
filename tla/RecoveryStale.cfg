\* Two starts without any fault.
SPECIFICATION Spec
CONSTANTS
    r1 = r1
    r2 = r2
    Rule <- TwoRules
    Faults = {}
    MaxEdits = 0
    MaxRuns = 2
SYMMETRY RuleSymmetry
CHECK_DEADLOCK FALSE
INVARIANTS
    StateIsCurrent

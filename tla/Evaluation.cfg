\* Three rules, one after the other or two at a time, and two Alertmanagers.
SPECIFICATION FairEvalSpec
CONSTANTS
    r1 = r1
    r2 = r2
    r3 = r3
    am1 = am1
    am2 = am2
    Rule = {r1, r2, r3}
    order <- ThreeInOrder
    Concurrencies = {1, 2}
    Alertmanager = {am1, am2}
CHECK_DEADLOCK FALSE
INVARIANTS
    ConcurrencyBound
    SendsSucceed
    EveryRuleOnce
    FailuresReported
    NothingSkipped
PROPERTIES
    EvaluationReturns

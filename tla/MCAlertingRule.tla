---------------------------- MODULE MCAlertingRule ----------------------------
(***************************************************************************)
(* A small instance of AlertingRuleHistory for TLC.                        *)
(***************************************************************************)
EXTENDS AlertingRuleHistory, TLC

CONSTANTS a, b

TwoInstances == {a, b}

InstanceSymmetry == Permutations(Instance)

Settings(for, keep, limit, delay) ==
    [forDur |-> for, keepFire |-> keep, limit |-> limit, evalDelay |-> delay]

\* Reloads that change the wait before firing and the time kept firing, and
\* that impose a limit.
RuleConfs == {Settings(0, 0, 0, 1), Settings(2, 2, 0, 1), Settings(0, 2, 1, 1)}

Row(state, active, fired, kept) ==
    [NoAlert EXCEPT !.state = state, !.activeAt = active,
                    !.firedAt = fired, !.keepFiringSince = kept]

SavedRows ==
    {NoAlert, Row("pending", 2, Zero, Zero), Row("firing", 1, 2, Zero), Row("firing", 1, 1, 2)}

AnyRestored == [Instance -> SavedRows]
==============================================================================

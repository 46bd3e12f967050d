------------------------------ MODULE MCRecovery ------------------------------
(***************************************************************************)
(* Small instances of Recovery for TLC.                                    *)
(***************************************************************************)
EXTENDS Recovery, TLC

CONSTANTS r1, r2

\* A rule and its edited version.
TwoRules == {r1, r2}

RuleSymmetry == Permutations(Rule)
==============================================================================

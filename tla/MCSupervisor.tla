----------------------------- MODULE MCSupervisor -----------------------------
(***************************************************************************)
(* Small instances of Supervisor for TLC.                                  *)
(***************************************************************************)
EXTENDS Supervisor

CONSTANTS g1, g2

Config(one, two) == [g \in Group |-> IF g = g1 THEN one ELSE two]

\* Two contents between which one group is edited and the other added or
\* removed, and one that is rejected.
ThreeContents == 1..3

ThreeConfigs == <<Config("a", absent), Config("b", "a"), Config("b", absent)>>

ThirdRejected == {3}
==============================================================================

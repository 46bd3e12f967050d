----------------------------- MODULE MCEvaluation -----------------------------
(***************************************************************************)
(* A small instance of Evaluation for TLC.                                 *)
(***************************************************************************)
EXTENDS Evaluation

CONSTANTS r1, r2, r3, am1, am2

ThreeInOrder == <<r1, r2, r3>>
==============================================================================

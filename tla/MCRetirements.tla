----------------------------- MODULE MCRetirements -----------------------------
(***************************************************************************)
(* A small instance of Retirements for TLC.                                *)
(***************************************************************************)
EXTENDS Retirements

CONSTANTS i1, i2, g1, g2
==============================================================================

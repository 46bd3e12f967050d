------------------------------ MODULE MCDelivery ------------------------------
(***************************************************************************)
(* Small instances of Delivery for TLC.                                    *)
(***************************************************************************)
EXTENDS Delivery, TLC

CONSTANTS am1, am2

TwoReceivers == {am1, am2}

ReceiverSymmetry == Permutations(Receiver)

\* Every evaluation completes and every send arrives.
ReliableSpec == Init /\ [][Next /\ UNCHANGED <<missed, lost>>]_vars
==============================================================================

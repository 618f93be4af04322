---------------------------- MODULE MCAutoCapture ----------------------------
(* Instances of AutoCapture for TLC.                                       *)
EXTENDS AutoCapture

CONSTANTS here, there

TwoAddresses == {here, there}

(* Addresses are only compared. *)
AddressSymmetry == Permutations(TwoAddresses)

=============================================================================

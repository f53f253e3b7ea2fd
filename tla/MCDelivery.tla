----------------------------- MODULE MCDelivery -----------------------------
(***************************************************************************)
(* Values of the constants of Delivery for TLC.                            *)
(***************************************************************************)
EXTENDS Delivery, TLC

CONSTANTS r1, r2

SlotSymmetry == Permutations(Slots)

(* Payments belong to merchant 1; merchant 2 asks for retries all the same.*)
FirstOwns == [t \in Payments |-> 1]

(* The program as it is, and with its three defective lines corrected.     *)
AsBuilt == {{}}
Repaired == {Repairs}
AsBuiltAndRepaired == {{}, Repairs}
=============================================================================

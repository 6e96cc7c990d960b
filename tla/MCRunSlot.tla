------------------------------ MODULE MCRunSlot ------------------------------
(* Instances of RunSlot for TLC. *)
EXTENDS RunSlot
CONSTANTS l1, r1, r2, a, b
=============================================================================

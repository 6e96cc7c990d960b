--------------------------- MODULE MCCloudReceipts ---------------------------
(* Instances of CloudReceipts for TLC. *)
EXTENDS CloudReceipts

CONSTANTS s1, s2, c1, c2, f1, f2

MCDeadline == [c \in Commands |-> IF c = c1 THEN 1 ELSE 2]

=============================================================================

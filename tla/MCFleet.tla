------------------------------- MODULE MCFleet -------------------------------
(* Instances of Fleet for TLC. *)
EXTENDS Fleet
CONSTANTS j1, j2

OneJob == {j1}

TwoJobs == {j1, j2}
=============================================================================

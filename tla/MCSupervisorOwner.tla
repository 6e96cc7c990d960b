------------------------ MODULE MCSupervisorOwner ------------------------
(* Instances of SupervisorOwner for TLC. *)
EXTENDS SupervisorOwner
=============================================================================

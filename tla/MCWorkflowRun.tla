----------------------------- MODULE MCWorkflowRun -----------------------------
(* Instances of WorkflowRun for TLC. *)
EXTENDS WorkflowRun
CONSTANT chrome

SameBrowser == [r \in Runs |-> chrome]
=============================================================================

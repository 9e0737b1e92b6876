---------------------------- MODULE MCWorkflowRun ----------------------------
(* Three pages: one can be done, one under way and one not submitted. *)
EXTENDS WorkflowRun

ThreePages == 1..3

=============================================================================

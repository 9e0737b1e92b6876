---------------------------- MODULE MCQueueRunner ----------------------------
(* The instances of QueueRunner that TLC explores. *)
EXTENDS QueueRunner

=============================================================================

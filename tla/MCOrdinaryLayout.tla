--------------------------- MODULE MCOrdinaryLayout ---------------------------
(* The instance of OrdinaryLayout that TLC explores. *)
EXTENDS OrdinaryLayout, TLC

CONSTANTS j1, j2, m1

RunJobs == Permutations(Jobs)

=============================================================================

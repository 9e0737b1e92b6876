------------------------- MODULE MCReservationBudget -------------------------
(* The instance of ReservationBudget that TLC explores. Ids and owners are     *)
(* interchangeable: no definition distinguishes one from another.              *)
EXTENDS ReservationBudget, TLC

Interchangeable == Permutations(Ids) \union Permutations(Owners)

=============================================================================

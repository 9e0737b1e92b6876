---------------------------- MODULE MCPaidDispatch ----------------------------
(* The instance of PaidDispatch that TLC explores. Workers, executions and call *)
(* ids are interchangeable.                                                     *)
EXTENDS PaidDispatch, TLC

Interchangeable == Permutations(Ids) \union Permutations(Owners) \union Permutations(Workers)

=============================================================================

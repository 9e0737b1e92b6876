-------------------------- MODULE MCRunWorkspaceLock --------------------------
(* Three processes, each another's parent, child or stranger, with two threads; *)
(* the processes are interchangeable, and so are the threads.                   *)
EXTENDS RunWorkspaceLock, TLC

Interchangeable == Permutations(Processes) \union Permutations(Threads)

=============================================================================

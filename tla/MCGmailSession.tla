---------------------------- MODULE MCGmailSession ----------------------------
(* The instances of GmailSession that TLC explores. *)
EXTENDS GmailSession, TLC

CONSTANTS m1, m2, t1, t2

BridgeThreads == Permutations(Threads)

=============================================================================

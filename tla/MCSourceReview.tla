---------------------------- MODULE MCSourceReview ----------------------------
(* The instance of SourceReview that TLC explores: two drafts, so that one can   *)
(* be accepted while the other is edited. Drafts, settings and reviewers are      *)
(* interchangeable.                                                               *)
EXTENDS SourceReview, TLC
CONSTANTS d1, d2, s1, s2, r1, r2, n1
Interchangeable ==
  Permutations({d1, d2}) \union Permutations({s1, s2}) \union Permutations({r1, r2})
=============================================================================

-------------------------- MODULE MCTranslationJobs --------------------------
(* The instances of TranslationJobs that TLC explores. *)
EXTENDS TranslationJobs

=============================================================================

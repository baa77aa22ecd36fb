---------------------------- MODULE MCLocalUsage ----------------------------
(* Instances of LocalUsage for TLC; the sessions are interchangeable, and   *)
(* so are the models.                                                       *)
EXTENDS LocalUsage, TLC

AnyNames == Permutations(Sessions) \cup Permutations(Models)
=============================================================================

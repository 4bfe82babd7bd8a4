---------------------------- MODULE MCLLMClient -----------------------------
(***************************************************************************)
(* LLMClient on small instances: listings are interchangeable.             *)
(***************************************************************************)
EXTENDS LLMClient, TLC

InterchangeableListings == Permutations(Listings)
=============================================================================

-------------------------- MODULE MCPartialRollout --------------------------
(* Instances of PartialRollout for TLC; the .cfg files choose the constants. *)
EXTENDS PartialRollout, TLC

RequestSymmetry == Permutations(Requests)

=============================================================================

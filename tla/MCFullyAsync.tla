---------------------------- MODULE MCFullyAsync ----------------------------
(* Instances of FullyAsync for TLC; the .cfg files choose the constants. *)
EXTENDS FullyAsync

=============================================================================

--------------------------- MODULE MCMessageQueue ---------------------------
(* Model values for TLC: the consumers are two concurrent get_sample calls. *)
EXTENDS MessageQueue

CONSTANTS c1, c2

=============================================================================

---------------------------- MODULE MCRewardLoop ----------------------------
(* Small instances of RewardLoop: a second of two ticks, a request limit    *)
(* above and a token limit below one request per second.                    *)
EXTENDS RewardLoop

MCCost     == [rpm |-> 1, tpm |-> 3]
MCGenTimes == {0, 2}
MCKeys     == {"score", "acc"}
=============================================================================

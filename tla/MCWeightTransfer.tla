------------------------- MODULE MCWeightTransfer -------------------------
(* Instances of WeightTransfer for TLC.  The sizes make buckets of two     *)
(* tensors, of a large one and of one that leaves a gap.                   *)
EXTENDS WeightTransfer

MixedSizes == <<1, 1, 2, 1>>
BothEngines == {"nixl", "nccl"}
Nixl == {"nixl"}
=============================================================================

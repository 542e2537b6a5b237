-------------------------- MODULE CheckpointStore --------------------------
(***************************************************************************)
(* The checkpoint directory of a training job and the rotation that the    *)
(* checkpoint manager of every worker group applies to it                  *)
(* (utils/checkpoint/checkpoint_manager.py).                               *)
(*                                                                         *)
(* A disk maps a step to the parts of its folder global_step_<step>: the   *)
(* two model checkpoints and the dataloader's position (data.pt).  A model *)
(* checkpoint is Missing, Partial (its files are being written) or the     *)
(* model itself.  The tracker is the content of                            *)
(* latest_checkpointed_iteration.txt: 0 when there is no file, Torn when   *)
(* the file has been truncated and not yet written.                        *)
(***************************************************************************)
EXTENDS Naturals, Sequences

CONSTANTS Missing, Partial, Torn

EmptyFolder == [actor |-> Missing, critic |-> Missing, data |-> Missing]

(* the newest n of the paths a manager remembers, and those it removes to  *)
(* be left with them: the remembered paths are ordered by age              *)
KeepNewest(saved, n) == SubSeq(saved, (Len(saved) - n) + 1, Len(saved))
Dropped(saved, kept) == {saved[i] : i \in 1 .. Len(saved) - Len(kept)}

EnsureCapacityForAll(saved, keep) ==
  IF keep > 1 /\ Len(saved) >= keep THEN <<>> ELSE saved

(* what is still remembered after making room for a new checkpoint         *)
EnsureCapacity(saved, keep) ==
  IF keep > 1 /\ Len(saved) >= keep THEN KeepNewest(saved, keep - 1) ELSE saved

(* what is remembered after a checkpoint has been saved *)
RegisterCheckpoint(saved, step, keep) ==
  LET all == Append(saved, step)
  IN  IF keep > 0 /\ Len(all) > keep THEN KeepNewest(all, keep) ELSE all

(* rmtree of one part of the folders of some steps *)
Remove(disk, steps, part) ==
  [s \in DOMAIN disk |-> IF s \in steps THEN [disk[s] EXCEPT ![part] = Missing]
                                        ELSE disk[s]]

Write(disk, step, part, content) == [disk EXCEPT ![step][part] = content]

(* the step to resume from; 0 is "training from scratch" *)
FindLatest(disk, tracker) ==
  IF tracker = 0 THEN 0 ELSE IF disk[tracker] = EmptyFolder THEN 0 ELSE tracker

Loadable(content) == content \notin {Missing, Partial}
=============================================================================

--------------------------- MODULE MCTrainingLoop ---------------------------
(* Instances of TrainingLoop for TLC; the .cfg files choose the constants. *)
EXTENDS TrainingLoop

Config(pipelined, useCritic, useRm, warmup, save, test, keep, epochs, expires) ==
  [pipelined |-> pipelined, use_critic |-> useCritic, use_rm |-> useRm,
   critic_warmup |-> warmup, save_freq |-> save, test_freq |-> test,
   keep |-> keep, may_expire |-> expires,
   total_epochs |-> epochs, total_steps |-> epochs * StepsPerEpoch]

(* Critic and reward model with rotating checkpoints, an instance that     *)
(* expires, both trainers; a single checkpoint for the loads that fail.    *)
SafeConfigs ==
  {Config(FALSE, TRUE,  TRUE,  1, 1, 2, 2, 2, FALSE),
   Config(FALSE, TRUE,  FALSE, 0, 1, 1, 2, 2, FALSE),
   Config(FALSE, FALSE, FALSE, 0, 3, 0, 3, 2, TRUE),
   Config(FALSE, TRUE,  TRUE,  0, 1, 0, 1, 2, FALSE),
   Config(TRUE,  TRUE,  FALSE, 3, 1, 2, 2, 2, FALSE),
   Config(TRUE,  FALSE, FALSE, 0, 2, 1, 0, 2, TRUE)}

SingleCheckpoint == {Config(FALSE, FALSE, FALSE, 0, 1, 0, 1, 2, FALSE)}
CriticWarmup     == {Config(FALSE, TRUE, FALSE, 2, 1, 0, 2, 2, FALSE)}
OneStepOff       == {Config(TRUE, FALSE, FALSE, 0, 1, 0, 2, 2, FALSE)}
=============================================================================

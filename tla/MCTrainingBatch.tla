--------------------------- MODULE MCTrainingBatch ---------------------------
(* A small instance of TrainingBatch: four prompts with two responses each, *)
(* two ranks of two processes, two mini-batches per epoch.                  *)
EXTENDS TrainingBatch

MCResponses == (1 .. 4) \X (1 .. 2)
\* Short and long responses in every order, and a few with four lengths.
MCLengths ==
  [MCResponses -> {1, 4}]
    \cup {[r \in MCResponses |-> ((a * r[1] + b * r[2]) % 4) + 1] : a, b \in 1 .. 3}
    \cup {[r \in MCResponses |-> Min({4, (2 * r[1] + r[2]) \div 2})]}

\* A score of its own for every response.
MCScores == [r \in MCResponses |-> 3 * r[1] * r[1] + r[2]]

Setting(dynamic, estimator, mode, schedule, step) ==
  [dynamic |-> dynamic, estimator |-> estimator, loss_agg_mode |-> mode,
   schedule |-> schedule, step |-> step]

MCSettings == {
  Setting(TRUE,  "grpo", "token-mean",          "linear", 5),
  Setting(FALSE, "rloo", "seq-mean-token-sum",  "linear", 2),
  Setting(TRUE,  "grpo", "seq-mean-token-mean", "gamma",  3)}
=============================================================================

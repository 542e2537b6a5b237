-------------------------- MODULE ResponseSchedule --------------------------
(***************************************************************************)
(* The temporal schedule of RLVR (trajectory percentile schedule): how     *)
(* much of a response is context and how much of it is trained on, step by *)
(* step (AgentLoopWorker._prefix_curriculum and the tp_schedule part of    *)
(* _agent_loop_postprocess, experimental/agent_loop/agent_loop.py; the     *)
(* steps are resolved by RayPPOTrainer._resolve_schedule_ratio_to_steps).  *)
(*                                                                         *)
(* Ratios are exact fractions; the linear and, with an exponent of 2, the  *)
(* gamma curve are modelled, the sigmoid one is left out.                  *)
(***************************************************************************)
EXTENDS Integers

CONSTANTS
    PromptWindow,    \* rollout.prompt_length
    ResponseWindow,  \* rollout.response_length
    Magnitude,       \* initial_schedule_magnitude, in percent
    MinRatio, MaxRatio,  \* min_schedule_ratio and max_schedule_ratio, in percent
    TotalSteps

ASSUME ScheduleAssumption ==
    /\ {PromptWindow, ResponseWindow, TotalSteps} \subseteq Nat \ {0}
    /\ Magnitude \in 0 .. 99
    /\ {MinRatio, MaxRatio} \subseteq 0 .. 100
    /\ (TotalSteps * MinRatio) \div 100 < (TotalSteps * MaxRatio) \div 100

Modes == {"linear", "gamma"}

min_schedule_step == (TotalSteps * MinRatio) \div 100
max_schedule_step == (TotalSteps * MaxRatio) \div 100

\* What is left of the schedule, in fractions of RampSteps: 1 - progress.
RampSteps  == max_schedule_step - min_schedule_step
Rest(step) ==
  IF step <= min_schedule_step THEN RampSteps
  ELSE IF step >= max_schedule_step THEN 0
  ELSE max_schedule_step - step

\* prefix_ratio as a fraction.
Ratio(mode, step) ==
  LET part == Magnitude * Rest(step)
      all  == 100 * RampSteps
  IN IF mode = "linear" THEN [num |-> part, den |-> all]
     ELSE [num |-> part * part, den |-> all * all]

Scaled(len, ratio) == (len * ratio.num) \div ratio.den

step_prompt_length(mode, step) == PromptWindow + Scaled(ResponseWindow, Ratio(mode, step))
\* max_model_len is the sum of the two windows unless it is configured.
step_response_length(mode, step) ==
  PromptWindow + ResponseWindow - step_prompt_length(mode, step)

\* The prefix is rounded up.
PrefixRoundedUp(len, mode, step) ==
  LET r == Ratio(mode, step) IN (len * r.num + r.den - 1) \div r.den
\* tp_schedule: the tokens of a response that move to the prompt, and the rest.
PrefixLength(len, mode, step) ==
  LET prefix == Scaled(len, Ratio(mode, step))
  IN IF prefix < len - 1 THEN prefix ELSE len - 1
SuffixLength(len, mode, step) == len - PrefixLength(len, mode, step)
=============================================================================

----------------------------- MODULE Advantages -----------------------------
(***************************************************************************)
(* From a batch of scored responses to advantages (ray_trainer.py and      *)
(* core_algos.py).  With forking_tok_schedule only the tokens of highest   *)
(* entropy stay in response_mask, so the mask that reaches an estimator    *)
(* has holes in it: the estimators were written for masks that end at the  *)
(* last token (single turn) or skip tool output (multi turn).              *)
(*                                                                         *)
(* Advantages are exact: integers, and quotients as <<numerator,           *)
(* denominator>>.  Whitening, division by the standard deviation (a        *)
(* positive factor per group) and the epsilons are left out.               *)
(***************************************************************************)
EXTENDS Integers, Sequences, FiniteSets, FiniteSetsExt, Functions

CONSTANTS
    Uid,            \* non_tensor_batch["uid"]: the prompt of each row
    MaxLength,      \* columns of the batch
    Scores,         \* outcome rewards
    Ratios,         \* values of _prefix_curriculum(global_steps), in percent
    Estimators,     \* algorithm.adv_estimator
    Gamma, Lam,     \* algorithm.gamma, algorithm.lam
    Value(_, _),    \* the critic's value of a row's token
    Penalty(_, _),  \* kl_penalty of a row's token, times its coefficient
    Energy(_, _)    \* 1 - 2 pi + sum_pi_squared of a row's token

Rows    == 1 .. Len(Uid)
Columns == 1 .. MaxLength

\* A ratio of 100 would leave no token in any mask, and the losses 0 / 0.  An
\* energy is at least the square of 1 - pi.
ASSUME AdvantageAssumption ==
    /\ {Len(Uid), MaxLength, Gamma, Lam} \subseteq Nat /\ Scores \subseteq Int
    /\ Ratios \subseteq 0 .. 99
    /\ \A i \in Rows, c \in Columns :
           Value(i, c) \in Int /\ Penalty(i, c) \in Int /\ Energy(i, c) \in Nat

VARIABLES
    estimator, ratio,
    length,         \* attended response tokens of each row
    score,          \* outcome reward of each row
    mask,           \* the columns of each row with response_mask 1
    t,              \* the column the backward pass has come to
    nextvalues, lastgaelam, running_return,
    advantages,
    phase
vars == <<estimator, ratio, length, score, mask, t, nextvalues, lastgaelam,
          running_return, advantages, phase>>

Total(f) == SumFunction(f)
Whole(n) == <<n, 1>>
Init ==
    /\ estimator \in Estimators /\ ratio \in Ratios
    /\ length \in [Rows -> Columns] /\ score \in [Rows -> Scores]
    /\ mask = [i \in Rows |-> 1 .. length[i]]
    /\ t = MaxLength
    /\ nextvalues = [i \in Rows |-> 0] /\ lastgaelam = [i \in Rows |-> 0]
    /\ running_return = [i \in Rows |-> 0]
    /\ advantages = [i \in Rows |-> [c \in Columns |-> Whole(0)]]
    /\ phase = "rollout"

-----------------------------------------------------------------------------
(* compute_entropy_topk_response_mask *)

\* token_budgets: rounded up, so that a response keeps a token
Budget(valid) == (valid * (100 - ratio) + 99) \div 100

\* The entropies may single out any tokens of a response.
SelectForkingTokens ==
    /\ phase = "rollout" /\ phase' = "selected"
    /\ LET Topk(i) == kSubset(Budget(length[i]), 1 .. length[i])
       IN  \E m \in [Rows -> UNION {Topk(i) : i \in Rows}] :
               (\A i \in Rows : m[i] \in Topk(i)) /\ mask' = m
    /\ UNCHANGED <<estimator, ratio, length, score, t, nextvalues, lastgaelam,
                   running_return, advantages>>

-----------------------------------------------------------------------------
(* What an estimator is given *)

\* The score sits on the last attended token, the penalty on those in the mask.
Reward(i, c) == (IF c = length[i] THEN score[i] ELSE 0)
                - (IF c \in mask[i] THEN Penalty(i, c) ELSE 0)
Outcome(i)   == Total([c \in Columns |-> Reward(i, c)])
Group(i)     == {j \in Rows : Uid[j] = Uid[i]}

\* (token_level_rewards * response_mask), summed from the end
ReturnsOf(m, R(_, _), i, c) == Total([d \in {d \in m[i] : d >= c} |-> R(i, d)])

-----------------------------------------------------------------------------
(* compute_gae_advantage_return and compute_reinforce_plus_plus_...: one    *)
(* pass over the columns, from the last to the first, for all rows          *)

\* "skip values and TD-error on observation tokens"
SkippedReset(i, kept, carried) == IF t \in mask[i] THEN kept ELSE 0
Skipped(i, kept, carried)      == IF t \in mask[i] THEN kept ELSE carried

GaeStep ==
    /\ phase = "selected" /\ estimator = "gae" /\ t > 0
    /\ LET delta(i) == Reward(i, t) + Gamma * nextvalues[i] - Value(i, t)
           lastgaelam_(i) == delta(i) + Gamma * Lam * lastgaelam[i]
       IN  /\ nextvalues' = [i \in Rows |-> Skipped(i, Value(i, t), nextvalues[i])]
           /\ lastgaelam' = [i \in Rows |-> Skipped(i, lastgaelam_(i), lastgaelam[i])]
    /\ advantages' = [i \in Rows |-> [advantages[i] EXCEPT ![t] = Whole(lastgaelam'[i])]]
    /\ t' = t - 1
    /\ UNCHANGED <<estimator, ratio, length, score, mask, running_return, phase>>

\* The return is reset at every token outside the mask.
ReinforceStep ==
    /\ phase = "selected" /\ estimator = "reinforce_plus_plus" /\ t > 0
    /\ LET running(i) == Reward(i, t) + Gamma * running_return[i]
       IN  /\ running_return' = [i \in Rows |-> IF t \in mask[i] THEN running(i) ELSE 0]
           /\ advantages' = [i \in Rows |-> [advantages[i] EXCEPT ![t] = Whole(running(i))]]
    /\ t' = t - 1
    /\ UNCHANGED <<estimator, ratio, length, score, mask, nextvalues, lastgaelam, phase>>

PassEnds ==
    /\ phase = "selected" /\ t = 0 /\ phase' = "done"
    /\ UNCHANGED <<estimator, ratio, length, score, mask, t, nextvalues, lastgaelam,
                   running_return, advantages>>

-----------------------------------------------------------------------------
(* The estimators with a baseline per prompt: one advantage for a response  *)

N(i)   == Cardinality(Group(i))
Sum(i) == Total([j \in Group(i) |-> Outcome(j)])

\* a group of one keeps its score
Grpo(i) == IF N(i) = 1 THEN Whole(Outcome(i)) ELSE <<N(i) * Outcome(i) - Sum(i), N(i)>>
Rloo(i) == IF N(i) = 1 THEN Whole(Outcome(i)) ELSE <<N(i) * Outcome(i) - Sum(i), N(i) - 1>>
\* and has advantage 0 here
RlooVectorized(i) == IF N(i) = 1 THEN Whole(0) ELSE Rloo(i)

\* The baseline weighs a score by the response's tokens in the mask.
TokensAttended(i) == length[i]
Tokens(i) == Cardinality(mask[i])
Opo(i) ==
    LET all == Total([j \in Group(i) |-> Tokens(j)])
        weighted == Total([j \in Group(i) |-> Tokens(j) * Outcome(j)])
    IN  IF N(i) = 1 THEN Whole(Outcome(i)) ELSE <<all * Outcome(i) - weighted, all>>

OfResponse(i) ==
    CASE estimator = "grpo" -> Grpo(i)
      [] estimator = "rloo" -> Rloo(i)
      [] estimator = "rloo_vectorized" -> RlooVectorized(i)
      [] estimator = "opo" -> Opo(i)

-----------------------------------------------------------------------------
(* compute_(multi_turn_)optimal_token_baseline_advantage: a baseline for    *)
(* every token, weighted by the energy of the response so far               *)

\* w_cumulative and the returns of row i at column c
EnergyOf(m, E(_, _), i, c) == Total([d \in {d \in m[i] : d <= c} |-> E(i, d)])

\* The part of the longest response beyond the second longest has no baseline;
\* lengths are numbers of tokens in the mask, used as a position.
ZeroTail(m, G, i, k) ==
    \A j \in G \ {i} : Cardinality(m[j]) < Cardinality(m[i]) /\ Cardinality(m[j]) < k

\* The advantage at place k of a row, given per place what the rows of its
\* group have there: the return, the energy, and which rows take part.
Baselined(m, G, Ret(_, _), W(_, _), i, k) ==
    LET at == {j \in G : k \in m[j]}
        num == Total([j \in at |-> Ret(j, k) * W(j, k)])
        den == Total([j \in at |-> W(j, k)])
    IN  IF Cardinality(G) = 1 \/ den = 0 \/ ZeroTail(m, G, i, k) THEN Whole(Ret(i, k))
        ELSE <<Ret(i, k) * den - num, den>>

OptimalTokenBaseline(m, R(_, _), E(_, _), i, c) ==
    Baselined(m, Group(i), LAMBDA j, d : ReturnsOf(m, R, j, d),
              LAMBDA j, d : EnergyOf(m, E, j, d), i, c)

\* w_cumulative[i, mask]: the columns in the mask, in order
MaskedColumns(i) ==
    [k \in 1 .. Tokens(i) |-> CHOOSE c \in mask[i] : Cardinality({d \in mask[i] : d < c}) = k - 1]

\* Per turn: cut the columns outside the mask out, take the baselines by place,
\* put the advantages back into their columns.
MultiTurnBaseline(i, c) ==
    LET places == [j \in Rows |-> 1 .. Tokens(j)]
        columns == [j \in Rows |-> MaskedColumns(j)]
        k == Cardinality({d \in mask[i] : d <= c})
    IN  Baselined(places, Group(i), LAMBDA j, p : ReturnsOf(mask, Reward, j, columns[j][p]),
                  LAMBDA j, p : EnergyOf(mask, Energy, j, columns[j][p]), i, k)

\* By column.
SingleTurnBaseline(i, c) == OptimalTokenBaseline(mask, Reward, Energy, i, c)

\* The baseline, the score of a greedy response, would shift all tokens of a row
\* in the mask alike; it is taken to be 0.
Remax(i, c) == Whole(ReturnsOf(mask, Reward, i, c))

OfToken(i, c) ==
    CASE estimator = "remax" -> Remax(i, c)
      [] estimator = "optimal_token_baseline" -> SingleTurnBaseline(i, c)
      [] estimator = "tir_optimal_token_baseline" -> MultiTurnBaseline(i, c)

PerResponse == {"grpo", "rloo", "rloo_vectorized", "opo"}
PerToken    == {"remax", "optimal_token_baseline", "tir_optimal_token_baseline"}

\* advantages * response_mask
Estimate ==
    /\ phase = "selected" /\ phase' = "done"
    /\ \/ /\ estimator \in PerResponse
          /\ advantages' = [i \in Rows |-> [c \in Columns |->
                                IF c \in mask[i] THEN OfResponse(i) ELSE Whole(0)]]
       \/ /\ estimator \in PerToken
          /\ advantages' = [i \in Rows |-> [c \in Columns |->
                                IF c \in mask[i] THEN OfToken(i, c) ELSE Whole(0)]]
    /\ UNCHANGED <<estimator, ratio, length, score, mask, t, nextvalues, lastgaelam,
                   running_return>>

Next == SelectForkingTokens \/ GaeStep \/ ReinforceStep \/ PassEnds \/ Estimate
Spec == Init /\ [][Next]_vars

-----------------------------------------------------------------------------
(* Properties *)

Same(p, q) == p[1] * q[2] = q[1] * p[2]
NoHoles(i) == mask[i] = 1 .. Cardinality(mask[i])
Column(i, k) == CHOOSE c \in mask[i] : Cardinality({d \in mask[i] : d <= c}) = k

Powers(factor) ==
    LET power[n \in 0 .. MaxLength] == IF n = 0 THEN 1 ELSE factor * power[n - 1] IN power

\* The discounted sum from place k of row i, were the columns outside its mask
\* not there: of the rewards, or of the temporal-difference errors.
CutSum(i, k, factor, td) ==
    LET m == Cardinality(mask[i])
        v(j) == IF j > m THEN 0 ELSE Value(i, Column(i, j))
        term(j) == Reward(i, Column(i, j)) + (IF td THEN Gamma * v(j + 1) - v(j) ELSE 0)
    IN  Total([j \in k .. m |-> Powers(factor)[j - k] * term(j)])

\* Columns outside the mask - padding, tool output, tokens the schedule leaves
\* out - might as well not be there: GAE carries its value and its sum across
\* them, ReMax skips them, and the multi-turn baseline lines up the n-th selected
\* tokens of a prompt's responses.  REINFORCE++ and the single-turn baseline
\* promise that for masks without holes only.
CutAdvantage(i, k) ==
    CASE estimator = "gae" -> Whole(CutSum(i, k, Gamma * Lam, TRUE))
      [] estimator = "reinforce_plus_plus" -> Whole(CutSum(i, k, Gamma, FALSE))
      [] estimator = "remax" -> Whole(CutSum(i, k, 1, FALSE))
      [] OTHER -> OptimalTokenBaseline([j \in Rows |-> 1 .. Cardinality(mask[j])],
                      LAMBDA j, p : Reward(j, Column(j, p)),
                      LAMBDA j, p : Energy(j, Column(j, p)), i, k)

MaskedTokensInvisible ==
    phase = "done" /\ estimator \notin PerResponse =>
        \A i \in Rows :
            (estimator \in {"reinforce_plus_plus", "optimal_token_baseline"}
                 => \A j \in Group(i) : NoHoles(j))
            => \A k \in 1 .. Cardinality(mask[i]) :
                   Same(advantages[i][Column(i, k)], CutAdvantage(i, k))

\* A baseline takes as much from the responses of a prompt as it gives: the
\* advantages of a group cancel out, over its responses (GRPO, RLOO and its
\* vectorised form), over its selected tokens (OPO), or, weighted by energy, over
\* its n-th selected tokens (multi-turn baseline), up to the place where only one
\* response is left: that one keeps its return.
GroupCentred ==
    phase = "done" =>
        \A i \in {r \in Rows : Cardinality(Group(r)) > 1} :
            LET G == Group(i)
                first(j) == advantages[j][Column(j, 1)]
                reaching(k) == {j \in G : Cardinality(mask[j]) >= k}
                at(j, k) == advantages[j][Column(j, k)]
            IN  CASE estimator \in {"grpo", "rloo", "rloo_vectorized"} ->
                         Total([j \in G |-> first(j)[1]]) = 0
                  [] estimator = "opo" ->
                         Total([j \in G |-> Cardinality(mask[j]) * first(j)[1]]) = 0
                  [] estimator = "tir_optimal_token_baseline" ->
                         \A k \in 1 .. Cardinality(mask[i]) :
                             IF reaching(k) = {i}
                             THEN Same(at(i, k), Whole(CutSum(i, k, 1, FALSE)))
                             ELSE Total([j \in reaching(k) |->
                                            EnergyOf(mask, Energy, j, Column(j, k)) * at(j, k)[1]]) = 0
                  [] OTHER -> TRUE
=============================================================================

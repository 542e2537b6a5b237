---------------------------- MODULE TrainingBatch ----------------------------
(***************************************************************************)
(* The data of one training step, from the prompts to the gradients        *)
(* (RayPPOTrainer.fit with the engine workers): the responses are put next *)
(* to their prompts, the rows are reordered to balance the data parallel   *)
(* ranks, their log probabilities are computed in dynamic micro-batches    *)
(* and put back in order, advantages are taken within the group of a       *)
(* prompt, and the critic and the actor are trained on mini-batches that   *)
(* every rank draws from its own rows.                                     *)
(*                                                                         *)
(* A rank is a data parallel rank of GroupSize processes.  The forward and *)
(* the backward pass of a micro-batch are collective: no rank runs one     *)
(* unless all of them do.                                                  *)
(***************************************************************************)
EXTENDS SeqlenBalancing, ResponseSchedule, FiniteSetsExt

CONSTANTS
    Prompts,       \* prompts of the batch
    N,             \* rollout.n, responses per prompt
    Agents,        \* agent loop workers
    Ranks,         \* data parallel ranks
    GroupSize,     \* processes of a rank
    MiniBatch,     \* ppo_mini_batch_size, in prompts
    Epochs,        \* ppo_epochs
    max_token_len, \* tokens per micro-batch
    MicroBatchSize,\* rows per micro-batch when it is not dynamic
    Lengths,       \* the lengths the responses may have, [Responses -> tokens]
    Scores,        \* [Responses -> score]
    Settings,      \* configurations to consider
    None

Responses == (1 .. Prompts) \X (1 .. N)
RankIds   == 1 .. Ranks
Rows      == Prompts * N
Positions == 1 .. Rows
RowsPerRank == Rows \div Ranks
MiniPerRank == (MiniBatch * N) \div Ranks

SettingFields ==
  [dynamic: BOOLEAN,           \* use_dynamic_bsz
   estimator: {"grpo", "rloo"},
   loss_agg_mode: {"token-mean", "seq-mean-token-sum", "seq-mean-token-mean"},
   schedule: Modes, step: 1 .. TotalSteps]

ASSUME BatchAssumption ==
    /\ {Prompts, N, Agents, Ranks, GroupSize, MiniBatch, Epochs, max_token_len, MicroBatchSize}
         \subseteq Nat \ {0}
    /\ Rows % Agents = 0 /\ Rows % Ranks = 0
    /\ (MiniBatch * N) % Ranks = 0 /\ RowsPerRank % MiniPerRank = 0
    /\ MiniPerRank % MicroBatchSize = 0
    /\ Lengths \subseteq [Responses -> 1 .. ResponseWindow]
    /\ PromptWindow + ResponseWindow <= max_token_len
    /\ Scores \in [Responses -> Int]
    /\ Settings \subseteq SettingFields

\* Python's None is no list of micro-batches.
ASSUME NoneAssumption == None \notin [RankIds -> Seq(Seq(Nat))]

VARIABLES
    setting,
    length,   \* the tokens of each response
    stage,    \* what fit() is doing
    batch,    \* the rows: columns uid, response, logp, adv
    workload, \* workload_lst
    heap,     \* of the balancing
    share,    \* rows sent to each rank
    left,     \* rows (positions in share) its iterator has not drawn in this epoch
    epoch,
    mini,     \* the rows of the current mini-batch
    index,    \* batch_idx_list, its micro-batches (as positions in mini); None before the split
    micro,    \* those still to be run
    out,      \* outputs of those that were
    grad      \* the weight of a token of each response in the current gradient

call == <<share, left, epoch, mini, index, micro, out, grad>>
vars == <<setting, length, stage, batch, workload, heap, call>>

SeqLen(r)    == PromptWindow + length[r]
\* The tokens a row is trained on.
Tokens(r)    == SuffixLength(length[r], setting.schedule, setting.step)
SumOver(f(_), S) == MapThenSumSet(f, S)

\* DataProto.chunk and concat.
Chunk(rows, k) ==
  Listed([c \in 1 .. k |->
            SubSeq(rows, (c - 1) * (Len(rows) \div k) + 1, c * (Len(rows) \div k))])

Init ==
  /\ setting \in Settings
  /\ length \in Lengths
  /\ stage = "generate" /\ batch = <<>> /\ workload = <<>> /\ heap = {}
  /\ share = [k \in RankIds |-> <<>>] /\ left = [k \in RankIds |-> {}]
  /\ epoch = 0
  /\ mini = [k \in RankIds |-> <<>>]
  /\ index = [k \in RankIds |-> <<>>] /\ micro = [k \in RankIds |-> <<>>]
  /\ out = [k \in RankIds |-> <<>>]
  /\ grad = [r \in Responses |-> None]

-----------------------------------------------------------------------------
(* Generation.                                                              *)

\* The copies of a prompt are spread over the batch.
RepeatTiled(rows, n) == [i \in 1 .. n * Len(rows) |-> rows[((i - 1) % Len(rows)) + 1]]
\* DataProto.repeat, interleaved.
Repeat(rows, n) == [i \in 1 .. n * Len(rows) |-> rows[(i - 1) \div n + 1]]

Prompt == [p \in 1 .. Prompts |-> p]
\* The agent loop workers answer the rows of their chunk, each in its place;
\* the i-th row of a prompt gets its i-th response.
Answers ==
  LET asked  == [i \in Positions |-> ((i - 1) \div N) + 1]
      answer == [i \in Positions |-> <<asked[i], ((i - 1) % N) + 1>>]
  IN FlattenSeq(Chunk(answer, Agents))

GenerateSequences ==
  /\ stage = "generate"
  /\ batch' = LET uid    == Repeat(Prompt, N)
                  answer == Answers
              IN [i \in Positions |->
                    [uid |-> uid[i], response |-> answer[i], logp |-> None, adv |-> None]]
  /\ stage' = "balance"
  /\ UNCHANGED <<setting, length, workload, heap, call>>

-----------------------------------------------------------------------------
(* _balance_batch.                                                          *)

BalanceBatch ==
  /\ stage = "balance"
  /\ workload' = Listed([i \in DOMAIN batch |-> calculate_workload(SeqLen(batch[i].response))])
  /\ heap' = FirstStates(workload', Ranks, TRUE)
  /\ stage' = "merge"
  /\ UNCHANGED <<setting, length, batch, call>>

MergeStates ==
  /\ stage = "merge"
  /\ \E s, t \in heap :
       /\ IsTop(s, heap) /\ IsTop(t, heap \ {s}) /\ s # t
       /\ heap' = (heap \ {s, t}) \cup {Merged(s, t)}
  /\ UNCHANGED <<setting, length, stage, batch, workload, call>>

\* The rows in the order of the parts, small ones at both ends of each.
Reordered ==
  LET parts == PartsOf(CHOOSE s \in heap : TRUE)
      order == FlattenSeq(Listed([k \in DOMAIN parts |-> SmallAtEnds(parts[k], workload)]))
  IN Listed([i \in DOMAIN batch |-> batch[order[i]]])

Reorder ==
  /\ stage = "merge" /\ Cardinality(heap) = 1
  /\ batch' = Reordered
  /\ mini' = Chunk(batch', Ranks) /\ index' = None
  /\ stage' = "logprob"
  /\ UNCHANGED <<setting, length, workload, heap, share, left, epoch, micro, out, grad>>

-----------------------------------------------------------------------------
(* prepare_micro_batches, on every rank.                                    *)

MiniLengths(k) == Listed([i \in DOMAIN mini[k] |-> SeqLen(mini[k][i].response)])

\* Every rank makes the micro-batches it needs.
MicroBatchesAlone ==
  Listed([k \in RankIds |->
    MicroBatches(MiniLengths(k), WantedMicroBatches(MiniLengths(k), max_token_len))])
\* All ranks make as many as the one that needs most (all_reduce).
MicroBatchesAgreed ==
  LET wanted == {WantedMicroBatches(MiniLengths(k), max_token_len) : k \in RankIds}
      most   == CHOOSE m \in wanted : \A n \in wanted : n <= m
  IN Listed([k \in RankIds |-> MicroBatches(MiniLengths(k), most)])

FixedMicroBatches(k) ==
  LET rows == Listed([i \in DOMAIN mini[k] |-> i]) IN Chunk(rows, Len(rows) \div MicroBatchSize)

PrepareMicroBatches ==
  /\ index = None
  /\ index' = IF setting.dynamic THEN MicroBatchesAgreed
              ELSE Listed([k \in RankIds |-> FixedMicroBatches(k)])
  /\ micro' = index'
  /\ UNCHANGED <<setting, length, stage, batch, workload, heap, share, left, epoch, mini, out,
                 grad>>

-----------------------------------------------------------------------------
(* compute_log_prob, and the advantages.                                    *)

EveryRankReady == index # None /\ \A k \in RankIds : micro[k] # <<>>
NoRankReady    == index # None /\ \A k \in RankIds : micro[k] = <<>>

ComputeLogProb ==
  /\ stage = "logprob" /\ EveryRankReady
  /\ out' = [k \in RankIds |->
               Append(out[k], [i \in DOMAIN Head(micro[k]) |-> mini[k][Head(micro[k])[i]].response])]
  /\ micro' = [k \in RankIds |-> Tail(micro[k])]
  /\ UNCHANGED <<setting, length, stage, batch, workload, heap, share, left, epoch, mini, index, grad>>

\* postprocess_batch_func.
Restored(k) ==
  IF setting.dynamic
  THEN restore_dynamic_batch(FlattenSeq(out[k]), index[k])
  ELSE FlattenSeq(out[k])

\* dispatch_nd_compute sends a process the share of its rank; collect_nd_compute
\* takes the answer of one process of each rank, in the order of the processes.
Processes      == 1 .. Ranks * GroupSize
RankOf(proc)   == (proc - 1) \div GroupSize + 1
Answering(proc) == (proc - 1) % GroupSize = 0
Collected(answer) ==
  FlattenSeq([i \in RankIds |->
    answer[RankOf(Ascending({p \in Processes : Answering(p)})[i])]])

CollectLogProbs ==
  /\ stage = "logprob" /\ NoRankReady
  /\ batch' = LET logp == Collected([k \in RankIds |-> Restored(k)]) IN
               [i \in DOMAIN batch |-> [batch[i] EXCEPT !.logp = logp[i]]]
  /\ out' = [k \in RankIds |-> <<>>]
  /\ stage' = "advantage"
  /\ UNCHANGED <<setting, length, workload, heap, share, left, epoch, mini, index, micro, grad>>

\* id2score.
GroupOf(i) == {j \in DOMAIN batch : batch[j].uid = batch[i].uid}

\* GRPO (without the division by the deviation) and RLOO, as a fraction.
Advantage(i) ==
  LET group == GroupOf(i)
      n     == Cardinality(group)
      score(j) == Scores[batch[j].response]
      total == SumOver(score, group)
  IN IF n = 1 THEN [num |-> score(i), den |-> 1]
     ELSE [num |-> n * score(i) - total,
           den |-> IF setting.estimator = "grpo" THEN n ELSE n - 1]

\* Starts a training call: the rows go to the ranks, nothing is drawn yet.
StartTraining(rows) ==
  /\ share' = Chunk(rows, Ranks)
  /\ left'  = [k \in RankIds |-> 1 .. RowsPerRank]
  /\ epoch' = 1
  /\ grad' = [r \in Responses |-> None]

ComputeAdvantage ==
  /\ stage = "advantage"
  /\ batch' = Listed([i \in DOMAIN batch |-> [batch[i] EXCEPT !.adv = Advantage(i)]])
  /\ StartTraining(batch')
  /\ stage' = "critic"
  /\ UNCHANGED <<setting, length, workload, heap, mini, index, micro, out>>

-----------------------------------------------------------------------------
(* train_mini_batch of the critic, then of the actor.                       *)

Training == stage \in {"critic", "actor"}

\* The next mini-batch of the (shuffling) iterator of each rank.
DrawMiniBatch ==
  /\ Training /\ NoRankReady /\ \A k \in RankIds : left[k] # {}
  /\ \E drawn \in [RankIds -> SUBSET (1 .. RowsPerRank)] :
       /\ \A k \in RankIds : drawn[k] \subseteq left[k] /\ Cardinality(drawn[k]) = MiniPerRank
       /\ left' = [k \in RankIds |-> left[k] \ drawn[k]]
       /\ mini' = [k \in RankIds |->
                     LET order == Ascending(drawn[k]) IN
                     [i \in 1 .. MiniPerRank |-> share[k][order[i]]]]
  /\ index' = None
  /\ grad' = [r \in Responses |-> None]    \* optimizer_zero_grad
  /\ UNCHANGED <<setting, length, stage, batch, workload, heap, share, epoch, micro, out>>

RowsIn(rows) == {rows[i].response : i \in DOMAIN rows}
TokensIn(S)  == SumOver(Tokens, S)

MiniRows == UNION {RowsIn(mini[k]) : k \in RankIds}

\* agg_loss: the weight it gives to a token of r, before the ranks are averaged.
WeightInLoss(r, dp_size, batch_num_tokens, global_batch_size) ==
  CASE setting.loss_agg_mode = "token-mean" ->
         [num |-> dp_size, den |-> batch_num_tokens]
    [] setting.loss_agg_mode = "seq-mean-token-sum" ->
         [num |-> dp_size, den |-> global_batch_size]
    [] setting.loss_agg_mode = "seq-mean-token-mean" ->
         [num |-> dp_size, den |-> global_batch_size * Tokens(r)]

\* The policy loss is normalised by the tokens of the rank.
PolicyWeightOfRank(r, rows) ==
  LET k == CHOOSE k \in RankIds : r \in RowsIn(mini[k])
  IN WeightInLoss(r, Ranks, TokensIn(RowsIn(mini[k])), MiniBatch * N)
\* ppo_loss is given the tokens and the rows of the global mini-batch;
PolicyWeight(r, rows) == WeightInLoss(r, Ranks, TokensIn(MiniRows), MiniBatch * N)
\* compute_value_loss knows its micro-batch only.
ValueWeight(r, rows) == WeightInLoss(r, 1, TokensIn(RowsIn(rows)), Cardinality(RowsIn(rows)))

\* The rows of a rank's next micro-batch.
Current(k) == Listed([i \in DOMAIN Head(micro[k]) |-> mini[k][Head(micro[k])[i]]])
InUse      == UNION {RowsIn(Current(k)) : k \in RankIds}
WeightNow(r) ==
  LET rows == Current(CHOOSE k \in RankIds : r \in RowsIn(Current(k)))
  IN IF stage = "actor" THEN PolicyWeight(r, rows) ELSE ValueWeight(r, rows)

\* One backward pass; the gradients of the ranks are averaged.
TrainMicroBatch ==
  /\ Training /\ EveryRankReady
  /\ grad' = [r \in Responses |->
                IF r \in InUse THEN [WeightNow(r) EXCEPT !.den = @ * Ranks] ELSE grad[r]]
  /\ micro' = [k \in RankIds |-> Tail(micro[k])]
  /\ UNCHANGED <<setting, length, stage, batch, workload, heap, share, left, epoch, mini, index, out>>

EpochDrawn == Training /\ NoRankReady /\ \A k \in RankIds : left[k] = {}

NextEpoch ==
  /\ EpochDrawn /\ epoch < Epochs
  /\ epoch' = epoch + 1
  /\ left' = [k \in RankIds |-> 1 .. RowsPerRank]
  /\ UNCHANGED <<setting, length, stage, batch, workload, heap, share, mini, index, micro, out, grad>>

CriticUpdated ==
  /\ EpochDrawn /\ epoch = Epochs /\ stage = "critic"
  /\ StartTraining(batch)
  /\ stage' = "actor"
  /\ UNCHANGED <<setting, length, batch, workload, heap, mini, index, micro, out>>

ActorUpdated ==
  /\ EpochDrawn /\ epoch = Epochs /\ stage = "actor"
  /\ stage' = "done"
  /\ UNCHANGED <<setting, length, batch, workload, heap, call>>

Done == stage = "done" /\ UNCHANGED vars

Next ==
  \/ GenerateSequences \/ BalanceBatch \/ MergeStates \/ Reorder \/ PrepareMicroBatches
  \/ ComputeLogProb \/ CollectLogProbs \/ ComputeAdvantage
  \/ DrawMiniBatch \/ TrainMicroBatch \/ NextEpoch \/ CriticUpdated \/ ActorUpdated
  \/ Done

Spec == Init /\ [][Next]_vars

-----------------------------------------------------------------------------
(* Properties.                                                              *)

\* The advantage of a response within the responses to its prompt.
GroupAdvantage(r) ==
  LET total == SumOver(LAMBDA c : Scores[<<r[1], c>>], 1 .. N)
  IN IF N = 1 THEN [num |-> Scores[r], den |-> 1]
     ELSE [num |-> N * Scores[r] - total, den |-> IF setting.estimator = "grpo" THEN N ELSE N - 1]

\* union, reorder, restore_dynamic_batch, collect: after the rows have been
\* moved between four orders, every response is in the batch once, next to its
\* own prompt, its own log probability and the advantage of its own group
\* (ray_trainer.py:1586: the new order does not affect the advantages).
OwnColumns ==
  /\ stage # "generate" => {batch[i].response : i \in DOMAIN batch} = Responses
  /\ \A i \in DOMAIN batch :
       LET row == batch[i] IN
       /\ row.uid = row.response[1]
       /\ row.logp \in {None, row.response}
       /\ row.adv # None => row.adv = GroupAdvantage(row.response)

\* karmarkar_karp: from the first state to the last merge the bins of a state
\* hold equally many rows, and their loads differ by no more than those of
\* Ranks rows that follow each other in the order of their workloads: the ranks
\* end no further apart than single rows do, however many rows each of them has.
Balanced ==
  stage = "merge" =>
    LET first == FirstStates(workload, Ranks, TRUE) IN
    \A s \in heap : \A i, j \in DOMAIN s :
      /\ Len(s[i].items) = Len(s[j].items)
      /\ \E block \in first : s[i].sum - s[j].sum <= Spread(block)

\* agg_loss "is invariant to fsdp/megatron parallelism" for the weights a
\* token of the mini-batch has, however its rows are spread over ranks and
\* micro-batches.
EvenWeight(r) ==
  LET all == CASE setting.loss_agg_mode = "token-mean" -> TokensIn(MiniRows)
               [] setting.loss_agg_mode = "seq-mean-token-sum" -> MiniBatch * N
               [] setting.loss_agg_mode = "seq-mean-token-mean" -> MiniBatch * N * Tokens(r)
  IN all * grad[r].num = grad[r].den
PolicyLossInvariant == stage = "actor" => \A r \in Responses : grad[r] # None => EvenWeight(r)
ValueLossInvariant  == stage = "critic" => \A r \in Responses : grad[r] # None => EvenWeight(r)

\* rearrange_micro_batches: no rank is left waiting in a collective call for a
\* rank that has no micro-batch left for it, and no micro-batch is empty.
Lockstep ==
  index # None =>
    \A j, k \in RankIds : /\ Len(micro[j]) = Len(micro[k])
                          /\ \A i \in DOMAIN micro[k] : micro[k][i] # <<>>

\* tp_schedule: at every step some of a response is trained on, prompt and
\* prefix fit the prompt window of the step and the suffix its response window
\* although the three lengths are rounded separately, and the next step trains
\* on no less of it.
ScheduleFits ==
  LET mode == setting.schedule
      step == setting.step
  IN \A len \in 1 .. ResponseWindow :
    /\ SuffixLength(len, mode, step) >= 1
    /\ PromptWindow + PrefixLength(len, mode, step) <= step_prompt_length(mode, step)
    /\ SuffixLength(len, mode, step) <= step_response_length(mode, step)
    /\ SuffixLength(len, mode, step) <= SuffixLength(len, mode, step + 1)
=============================================================================

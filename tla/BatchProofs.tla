----------------------------- MODULE BatchProofs -----------------------------
(***************************************************************************)
(* The data of a training step, for every number of prompts, responses,    *)
(* ranks and steps: the response schedule fits its windows, the weights of *)
(* the policy's gradient do not depend on the batching, the rows are       *)
(* balanced over the ranks at every merge, every row keeps the columns of  *)
(* its response however often it is moved, and no rank waits for another   *)
(* that has no micro-batch left.                                           *)
(***************************************************************************)
EXTENDS TrainingBatch, FiniteSetTheorems, SequenceTheorems, WellFoundedInduction, TLAPS

-----------------------------------------------------------------------------
(* Arithmetic. *)

LEMMA Products ==
  ASSUME NEW a \in Nat, NEW b \in Nat, NEW c \in Nat
  PROVE  /\ a * c \in Nat /\ a * c = c * a /\ (a + 1) * c = a * c + c /\ (a + b) * c = a * c + b * c
         /\ a <= b => a * c <= b * c /\ c * a <= c * b
         /\ a < b /\ c > 0 => a * c < b * c
<1>1. a * c \in Nat /\ a * c = c * a /\ (a + 1) * c = a * c + c /\ (a + b) * c = a * c + b * c
  OBVIOUS
<1>2. b * c \in Nat /\ b * c = c * b
  OBVIOUS
<1>3. ASSUME a <= b PROVE a * c <= b * c
  <2>1. PICK d \in Nat : b = a + d
    <3>1. b - a \in Nat /\ b = a + (b - a)
      BY <1>3
    <3> QED
      BY <3>1
  <2>2. b * c = a * c + d * c /\ d * c \in Nat
    BY <2>1
  <2> QED
    BY <1>1, <2>2
<1>4. ASSUME a < b, c > 0 PROVE a * c < b * c
  <2>1. PICK d \in Nat : b = a + d + 1
    <3>1. b - a - 1 \in Nat /\ b = a + (b - a - 1) + 1
      BY <1>4
    <3> QED
      BY <3>1
  <2>2. b * c = a * c + d * c + c /\ d * c \in Nat
    BY <2>1
  <2> QED
    BY <1>1, <1>4, <2>2
<1> QED
  BY <1>1, <1>2, <1>3, <1>4

LEMMA DivFacts ==
  ASSUME NEW a \in Nat, NEW d \in Nat \ {0}
  PROVE  a \div d \in Nat /\ (a \div d) * d <= a /\ a < (a \div d) * d + d
OBVIOUS

\* A quotient is below q if its dividend is below q divisors.
LEMMA DivBelow ==
  ASSUME NEW a \in Nat, NEW d \in Nat \ {0}, NEW q \in Nat, a < q * d
  PROVE  a \div d < q
<1> DEFINE p == a \div d
<1>1. p \in Nat /\ p * d <= a
  BY DivFacts
<1> HIDE DEF p
<1>2. ASSUME q <= p PROVE FALSE
  <2>1. q * d <= p * d /\ q * d \in Nat /\ p * d \in Nat
    BY <1>1, <1>2, Products
  <2> QED
    BY <1>1, <2>1
<1> QED
  BY <1>1, <1>2 DEF p

LEMMA DivMonotonic ==
  ASSUME NEW a \in Nat, NEW b \in Nat, NEW d \in Nat \ {0}, a <= b
  PROVE  a \div d <= b \div d
<1> DEFINE p == b \div d
<1>1. p \in Nat /\ b < p * d + d
  BY DivFacts
<1>2. a \div d \in Nat
  BY DivFacts
<1> HIDE DEF p
<1>3. (p + 1) * d = p * d + d /\ p + 1 \in Nat /\ p * d \in Nat
  BY <1>1, Products
<1>4. a < (p + 1) * d
  BY <1>1, <1>3
<1>5. a \div d < p + 1
  BY <1>3, <1>4, DivBelow
<1> QED
  BY <1>1, <1>2, <1>5 DEF p

-----------------------------------------------------------------------------
(* The response schedule. *)

IsRatio(r) == r \in [num : Nat, den : Nat \ {0}] /\ r.num < r.den

LEMMA ScaledFacts ==
  ASSUME NEW r, IsRatio(r), NEW len \in Nat, NEW m \in Nat, len <= m
  PROVE  /\ Scaled(len, r) \in Nat /\ Scaled(len, r) <= Scaled(m, r)
         /\ Scaled(m, r) <= Scaled(len, r) + (m - len)
         /\ len > 0 => Scaled(len, r) <= len - 1
<1> DEFINE num == r.num
           den == r.den
           s   == (len * num) \div den
<1>1. num \in Nat /\ den \in Nat \ {0} /\ num < den
  BY DEF IsRatio
<1>2. Scaled(len, r) = s /\ Scaled(m, r) = (m * num) \div den
  BY DEF Scaled
<1> HIDE DEF num, den
<1>3. len * num \in Nat /\ m * num \in Nat /\ len * num <= m * num
  BY <1>1, Products
<1>4. s \in Nat /\ len * num < s * den + den
  BY <1>1, <1>3, DivFacts
<1>5. s <= (m * num) \div den /\ (m * num) \div den \in Nat
  BY <1>1, <1>3, DivFacts, DivMonotonic
<1> HIDE DEF s
<1>6. (m * num) \div den <= s + (m - len)
  <2> DEFINE e == m - len
  <2>1. e \in Nat /\ m = len + e
    OBVIOUS
  <2> HIDE DEF e
  <2>2. m * num = len * num + e * num /\ e * num <= e * den /\ e * num \in Nat /\ e * den \in Nat
    <3>1. m * num = len * num + e * num /\ e * num \in Nat
      BY <1>1, <2>1, Products
    <3>2. e * num <= e * den /\ e * den \in Nat
      BY <1>1, <2>1, Products
    <3> QED
      BY <3>1, <3>2
  <2>3. (s + e) * den = s * den + e * den /\ (s + e + 1) * den = (s + e) * den + den /\ s * den \in Nat
    BY <1>1, <1>4, <2>1, Products
  <2>4. m * num < (s + e + 1) * den
    BY <1>1, <1>3, <1>4, <2>2, <2>3
  <2>5. (m * num) \div den < s + e + 1
    BY <1>1, <1>3, <1>4, <2>1, <2>4, DivBelow
  <2> QED
    BY <1>4, <1>5, <2>1, <2>5 DEF e
<1>7. ASSUME len > 0 PROVE s <= len - 1
  <2>1. num * len < den * len /\ num * len = len * num /\ den * len = len * den
    BY <1>1, <1>7, Products
  <2>2. s < len
    BY <1>1, <1>3, <2>1, DivBelow DEF s
  <2> QED
    BY <1>4, <2>2
<1> QED
  BY <1>2, <1>4, <1>5, <1>6, <1>7

LEMMA ScheduleConstants ==
  /\ PromptWindow \in Nat \ {0} /\ ResponseWindow \in Nat \ {0} /\ TotalSteps \in Nat \ {0}
  /\ Magnitude \in 0 .. 99
  /\ min_schedule_step \in Nat /\ max_schedule_step \in Nat /\ min_schedule_step < max_schedule_step
<1>1. /\ PromptWindow \in Nat \ {0} /\ ResponseWindow \in Nat \ {0} /\ TotalSteps \in Nat \ {0}
      /\ Magnitude \in 0 .. 99 /\ MinRatio \in Nat /\ MaxRatio \in Nat
      /\ min_schedule_step < max_schedule_step
  BY ScheduleAssumption DEF min_schedule_step, max_schedule_step
<1>2. TotalSteps * MinRatio \in Nat /\ TotalSteps * MaxRatio \in Nat
  BY <1>1, Products
<1>3. min_schedule_step \in Nat /\ max_schedule_step \in Nat
  BY <1>2, DivFacts DEF min_schedule_step, max_schedule_step
<1> QED
  BY <1>1, <1>3

\* The ratio is below one, and never rises.
LEMMA Ratios ==
  ASSUME NEW mode \in Modes, NEW step \in Nat
  PROVE  /\ IsRatio(Ratio(mode, step)) /\ IsRatio(Ratio(mode, step + 1))
         /\ Ratio(mode, step + 1).den = Ratio(mode, step).den
         /\ Ratio(mode, step + 1).num <= Ratio(mode, step).num
<1> DEFINE all == 100 * RampSteps
           part(s) == Magnitude * Rest(s)
<1>1. RampSteps \in Nat \ {0}
  BY ScheduleConstants DEF RampSteps
<1>2. \A s \in Nat : Rest(s) \in 0 .. RampSteps
  BY <1>1, ScheduleConstants DEF Rest, RampSteps
<1>3. Rest(step + 1) <= Rest(step)
  BY <1>1, ScheduleConstants DEF Rest, RampSteps
<1>4. all \in Nat \ {0}
  BY <1>1
<1>5. \A s \in Nat : part(s) \in Nat /\ part(s) < all
  <2> SUFFICES ASSUME NEW s \in Nat PROVE part(s) \in Nat /\ part(s) < all
    OBVIOUS
  <2>1. Rest(s) \in Nat /\ Rest(s) <= RampSteps /\ Magnitude \in Nat /\ Magnitude <= 99
    BY <1>1, <1>2, ScheduleConstants
  <2>2. /\ Magnitude * Rest(s) \in Nat
        /\ Magnitude * Rest(s) <= 99 * Rest(s) /\ 99 * Rest(s) <= 99 * RampSteps
    BY <1>1, <2>1, Products
  <2> QED
    BY <1>1, <2>1, <2>2
<1>6. part(step + 1) <= part(step)
  BY <1>2, <1>3, ScheduleConstants, Products
<1>7. step + 1 \in Nat
  OBVIOUS
<1>8. \A s \in Nat : Ratio(mode, s) = IF mode = "linear" THEN [num |-> part(s), den |-> all]
                                      ELSE [num |-> part(s) * part(s), den |-> all * all]
  BY DEF Ratio
<1> HIDE DEF all, part
<1>9. \A s \in Nat : part(s) * part(s) \in Nat /\ part(s) * part(s) < all * all /\ all * all \in Nat \ {0}
  <2> SUFFICES ASSUME NEW s \in Nat
               PROVE  part(s) * part(s) \in Nat /\ part(s) * part(s) < all * all /\ all * all \in Nat \ {0}
    OBVIOUS
  <2>1. part(s) \in Nat /\ part(s) < all /\ part(s) <= all
    BY <1>4, <1>5
  <2>2. part(s) * part(s) \in Nat /\ part(s) * part(s) <= all * part(s) /\ all * part(s) \in Nat
    BY <1>4, <2>1, Products
  <2>3. part(s) * all < all * all /\ part(s) * all = all * part(s) /\ all * all \in Nat
    BY <1>4, <2>1, Products
  <2> QED
    BY <2>2, <2>3
<1>10. part(step + 1) * part(step + 1) <= part(step) * part(step)
  <2>1. part(step + 1) \in Nat /\ part(step) \in Nat
    BY <1>5, <1>7
  <2>2. part(step + 1) * part(step + 1) <= part(step) * part(step + 1)
    BY <1>6, <2>1, Products
  <2>3. part(step) * part(step + 1) <= part(step) * part(step)
    BY <1>6, <2>1, Products
  <2> QED
    BY <1>9, <2>1, <2>2, <2>3
<1> QED
  BY <1>4, <1>5, <1>6, <1>7, <1>8, <1>9, <1>10 DEF IsRatio

LEMMA ScheduleFitsAt ==
  ASSUME NEW mode \in Modes, NEW step \in 1 .. TotalSteps, NEW len \in 1 .. ResponseWindow
  PROVE  /\ SuffixLength(len, mode, step) >= 1
         /\ PromptWindow + PrefixLength(len, mode, step) <= step_prompt_length(mode, step)
         /\ SuffixLength(len, mode, step) <= step_response_length(mode, step)
         /\ SuffixLength(len, mode, step) <= SuffixLength(len, mode, step + 1)
<1> DEFINE r == Ratio(mode, step)
           q == Ratio(mode, step + 1)
           W == ResponseWindow
<1>1. W \in Nat \ {0} /\ PromptWindow \in Nat /\ step \in Nat /\ len \in Nat /\ len > 0 /\ len <= W
  BY ScheduleConstants
<1>2. IsRatio(r) /\ IsRatio(q) /\ q.den = r.den /\ q.num <= r.num
  BY <1>1, Ratios
<1> HIDE DEF r, q, W
<1>3. /\ Scaled(len, r) \in Nat /\ Scaled(len, r) <= Scaled(W, r) /\ Scaled(len, r) <= len - 1
      /\ Scaled(W, r) <= Scaled(len, r) + (W - len)
  BY <1>1, <1>2, ScaledFacts
<1>4. Scaled(W, r) \in Nat
  BY <1>1, <1>2, ScaledFacts
<1>5. Scaled(len, q) \in Nat /\ Scaled(len, q) <= len - 1
  BY <1>1, <1>2, ScaledFacts
<1>6. Scaled(len, q) <= Scaled(len, r)
  <2>1. q.num \in Nat /\ r.num \in Nat /\ r.den \in Nat \ {0}
    BY <1>2 DEF IsRatio
  <2>2. len * q.num <= len * r.num /\ len * q.num \in Nat /\ len * r.num \in Nat
    BY <1>1, <1>2, <2>1, Products
  <2> QED
    BY <1>2, <2>1, <2>2, DivMonotonic DEF Scaled
<1>7. PrefixLength(len, mode, step) = Scaled(len, r) /\ PrefixLength(len, mode, step + 1) = Scaled(len, q)
  BY <1>1, <1>3, <1>5 DEF PrefixLength, r, q
<1>8. /\ step_prompt_length(mode, step) = PromptWindow + Scaled(W, r)
      /\ step_response_length(mode, step) = PromptWindow + W - (PromptWindow + Scaled(W, r))
  BY DEF step_prompt_length, step_response_length, r, W
<1>9. /\ SuffixLength(len, mode, step) = len - Scaled(len, r)
      /\ SuffixLength(len, mode, step + 1) = len - Scaled(len, q)
  BY <1>7 DEF SuffixLength
<1> QED
  BY <1>1, <1>3, <1>4, <1>5, <1>6, <1>7, <1>8, <1>9

\* The configuration and the lengths of the responses are those of the start.
SettingKept == setting \in Settings /\ length \in Lengths

LEMMA SettingInvariance == Spec => []SettingKept
<1>1. Init => SettingKept
  BY DEF Init, SettingKept
<1>2. SettingKept /\ [Next]_vars => SettingKept'
  <2> SUFFICES ASSUME SettingKept, [Next]_vars PROVE SettingKept'
    OBVIOUS
  <2>1. setting' = setting /\ length' = length
    BY DEF Next, vars, GenerateSequences, BalanceBatch, MergeStates, Reorder, PrepareMicroBatches,
           ComputeLogProb, CollectLogProbs, ComputeAdvantage, DrawMiniBatch, TrainMicroBatch, NextEpoch,
           CriticUpdated, ActorUpdated, Done
  <2> QED
    BY <2>1 DEF SettingKept
<1> QED
  BY <1>1, <1>2, PTL DEF Spec

\* tp_schedule trains on some of every response, prompt and prefix fit the
\* prompt window of the step, the suffix its response window, and the next step
\* trains on no less, for every window, magnitude and schedule of either kind.
THEOREM ScheduleHolds == Spec => []ScheduleFits
<1>1. SettingKept => ScheduleFits
  <2> SUFFICES ASSUME SettingKept PROVE ScheduleFits
    OBVIOUS
  <2>1. setting.schedule \in Modes /\ setting.step \in 1 .. TotalSteps
    BY BatchAssumption DEF SettingKept, SettingFields
  <2> QED
    BY <2>1, ScheduleFitsAt DEF ScheduleFits
<1> QED
  BY <1>1, SettingInvariance, PTL

-----------------------------------------------------------------------------
(* Induction. *)

LEMMA Least ==
  ASSUME NEW T \in SUBSET Nat, T # {}
  PROVE  \E m \in T : \A n \in T : m <= n
<1> DEFINE R == OpToRel(<, Nat)
<1>1. IsWellFoundedOn(R, Nat)
  BY NatLessThanWellFounded
<1>2. \A n, m \in Nat : n < m => <<n, m>> \in R
  BY DEF OpToRel
<1> HIDE DEF R
<1>3. PICK m \in T : \A n \in T : ~(<<n, m>> \in R)
  BY <1>1, WFMin
<1>4. ASSUME NEW n \in T PROVE m <= n
  <2>1. n \in Nat /\ m \in Nat /\ ~(<<n, m>> \in R)
    BY <1>3
  <2>2. ~(n < m)
    BY <1>2, <2>1
  <2> QED
    BY <2>1, <2>2
<1> QED
  BY <1>4

\* A set of numbers that holds 0 and with every number the next one.
LEMMA Inductive ==
  ASSUME NEW I, 0 \in I, \A n \in Nat : n \in I => n + 1 \in I
  PROVE  \A n \in Nat : n \in I
<1> DEFINE T == Nat \ I
<1> SUFFICES ASSUME T # {} PROVE FALSE
  OBVIOUS
<1>1. PICK m \in T : \A n \in T : m <= n
  BY Least
<1>2. m \in Nat /\ m \notin I /\ m # 0
  BY <1>1
<1>3. m - 1 \in Nat /\ m - 1 \notin T
  BY <1>1, <1>2
<1>4. m - 1 + 1 \in I
  BY <1>3
<1> QED
  BY <1>2, <1>4

-----------------------------------------------------------------------------
(* The gradient of the policy. *)

LEMMA WeightIsEven ==
  ASSUME SettingKept, stage = "actor", TrainMicroBatch, NEW r \in Responses, r \in InUse
  PROVE  EvenWeight(r)'
<1> DEFINE mode == setting.loss_agg_mode
           rows == Current(CHOOSE k \in RankIds : r \in RowsIn(Current(k)))
           w    == PolicyWeight(r, rows)
<1>1. mode \in {"token-mean", "seq-mean-token-sum", "seq-mean-token-mean"}
  BY BatchAssumption DEF SettingKept, SettingFields
<1>2. setting' = setting /\ length' = length /\ mini' = mini
  BY DEF TrainMicroBatch
<1>3. TokensIn(MiniRows)' = TokensIn(MiniRows) /\ Tokens(r)' = Tokens(r)
  <2>1. \A x : Tokens(x)' = Tokens(x)
    BY <1>2 DEF Tokens
  <2>2. MiniRows' = MiniRows
    BY <1>2 DEF MiniRows, RowsIn
  <2> QED
    BY <2>1, <2>2, <1>2 DEF TokensIn, SumOver, MapThenSumSet, MapThenFoldSet, Tokens, MiniRows, RowsIn
<1>4. grad'[r] = [w EXCEPT !.den = @ * Ranks]
  BY DEF TrainMicroBatch, WeightNow
<1>5. w = WeightInLoss(r, Ranks, TokensIn(MiniRows), MiniBatch * N)
  BY DEF PolicyWeight
<1> HIDE DEF w
<1>6. CASE mode = "token-mean"
  <2>1. w = [num |-> Ranks, den |-> TokensIn(MiniRows)]
    BY <1>5, <1>6 DEF WeightInLoss
  <2>2. grad'[r].num = Ranks /\ grad'[r].den = TokensIn(MiniRows) * Ranks
    BY <1>4, <2>1
  <2> QED
    BY <1>2, <1>3, <1>6, <2>2 DEF EvenWeight
<1>7. CASE mode = "seq-mean-token-sum"
  <2>1. w = [num |-> Ranks, den |-> MiniBatch * N]
    BY <1>5, <1>7 DEF WeightInLoss
  <2>2. grad'[r].num = Ranks /\ grad'[r].den = MiniBatch * N * Ranks
    BY <1>4, <2>1
  <2> QED
    BY <1>2, <1>7, <2>2 DEF EvenWeight
<1>8. CASE mode = "seq-mean-token-mean"
  <2>1. w = [num |-> Ranks, den |-> MiniBatch * N * Tokens(r)]
    BY <1>5, <1>8 DEF WeightInLoss
  <2>2. grad'[r].num = Ranks /\ grad'[r].den = MiniBatch * N * Tokens(r) * Ranks
    BY <1>4, <2>1
  <2> QED
    BY <1>2, <1>3, <1>8, <2>2 DEF EvenWeight
<1> QED
  BY <1>1, <1>6, <1>7, <1>8

LEMMA WeightKept ==
  ASSUME UNCHANGED <<setting, length, mini, grad>>, NEW r
  PROVE  EvenWeight(r)' <=> EvenWeight(r)
<1>1. TokensIn(MiniRows)' = TokensIn(MiniRows) /\ Tokens(r)' = Tokens(r)
  BY DEF TokensIn, SumOver, MapThenSumSet, MapThenFoldSet, Tokens, MiniRows, RowsIn
<1> QED
  BY <1>1 DEF EvenWeight

\* agg_loss: the weight the actor's gradient gives to a token is what the loss
\* over the whole mini-batch gives it, in every micro-batch of every rank, for
\* every number of ranks and every way the rows are spread over them.  The
\* weights never outlive the mini-batch they were taken from.
THEOREM PolicyLossEven == Spec => []PolicyLossInvariant
<1>1. Init => PolicyLossInvariant
  BY DEF Init, PolicyLossInvariant
<1>2. SettingKept /\ PolicyLossInvariant /\ [Next]_vars => PolicyLossInvariant'
  <2> SUFFICES ASSUME SettingKept, PolicyLossInvariant, [Next]_vars,
                      stage' = "actor", NEW r \in Responses, grad'[r] # None
               PROVE  EvenWeight(r)'
    BY DEF PolicyLossInvariant
  <2>1. CASE GenerateSequences \/ BalanceBatch \/ Reorder \/ CollectLogProbs \/ ComputeAdvantage \/ ActorUpdated
    BY <2>1 DEF GenerateSequences, BalanceBatch, Reorder, CollectLogProbs, ComputeAdvantage, ActorUpdated
  <2>2. CASE DrawMiniBatch \/ CriticUpdated
    BY <2>2 DEF DrawMiniBatch, CriticUpdated, StartTraining
  <2>3. CASE TrainMicroBatch
    <3>1. stage = "actor"
      BY <2>3 DEF TrainMicroBatch
    <3>2. CASE r \in InUse
      BY <2>3, <3>1, <3>2, WeightIsEven
    <3>3. CASE r \notin InUse
      <4>1. grad'[r] = grad[r] /\ UNCHANGED <<setting, length, mini>>
        BY <2>3, <3>3 DEF TrainMicroBatch
      <4>2. EvenWeight(r)
        BY <3>1, <4>1 DEF PolicyLossInvariant
      <4>3. TokensIn(MiniRows)' = TokensIn(MiniRows) /\ Tokens(r)' = Tokens(r)
        BY <4>1 DEF TokensIn, SumOver, MapThenSumSet, MapThenFoldSet, Tokens, MiniRows, RowsIn
      <4> QED
        BY <4>1, <4>2, <4>3 DEF EvenWeight
    <3> QED
      BY <3>2, <3>3
  <2>4. CASE MergeStates \/ PrepareMicroBatches \/ ComputeLogProb \/ NextEpoch \/ Done \/ UNCHANGED vars
    <3>1. UNCHANGED <<setting, length, stage, mini, grad>>
      BY <2>4 DEF MergeStates, PrepareMicroBatches, ComputeLogProb, NextEpoch, Done, vars, call
    <3>2. EvenWeight(r)
      BY <3>1 DEF PolicyLossInvariant
    <3> QED
      BY <3>1, <3>2, WeightKept
  <2> QED
    BY <2>1, <2>2, <2>3, <2>4 DEF Next
<1> QED
  BY <1>1, <1>2, SettingInvariance, PTL DEF Spec

-----------------------------------------------------------------------------
(* Sequences, and sorting. *)

LEMMA ListedFcn ==
  ASSUME NEW n \in Nat, NEW T, NEW f \in [1 .. n -> T]
  PROVE  Listed(f) = f /\ Len(f) = n /\ f \in Seq(T)
<1>1. f \in Seq(T) /\ Len(f) = n
  OBVIOUS
<1> QED
  BY <1>1, ConcatEmptySeq DEF Listed

\* The elements below x in a strict total order of a finite set are as many as
\* the place of x says, from 0, and every place is taken.
Below(R, S, x) == {y \in S : <<y, x>> \in R}
StrictOrder(R, S) ==
  /\ \A x \in S : <<x, x>> \notin R
  /\ \A x, y \in S : x # y => (<<x, y>> \in R \/ <<y, x>> \in R)
  /\ \A x, y, z \in S : <<x, y>> \in R /\ <<y, z>> \in R => <<x, z>> \in R

LEMMA Ranking ==
  ASSUME NEW S, IsFiniteSet(S), NEW R, StrictOrder(R, S)
  PROVE  /\ \A i \in 1 .. Cardinality(S) : \E x \in S : Cardinality(Below(R, S, x)) = i - 1
         /\ \A x, y \in S : Cardinality(Below(R, S, x)) < Cardinality(Below(R, S, y)) => <<x, y>> \in R
<1> DEFINE n == Cardinality(S)
           rank == [x \in S |-> Cardinality(Below(R, S, x))]
<1>1. n \in Nat
  BY FS_CardinalityType
<1>2. ASSUME NEW x \in S
      PROVE  IsFiniteSet(Below(R, S, x)) /\ Cardinality(Below(R, S, x)) \in 0 .. n - 1
  <2>1. Below(R, S, x) \in SUBSET S /\ Below(R, S, x) # S
    BY DEF Below, StrictOrder
  <2>2. IsFiniteSet(Below(R, S, x)) /\ Cardinality(Below(R, S, x)) <= n /\ Cardinality(Below(R, S, x)) # n
    BY <2>1, FS_Subset
  <2> QED
    BY <2>2, <1>1, FS_CardinalityType
<1>3. ASSUME NEW x \in S, NEW y \in S, <<x, y>> \in R
      PROVE  Cardinality(Below(R, S, x)) < Cardinality(Below(R, S, y))
  <2>1. Below(R, S, x) \in SUBSET Below(R, S, y) /\ x \in Below(R, S, y) /\ x \notin Below(R, S, x)
    BY <1>3 DEF Below, StrictOrder
  <2>2. IsFiniteSet(Below(R, S, y))
    BY <1>2
  <2>3. /\ Cardinality(Below(R, S, x)) <= Cardinality(Below(R, S, y))
        /\ Cardinality(Below(R, S, x)) # Cardinality(Below(R, S, y))
    BY <2>1, <2>2, FS_Subset
  <2> QED
    BY <1>1, <1>2, <2>3
<1>4. rank \in Injection(S, 0 .. n - 1)
  <2>1. rank \in [S -> 0 .. n - 1]
    BY <1>2
  <2>2. ASSUME NEW x \in S, NEW y \in S, rank[x] = rank[y] PROVE x = y
    <3>1. rank[x] = Cardinality(Below(R, S, x)) /\ rank[y] = Cardinality(Below(R, S, y))
      OBVIOUS
    <3>2. rank[x] \in Int /\ rank[y] \in Int
      BY <2>1
    <3>3. ~(<<x, y>> \in R) /\ ~(<<y, x>> \in R)
      BY <1>3, <2>2, <3>1, <3>2
    <3> QED
      BY <3>3 DEF StrictOrder
  <2> QED
    BY <2>1, <2>2 DEF Injection, IsInjective
<1>5. IsFiniteSet(0 .. n - 1) /\ Cardinality(0 .. n - 1) = n
  BY <1>1, FS_Interval
<1>6. rank \in Surjection(S, 0 .. n - 1)
  BY <1>4, <1>5, FS_Injection
<1>7. \A i \in 1 .. n : \E x \in S : Cardinality(Below(R, S, x)) = i - 1
  <2> SUFFICES ASSUME NEW i \in 1 .. n PROVE \E x \in S : Cardinality(Below(R, S, x)) = i - 1
    OBVIOUS
  <2>1. i - 1 \in 0 .. n - 1
    BY <1>1
  <2>2. PICK x \in S : rank[x] = i - 1
    BY <1>6, <2>1 DEF Surjection
  <2> QED
    BY <2>2
<1>8. ASSUME NEW x \in S, NEW y \in S, Cardinality(Below(R, S, x)) < Cardinality(Below(R, S, y))
      PROVE  <<x, y>> \in R
  <2>1. x # y
    BY <1>2, <1>8
  <2>2. ASSUME <<y, x>> \in R PROVE FALSE
    BY <1>2, <1>3, <1>8, <2>2
  <2> QED
    BY <2>1, <2>2 DEF StrictOrder
<1> QED
  BY <1>7, <1>8

LEMMA IncreasingOrder ==
  ASSUME NEW n \in Nat, NEW w \in [1 .. n -> Int]
  PROVE  /\ Increasing(w) \in [1 .. n -> 1 .. n]
         /\ \A i, j \in 1 .. n : i < j => /\ Increasing(w)[i] # Increasing(w)[j]
                                          /\ w[Increasing(w)[i]] <= w[Increasing(w)[j]]
<1> DEFINE D == DOMAIN w
           Before(i, j) == w[i] < w[j] \/ (w[i] = w[j] /\ i < j)
           R == {p \in D \X D : Before(p[1], p[2])}
           o == [i \in 1 .. Cardinality(D) |-> CHOOSE x \in D : Cardinality({y \in D : Before(y, x)}) = i - 1]
<1>1. D = 1 .. n /\ IsFiniteSet(D) /\ Cardinality(D) = n
  <2>1. D = 1 .. n
    OBVIOUS
  <2> HIDE DEF D
  <2> QED
    BY <2>1, FS_Interval
<1>2. \A x, y \in D : <<x, y>> \in R <=> Before(x, y)
  OBVIOUS
<1>3. StrictOrder(R, D)
  <2>1. \A x \in D : w[x] \in Int
    OBVIOUS
  <2> HIDE DEF R
  <2>2. \A x \in D : <<x, x>> \notin R
    BY <1>2, <2>1
  <2>3. \A x, y \in D : x # y => (<<x, y>> \in R \/ <<y, x>> \in R)
    BY <1>2, <2>1
  <2>4. \A x, y, z \in D : <<x, y>> \in R /\ <<y, z>> \in R => <<x, z>> \in R
    <3> SUFFICES ASSUME NEW x \in D, NEW y \in D, NEW z \in D, Before(x, y), Before(y, z)
                 PROVE  Before(x, z)
      BY <1>2
    <3>1. w[x] \in Int /\ w[y] \in Int /\ w[z] \in Int /\ {x, y, z} \subseteq Nat
      BY <1>1, <2>1
    <3> QED
      BY <3>1
  <2> QED
    BY <2>2, <2>3, <2>4 DEF StrictOrder
<1>4. \A x \in D : Below(R, D, x) = {y \in D : Before(y, x)}
  <2> HIDE DEF R, Before
  <2> QED
    BY <1>2 DEF Below
<1>5. Increasing(w) = Listed(o)
  BY DEF Increasing, SortedBy
<1> HIDE DEF R
<1> HIDE DEF D
<1>6. \A i \in 1 .. n : o[i] \in D /\ Cardinality(Below(R, D, o[i])) = i - 1
  <2> SUFFICES ASSUME NEW i \in 1 .. n PROVE o[i] \in D /\ Cardinality(Below(R, D, o[i])) = i - 1
    OBVIOUS
  <2> HIDE DEF Before, D, o
  <2>1. i \in 1 .. Cardinality(D)
    BY <1>1
  <2>2. \E x \in D : Cardinality(Below(R, D, x)) = i - 1
    BY <1>1, <1>3, <2>1, Ranking
  <2>3. \E x \in D : Cardinality({y \in D : Before(y, x)}) = i - 1
    BY <1>4, <2>2
  <2>4. o[i] = CHOOSE x \in D : Cardinality({y \in D : Before(y, x)}) = i - 1
    BY <2>1 DEF o
  <2>5. o[i] \in D /\ Cardinality({y \in D : Before(y, o[i])}) = i - 1
    BY <2>3, <2>4
  <2> QED
    BY <1>4, <2>5
<1>7. o \in [1 .. n -> D]
  BY <1>1, <1>6 DEF o
<1> HIDE DEF o
<1>8. Increasing(w) = o
  BY <1>1, <1>5, <1>7, ListedFcn
<1>9. ASSUME NEW i \in 1 .. n, NEW j \in 1 .. n, i < j PROVE o[i] # o[j] /\ w[o[i]] <= w[o[j]]
  <2>1. Cardinality(Below(R, D, o[i])) < Cardinality(Below(R, D, o[j]))
    BY <1>1, <1>6, <1>9
  <2>2. <<o[i], o[j]>> \in R
    BY <1>1, <1>3, <1>6, <2>1, Ranking
  <2>3. Before(o[i], o[j])
    BY <1>1, <1>2, <1>6, <2>2
  <2>4. o[i] \in 1 .. n /\ o[j] \in 1 .. n /\ w[o[i]] \in Int /\ w[o[j]] \in Int
    BY <1>1, <1>6
  <2>5. o[i] # o[j]
    BY <1>6, <1>9
  <2> QED
    BY <2>3, <2>4, <2>5
<1> QED
  BY <1>1, <1>7, <1>8, <1>9

\* The bins of a state: class Set.
Bin == [sum : Int, items : Seq(Nat)]

LEMMA DecreasingOrder ==
  ASSUME NEW n \in Nat, NEW bins \in [1 .. n -> Bin]
  PROVE  \E o \in [1 .. n -> 1 .. n] :
           /\ Decreasing(bins) = [i \in 1 .. n |-> bins[o[i]]]
           /\ \A i, j \in 1 .. n : i < j => o[i] # o[j] /\ bins[o[i]].sum >= bins[o[j]].sum
<1> DEFINE D == DOMAIN bins
           Before(i, j) == Heavier(bins[i], bins[j]) \/ (~Heavier(bins[j], bins[i]) /\ i < j)
           R == {p \in D \X D : Before(p[1], p[2])}
           o == [i \in 1 .. Cardinality(D) |-> CHOOSE x \in D : Cardinality({y \in D : Before(y, x)}) = i - 1]
<1>1. D = 1 .. n /\ IsFiniteSet(D) /\ Cardinality(D) = n
  <2>1. D = 1 .. n
    OBVIOUS
  <2> HIDE DEF D
  <2> QED
    BY <2>1, FS_Interval
<1>2. \A x, y \in D : <<x, y>> \in R <=> Before(x, y)
  <2> HIDE DEF Before
  <2> QED
    OBVIOUS
<1> DEFINE sum(x) == bins[x].sum
           len(x) == Len(bins[x].items)
           head(x) == Head(bins[x].items)
<1>a. \A x \in D : sum(x) \in Int /\ len(x) \in Nat /\ (len(x) # 0 => head(x) \in Nat)
  BY DEF Bin
<1>b. \A x, y \in D : Heavier(bins[x], bins[y]) <=>
        \/ sum(x) > sum(y)
        \/ sum(x) = sum(y) /\ len(x) > len(y)
        \/ sum(x) = sum(y) /\ len(x) = len(y) /\ len(x) # 0 /\ head(x) > head(y)
  <2>1. \A x \in D : bins[x].items = <<>> <=> len(x) = 0
    BY DEF Bin
  <2> HIDE DEF D
  <2> QED
    BY <2>1 DEF Heavier
<1> HIDE DEF sum, len, head, R, Before, o, D
<1>c. \A x, y \in D : ~(Heavier(bins[x], bins[y]) /\ Heavier(bins[y], bins[x]))
  BY <1>a, <1>b
<1>d. \A x, y, z \in D : Heavier(bins[x], bins[y]) /\ Heavier(bins[y], bins[z]) => Heavier(bins[x], bins[z])
  BY <1>a, <1>b
<1>e. \A x, y, z \in D : Heavier(bins[x], bins[y]) => Heavier(bins[x], bins[z]) \/ Heavier(bins[z], bins[y])
  BY <1>a, <1>b
<1> USE DEF Before
<1>3. StrictOrder(R, D)
  <2>2. \A x \in D : <<x, x>> \notin R
    BY <1>1, <1>2, <1>c, <1>d, <1>e
  <2>3. \A x, y \in D : x # y => (<<x, y>> \in R \/ <<y, x>> \in R)
    BY <1>1, <1>2, <1>c, <1>d, <1>e
  <2>4. \A x, y, z \in D : <<x, y>> \in R /\ <<y, z>> \in R => <<x, z>> \in R
    BY <1>1, <1>2, <1>c, <1>d, <1>e
  <2> QED
    BY <2>2, <2>3, <2>4 DEF StrictOrder
<1>4. \A x \in D : Below(R, D, x) = {y \in D : Before(y, x)}
  <2> HIDE DEF R, Before
  <2> QED
    BY <1>2 DEF Below
<1>5. Decreasing(bins) = Listed([i \in D |-> bins[Listed(o)[i]]])
  BY DEF Decreasing, SortedBy, o, D
<1> HIDE DEF R
<1> HIDE DEF D
<1>6. \A i \in 1 .. n : o[i] \in D /\ Cardinality(Below(R, D, o[i])) = i - 1
  <2> SUFFICES ASSUME NEW i \in 1 .. n PROVE o[i] \in D /\ Cardinality(Below(R, D, o[i])) = i - 1
    OBVIOUS
  <2> HIDE DEF Before, D, o
  <2>1. i \in 1 .. Cardinality(D)
    BY <1>1
  <2>2. \E x \in D : Cardinality(Below(R, D, x)) = i - 1
    BY <1>1, <1>3, <2>1, Ranking
  <2>3. \E x \in D : Cardinality({y \in D : Before(y, x)}) = i - 1
    BY <1>4, <2>2
  <2>4. o[i] = CHOOSE x \in D : Cardinality({y \in D : Before(y, x)}) = i - 1
    BY <2>1 DEF o
  <2>5. o[i] \in D /\ Cardinality({y \in D : Before(y, o[i])}) = i - 1
    BY <2>3, <2>4
  <2> QED
    BY <1>4, <2>5
<1>7. o \in [1 .. n -> D]
  BY <1>1, <1>6 DEF o
<1> HIDE DEF o
<1>8. Decreasing(bins) = [i \in 1 .. n |-> bins[o[i]]]
  <2>1. Listed(o) = o
    BY <1>1, <1>7, ListedFcn
  <2>2. [i \in 1 .. n |-> bins[o[i]]] \in [1 .. n -> Bin]
    BY <1>1, <1>7
  <2> QED
    BY <1>1, <1>5, <2>1, <2>2, ListedFcn
<1>9. ASSUME NEW i \in 1 .. n, NEW j \in 1 .. n, i < j PROVE o[i] # o[j] /\ bins[o[i]].sum >= bins[o[j]].sum
  <2>1. Cardinality(Below(R, D, o[i])) < Cardinality(Below(R, D, o[j]))
    BY <1>1, <1>6, <1>9
  <2>2. <<o[i], o[j]>> \in R
    BY <1>1, <1>3, <1>6, <2>1, Ranking
  <2>3. Before(o[i], o[j])
    BY <1>1, <1>2, <1>6, <2>2
  <2>4. o[i] \in 1 .. n /\ o[j] \in 1 .. n /\ bins[o[i]].sum \in Int /\ bins[o[j]].sum \in Int
    BY <1>1, <1>6, <1>a DEF sum
  <2>5. o[i] # o[j]
    BY <1>6, <1>9
  <2>6. bins[o[i]].sum >= bins[o[j]].sum
    BY <2>3, <2>4 DEF Heavier
  <2> QED
    BY <2>5, <2>6
<1> QED
  BY <1>1, <1>7, <1>8, <1>9

\* FlattenSeq joins the sequences one by one.
JoinsUpTo(g, seqs, k) ==
  g[1] = seqs[1] /\ \A i \in 1 .. k : i # 1 => g[i] = g[i - 1] \o seqs[i]

LEMMA FlattenIs ==
  ASSUME NEW k \in Nat \ {0}, NEW S, NEW seqs \in [1 .. k -> S],
         NEW T, NEW g \in [1 .. k -> T],
         JoinsUpTo(g, seqs, k)
  PROVE  FlattenSeq(seqs) = g[k]
<1> DEFINE Joins(f) == f = [i \in 1 .. Len(seqs) |-> IF i = 1 THEN seqs[i] ELSE f[i - 1] \o seqs[i]]
           h == CHOOSE f : Joins(f)
<1>0. Len(seqs) = k
  OBVIOUS
<1>1. FlattenSeq(seqs) = h[k]
  BY <1>0 DEF FlattenSeq
<1>2. Joins(g)
  <2> DEFINE f == [i \in 1 .. k |-> IF i = 1 THEN seqs[i] ELSE g[i - 1] \o seqs[i]]
  <2>1. \A i \in 1 .. k : g[i] = f[i]
    BY DEF JoinsUpTo
  <2>2. g = f
    <3> HIDE DEF f
    <3>1. f = [i \in 1 .. k |-> f[i]]
      BY DEF f
    <3> QED
      BY <2>1, <3>1
  <2> QED
    BY <1>0, <2>2
<1>3. Joins(h)
  <2> HIDE DEF Joins
  <2> QED
    BY <1>2
<1> HIDE DEF h
<1>4. \A i \in 1 .. k : h[i] = IF i = 1 THEN seqs[i] ELSE h[i - 1] \o seqs[i]
  BY <1>0, <1>3
<1>5. \A i \in 1 .. k : g[i] = IF i = 1 THEN seqs[i] ELSE g[i - 1] \o seqs[i]
  BY DEF JoinsUpTo
<1> HIDE DEF Joins
<1> DEFINE I == {i \in Nat : i \in 1 .. k => h[i] = g[i]}
<1>6. 0 \in I
  OBVIOUS
<1>7. ASSUME NEW i \in Nat, i \in I PROVE i + 1 \in I
  <2> SUFFICES ASSUME i + 1 \in 1 .. k PROVE h[i + 1] = g[i + 1]
    OBVIOUS
  <2>1. CASE i = 0
    BY <1>4, <1>5, <2>1
  <2>2. CASE i # 0
    <3>1. i \in 1 .. k /\ i + 1 # 1 /\ i + 1 - 1 = i
      BY <2>2
    <3>2. h[i] = g[i]
      BY <1>7, <3>1
    <3>3. \A c \in 1 .. k : c # 1 => h[c] = h[c - 1] \o seqs[c] /\ g[c] = g[c - 1] \o seqs[c]
      BY <1>4, <1>5
    <3>4. PICK c \in 1 .. k : c = i + 1
      OBVIOUS
    <3>5. c # 1 /\ c - 1 = i
      BY <3>1, <3>4
    <3>6. h[c] = h[i] \o seqs[c] /\ g[c] = g[i] \o seqs[c]
      BY <3>3, <3>5
    <3> QED
      BY <3>2, <3>4, <3>6
  <2> QED
    BY <2>1, <2>2
<1>8. \A i \in Nat : i \in I
  <2> HIDE DEF I
  <2> QED
    BY <1>6, <1>7, Inductive
<1>9. k \in Nat /\ k \in 1 .. k
  OBVIOUS
<1> QED
  BY <1>1, <1>8, <1>9

\* What is cut into k chunks of one size and joined again is what it was.
LEMMA ChunkJoined ==
  ASSUME NEW T, NEW rows \in Seq(T), NEW k \in Nat \ {0}, Len(rows) % k = 0
  PROVE  FlattenSeq(Chunk(rows, k)) = rows
<1> DEFINE m == Len(rows) \div k
           from(c) == (c - 1) * m
           seqs == [c \in 1 .. k |-> SubSeq(rows, from(c) + 1, c * m)]
           g == [i \in 1 .. k |-> SubSeq(rows, 1, i * m)]
<1>1. m \in Nat /\ k * m = Len(rows)
  OBVIOUS
<1>2. Chunk(rows, k) = Listed(seqs)
  BY DEF Chunk
<1> HIDE DEF m
<1>3. \A c \in 1 .. k : /\ c * m \in 0 .. Len(rows) /\ from(c) \in 0 .. c * m /\ from(c) + m = c * m
                        /\ c # 1 => c - 1 \in 1 .. k
                        /\ c = 1 => from(c) = 0
  <2> SUFFICES ASSUME NEW c \in 1 .. k
               PROVE  /\ c * m \in 0 .. Len(rows) /\ from(c) \in 0 .. c * m /\ from(c) + m = c * m
                      /\ c # 1 => c - 1 \in 1 .. k
                      /\ c = 1 => from(c) = 0
    OBVIOUS
  <2>1. c \in Nat /\ c - 1 \in Nat /\ c <= k
    OBVIOUS
  <2>2. c * m \in Nat /\ from(c) \in Nat /\ c * m <= k * m
    BY <1>1, <2>1, Products
  <2>3. (c - 1 + 1) * m = (c - 1) * m + m
    BY <1>1, <2>1, Products
  <2>4. c - 1 + 1 = c
    OBVIOUS
  <2> QED
    BY <1>1, <2>2, <2>3, <2>4
<1>4. seqs \in [1 .. k -> Seq(T)]
  <2> SUFFICES ASSUME NEW c \in 1 .. k PROVE SubSeq(rows, from(c) + 1, c * m) \in Seq(T)
    OBVIOUS
  <2> HIDE DEF from
  <2>1. from(c) + 1 \in 1 .. Len(rows) + 1 /\ c * m \in 0 .. Len(rows)
    BY <1>3
  <2> DEFINE to == c * m
  <2> HIDE DEF to
  <2>2. \A i \in from(c) + 1 .. to : i \in 1 .. Len(rows)
    BY <2>1 DEF to
  <2>3. SubSeq(rows, from(c) + 1, to) \in Seq(T)
    BY <2>1, <2>2, SubSeqProperties DEF to
  <2> QED
    BY <2>3 DEF to
<1>5. Listed(seqs) = seqs /\ Len(seqs) = k
  <2> HIDE DEF seqs
  <2> QED
    BY <1>4, ListedFcn
<1>6. ASSUME NEW i \in 1 .. k PROVE g[i] = IF i = 1 THEN seqs[i] ELSE g[i - 1] \o seqs[i]
  <2>1. CASE i = 1
    BY <1>3, <2>1
  <2>2. CASE i # 1
    <3>1. g[i - 1] = SubSeq(rows, 1, from(i)) /\ seqs[i] = SubSeq(rows, from(i) + 1, i * m) /\ g[i] = SubSeq(rows, 1, i * m)
      BY <1>3, <2>2
    <3> DEFINE a == from(i)
               b == i * m
    <3>2. a \in 0 .. b /\ b \in 0 .. Len(rows)
      BY <1>3
    <3> HIDE DEF a, b, from, g, seqs
    <3>3. SubSeq(rows, 1, a) \o SubSeq(rows, a + 1, b) = SubSeq(rows, 1, b)
      BY <3>2, ConcatAdjacentSubSeq
    <3> QED
      BY <2>2, <3>1, <3>3 DEF a, b
  <2> QED
    BY <2>1, <2>2
<1>7. g \in [1 .. k -> Seq(T)]
  <2> SUFFICES ASSUME NEW i \in 1 .. k PROVE SubSeq(rows, 1, i * m) \in Seq(T)
    OBVIOUS
  <2>1. i * m \in 0 .. Len(rows)
    BY <1>3
  <2>2. \A j \in 1 .. i * m : j \in 1 .. Len(rows)
    BY <2>1
  <2> QED
    BY <2>1, <2>2, SubSeqProperties
<1>8. FlattenSeq(seqs) = g[k]
  <2> HIDE DEF g, seqs
  <2>1. \A i \in 1 .. k : i # 1 => g[i] = g[i - 1] \o seqs[i]
    BY <1>6
  <2>2. g[1] = seqs[1]
    BY <1>6
  <2>3. JoinsUpTo(g, seqs, k)
    BY <2>1, <2>2 DEF JoinsUpTo
  <2> QED
    BY <1>4, <1>7, <2>3, FlattenIs
<1>9. g[k] = rows
  <2>1. g[k] = SubSeq(rows, 1, Len(rows))
    BY <1>1
  <2> HIDE DEF g
  <2> QED
    BY <2>1, SubSeqFull
<1> QED
  BY <1>2, <1>5, <1>8, <1>9

-----------------------------------------------------------------------------
(* The balancing of the ranks. *)

\* A state: as many bins as ranks, the heaviest first, with equally many items.
State(s) ==
  /\ s \in [1 .. Ranks -> Bin]
  /\ \A i, j \in 1 .. Ranks : i < j => s[i].sum >= s[j].sum
  /\ \A i, j \in 1 .. Ranks : Len(s[i].items) = Len(s[j].items)

LEMMA RanksNat == Ranks \in Nat \ {0} /\ 1 \in 1 .. Ranks /\ Ranks \in 1 .. Ranks
BY BatchAssumption

\* Two bins of a state are no further apart than its first and its last.
LEMMA WithinSpread ==
  ASSUME NEW s, State(s)
  PROVE  /\ Spread(s) \in Int
         /\ \A i \in 1 .. Ranks : s[i].sum \in Int
         /\ \A i, j \in 1 .. Ranks : i < j => s[j].sum - s[i].sum <= 0 /\ s[i].sum - s[j].sum <= Spread(s)
         /\ Spread(s) >= 0
<1>1. Len(s) = Ranks
  BY RanksNat DEF State
<1>2. \A i \in 1 .. Ranks : s[i].sum \in Int
  BY DEF State, Bin
<1>3. Spread(s) = s[1].sum - s[Ranks].sum
  BY <1>1 DEF Spread
<1>4. \A i \in 1 .. Ranks : s[1].sum >= s[i].sum /\ s[i].sum >= s[Ranks].sum
  <2> SUFFICES ASSUME NEW i \in 1 .. Ranks PROVE s[1].sum >= s[i].sum /\ s[i].sum >= s[Ranks].sum
    OBVIOUS
  <2>1. i = 1 \/ 1 < i
    BY RanksNat
  <2>2. i = Ranks \/ i < Ranks
    BY RanksNat
  <2>3. \A a, b \in 1 .. Ranks : a < b => s[a].sum >= s[b].sum
    BY DEF State
  <2> QED
    BY <1>2, <2>1, <2>2, <2>3, RanksNat
<1>5. \A i, j \in 1 .. Ranks : i < j => s[i].sum >= s[j].sum
  BY DEF State
<1> QED
  BY <1>2, <1>3, <1>4, <1>5, RanksNat

LEMMA SortedIsState ==
  ASSUME NEW bins \in [1 .. Ranks -> Bin],
         \A i, j \in 1 .. Ranks : Len(bins[i].items) = Len(bins[j].items)
  PROVE  /\ State(Decreasing(bins))
         /\ \E i, j \in 1 .. Ranks : Spread(Decreasing(bins)) = bins[i].sum - bins[j].sum
<1>1. PICK o \in [1 .. Ranks -> 1 .. Ranks] :
        /\ Decreasing(bins) = [i \in 1 .. Ranks |-> bins[o[i]]]
        /\ \A i, j \in 1 .. Ranks : i < j => o[i] # o[j] /\ bins[o[i]].sum >= bins[o[j]].sum
  BY RanksNat, DecreasingOrder
<1> DEFINE s == [i \in 1 .. Ranks |-> bins[o[i]]]
<1>2. s \in [1 .. Ranks -> Bin]
  OBVIOUS
<1>3. State(s)
  BY <1>1, <1>2 DEF State
<1>4. Len(s) = Ranks
  BY RanksNat
<1>5. Spread(s) = bins[o[1]].sum - bins[o[Ranks]].sum
  BY <1>4, RanksNat DEF Spread
<1>6. o[1] \in 1 .. Ranks /\ o[Ranks] \in 1 .. Ranks
  BY RanksNat
<1> QED
  BY <1>1, <1>3, <1>5, <1>6

LEMMA FirstState ==
  ASSUME NEW n \in Nat, NEW w \in [1 .. n -> Int], NEW s \in FirstStates(w, Ranks, TRUE)
  PROVE  State(s)
<1> DEFINE order == Increasing(w)
           block(b) == [i \in 1 .. Ranks |-> Single(w, order[b * Ranks + i])]
<1>1. Len(w) = n
  OBVIOUS
<1>2. PICK b \in 0 .. (n \div Ranks) - 1 : s = Decreasing(block(b))
  BY <1>1 DEF FirstStates
<1>3. order \in [1 .. n -> 1 .. n]
  BY IncreasingOrder
<1> HIDE DEF order
<1>4. \A i \in 1 .. Ranks : b * Ranks + i \in 1 .. n
  <2> DEFINE q == n \div Ranks
  <2>1. q \in Nat /\ q * Ranks <= n
    BY RanksNat, DivFacts
  <2> HIDE DEF q
  <2>2. b \in Nat /\ b + 1 <= q
    BY <2>1 DEF q
  <2>3. (b + 1) * Ranks <= q * Ranks /\ (b + 1) * Ranks = b * Ranks + Ranks /\ b * Ranks \in Nat /\ q * Ranks \in Nat
    BY <2>1, <2>2, RanksNat, Products
  <2> QED
    BY <2>1, <2>3, RanksNat
<1>5. \A i \in 1 .. Ranks : /\ Single(w, order[b * Ranks + i]) \in Bin
                            /\ Len(Single(w, order[b * Ranks + i]).items) = 1
  <2> SUFFICES ASSUME NEW i \in 1 .. Ranks
               PROVE  /\ Single(w, order[b * Ranks + i]) \in Bin
                      /\ Len(Single(w, order[b * Ranks + i]).items) = 1
    OBVIOUS
  <2> DEFINE x == order[b * Ranks + i]
  <2>1. x \in 1 .. n
    BY <1>3, <1>4
  <2> HIDE DEF x
  <2>2. w[x] \in Int /\ <<x>> \in Seq(Nat) /\ Len(<<x>>) = 1
    BY <2>1
  <2>3. Single(w, x) \in Bin /\ Len(Single(w, x).items) = 1
    BY <2>2 DEF Single, Bin
  <2> QED
    BY <2>3 DEF x
<1>6. /\ block(b) \in [1 .. Ranks -> Bin]
      /\ \A i, j \in 1 .. Ranks : Len(block(b)[i].items) = Len(block(b)[j].items)
  BY <1>5
<1> HIDE DEF block
<1> QED
  BY <1>2, <1>6, SortedIsState

\* Where one state is heavy the other is light: the merged state is no wider
\* than the wider of the two.
LEMMA MergedState ==
  ASSUME NEW s, State(s), NEW t, State(t)
  PROVE  /\ State(Merged(s, t))
         /\ Spread(Merged(s, t)) <= Spread(s) \/ Spread(Merged(s, t)) <= Spread(t)
<1> DEFINE back(i) == Ranks + 1 - i
           bins == [i \in 1 .. Ranks |-> Joined(s[i], t[back(i)])]
<1>1. Len(s) = Ranks /\ DOMAIN s = 1 .. Ranks
  BY RanksNat DEF State
<1>2. Merged(s, t) = Decreasing(Listed(bins))
  BY <1>1 DEF Merged
<1>3. \A i \in 1 .. Ranks : back(i) \in 1 .. Ranks
  BY RanksNat
<1>4. \A a, b \in Bin : /\ Joined(a, b) \in Bin /\ Joined(a, b).sum = a.sum + b.sum
                        /\ Len(Joined(a, b).items) = Len(a.items) + Len(b.items)
  <2> SUFFICES ASSUME NEW a \in Bin, NEW b \in Bin
               PROVE  /\ Joined(a, b) \in Bin /\ Joined(a, b).sum = a.sum + b.sum
                      /\ Len(Joined(a, b).items) = Len(a.items) + Len(b.items)
    OBVIOUS
  <2>1. a.sum \in Int /\ b.sum \in Int /\ a.items \in Seq(Nat) /\ b.items \in Seq(Nat)
    BY DEF Bin
  <2>2. a.items \o b.items \in Seq(Nat) /\ Len(a.items \o b.items) = Len(a.items) + Len(b.items)
    BY <2>1, ConcatProperties
  <2> QED
    BY <2>1, <2>2 DEF Joined, Bin
<1>5. \A i \in 1 .. Ranks : s[i] \in Bin /\ t[i] \in Bin /\ t[back(i)] \in Bin
  BY <1>3 DEF State
<1> HIDE DEF back
<1>6. \A i \in 1 .. Ranks : /\ bins[i] \in Bin /\ bins[i].sum = s[i].sum + t[back(i)].sum
                            /\ Len(bins[i].items) = Len(s[i].items) + Len(t[back(i)].items)
  BY <1>4, <1>5
<1>7. bins \in [1 .. Ranks -> Bin]
  BY <1>6
<1> HIDE DEF bins
<1>8. Listed(bins) = bins
  BY <1>7, RanksNat, ListedFcn
<1>9. \A i, j \in 1 .. Ranks : Len(bins[i].items) = Len(bins[j].items)
  <2> SUFFICES ASSUME NEW i \in 1 .. Ranks, NEW j \in 1 .. Ranks
               PROVE  Len(bins[i].items) = Len(bins[j].items)
    OBVIOUS
  <2>1. /\ Len(s[i].items) = Len(s[j].items)
        /\ Len(t[back(i)].items) = Len(t[back(j)].items)
    BY <1>3 DEF State
  <2> QED
    BY <1>6, <2>1
<1>10. State(Merged(s, t)) /\ \E i, j \in 1 .. Ranks : Spread(Merged(s, t)) = bins[i].sum - bins[j].sum
  BY <1>2, <1>7, <1>8, <1>9, SortedIsState
<1>11. PICK i \in 1 .. Ranks, j \in 1 .. Ranks : Spread(Merged(s, t)) = bins[i].sum - bins[j].sum
  BY <1>10
<1>12. /\ Spread(s) \in Int /\ Spread(t) \in Int /\ Spread(s) >= 0 /\ Spread(t) >= 0
       /\ s[i].sum \in Int /\ s[j].sum \in Int /\ t[back(i)].sum \in Int /\ t[back(j)].sum \in Int
  BY <1>3, WithinSpread
<1>13. bins[i].sum - bins[j].sum = (s[i].sum - s[j].sum) + (t[back(i)].sum - t[back(j)].sum)
  <2>1. bins[i].sum = s[i].sum + t[back(i)].sum /\ bins[j].sum = s[j].sum + t[back(j)].sum
    BY <1>6
  <2>2. \A a, b, c, d \in Int : (a + b) - (c + d) = (a - c) + (b - d)
    OBVIOUS
  <2> QED
    BY <1>12, <2>1, <2>2
<1>14. CASE i < j
  <2>1. back(j) < back(i) /\ back(i) \in 1 .. Ranks /\ back(j) \in 1 .. Ranks
    BY <1>3, <1>14, RanksNat DEF back
  <2>2. s[i].sum - s[j].sum <= Spread(s) /\ t[back(i)].sum - t[back(j)].sum <= 0
    BY <1>14, <2>1, WithinSpread
  <2> QED
    BY <1>10, <1>11, <1>12, <1>13, <2>2
<1>15. CASE j < i
  <2>1. back(i) < back(j) /\ back(i) \in 1 .. Ranks /\ back(j) \in 1 .. Ranks
    BY <1>3, <1>15, RanksNat DEF back
  <2>2. s[i].sum - s[j].sum <= 0 /\ t[back(i)].sum - t[back(j)].sum <= Spread(t)
    BY <1>15, <2>1, WithinSpread
  <2> QED
    BY <1>10, <1>11, <1>12, <1>13, <2>2
<1>16. CASE i = j
  BY <1>10, <1>11, <1>12, <1>13, <1>16
<1> QED
  BY <1>14, <1>15, <1>16

\* The rows to be balanced are responses, each heap a set of states, no state
\* of it wider than one of the first.
BalanceInvariant ==
  /\ stage = "balance" => /\ DOMAIN batch = Positions
                          /\ \A i \in Positions : batch[i].response \in Responses
  /\ stage = "merge" =>
       \A s \in heap : /\ State(s)
                       /\ \E block \in FirstStates(workload, Ranks, TRUE) : Spread(s) <= Spread(block)
                       /\ \A block \in FirstStates(workload, Ranks, TRUE) : Spread(block) \in Int

LEMMA Generated ==
  ASSUME GenerateSequences
  PROVE  DOMAIN batch' = Positions /\ \A i \in Positions : batch'[i].response \in Responses
<1> DEFINE answer == [i \in Positions |-> <<((i - 1) \div N) + 1, ((i - 1) % N) + 1>>]
<1>1. /\ Prompts \in Nat \ {0} /\ N \in Nat \ {0} /\ Agents \in Nat \ {0}
      /\ Rows \in Nat /\ Rows = Prompts * N /\ Rows % Agents = 0
  BY BatchAssumption DEF Rows
<1>2. answer \in [1 .. Rows -> Responses]
  <2> SUFFICES ASSUME NEW i \in 1 .. Rows
               PROVE  ((i - 1) \div N) + 1 \in 1 .. Prompts /\ ((i - 1) % N) + 1 \in 1 .. N
    BY DEF Responses, Positions
  <2>1. i - 1 \in Nat /\ i - 1 < Prompts * N
    BY <1>1
  <2>2. (i - 1) \div N \in Nat /\ (i - 1) \div N < Prompts
    BY <1>1, <2>1, DivFacts, DivBelow
  <2>3. (i - 1) % N \in 0 .. N - 1
    BY <1>1, <2>1
  <2> QED
    BY <1>1, <2>2, <2>3
<1>3. Answers = FlattenSeq(Chunk(answer, Agents))
  <2> DEFINE asked == [i \in Positions |-> ((i - 1) \div N) + 1]
  <2>1. [i \in Positions |-> <<asked[i], ((i - 1) % N) + 1>>] = answer
    OBVIOUS
  <2> QED
    BY <2>1 DEF Answers
<1> HIDE DEF answer
<1>4. answer \in Seq(Responses) /\ Len(answer) = Rows
  BY <1>1, <1>2
<1>5. Answers = answer
  BY <1>1, <1>3, <1>4, ChunkJoined
<1>6. /\ DOMAIN batch' = Positions
      /\ \A i \in Positions : batch'[i].response = Answers[i]
  BY DEF GenerateSequences
<1> QED
  BY <1>2, <1>5, <1>6 DEF Positions

LEMMA Measured ==
  ASSUME SettingKept, stage = "balance", BalanceInvariant, BalanceBatch
  PROVE  workload' \in [1 .. Rows -> Int]
<1> DEFINE w == [i \in Positions |-> calculate_workload(SeqLen(batch[i].response))]
<1>1. Rows \in Nat /\ PromptWindow \in Nat
  BY BatchAssumption, ScheduleAssumption DEF Rows
<1>2. DOMAIN batch = Positions /\ \A i \in Positions : batch[i].response \in Responses
  BY DEF BalanceInvariant
<1>3. w \in [1 .. Rows -> Int]
  <2> SUFFICES ASSUME NEW i \in Positions PROVE calculate_workload(SeqLen(batch[i].response)) \in Int
    BY DEF Positions
  <2> DEFINE n == SeqLen(batch[i].response)
  <2>1. n \in Int
    BY <1>1, <1>2, BatchAssumption DEF SettingKept, SeqLen
  <2> HIDE DEF n
  <2>2. calculate_workload(n) \in Int
    BY <2>1 DEF calculate_workload
  <2> QED
    BY <2>2 DEF n
<1>4. workload' = Listed(w)
  BY <1>2 DEF BalanceBatch
<1> HIDE DEF w
<1> QED
  BY <1>1, <1>3, <1>4, ListedFcn

LEMMA BalanceStep ==
  ASSUME SettingKept, BalanceInvariant, [Next]_vars
  PROVE  BalanceInvariant'
<1>1. CASE GenerateSequences
  <2>1. stage' = "balance"
    BY <1>1 DEF GenerateSequences
  <2>2. DOMAIN batch' = Positions /\ \A i \in Positions : batch'[i].response \in Responses
    BY <1>1, Generated
  <2> QED
    BY <2>1, <2>2 DEF BalanceInvariant
<1>2. CASE BalanceBatch
  <2>1. stage = "balance" /\ stage' = "merge" /\ heap' = FirstStates(workload', Ranks, TRUE)
    BY <1>2 DEF BalanceBatch
  <2>2. workload' \in [1 .. Rows -> Int] /\ Rows \in Nat
    BY <1>2, <2>1, Measured, BatchAssumption DEF Rows
  <2>3. \A s \in heap' : State(s)
    BY <2>1, <2>2, FirstState
  <2>4. \A s \in heap' : Spread(s) \in Int
    BY <2>3, WithinSpread
  <2>5. \A s \in heap' : \E block \in heap' : Spread(s) <= Spread(block)
    BY <2>4
  <2> DEFINE first == FirstStates(workload', Ranks, TRUE)
  <2>6. heap' = first
    BY <2>1
  <2> HIDE DEF first
  <2>7. /\ \A s \in heap' : State(s) /\ \E block \in first : Spread(s) <= Spread(block)
        /\ \A block \in first : Spread(block) \in Int
    BY <2>3, <2>4, <2>5, <2>6
  <2> QED
    BY <2>1, <2>7 DEF BalanceInvariant, first
<1>3. CASE MergeStates
  <2>1. PICK s \in heap, t \in heap : heap' = (heap \ {s, t}) \cup {Merged(s, t)}
    BY <1>3 DEF MergeStates
  <2>2. stage = "merge" /\ stage' = "merge" /\ workload' = workload
    BY <1>3 DEF MergeStates
  <2> DEFINE first == FirstStates(workload, Ranks, TRUE)
             Fits(u) == \E block \in first : Spread(u) <= Spread(block)
  <2>3. /\ \A u \in heap : State(u) /\ Fits(u)
        /\ \A block \in first : Spread(block) \in Int
    BY <2>2 DEF BalanceInvariant
  <2> HIDE DEF first
  <2>4. State(Merged(s, t)) /\ (Spread(Merged(s, t)) <= Spread(s) \/ Spread(Merged(s, t)) <= Spread(t))
    BY <2>3, MergedState
  <2>5. Spread(Merged(s, t)) \in Int /\ Spread(s) \in Int /\ Spread(t) \in Int
    BY <2>3, <2>4, WithinSpread
  <2>6. Fits(Merged(s, t))
    BY <2>3, <2>4, <2>5
  <2> HIDE DEF Fits
  <2>7. \A u \in heap' : State(u) /\ Fits(u)
    BY <2>1, <2>3, <2>4, <2>6
  <2> QED
    BY <2>2, <2>3, <2>7 DEF BalanceInvariant, Fits, first
<1>4. CASE Reorder \/ CollectLogProbs \/ ComputeAdvantage \/ CriticUpdated \/ ActorUpdated
  BY <1>4 DEF Reorder, CollectLogProbs, ComputeAdvantage, CriticUpdated, ActorUpdated, BalanceInvariant
<1>5. CASE PrepareMicroBatches \/ ComputeLogProb \/ DrawMiniBatch \/ TrainMicroBatch \/ NextEpoch \/ Done
           \/ UNCHANGED vars
  <2>1. UNCHANGED <<stage, batch, workload, heap>>
    BY <1>5 DEF PrepareMicroBatches, ComputeLogProb, DrawMiniBatch, TrainMicroBatch, NextEpoch, Done, vars
  <2> QED
    BY <2>1 DEF BalanceInvariant
<1> QED
  BY <1>1, <1>2, <1>3, <1>4, <1>5 DEF Next

\* karmarkar_karp with equal_size: at every merge the bins hold equally many
\* rows, and no two of them are further apart than Ranks rows that follow each
\* other in the order of their workloads, for every number of rows and ranks and
\* every workload.
THEOREM RanksBalanced == Spec => []Balanced
<1>1. Init => BalanceInvariant
  BY DEF Init, BalanceInvariant
<1>2. SettingKept /\ BalanceInvariant /\ [Next]_vars => BalanceInvariant'
  BY BalanceStep
<1>3. BalanceInvariant => Balanced
  <2> SUFFICES ASSUME BalanceInvariant, stage = "merge", NEW s \in heap,
                      NEW i \in DOMAIN s, NEW j \in DOMAIN s
               PROVE  /\ Len(s[i].items) = Len(s[j].items)
                      /\ \E block \in FirstStates(workload, Ranks, TRUE) : s[i].sum - s[j].sum <= Spread(block)
    BY DEF Balanced
  <2>1. PICK block \in FirstStates(workload, Ranks, TRUE) : Spread(s) <= Spread(block)
    BY DEF BalanceInvariant
  <2>2. State(s) /\ Spread(block) \in Int
    BY DEF BalanceInvariant
  <2>3. i \in 1 .. Ranks /\ j \in 1 .. Ranks
    BY <2>2 DEF State
  <2>4. Spread(s) \in Int /\ Spread(s) >= 0 /\ s[i].sum \in Int /\ s[j].sum \in Int
    BY <2>2, <2>3, WithinSpread
  <2>5. s[i].sum - s[j].sum <= Spread(s)
    <3>1. i < j \/ j < i \/ i = j
      BY <2>3, RanksNat
    <3>2. i < j => s[i].sum - s[j].sum <= Spread(s)
      BY <2>2, <2>3, WithinSpread
    <3>3. j < i => s[i].sum - s[j].sum <= 0
      BY <2>2, <2>3, WithinSpread
    <3> QED
      BY <2>4, <3>1, <3>2, <3>3
  <2>6. s[i].sum - s[j].sum <= Spread(block)
    BY <2>1, <2>2, <2>4, <2>5
  <2> QED
    BY <2>2, <2>3, <2>6 DEF State
<1> QED
  BY <1>1, <1>2, <1>3, SettingInvariance, PTL DEF Spec

-----------------------------------------------------------------------------
(* Sums. *)

First(s) == CHOOSE x \in s : TRUE

\* The elements of X are picked off its subsets one at a time.
Picks(pick, X) == \A s \in SUBSET X : s # {} => pick[s] \in s

\* h sums F over the subsets of X.
SumRule(h, F, pick, X) ==
  \A s \in SUBSET X :
    IF s = {} THEN h[s] = 0
    ELSE h[s] \in {F[pick[s]] + h[s \ {pick[s]}], h[s \ {pick[s]}] + F[pick[s]]}

LEMMA Smaller ==
  ASSUME NEW X, IsFiniteSet(X)
  PROVE  /\ \A s \in SUBSET X : IsFiniteSet(s) /\ Cardinality(s) \in Nat
         /\ \A s \in SUBSET X : Cardinality(s) = 0 <=> s = {}
         /\ \A s \in SUBSET X : \A x \in s : /\ s \ {x} \in SUBSET X
                                             /\ Cardinality(s \ {x}) = Cardinality(s) - 1
<1>1. \A s \in SUBSET X : IsFiniteSet(s) /\ Cardinality(s) \in Nat
  BY FS_Subset, FS_CardinalityType
<1>2. \A s \in SUBSET X : Cardinality(s) = 0 <=> s = {}
  BY <1>1, FS_EmptySet
<1>3. ASSUME NEW s \in SUBSET X, NEW x \in s
      PROVE  s \ {x} \in SUBSET X /\ Cardinality(s \ {x}) = Cardinality(s) - 1
  BY <1>1, FS_RemoveElement
<1> QED
  BY <1>1, <1>2, <1>3

Sums(h, F, pick, X) ==
  h \in [SUBSET X -> Int] /\ h = [s \in SUBSET X |-> IF s = {} THEN 0 ELSE F[pick[s]] + h[s \ {pick[s]}]]

LEMMA SumExists ==
  ASSUME NEW X, IsFiniteSet(X), NEW F, F \in [X -> Int], NEW pick, Picks(pick, X)
  PROVE  \E h : Sums(h, F, pick, X)
<1> DEFINE L(n) == {s \in SUBSET X : Cardinality(s) <= n}
           Step(s, g) == IF s = {} THEN 0 ELSE F[pick[s]] + g[s \ {pick[s]}]
           I == {n \in Nat : \E g \in [L(n) -> Int] : \A s \in L(n) : g[s] = Step(s, g)}
<1>1. \A s \in SUBSET X : Cardinality(s) \in Nat /\ (Cardinality(s) = 0 <=> s = {})
  BY Smaller
<1>2. \A s \in SUBSET X : s # {} => /\ pick[s] \in X /\ s \ {pick[s]} \in SUBSET X
                                    /\ Cardinality(s \ {pick[s]}) = Cardinality(s) - 1
  BY Smaller DEF Picks
<1>3. 0 \in I
  <2> DEFINE g == [s \in L(0) |-> 0]
  <2>1. \A s \in L(0) : s = {}
    BY <1>1
  <2>2. g \in [L(0) -> Int] /\ \A s \in L(0) : g[s] = Step(s, g)
    BY <2>1
  <2> QED
    BY <2>2
<1>4. ASSUME NEW n \in Nat, n \in I PROVE n + 1 \in I
  <2>1. PICK g \in [L(n) -> Int] : \A s \in L(n) : g[s] = Step(s, g)
    BY <1>4
  <2> DEFINE k == [s \in L(n + 1) |-> Step(s, g)]
  <2>2. \A s \in L(n + 1) : s # {} => s \ {pick[s]} \in L(n) /\ s \ {pick[s]} \in L(n + 1) /\ pick[s] \in X
    BY <1>1, <1>2
  <2>3. \A s \in L(n) : s \in L(n + 1)
    BY <1>1
  <2> HIDE DEF L
  <2>4. \A s \in L(n) : k[s] = g[s]
    BY <2>1, <2>3
  <2>5. k \in [L(n + 1) -> Int]
    <3> SUFFICES ASSUME NEW s \in L(n + 1) PROVE Step(s, g) \in Int
      OBVIOUS
    <3>1. s # {} => g[s \ {pick[s]}] \in Int /\ F[pick[s]] \in Int
      BY <2>1, <2>2
    <3> QED
      BY <3>1
  <2>6. \A s \in L(n + 1) : k[s] = Step(s, k)
    <3> SUFFICES ASSUME NEW s \in L(n + 1) PROVE Step(s, g) = Step(s, k)
      OBVIOUS
    <3>1. s # {} => g[s \ {pick[s]}] = k[s \ {pick[s]}]
      BY <2>2, <2>4
    <3> QED
      BY <3>1
  <2> HIDE DEF k, Step
  <2>7. n + 1 \in Nat
    OBVIOUS
  <2> QED
    BY <2>5, <2>6, <2>7
<1> DEFINE c == Cardinality(X)
<1>5. c \in I /\ L(c) = SUBSET X
  <2>1. \A n \in Nat : n \in I
    <3> HIDE DEF I
    <3> QED
      BY <1>3, <1>4, Inductive
  <2>2. X \in SUBSET X
    OBVIOUS
  <2> QED
    BY <1>1, <2>1, <2>2, FS_Subset
<1> HIDE DEF L, c
<1>6. PICK g \in [SUBSET X -> Int] : \A s \in SUBSET X : g[s] = Step(s, g)
  BY <1>5
<1>7. g = [s \in SUBSET X |-> Step(s, g)]
  BY <1>6
<1>8. Sums(g, F, pick, X)
  BY <1>7 DEF Sums
<1> QED
  BY <1>8

\* Whatever the order its elements are picked in, a sum is one element and the
\* sum of the others; it is positive if all elements are.
LEMMA SumFacts ==
  ASSUME NEW X, IsFiniteSet(X), NEW F \in [X -> Int], NEW pick, Picks(pick, X),
         NEW h, SumRule(h, F, pick, X)
  PROVE  /\ h[{}] = 0
         /\ \A s \in SUBSET X : h[s] \in Int
         /\ \A s \in SUBSET X : \A x \in s : h[s] = F[x] + h[s \ {x}]
         /\ (\A x \in X : F[x] > 0) => \A s \in SUBSET X : h[s] >= 0 /\ (s # {} => h[s] > 0)
<1> DEFINE rest(s) == s \ {pick[s]}
           Fine(s) == /\ h[s] \in Int
                      /\ \A x \in s : h[s] = F[x] + h[s \ {x}]
                      /\ (\A x \in X : F[x] > 0) => h[s] >= 0 /\ (s # {} => h[s] > 0)
           I == {n \in Nat : \A s \in SUBSET X : Cardinality(s) <= n => Fine(s)}
<1>1. \A s \in SUBSET X : Cardinality(s) \in Nat /\ (Cardinality(s) = 0 <=> s = {})
  BY Smaller
<1>2. \A s \in SUBSET X : \A x \in s : /\ s \ {x} \in SUBSET X /\ F[x] \in Int
                                       /\ Cardinality(s \ {x}) = Cardinality(s) - 1
  BY Smaller
<1>3. h[{}] = 0
  BY DEF SumRule
<1>4. 0 \in I
  BY <1>1, <1>3
<1>5. ASSUME NEW n \in Nat, n \in I PROVE n + 1 \in I
  <2> HIDE DEF Fine
  <2>0. \A s \in SUBSET X : Cardinality(s) <= n => Fine(s)
    BY <1>5
  <2> SUFFICES ASSUME NEW s \in SUBSET X, Cardinality(s) <= n + 1 PROVE Fine(s)
    OBVIOUS
  <2> HIDE DEF I
  <2> USE DEF Fine
  <2>1. CASE s = {}
    BY <1>3, <2>1
  <2>2. CASE s # {}
    <3> DEFINE p == pick[s]
    <3>1. p \in s /\ F[p] \in Int
      BY <2>2 DEF Picks
    <3>2. \A x \in s : Fine(s \ {x})
      <4> SUFFICES ASSUME NEW x \in s PROVE Fine(s \ {x})
        OBVIOUS
      <4>1. s \ {x} \in SUBSET X /\ Cardinality(s \ {x}) = Cardinality(s) - 1 /\ Cardinality(s) \in Nat
        BY <1>1, <1>2
      <4>2. Cardinality(s \ {x}) <= n
        BY <4>1
      <4> HIDE DEF Fine
      <4> QED
        BY <2>0, <4>1, <4>2
    <3>3. h[s] \in {F[p] + h[s \ {p}], h[s \ {p}] + F[p]}
      BY <2>2 DEF SumRule
    <3>4. h[s \ {p}] \in Int /\ ((\A x \in X : F[x] > 0) => h[s \ {p}] >= 0)
      BY <3>1, <3>2
    <3>5. h[s] = F[p] + h[s \ {p}]
      BY <3>1, <3>3, <3>4
    <3>6. ASSUME NEW x \in s, x # p PROVE h[s] = F[x] + h[s \ {x}]
      <4>1. x \in s \ {p} /\ p \in s \ {x} /\ (s \ {p}) \ {x} = (s \ {x}) \ {p}
        BY <3>1, <3>6
      <4>2. h[s \ {p}] = F[x] + h[(s \ {p}) \ {x}] /\ h[s \ {x}] = F[p] + h[(s \ {x}) \ {p}]
        BY <3>1, <3>2, <4>1
      <4>3. Fine((s \ {p}) \ {x})
        <5>1. s \ {p} \in SUBSET X /\ (s \ {p}) \ {x} \in SUBSET X /\ Cardinality((s \ {p}) \ {x}) = Cardinality(s) - 1 - 1
          BY <1>2, <3>1, <4>1
        <5>2. Cardinality((s \ {p}) \ {x}) <= n
          BY <1>1, <5>1
        <5> HIDE DEF p, Fine
        <5> QED
          BY <2>0, <5>1, <5>2
      <4>4. PICK b \in Int : b = h[(s \ {p}) \ {x}]
        BY <4>3
      <4>5. F[p] \in Int /\ F[x] \in Int
        BY <1>2, <3>1
      <4>6. h[s] = F[p] + (F[x] + b) /\ h[s \ {x}] = F[p] + b
        BY <3>5, <4>1, <4>2, <4>4
      <4> HIDE DEF p, Fine
      <4> QED
        BY <4>4, <4>5, <4>6
    <3> HIDE DEF p
    <3>7. h[s] \in Int /\ ((\A x \in X : F[x] > 0) => h[s] > 0)
      BY <3>1, <3>4, <3>5
    <3>8. \A x \in s : h[s] = F[x] + h[s \ {x}]
      BY <3>5, <3>6
    <3>9. (\A x \in X : F[x] > 0) => h[s] >= 0 /\ (s # {} => h[s] > 0)
      BY <3>7
    <3> QED
      BY <3>7, <3>8, <3>9
  <2> QED
    BY <2>1, <2>2
<1>6. ASSUME NEW s \in SUBSET X PROVE Fine(s)
  <2>1. \A n \in Nat : n \in I
    <3> HIDE DEF I
    <3> QED
      BY <1>4, <1>5, Inductive
  <2> HIDE DEF Fine
  <2> QED
    BY <1>1, <2>1
<1> QED
  BY <1>3, <1>6

-----------------------------------------------------------------------------
(* Sequences that list a set. *)

\* Every element of S is in f once.
Lists(f, S) ==
  /\ f \in Seq(S)
  /\ \A x \in S : \E i \in 1 .. Len(f) : f[i] = x
  /\ \A i, j \in 1 .. Len(f) : i # j => f[i] # f[j]

LEMMA ListsLength ==
  ASSUME NEW f, NEW S, Lists(f, S)
  PROVE  Len(f) \in Nat /\ f \in [1 .. Len(f) -> S] /\ IsFiniteSet(S) /\ Cardinality(S) = Len(f)
<1>1. Len(f) \in Nat /\ f \in [1 .. Len(f) -> S]
  BY LenProperties DEF Lists
<1>2. f \in Surjection(1 .. Len(f), S)
  BY <1>1 DEF Lists, Surjection
<1>3. f \in Injection(1 .. Len(f), S)
  BY <1>1 DEF Lists, Injection, IsInjective
<1>4. IsFiniteSet(1 .. Len(f)) /\ Cardinality(1 .. Len(f)) = Len(f)
  BY <1>1, FS_Interval
<1> QED
  BY <1>1, <1>2, <1>3, <1>4, FS_Surjection

\* As many different elements as the set has list it.
LEMMA ListsAll ==
  ASSUME NEW n \in Nat, NEW S, IsFiniteSet(S), Cardinality(S) = n, NEW f \in [1 .. n -> S],
         \A i, j \in 1 .. n : i # j => f[i] # f[j]
  PROVE  Lists(f, S)
<1>1. f \in Injection(1 .. n, S)
  BY DEF Injection, IsInjective
<1>2. Cardinality(1 .. n) = n
  BY FS_Interval
<1>3. f \in Surjection(1 .. n, S)
  BY <1>1, <1>2, FS_Injection
<1>4. f \in Seq(S) /\ Len(f) = n
  OBVIOUS
<1> QED
  BY <1>3, <1>4 DEF Lists, Surjection

\* The elements of s at n places.
At(s, places, n) == [i \in 1 .. n |-> s[places[i]]]

\* A permutation of 1 .. n.
Permutation(q, n) == q \in [1 .. n -> 1 .. n] /\ \A i, j \in 1 .. n : i # j => q[i] # q[j]

LEMMA Permuted ==
  ASSUME NEW n \in Nat, NEW q, Permutation(q, n)
  PROVE  /\ Lists(q, 1 .. n)
         /\ \A f, S : Lists(f, S) /\ Len(f) = n => Lists(At(f, q, n), S)
<1>1. IsFiniteSet(1 .. n) /\ Cardinality(1 .. n) = n
  BY FS_Interval
<1>2. Lists(q, 1 .. n)
  BY <1>1, ListsAll DEF Permutation
<1>3. ASSUME NEW f, NEW S, Lists(f, S), Len(f) = n PROVE Lists(At(f, q, n), S)
  <2> DEFINE g == At(f, q, n)
  <2>1. f \in [1 .. n -> S] /\ IsFiniteSet(S) /\ Cardinality(S) = n
    BY <1>3, ListsLength
  <2>2. g \in [1 .. n -> S]
    BY <2>1 DEF Permutation, At
  <2>3. ASSUME NEW i \in 1 .. n, NEW j \in 1 .. n, i # j PROVE g[i] # g[j]
    <3>1. q[i] \in 1 .. n /\ q[j] \in 1 .. n /\ q[i] # q[j]
      BY <2>3 DEF Permutation
    <3>2. f[q[i]] # f[q[j]]
      BY <1>3, <3>1 DEF Lists
    <3> QED
      BY <3>2 DEF At
  <2> HIDE DEF g
  <2> QED
    BY <2>1, <2>2, <2>3, ListsAll DEF g
<1> QED
  BY <1>2, <1>3

LEMMA AscendingLists ==
  ASSUME NEW S \in SUBSET Nat, IsFiniteSet(S)
  PROVE  /\ Lists(Ascending(S), S)
         /\ Len(Ascending(S)) = Cardinality(S)
         /\ \A i \in 1 .. Cardinality(S) : Cardinality({y \in S : y < Ascending(S)[i]}) = i - 1
<1> DEFINE n == Cardinality(S)
           R == {p \in S \X S : p[1] < p[2]}
           o == [i \in 1 .. n |-> CHOOSE x \in S : Cardinality({y \in S : y < x}) = i - 1]
<1>1. n \in Nat
  BY FS_CardinalityType
<1>2. \A x, y \in S : <<x, y>> \in R <=> x < y
  OBVIOUS
<1> HIDE DEF R
<1>3. StrictOrder(R, S)
  BY <1>2 DEF StrictOrder
<1>4. \A x \in S : Below(R, S, x) = {y \in S : y < x}
  BY <1>2 DEF Below
<1>5. \A i \in 1 .. n : o[i] \in S /\ Cardinality({y \in S : y < o[i]}) = i - 1
  <2> SUFFICES ASSUME NEW i \in 1 .. n PROVE o[i] \in S /\ Cardinality({y \in S : y < o[i]}) = i - 1
    OBVIOUS
  <2>1. \E x \in S : Cardinality(Below(R, S, x)) = i - 1
    <3> DEFINE T == S
    <3>1. IsFiniteSet(T) /\ StrictOrder(R, T) /\ i \in 1 .. Cardinality(T)
      BY <1>3
    <3> HIDE DEF T
    <3>2. \E x \in T : Cardinality(Below(R, T, x)) = i - 1
      BY <3>1, Ranking
    <3> QED
      BY <3>2 DEF T
  <2>2. \E x \in S : Cardinality({y \in S : y < x}) = i - 1
    BY <1>4, <2>1
  <2> QED
    BY <2>2
<1>6. o \in [1 .. n -> S]
  BY <1>5
<1>7. Ascending(S) = Listed(o)
  BY DEF Ascending, SortedBy
<1> HIDE DEF n, o
<1>8. Ascending(S) = o /\ Len(o) = n
  BY <1>1, <1>6, <1>7, ListedFcn
<1>9. ASSUME NEW i \in 1 .. n, NEW j \in 1 .. n, o[i] = o[j] PROVE i = j
  <2>1. Cardinality({y \in S : y < o[i]}) = i - 1 /\ Cardinality({y \in S : y < o[j]}) = j - 1
    BY <1>5
  <2>2. i - 1 = j - 1
    BY <1>9, <2>1
  <2> QED
    BY <1>1, <2>2
<1>10. Lists(o, S)
  BY <1>1, <1>6, <1>9, ListsAll DEF n
<1> QED
  BY <1>5, <1>8, <1>10 DEF n

-----------------------------------------------------------------------------
(* Every second element, and the others. *)

\* a and b share the places of n out among them.
Halves(a, h, b, l) ==
  /\ a \in [1 .. h -> 1 .. h + l] /\ b \in [1 .. l -> 1 .. h + l]
  /\ \A i, j \in 1 .. h : i # j => a[i] # a[j]
  /\ \A i, j \in 1 .. l : i # j => b[i] # b[j]
  /\ \A i \in 1 .. h, j \in 1 .. l : a[i] # b[j]

LEMMA TwoHalves ==
  ASSUME NEW h \in Nat, NEW l \in Nat, NEW T, NEW s \in Seq(T), Len(s) = h + l,
         NEW a, NEW b, Halves(a, h, b, l)
  PROVE  \E q : Permutation(q, h + l) /\ At(s, a, h) \o At(s, b, l) = At(s, q, h + l)
<1> DEFINE n == h + l
           x == At(s, a, h)
           y == At(s, b, l)
           q == [i \in 1 .. n |-> IF i <= h THEN a[i] ELSE b[i - h]]
<1>1. \A i \in 1 .. n : IF i <= h THEN i \in 1 .. h ELSE i - h \in 1 .. l
  OBVIOUS
<1>0. /\ n \in Nat /\ s \in [1 .. n -> T]
      /\ a \in [1 .. h -> 1 .. n] /\ b \in [1 .. l -> 1 .. n]
      /\ \A i, j \in 1 .. h : i # j => a[i] # a[j]
      /\ \A i, j \in 1 .. l : i # j => b[i] # b[j]
      /\ \A i \in 1 .. h, j \in 1 .. l : a[i] # b[j]
  BY DEF Halves
<1>2. q \in [1 .. n -> 1 .. n]
  BY <1>0, <1>1
<1>3. ASSUME NEW i \in 1 .. n, NEW j \in 1 .. n, i # j PROVE q[i] # q[j]
  <2>1. CASE i <= h /\ j <= h
    BY <1>0, <1>1, <1>3, <2>1
  <2>2. CASE i <= h /\ ~(j <= h)
    BY <1>0, <1>1, <1>3, <2>2
  <2>3. CASE ~(i <= h) /\ j <= h
    BY <1>0, <1>1, <1>3, <2>3
  <2>4. CASE ~(i <= h) /\ ~(j <= h)
    <3>1. i - h \in 1 .. l /\ j - h \in 1 .. l /\ i - h # j - h
      BY <1>1, <1>3, <2>4
    <3>2. b[i - h] # b[j - h]
      BY <1>0, <3>1
    <3> QED
      BY <2>4, <3>2
  <2> QED
    BY <2>1, <2>2, <2>3, <2>4
<1>4. x \in Seq(T) /\ y \in Seq(T) /\ Len(x) = h /\ Len(y) = l
  BY <1>0 DEF At
<1> HIDE DEF n, x, y
<1>5. /\ x \o y \in Seq(T) /\ Len(x \o y) = n
      /\ \A i \in 1 .. n : (x \o y)[i] = IF i <= h THEN x[i] ELSE y[i - h]
  <2>1. n = Len(x) + Len(y)
    BY <1>4 DEF n
  <2> QED
    BY <1>4, <2>1, ConcatProperties
<1> DEFINE z == At(s, q, n)
<1>6. z \in Seq(T) /\ Len(z) = n
  BY <1>0, <1>2 DEF At
<1>7. \A i \in 1 .. n : (x \o y)[i] = z[i]
  <2> SUFFICES ASSUME NEW i \in 1 .. n PROVE (x \o y)[i] = z[i]
    OBVIOUS
  <2>1. CASE i <= h
    <3>1. (x \o y)[i] = x[i] /\ x[i] = s[a[i]] /\ q[i] = a[i]
      BY <1>1, <1>5, <2>1 DEF At, x
    <3> QED
      BY <3>1 DEF At
  <2>2. CASE ~(i <= h)
    <3>1. (x \o y)[i] = y[i - h] /\ y[i - h] = s[b[i - h]] /\ q[i] = b[i - h]
      BY <1>1, <1>5, <2>2 DEF At, y
    <3> QED
      BY <3>1 DEF At
  <2> QED
    BY <2>1, <2>2
<1>8. x \o y = z
  <2> HIDE DEF z
  <2>1. /\ x \o y \in Seq(T) /\ z \in Seq(T) /\ Len(x \o y) = Len(z)
        /\ \A i \in 1 .. Len(x \o y) : (x \o y)[i] = z[i]
    BY <1>5, <1>6, <1>7
  <2> QED
    BY <2>1, SeqEqual
<1>9. Permutation(q, n)
  BY <1>2, <1>3 DEF Permutation
<1> HIDE DEF q
<1> QED
  BY <1>8, <1>9 DEF n, x, y, z

LEMMA Fanned ==
  ASSUME NEW T, NEW n \in Nat, NEW s \in [1 .. n -> T]
  PROVE  /\ \E q : Permutation(q, n) /\ Evens(s) \o Reverse(Odds(s)) = At(s, q, n)
         /\ \E q : Permutation(q, n) /\ Reverse(Evens(s)) \o Odds(s) = At(s, q, n)
<1> DEFINE h == (n + 1) \div 2
           l == n \div 2
           a == [i \in 1 .. h |-> 2 * i - 1]
           b == [i \in 1 .. l |-> 2 * i]
           c == [i \in 1 .. h |-> 2 * (h - i + 1) - 1]
           d == [i \in 1 .. l |-> 2 * (l - i + 1)]
<1>1. Len(s) = n
  OBVIOUS
<1>2. h \in Nat /\ l \in Nat /\ n = h + l /\ 2 * h <= n + 1 /\ 2 * l <= n
  OBVIOUS
<1>3. Evens(s) = [i \in 1 .. h |-> s[2 * i - 1]] /\ Odds(s) = [i \in 1 .. l |-> s[2 * i]]
  BY <1>1 DEF Evens, Odds
<1>4. Len(Evens(s)) = h /\ Len(Odds(s)) = l
  BY <1>2, <1>3
<1> HIDE DEF h, l
<1>5. a \in [1 .. h -> 1 .. n] /\ b \in [1 .. l -> 1 .. n] /\ c \in [1 .. h -> 1 .. n] /\ d \in [1 .. l -> 1 .. n]
  BY <1>2
<1>6. /\ \A i, j \in 1 .. h : i # j => a[i] # a[j] /\ c[i] # c[j]
      /\ \A i, j \in 1 .. l : i # j => b[i] # b[j] /\ d[i] # d[j]
  BY <1>2
<1>7. \A i \in 1 .. h, j \in 1 .. l : a[i] # d[j] /\ c[i] # b[j]
  BY <1>2
<1>8. Evens(s) = At(s, a, h) /\ Odds(s) = At(s, b, l)
  BY <1>3 DEF At
<1>9. Reverse(Evens(s)) = At(s, c, h)
  <2>1. \A i \in 1 .. h : (h - i) + 1 \in 1 .. h /\ Evens(s)[(h - i) + 1] = s[2 * ((h - i) + 1) - 1]
    BY <1>2, <1>3
  <2> QED
    BY <1>2, <1>4, <2>1 DEF Reverse, At
<1>10. Reverse(Odds(s)) = At(s, d, l)
  <2>1. \A i \in 1 .. l : (l - i) + 1 \in 1 .. l /\ Odds(s)[(l - i) + 1] = s[2 * ((l - i) + 1)]
    BY <1>2, <1>3
  <2> QED
    BY <1>2, <1>4, <2>1 DEF Reverse, At
<1>11. h \in Nat /\ l \in Nat /\ h + l = n /\ Len(s) = h + l /\ s \in Seq(T)
  BY <1>1, <1>2
<1>12. Halves(a, h, d, l)
  BY <1>2, <1>5, <1>6, <1>7 DEF Halves
<1>13. Halves(c, h, b, l)
  BY <1>2, <1>5, <1>6, <1>7 DEF Halves
<1> HIDE DEF a, b, c, d
<1>14. \E q : Permutation(q, h + l) /\ At(s, a, h) \o At(s, d, l) = At(s, q, h + l)
  BY <1>11, <1>12, TwoHalves
<1>15. \E q : Permutation(q, h + l) /\ At(s, c, h) \o At(s, b, l) = At(s, q, h + l)
  BY <1>11, <1>13, TwoHalves
<1> QED
  BY <1>8, <1>9, <1>10, <1>11, <1>14, <1>15

\* Within a rank the rows are the same.
LEMMA SmallAtEndsLists ==
  ASSUME NEW part, NEW S, Lists(part, S), NEW w, \A x \in S : w[x] \in Int
  PROVE  Lists(SmallAtEnds(part, w), S)
<1> DEFINE n == Len(part)
           v == [j \in DOMAIN part |-> w[part[j]]]
           order == Increasing(v)
           up == At(part, order, n)
<1>1. n \in Nat /\ part \in [1 .. n -> S] /\ DOMAIN part = 1 .. n
  BY ListsLength
<1> HIDE DEF n
<1>2. v \in [1 .. n -> Int]
  BY <1>1
<1>3. SmallAtEnds(part, w) = Evens(Listed(up)) \o Reverse(Odds(Listed(up)))
  BY <1>1 DEF SmallAtEnds, At
<1> HIDE DEF v
<1>4. /\ order \in [1 .. n -> 1 .. n]
      /\ \A i, j \in 1 .. n : i < j => order[i] # order[j]
  BY <1>1, <1>2, IncreasingOrder
<1>5. Permutation(order, n)
  BY <1>1, <1>4 DEF Permutation
<1> HIDE DEF order
<1>6. up \in [1 .. n -> S]
  BY <1>1, <1>4 DEF At
<1>7. Lists(up, S)
  BY <1>1, <1>5, Permuted DEF n
<1> HIDE DEF up
<1>8. Listed(up) = up /\ Len(up) = n
  BY <1>1, <1>6, ListedFcn
<1>9. PICK q : Permutation(q, n) /\ Evens(up) \o Reverse(Odds(up)) = At(up, q, n)
  <2>1. \A r : r \in [1 .. n -> S] =>
          \E q : Permutation(q, n) /\ Evens(r) \o Reverse(Odds(r)) = At(r, q, n)
    BY <1>1, Fanned
  <2> QED
    BY <1>6, <2>1
<1>10. Lists(At(up, q, n), S)
  BY <1>1, <1>7, <1>8, <1>9, Permuted
<1> QED
  BY <1>3, <1>8, <1>9, <1>10

-----------------------------------------------------------------------------
(* Joining sequences. *)

LEMMA FlattenExists ==
  ASSUME NEW k \in Nat \ {0}, NEW T, NEW seqs \in [1 .. k -> Seq(T)]
  PROVE  \E g \in [1 .. k -> Seq(T)] : JoinsUpTo(g, seqs, k) /\ FlattenSeq(seqs) = g[k]
<1> DEFINE I == {n \in Nat : n \in 1 .. k => \E g \in [1 .. n -> Seq(T)] : JoinsUpTo(g, seqs, n)}
<1>1. 0 \in I
  OBVIOUS
<1>2. ASSUME NEW n \in Nat, n \in I PROVE n + 1 \in I
  <2> SUFFICES ASSUME n + 1 \in 1 .. k
               PROVE  \E g \in [1 .. n + 1 -> Seq(T)] : JoinsUpTo(g, seqs, n + 1)
    OBVIOUS
  <2>1. CASE n = 0
    <3> DEFINE g == [i \in 1 .. n + 1 |-> seqs[i]]
    <3>1. n + 1 = 1 /\ 1 \in 1 .. k
      BY <2>1
    <3>2. g \in [1 .. n + 1 -> Seq(T)] /\ g[1] = seqs[1] /\ \A i \in 1 .. n + 1 : i = 1
      BY <3>1
    <3> HIDE DEF g
    <3>3. JoinsUpTo(g, seqs, n + 1)
      BY <3>2 DEF JoinsUpTo
    <3> QED
      BY <3>2, <3>3
  <2>2. CASE n # 0
    <3>1. n \in 1 .. k
      BY <2>2
    <3>2. PICK g \in [1 .. n -> Seq(T)] : JoinsUpTo(g, seqs, n)
      BY <1>2, <3>1
    <3> DEFINE f == [i \in 1 .. n + 1 |-> IF i = n + 1 THEN g[n] \o seqs[n + 1] ELSE g[i]]
    <3>3. /\ \A i \in 1 .. n + 1 : i # n + 1 => i \in 1 .. n
          /\ n \in 1 .. n /\ 1 \in 1 .. n /\ n + 1 \in 1 .. n + 1 /\ n + 1 # 1
      BY <2>2
    <3>4. g[n] \o seqs[n + 1] \in Seq(T)
      BY <3>3, ConcatProperties
    <3>5. f \in [1 .. n + 1 -> Seq(T)]
      BY <3>3, <3>4
    <3>6. f[n + 1] = g[n] \o seqs[n + 1] /\ \A i \in 1 .. n : f[i] = g[i]
      BY <3>3
    <3> HIDE DEF f
    <3>7. f[1] = seqs[1]
      BY <3>2, <3>3, <3>6 DEF JoinsUpTo
    <3>8. ASSUME NEW i \in 1 .. n + 1, i # 1 PROVE f[i] = f[i - 1] \o seqs[i]
      <4>1. CASE i = n + 1
        <5>1. i - 1 = n /\ f[n] = g[n]
          BY <3>3, <3>6, <4>1
        <5> QED
          BY <3>6, <4>1, <5>1
      <4>2. CASE i # n + 1
        <5>1. i \in 1 .. n /\ i - 1 \in 1 .. n
          BY <3>8, <4>2
        <5>2. g[i] = g[i - 1] \o seqs[i]
          BY <3>2, <3>8, <5>1 DEF JoinsUpTo
        <5> QED
          BY <3>6, <5>1, <5>2
      <4> QED
        BY <4>1, <4>2
    <3>9. JoinsUpTo(f, seqs, n + 1)
      BY <3>7, <3>8 DEF JoinsUpTo
    <3> QED
      BY <3>5, <3>9
  <2> QED
    BY <2>1, <2>2
<1>3. k \in I
  <2> HIDE DEF I
  <2> QED
    BY <1>1, <1>2, Inductive
<1>4. PICK g \in [1 .. k -> Seq(T)] : JoinsUpTo(g, seqs, k)
  <2>1. k \in 1 .. k
    OBVIOUS
  <2> QED
    BY <1>3, <2>1
<1>5. FlattenSeq(seqs) = g[k]
  BY <1>4, FlattenIs
<1> QED
  BY <1>4, <1>5

LEMMA ConcatLists ==
  ASSUME NEW f, NEW S, Lists(f, S), NEW g, NEW U, Lists(g, U), S \cap U = {}
  PROVE  Lists(f \o g, S \cup U)
<1> DEFINE m == Len(f)
           n == Len(g)
           c == f \o g
<1>1. m \in Nat /\ n \in Nat /\ f \in [1 .. m -> S] /\ g \in [1 .. n -> U]
  BY ListsLength
<1>2. f \in Seq(S \cup U) /\ g \in Seq(S \cup U)
  BY SeqMonotonic DEF Lists
<1>3. /\ c \in Seq(S \cup U) /\ Len(c) = m + n
      /\ \A i \in 1 .. m + n : c[i] = IF i <= m THEN f[i] ELSE g[i - m]
  BY <1>2, ConcatProperties
<1>4. /\ \A x \in S : \E i \in 1 .. m : f[i] = x
      /\ \A x \in U : \E i \in 1 .. n : g[i] = x
      /\ \A i, j \in 1 .. m : i # j => f[i] # f[j]
      /\ \A i, j \in 1 .. n : i # j => g[i] # g[j]
  BY DEF Lists
<1> HIDE DEF m, n, c
<1>5. ASSUME NEW x \in S PROVE \E i \in 1 .. m + n : c[i] = x
  <2>1. PICK i \in 1 .. m : f[i] = x
    BY <1>4
  <2>2. i \in 1 .. m + n /\ i <= m
    BY <1>1
  <2> QED
    BY <1>3, <2>1, <2>2
<1>6. ASSUME NEW x \in U PROVE \E i \in 1 .. m + n : c[i] = x
  <2>1. PICK i \in 1 .. n : g[i] = x
    BY <1>4
  <2>2. i + m \in 1 .. m + n /\ ~(i + m <= m) /\ (i + m) - m = i
    BY <1>1
  <2>3. c[i + m] = g[(i + m) - m]
    BY <1>3, <2>2
  <2> QED
    BY <2>1, <2>2, <2>3
<1>7. ASSUME NEW i \in 1 .. m + n, NEW j \in 1 .. m + n, i # j PROVE c[i] # c[j]
  <2>1. \A e \in 1 .. m + n : IF e <= m THEN e \in 1 .. m /\ c[e] = f[e] /\ f[e] \in S
                              ELSE e - m \in 1 .. n /\ c[e] = g[e - m] /\ g[e - m] \in U
    BY <1>1, <1>3
  <2>2. CASE i <= m /\ j <= m
    BY <1>4, <1>7, <2>1, <2>2
  <2>3. CASE (i <= m /\ ~(j <= m)) \/ (~(i <= m) /\ j <= m)
    BY <2>1, <2>3
  <2>4. CASE ~(i <= m) /\ ~(j <= m)
    <3>1. i - m \in 1 .. n /\ j - m \in 1 .. n /\ i - m # j - m
      BY <1>1, <1>7, <2>1, <2>4
    <3>2. g[i - m] # g[j - m]
      BY <1>4, <3>1
    <3> QED
      BY <2>1, <2>4, <3>2
  <2> QED
    BY <2>2, <2>3, <2>4
<1> QED
  BY <1>3, <1>5, <1>6, <1>7 DEF Lists, c

Together(sets, k) == UNION {sets[i] : i \in 1 .. k}

\* Sequences that list disjoint sets list their union when they are joined.
LEMMA FlattenLists ==
  ASSUME NEW k \in Nat \ {0}, NEW sets, NEW seqs, DOMAIN seqs = 1 .. k, seqs = [i \in 1 .. k |-> seqs[i]],
         \A i \in 1 .. k : Lists(seqs[i], sets[i]),
         \A i, j \in 1 .. k : i # j => sets[i] \cap sets[j] = {}
  PROVE  Lists(FlattenSeq(seqs), Together(sets, k))
<1> DEFINE Upto(n) == UNION {sets[i] : i \in 1 .. n}
           T == Upto(k)
<1>1. seqs \in [1 .. k -> Seq(T)]
  <2> SUFFICES ASSUME NEW i \in 1 .. k PROVE seqs[i] \in Seq(T)
    OBVIOUS
  <2>1. seqs[i] \in Seq(sets[i]) /\ sets[i] \subseteq T
    BY DEF Lists
  <2> HIDE DEF T
  <2> QED
    BY <2>1, SeqMonotonic
<1> HIDE DEF T
<1>2. PICK g \in [1 .. k -> Seq(T)] : JoinsUpTo(g, seqs, k) /\ FlattenSeq(seqs) = g[k]
  BY <1>1, FlattenExists
<1> DEFINE I == {n \in Nat : n \in 1 .. k => Lists(g[n], Upto(n))}
<1>3. 0 \in I
  OBVIOUS
<1>4. ASSUME NEW n \in Nat, n \in I PROVE n + 1 \in I
  <2> SUFFICES ASSUME n + 1 \in 1 .. k PROVE Lists(g[n + 1], Upto(n + 1))
    OBVIOUS
  <2>1. CASE n = 0
    <3>1. n + 1 = 1 /\ g[1] = seqs[1]
      BY <1>2, <2>1 DEF JoinsUpTo
    <3>2. 1 .. n + 1 = {1}
      BY <3>1
    <3>3. Upto(n + 1) = sets[1] /\ Lists(seqs[1], sets[1])
      BY <3>1, <3>2
    <3> HIDE DEF Upto
    <3> QED
      BY <3>1, <3>3
  <2>2. CASE n # 0
    <3>1. n \in 1 .. k /\ n + 1 # 1 /\ (n + 1) - 1 = n
      BY <2>2
    <3>2. Lists(g[n], Upto(n)) /\ Lists(seqs[n + 1], sets[n + 1])
      BY <1>4, <3>1
    <3>3. g[n + 1] = g[n] \o seqs[n + 1]
      <4>1. g[n + 1] = g[(n + 1) - 1] \o seqs[n + 1]
        BY <1>2, <3>1 DEF JoinsUpTo
      <4> QED
        BY <3>1, <4>1
    <3>4. Upto(n) \cap sets[n + 1] = {}
      <4>1. \A i \in 1 .. n : i \in 1 .. k /\ i # n + 1
        BY <3>1
      <4> QED
        BY <4>1
    <3>5. Upto(n + 1) = Upto(n) \cup sets[n + 1]
      <4>1. 1 .. n + 1 = (1 .. n) \cup {n + 1}
        OBVIOUS
      <4> QED
        BY <4>1
    <3> HIDE DEF Upto
    <3> QED
      BY <3>2, <3>3, <3>4, <3>5, ConcatLists
  <2> QED
    BY <2>1, <2>2
<1>5. k \in I
  <2> HIDE DEF I
  <2> QED
    BY <1>3, <1>4, Inductive
<1>6. Lists(g[k], Upto(k))
  <2>1. k \in 1 .. k
    OBVIOUS
  <2> HIDE DEF Upto
  <2> QED
    BY <1>5, <2>1
<1> QED
  BY <1>2, <1>6 DEF Together

-----------------------------------------------------------------------------
(* The items of a state, and of a heap of states. *)

Held(s) == UNION {ItemsOf(s[i]) : i \in DOMAIN s}

\* k bins that share no item.
Packing(s, k) ==
  /\ s \in [1 .. k -> Bin]
  /\ \A i, j \in 1 .. k : i # j => ItemsOf(s[i]) \cap ItemsOf(s[j]) = {}

\* The states of a heap share the items 1 .. n out among them.
Sharing(h, k, n) ==
  /\ \A s \in h : Packing(s, k) /\ Held(s) # {}
  /\ \A s, t \in h : s # t => Held(s) \cap Held(t) = {}
  /\ UNION {Held(s) : s \in h} = 1 .. n

LEMMA JoinedItems ==
  ASSUME NEW a \in Bin, NEW b \in Bin
  PROVE  /\ Joined(a, b) \in Bin /\ Joined(a, b).sum = a.sum + b.sum
         /\ Len(Joined(a, b).items) = Len(a.items) + Len(b.items)
         /\ ItemsOf(Joined(a, b)) = ItemsOf(a) \cup ItemsOf(b)
<1>1. a.sum \in Int /\ b.sum \in Int /\ a.items \in Seq(Nat) /\ b.items \in Seq(Nat)
  BY DEF Bin
<1> DEFINE f == a.items
           g == b.items
           c == f \o g
<1>2. Len(f) \in Nat /\ Len(g) \in Nat /\ DOMAIN f = 1 .. Len(f) /\ DOMAIN g = 1 .. Len(g)
  BY <1>1
<1>3. /\ c \in Seq(Nat) /\ Len(c) = Len(f) + Len(g) /\ DOMAIN c = 1 .. Len(f) + Len(g)
      /\ \A i \in 1 .. Len(f) + Len(g) : c[i] = IF i <= Len(f) THEN f[i] ELSE g[i - Len(f)]
  <2>1. f \in Seq(Nat) /\ g \in Seq(Nat)
    BY <1>1
  <2> HIDE DEF f, g
  <2>2. /\ c \in Seq(Nat) /\ Len(c) = Len(f) + Len(g)
        /\ \A i \in 1 .. Len(f) + Len(g) : c[i] = IF i <= Len(f) THEN f[i] ELSE g[i - Len(f)]
    BY <2>1, ConcatProperties
  <2> HIDE DEF c
  <2>3. DOMAIN c = 1 .. Len(c)
    BY <2>2
  <2> QED
    BY <2>2, <2>3
<1>4. Joined(a, b) = [sum |-> a.sum + b.sum, items |-> c]
  BY DEF Joined
<1> HIDE DEF f, g, c
<1>5. {c[i] : i \in DOMAIN c} = {f[i] : i \in DOMAIN f} \cup {g[i] : i \in DOMAIN g}
  <2>1. \A i \in 1 .. Len(f) : i \in 1 .. Len(f) + Len(g) /\ c[i] = f[i]
    BY <1>2, <1>3
  <2>2. ASSUME NEW i \in 1 .. Len(g) PROVE i + Len(f) \in 1 .. Len(f) + Len(g) /\ c[i + Len(f)] = g[i]
    <3>1. i + Len(f) \in 1 .. Len(f) + Len(g) /\ ~(i + Len(f) <= Len(f)) /\ (i + Len(f)) - Len(f) = i
      BY <1>2
    <3>2. c[i + Len(f)] = g[(i + Len(f)) - Len(f)]
      BY <1>3, <3>1
    <3> QED
      BY <3>1, <3>2
  <2>3. \A i \in 1 .. Len(f) + Len(g) : \/ i \in 1 .. Len(f) /\ c[i] = f[i]
                                        \/ i - Len(f) \in 1 .. Len(g) /\ c[i] = g[i - Len(f)]
    BY <1>2, <1>3
  <2>4. \A x : (\E i \in 1 .. Len(f) + Len(g) : x = c[i])
               <=> (\E i \in 1 .. Len(f) : x = f[i]) \/ (\E i \in 1 .. Len(g) : x = g[i])
    BY <2>1, <2>2, <2>3
  <2> QED
    BY <1>2, <1>3, <2>4
<1>6. Joined(a, b).items = c /\ Joined(a, b).sum = a.sum + b.sum /\ Joined(a, b) \in Bin
  BY <1>1, <1>3, <1>4 DEF Bin
<1> QED
  BY <1>3, <1>5, <1>6 DEF ItemsOf, f, g

\* Sorting the bins of a state changes nothing about its items.
LEMMA SortedPacking ==
  ASSUME NEW k \in Nat, NEW bins \in [1 .. k -> Bin],
         \A i, j \in 1 .. k : i # j => ItemsOf(bins[i]) \cap ItemsOf(bins[j]) = {}
  PROVE  Packing(Decreasing(bins), k) /\ Held(Decreasing(bins)) = Held(bins)
<1>1. PICK o \in [1 .. k -> 1 .. k] :
        /\ Decreasing(bins) = [i \in 1 .. k |-> bins[o[i]]]
        /\ \A i, j \in 1 .. k : i < j => o[i] # o[j] /\ bins[o[i]].sum >= bins[o[j]].sum
  BY DecreasingOrder
<1>2. Permutation(o, k)
  BY <1>1 DEF Permutation
<1>3. \A x \in 1 .. k : \E i \in 1 .. k : o[i] = x
  <2>1. Lists(o, 1 .. k)
    BY <1>2, Permuted
  <2>2. Len(o) = k
    OBVIOUS
  <2> QED
    BY <2>1, <2>2 DEF Lists
<1> DEFINE d == Decreasing(bins)
<1>4. Packing(d, k)
  <2>1. d \in [1 .. k -> Bin] /\ \A i \in 1 .. k : d[i] = bins[o[i]]
    BY <1>1
  <2>2. \A i, j \in 1 .. k : i # j => o[i] # o[j] /\ o[i] \in 1 .. k /\ o[j] \in 1 .. k
    BY <1>2 DEF Permutation
  <2> HIDE DEF d
  <2>3. \A i, j \in 1 .. k : i # j => ItemsOf(d[i]) \cap ItemsOf(d[j]) = {}
    <3> SUFFICES ASSUME NEW i \in 1 .. k, NEW j \in 1 .. k, i # j
                 PROVE  ItemsOf(d[i]) \cap ItemsOf(d[j]) = {}
      OBVIOUS
    <3> DEFINE a == o[i]
               b == o[j]
    <3>1. a \in 1 .. k /\ b \in 1 .. k /\ a # b /\ d[i] = bins[a] /\ d[j] = bins[b]
      BY <2>1, <2>2
    <3> HIDE DEF a, b
    <3>2. ItemsOf(bins[a]) \cap ItemsOf(bins[b]) = {}
      BY <3>1
    <3> QED
      BY <3>1, <3>2
  <2> QED
    BY <2>1, <2>3 DEF Packing
<1>5. DOMAIN bins = 1 .. k /\ DOMAIN d = 1 .. k /\ \A i \in 1 .. k : d[i] = bins[o[i]] /\ o[i] \in 1 .. k
  BY <1>1
<1> HIDE DEF d
<1>6. Held(d) = Held(bins)
  <2>1. \A x : x \in Held(bins) <=> \E i \in 1 .. k : x \in ItemsOf(bins[i])
    BY <1>5 DEF Held
  <2>2. \A x : x \in Held(d) <=> \E i \in 1 .. k : x \in ItemsOf(bins[o[i]])
    BY <1>5 DEF Held
  <2>3. ASSUME NEW x PROVE x \in Held(d) <=> x \in Held(bins)
    <3>1. x \in Held(d) => x \in Held(bins)
      BY <1>5, <2>1, <2>2
    <3>2. ASSUME x \in Held(bins) PROVE x \in Held(d)
      <4>1. PICK i \in 1 .. k : x \in ItemsOf(bins[i])
        BY <2>1, <3>2
      <4>2. PICK j \in 1 .. k : o[j] = i
        BY <1>3
      <4> QED
        BY <2>2, <4>1, <4>2
    <3> QED
      BY <3>1, <3>2
  <2> QED
    BY <2>3
<1> QED
  BY <1>4, <1>6 DEF d

LEMMA MergedPacking ==
  ASSUME NEW k \in Nat, NEW s, Packing(s, k), NEW t, Packing(t, k), Held(s) \cap Held(t) = {}
  PROVE  Packing(Merged(s, t), k) /\ Held(Merged(s, t)) = Held(s) \cup Held(t)
<1> DEFINE back(i) == k + 1 - i
           bins == [i \in 1 .. k |-> Joined(s[i], t[back(i)])]
<1>1. /\ Len(s) = k /\ DOMAIN s = 1 .. k /\ DOMAIN t = 1 .. k
      /\ \A i \in 1 .. k : s[i] \in Bin /\ t[i] \in Bin
  BY DEF Packing
<1>2. Merged(s, t) = Decreasing(Listed(bins))
  BY <1>1 DEF Merged
<1>3. \A i \in 1 .. k : back(i) \in 1 .. k /\ back(back(i)) = i
  OBVIOUS
<1>4. \A i, j \in 1 .. k : i # j => back(i) # back(j)
  OBVIOUS
<1> HIDE DEF back
<1>5. \A i \in 1 .. k : bins[i] \in Bin /\ ItemsOf(bins[i]) = ItemsOf(s[i]) \cup ItemsOf(t[back(i)])
  BY <1>1, <1>3, JoinedItems
<1>6. bins \in [1 .. k -> Bin]
  BY <1>5
<1> HIDE DEF bins
<1>7. Listed(bins) = bins /\ DOMAIN bins = 1 .. k
  BY <1>6, ListedFcn
<1>8. \A i \in 1 .. k : ItemsOf(s[i]) \subseteq Held(s) /\ ItemsOf(t[i]) \subseteq Held(t)
  BY <1>1 DEF Held
<1>9. ASSUME NEW i \in 1 .. k, NEW j \in 1 .. k, i # j PROVE ItemsOf(bins[i]) \cap ItemsOf(bins[j]) = {}
  <2>1. ItemsOf(s[i]) \cap ItemsOf(s[j]) = {}
    BY <1>9 DEF Packing
  <2>2. ItemsOf(t[back(i)]) \cap ItemsOf(t[back(j)]) = {}
    BY <1>3, <1>4, <1>9 DEF Packing
  <2>3. ItemsOf(bins[i]) = ItemsOf(s[i]) \cup ItemsOf(t[back(i)]) /\ ItemsOf(bins[j]) = ItemsOf(s[j]) \cup ItemsOf(t[back(j)])
    BY <1>5
  <2>4. /\ ItemsOf(s[i]) \subseteq Held(s) /\ ItemsOf(t[back(i)]) \subseteq Held(t)
        /\ ItemsOf(s[j]) \subseteq Held(s) /\ ItemsOf(t[back(j)]) \subseteq Held(t)
    BY <1>3, <1>8
  <2> QED
    BY <2>1, <2>2, <2>3, <2>4
<1>10. Held(bins) = Held(s) \cup Held(t)
  <2>1. \A x : x \in Held(bins) <=> \E i \in 1 .. k : x \in ItemsOf(bins[i])
    BY <1>7 DEF Held
  <2>2. \A x : x \in Held(s) <=> \E i \in 1 .. k : x \in ItemsOf(s[i])
    BY <1>1 DEF Held
  <2>3. \A x : x \in Held(t) <=> \E i \in 1 .. k : x \in ItemsOf(t[i])
    BY <1>1 DEF Held
  <2>4. ASSUME NEW x PROVE x \in Held(bins) => x \in Held(s) \/ x \in Held(t)
    BY <1>3, <1>5, <2>1, <2>2, <2>3
  <2>5. ASSUME NEW x PROVE x \in Held(s) => x \in Held(bins)
    BY <1>5, <2>1, <2>2
  <2>6. ASSUME NEW x, x \in Held(t) PROVE x \in Held(bins)
    <3>1. PICK i \in 1 .. k : x \in ItemsOf(t[i])
      BY <2>3, <2>6
    <3>2. back(i) \in 1 .. k /\ x \in ItemsOf(t[back(back(i))])
      BY <1>3, <3>1
    <3>3. x \in ItemsOf(bins[back(i)])
      BY <1>5, <3>2
    <3> QED
      BY <2>1, <3>2, <3>3
  <2> QED
    BY <2>4, <2>5, <2>6
<1> QED
  BY <1>2, <1>6, <1>7, <1>9, <1>10, SortedPacking

\* A merge keeps the items shared out, and leaves one state less.
LEMMA MergedSharing ==
  ASSUME NEW k \in Nat, NEW n \in Nat, NEW h, Sharing(h, k, n),
         NEW s \in h, NEW t \in h, s # t
  PROVE  /\ Sharing((h \ {s, t}) \cup {Merged(s, t)}, k, n)
         /\ Merged(s, t) \notin h \ {s, t}
<1> DEFINE m == Merged(s, t)
           g == (h \ {s, t}) \cup {m}
<1>1. Packing(m, k) /\ Held(m) = Held(s) \cup Held(t)
  BY MergedPacking DEF Sharing
<1> HIDE DEF m
<1>2. /\ \A u \in h : Packing(u, k) /\ Held(u) # {}
      /\ \A u, v \in h : u # v => Held(u) \cap Held(v) = {}
      /\ UNION {Held(u) : u \in h} = 1 .. n
  BY DEF Sharing
<1>3. \A u \in h \ {s, t} : Held(u) \cap Held(m) = {}
  BY <1>1, <1>2
<1>4. m \notin h \ {s, t}
  BY <1>2, <1>3
<1>5. Held(m) # {}
  BY <1>1, <1>2
<1>6. \A u, v \in g : u # v => Held(u) \cap Held(v) = {}
  BY <1>2, <1>3
<1>7. UNION {Held(u) : u \in g} = 1 .. n
  <2>1. \A x : x \in UNION {Held(u) : u \in g} <=> \E u \in g : x \in Held(u)
    OBVIOUS
  <2>2. \A x : x \in 1 .. n <=> \E u \in h : x \in Held(u)
    BY <1>2
  <2>3. \A x : (\E u \in g : x \in Held(u)) <=> (\E u \in h : x \in Held(u))
    BY <1>1
  <2> QED
    BY <2>1, <2>2, <2>3
<1>8. \A u \in g : Packing(u, k) /\ Held(u) # {}
  BY <1>1, <1>2, <1>5
<1>9. Sharing(g, k, n)
  BY <1>6, <1>7, <1>8 DEF Sharing
<1> QED
  BY <1>4, <1>9 DEF m

LEMMA SingleItem ==
  ASSUME NEW w, NEW x \in Nat, w[x] \in Int
  PROVE  /\ Single(w, x) \in Bin /\ Single(w, x).sum = w[x]
         /\ Len(Single(w, x).items) = 1 /\ ItemsOf(Single(w, x)) = {x}
<1>1. <<x>> \in Seq(Nat) /\ Len(<<x>>) = 1 /\ DOMAIN <<x>> = {1} /\ <<x>>[1] = x
  OBVIOUS
<1>2. Single(w, x).items = <<x>> /\ Single(w, x).sum = w[x]
  BY DEF Single
<1>3. Single(w, x) \in Bin
  BY <1>1 DEF Single, Bin
<1> QED
  BY <1>1, <1>2, <1>3 DEF ItemsOf

\* Place j is place (j - 1) % k + 1 of block (j - 1) \div k.
LEMMA Blocks ==
  ASSUME NEW k \in Nat \ {0}, NEW m \in Nat
  PROVE  /\ \A b \in 0 .. m - 1, i \in 1 .. k : b * k + i \in 1 .. m * k
         /\ \A b, c \in Nat, i, j \in 1 .. k : b * k + i = c * k + j => b = c /\ i = j
         /\ \A j \in 1 .. m * k : \E b \in 0 .. m - 1, i \in 1 .. k : j = b * k + i
<1>1. ASSUME NEW b \in 0 .. m - 1, NEW i \in 1 .. k PROVE b * k + i \in 1 .. m * k
  <2>1. b \in Nat /\ b + 1 \in Nat /\ b + 1 <= m /\ i \in Nat
    OBVIOUS
  <2>2. (b + 1) * k <= m * k
    BY <2>1, Products
  <2>3. (b + 1) * k = b * k + k /\ b * k \in Nat /\ m * k \in Nat
    BY <2>1, Products
  <2> QED
    BY <2>1, <2>2, <2>3
<1>2. ASSUME NEW b \in Nat, NEW c \in Nat, NEW i \in 1 .. k, NEW j \in 1 .. k, b < c
      PROVE  b * k + i < c * k + j
  <2>1. (b + 1) * k <= c * k
    BY <1>2, Products
  <2>2. (b + 1) * k = b * k + k /\ b * k \in Nat /\ c * k \in Nat
    BY Products
  <2> QED
    BY <2>1, <2>2
<1>3. ASSUME NEW b \in Nat, NEW c \in Nat, NEW i \in 1 .. k, NEW j \in 1 .. k, b * k + i = c * k + j
      PROVE  b = c /\ i = j
  <2>1. b * k \in Nat /\ c * k \in Nat
    BY Products
  <2>2. ~(b * k + i < c * k + j) /\ ~(c * k + j < b * k + i)
    BY <1>3, <2>1
  <2>3. ~(b < c) /\ ~(c < b)
    BY <1>2, <2>2
  <2>4. b = c
    BY <2>3
  <2> QED
    BY <1>3, <2>1, <2>4
<1>4. ASSUME NEW j \in 1 .. m * k PROVE \E b \in 0 .. m - 1, i \in 1 .. k : j = b * k + i
  <2> DEFINE b == (j - 1) \div k
  <2>1. m * k \in Nat /\ j - 1 \in Nat /\ j - 1 < m * k
    BY Products
  <2>2. b \in Nat /\ b * k <= j - 1 /\ j - 1 < b * k + k /\ b < m
    BY <2>1, DivFacts, DivBelow
  <2> HIDE DEF b
  <2>3. b * k \in Nat
    BY <2>2, Products
  <2>4. b \in 0 .. m - 1 /\ j - b * k \in 1 .. k /\ j = b * k + (j - b * k)
    BY <2>1, <2>2, <2>3
  <2> QED
    BY <2>4
<1> QED
  BY <1>1, <1>3, <1>4

\* The first states share the items out: k that follow each other in the order
\* of their weights to each.
LEMMA FirstSharing ==
  ASSUME NEW k \in Nat \ {0}, NEW n \in Nat, n % k = 0, NEW w \in [1 .. n -> Int]
  PROVE  Sharing(FirstStates(w, k, TRUE), k, n)
<1> DEFINE order == Increasing(w)
           m == n \div k
           place(b, i) == b * k + i
           block(b) == [i \in 1 .. k |-> Single(w, order[place(b, i)])]
           first == FirstStates(w, k, TRUE)
<1>1. m \in Nat /\ n = m * k /\ Len(w) = n
  OBVIOUS
<1>2. first = {Decreasing(bins) : bins \in {block(b) : b \in 0 .. m - 1}}
  BY <1>1 DEF FirstStates
<1> HIDE DEF m, first
<1>3. Permutation(order, n)
  BY IncreasingOrder DEF Permutation
<1> HIDE DEF order
<1>4. /\ order \in [1 .. n -> 1 .. n]
      /\ \A i, j \in 1 .. n : i # j => order[i] # order[j]
      /\ \A x \in 1 .. n : \E j \in 1 .. n : order[j] = x
  <2>1. Lists(order, 1 .. n) /\ order \in [1 .. n -> 1 .. n]
    BY <1>3, Permuted DEF Permutation
  <2>2. Len(order) = n
    BY <2>1
  <2> QED
    BY <1>3, <2>1, <2>2 DEF Lists, Permutation
<1>5. /\ \A b \in 0 .. m - 1, i \in 1 .. k : place(b, i) \in 1 .. n
      /\ \A b, c \in 0 .. m - 1, i, j \in 1 .. k : place(b, i) = place(c, j) => b = c /\ i = j
      /\ \A j \in 1 .. n : \E b \in 0 .. m - 1, i \in 1 .. k : j = place(b, i)
  <2> m \in Nat
    BY <1>1
  <2>1. \A b \in 0 .. m - 1, i \in 1 .. k : place(b, i) \in 1 .. m * k
    BY Blocks
  <2>2. \A b, c \in Nat, i, j \in 1 .. k : place(b, i) = place(c, j) => b = c /\ i = j
    BY Blocks
  <2>3. \A j \in 1 .. m * k : \E b \in 0 .. m - 1, i \in 1 .. k : j = place(b, i)
    BY Blocks
  <2> HIDE DEF place
  <2>4. 0 .. m - 1 \subseteq Nat
    BY <1>1
  <2> QED
    BY <1>1, <2>1, <2>2, <2>3, <2>4
<1> HIDE DEF place
<1>a. \A b \in 0 .. m - 1, i \in 1 .. k : order[place(b, i)] \in 1 .. n
  <2>1. \A j \in 1 .. n : order[j] \in 1 .. n
    BY <1>4
  <2>2. \A b \in 0 .. m - 1, i \in 1 .. k : place(b, i) \in 1 .. n
    BY <1>5
  <2> HIDE DEF block
  <2> QED
    BY <2>1, <2>2
<1>b. ASSUME NEW b \in 0 .. m - 1, NEW c \in 0 .. m - 1, NEW i \in 1 .. k, NEW j \in 1 .. k, b # c \/ i # j
      PROVE  order[place(b, i)] # order[place(c, j)]
  <2>1. place(b, i) # place(c, j)
    BY <1>5, <1>b
  <2>2. place(b, i) \in 1 .. n /\ place(c, j) \in 1 .. n
    BY <1>5
  <2> QED
    BY <1>4, <2>1, <2>2
<1>6. ASSUME NEW b \in 0 .. m - 1
      PROVE  /\ block(b) \in [1 .. k -> Bin]
             /\ \A i \in 1 .. k : ItemsOf(block(b)[i]) = {order[place(b, i)]}
  <2>1. ASSUME NEW i \in 1 .. k
        PROVE  Single(w, order[place(b, i)]) \in Bin /\ ItemsOf(Single(w, order[place(b, i)])) = {order[place(b, i)]}
    <3> DEFINE x == order[place(b, i)]
    <3>1. x \in 1 .. n
      BY <1>a
    <3> HIDE DEF x
    <3>2. x \in Nat /\ w[x] \in Int
      BY <3>1
    <3>3. Single(w, x) \in Bin /\ ItemsOf(Single(w, x)) = {x}
      BY <3>2, SingleItem
    <3> QED
      BY <3>3 DEF x
  <2> QED
    BY <2>1
<1> HIDE DEF block
<1>7. ASSUME NEW b \in 0 .. m - 1
      PROVE  /\ Packing(Decreasing(block(b)), k)
             /\ Held(Decreasing(block(b))) = {order[place(b, i)] : i \in 1 .. k}
  <2>0. block(b) \in [1 .. k -> Bin] /\ \A i \in 1 .. k : ItemsOf(block(b)[i]) = {order[place(b, i)]}
    BY <1>6
  <2>1. \A i, j \in 1 .. k : i # j => order[place(b, i)] # order[place(b, j)]
    BY <1>b
  <2>2. ASSUME NEW i \in 1 .. k, NEW j \in 1 .. k, i # j
        PROVE  ItemsOf(block(b)[i]) \cap ItemsOf(block(b)[j]) = {}
    <3>1. order[place(b, i)] # order[place(b, j)]
      BY <2>1, <2>2
    <3>2. ItemsOf(block(b)[i]) = {order[place(b, i)]} /\ ItemsOf(block(b)[j]) = {order[place(b, j)]}
      BY <2>0
    <3> QED
      BY <3>1, <3>2
  <2>3. Packing(Decreasing(block(b)), k) /\ Held(Decreasing(block(b))) = Held(block(b))
    BY <2>0, <2>2, SortedPacking
  <2>4. DOMAIN block(b) = 1 .. k
    BY <2>0
  <2>5. Held(block(b)) = UNION {ItemsOf(block(b)[i]) : i \in 1 .. k}
    BY <2>4 DEF Held
  <2>6. UNION {ItemsOf(block(b)[i]) : i \in 1 .. k} = {order[place(b, i)] : i \in 1 .. k}
    <3>1. \A x : (\E i \in 1 .. k : x \in ItemsOf(block(b)[i])) <=> (\E i \in 1 .. k : x = order[place(b, i)])
      BY <2>0
    <3> QED
      BY <3>1
  <2> QED
    BY <2>3, <2>5, <2>6
<1>8. \A s \in first : \E b \in 0 .. m - 1 : s = Decreasing(block(b))
  BY <1>2
<1>9. \A s \in first : Packing(s, k) /\ Held(s) # {}
  <2> SUFFICES ASSUME NEW s \in first PROVE Packing(s, k) /\ Held(s) # {}
    OBVIOUS
  <2>1. PICK b \in 0 .. m - 1 : s = Decreasing(block(b))
    BY <1>8
  <2>2. 1 \in 1 .. k
    OBVIOUS
  <2>3. Packing(s, k) /\ Held(s) = {order[place(b, i)] : i \in 1 .. k}
    BY <1>7, <2>1
  <2> QED
    BY <2>2, <2>3
<1>10. ASSUME NEW s \in first, NEW t \in first, s # t PROVE Held(s) \cap Held(t) = {}
  <2>1. PICK b \in 0 .. m - 1, c \in 0 .. m - 1 : s = Decreasing(block(b)) /\ t = Decreasing(block(c))
    BY <1>8
  <2>2. b # c
    BY <1>10, <2>1
  <2>3. \A i, j \in 1 .. k : order[place(b, i)] # order[place(c, j)]
    BY <1>b, <2>2
  <2> QED
    BY <1>7, <2>1, <2>3
<1>11. ASSUME NEW x PROVE x \in 1 .. n <=> \E s \in first : x \in Held(s)
  <2>1. ASSUME x \in 1 .. n PROVE \E s \in first : x \in Held(s)
    <3>1. PICK j \in 1 .. n : order[j] = x
      BY <1>4, <2>1
    <3>2. PICK b \in 0 .. m - 1, i \in 1 .. k : j = place(b, i)
      BY <1>5
    <3>3. x \in Held(Decreasing(block(b)))
      BY <1>7, <3>1, <3>2
    <3>4. Decreasing(block(b)) \in first
      BY <1>2
    <3> QED
      BY <3>3, <3>4
  <2>2. ASSUME NEW s \in first, x \in Held(s) PROVE x \in 1 .. n
    <3>1. PICK b \in 0 .. m - 1 : s = Decreasing(block(b))
      BY <1>8
    <3>2. PICK i \in 1 .. k : x = order[place(b, i)]
      BY <1>7, <2>2, <3>1
    <3> QED
      BY <1>a, <3>2
  <2> QED
    BY <2>1, <2>2
<1>12. UNION {Held(s) : s \in first} = 1 .. n
  BY <1>11
<1> QED
  BY <1>9, <1>10, <1>12 DEF Sharing, first

\* The parts list the items of the bins of s, which share 1 .. n out.
Parted(parts, s, k, n) ==
  /\ parts \in [1 .. k -> Seq(1 .. n)]
  /\ \A i \in 1 .. k : Lists(parts[i], ItemsOf(s[i])) /\ ItemsOf(s[i]) \subseteq 1 .. n
  /\ \A i, j \in 1 .. k : i # j => ItemsOf(s[i]) \cap ItemsOf(s[j]) = {}
  /\ \A x : x \in 1 .. n <=> \E i \in 1 .. k : x \in ItemsOf(s[i])

\* One state is left: its parts list every item once.
LEMMA LastParts ==
  ASSUME NEW k \in Nat \ {0}, NEW n \in Nat, NEW s, Sharing({s}, k, n)
  PROVE  Parted(PartsOf(s), s, k, n)
<1> DEFINE parts == [i \in 1 .. k |-> Ascending(ItemsOf(s[i]))]
<1>1. Packing(s, k) /\ Held(s) = 1 .. n
  BY DEF Sharing
<1>2. s \in [1 .. k -> Bin] /\ \A i, j \in 1 .. k : i # j => ItemsOf(s[i]) \cap ItemsOf(s[j]) = {}
  BY <1>1 DEF Packing
<1>3. UNION {ItemsOf(s[i]) : i \in 1 .. k} = 1 .. n
  BY <1>1, <1>2 DEF Held
<1>5. ASSUME NEW i \in 1 .. k
      PROVE  Lists(Ascending(ItemsOf(s[i])), ItemsOf(s[i])) /\ ItemsOf(s[i]) \subseteq 1 .. n
  <2> DEFINE S == ItemsOf(s[i])
  <2>1. S \in SUBSET (1 .. n)
    BY <1>3
  <2> HIDE DEF S
  <2> DEFINE U == 1 .. n
  <2>2. IsFiniteSet(U) /\ S \in SUBSET U /\ S \subseteq Nat
    BY <2>1, FS_Interval
  <2> HIDE DEF U
  <2>3. IsFiniteSet(S) /\ S \in SUBSET Nat
    BY <2>2, FS_Subset
  <2>4. Lists(Ascending(S), S)
    BY <2>3, AscendingLists
  <2> QED
    BY <2>1, <2>4 DEF S
<1>6. \A i \in 1 .. k : Ascending(ItemsOf(s[i])) \in Seq(1 .. n)
  <2> SUFFICES ASSUME NEW i \in 1 .. k PROVE Ascending(ItemsOf(s[i])) \in Seq(1 .. n)
    OBVIOUS
  <2>1. Ascending(ItemsOf(s[i])) \in Seq(ItemsOf(s[i])) /\ ItemsOf(s[i]) \subseteq 1 .. n
    BY <1>5 DEF Lists
  <2> QED
    BY <2>1, SeqMonotonic
<1>7. parts \in [1 .. k -> Seq(1 .. n)]
  BY <1>6
<1>8. PartsOf(s) = Listed(parts)
  BY <1>2 DEF PartsOf
<1>9. PartsOf(s) = parts
  <2> HIDE DEF parts
  <2> QED
    BY <1>7, <1>8, ListedFcn
<1>10. \A x : x \in 1 .. n <=> \E i \in 1 .. k : x \in ItemsOf(s[i])
  BY <1>3
<1>11. \A i \in 1 .. k : parts[i] = Ascending(ItemsOf(s[i]))
  OBVIOUS
<1> HIDE DEF parts
<1>12. Parted(parts, s, k, n)
  BY <1>2, <1>5, <1>7, <1>10, <1>11 DEF Parted
<1> QED
  BY <1>9, <1>12

LEMMA SharingOne ==
  ASSUME NEW k \in Nat, NEW n \in Nat, NEW h, Sharing(h, k, n), Cardinality(h) = 1
  PROVE  h = {CHOOSE s \in h : TRUE}
<1>1. \A t \in h : Held(t) # {} /\ Held(t) \subseteq 1 .. n
  BY DEF Sharing
<1>2. \A t, u \in h : t # u => Held(t) \cap Held(u) = {}
  BY DEF Sharing
<1> DEFINE U == 1 .. n
           f == [t \in h |-> CHOOSE x \in Held(t) : TRUE]
<1>3. \A t \in h : f[t] \in Held(t) /\ f[t] \in U
  BY <1>1
<1>4. IsFiniteSet(U)
  BY FS_Interval
<1> HIDE DEF U
<1>5. f \in Injection(h, U)
  <2>1. f \in [h -> U]
    BY <1>3
  <2> HIDE DEF f
  <2>2. \A t, u \in h : f[t] = f[u] => t = u
    BY <1>2, <1>3
  <2> QED
    BY <2>1, <2>2 DEF Injection, IsInjective
<1> HIDE DEF f
<1>6. IsFiniteSet(h)
  BY <1>4, <1>5, FS_Injection
<1>7. \E x : h = {x}
  BY <1>6, FS_Singleton
<1> QED
  BY <1>7

-----------------------------------------------------------------------------
(* States of bins with any number of items. *)

Weighed(bin) ==
  /\ bin.items = <<>> => bin.sum = 0
  /\ bin.items # <<>> => bin.sum > 0

\* The heaviest bin first; no bin has two items while another has none.
Loaded(s, k) ==
  /\ \A i \in 1 .. k : Weighed(s[i])
  /\ \A i, j \in 1 .. k : i < j => s[i].sum >= s[j].sum
  /\ \A i, j \in 1 .. k : s[i].items = <<>> => Len(s[j].items) <= 1

LEMMA SortedLoaded ==
  ASSUME NEW k \in Nat, NEW bins \in [1 .. k -> Bin],
         \A i \in 1 .. k : Weighed(bins[i]),
         \A i, j \in 1 .. k : bins[i].items = <<>> => Len(bins[j].items) <= 1
  PROVE  Loaded(Decreasing(bins), k)
<1>1. PICK o \in [1 .. k -> 1 .. k] :
        /\ Decreasing(bins) = [i \in 1 .. k |-> bins[o[i]]]
        /\ \A i, j \in 1 .. k : i < j => o[i] # o[j] /\ bins[o[i]].sum >= bins[o[j]].sum
  BY DecreasingOrder
<1> DEFINE d == Decreasing(bins)
<1>2. \A i \in 1 .. k : d[i] = bins[o[i]] /\ o[i] \in 1 .. k
  BY <1>1
<1>3. \A i, j \in 1 .. k : i < j => bins[o[i]].sum >= bins[o[j]].sum
  BY <1>1
<1> HIDE DEF d
<1>4. \A i \in 1 .. k : Weighed(d[i])
  BY <1>2
<1>5. \A i, j \in 1 .. k : i < j => d[i].sum >= d[j].sum
  BY <1>2, <1>3
<1>6. \A i, j \in 1 .. k : d[i].items = <<>> => Len(d[j].items) <= 1
  <2> TAKE i, j \in 1 .. k
  <2> DEFINE a == o[i]
             b == o[j]
  <2>1. a \in 1 .. k /\ b \in 1 .. k /\ d[i] = bins[a] /\ d[j] = bins[b]
    BY <1>2
  <2> HIDE DEF a, b
  <2>2. bins[a].items = <<>> => Len(bins[b].items) <= 1
    BY <2>1
  <2> QED
    BY <2>1, <2>2
<1>7. Loaded(d, k)
  BY <1>4, <1>5, <1>6 DEF Loaded
<1> QED
  BY <1>7 DEF d

LEMMA EmptyBin ==
  ASSUME NEW k \in Nat, NEW s \in [1 .. k -> Bin], Loaded(s, k),
         NEW i \in 1 .. k, s[i].items = <<>>, NEW j \in 1 .. k, i <= j
  PROVE  s[j].items = <<>>
<1>1. s[i].sum = 0 /\ s[j].sum \in Int
  BY DEF Loaded, Weighed, Bin
<1>2. i = j \/ s[i].sum >= s[j].sum
  BY DEF Loaded
<1>3. ~(s[j].sum > 0)
  BY <1>1, <1>2
<1> QED
  BY <1>3 DEF Loaded, Weighed

\* What the largest bin of one state takes is the smallest of the other: as long
\* as a bin is empty, a bin with an item takes none.
LEMMA MergedLoaded ==
  ASSUME NEW k \in Nat, NEW s \in [1 .. k -> Bin], Loaded(s, k), NEW t \in [1 .. k -> Bin], Loaded(t, k)
  PROVE  Loaded(Merged(s, t), k)
<1> DEFINE back(i) == k + 1 - i
           bins == [i \in 1 .. k |-> Joined(s[i], t[back(i)])]
           len(bin) == Len(bin.items)
           empty(bin) == bin.items = <<>>
<1>1. Len(s) = k /\ DOMAIN s = 1 .. k
  OBVIOUS
<1>2. Merged(s, t) = Decreasing(Listed(bins))
  BY <1>1 DEF Merged
<1>3. \A i \in 1 .. k : back(i) \in 1 .. k
  OBVIOUS
<1>4. \A i, j \in 1 .. k : i <= j => back(j) <= back(i)
  OBVIOUS
<1> HIDE DEF back
<1>5. \A i \in 1 .. k : /\ bins[i] \in Bin /\ bins[i].sum = s[i].sum + t[back(i)].sum
                        /\ len(bins[i]) = len(s[i]) + len(t[back(i)])
  BY <1>3, JoinedItems
<1>6. bins \in [1 .. k -> Bin]
  BY <1>5
<1> HIDE DEF bins
<1>7. Listed(bins) = bins
  BY <1>6, ListedFcn
<1>8. \A i \in 1 .. k : /\ len(s[i]) \in Nat /\ (len(s[i]) = 0 <=> empty(s[i])) /\ s[i].sum \in Int
                        /\ len(t[back(i)]) \in Nat /\ (len(t[back(i)]) = 0 <=> empty(t[back(i)]))
                        /\ t[back(i)].sum \in Int
                        /\ (len(bins[i]) = 0 <=> empty(bins[i]))
  <2>1. \A b \in Bin : len(b) \in Nat /\ (len(b) = 0 <=> empty(b)) /\ b.sum \in Int
    BY DEF Bin
  <2>2. \A i \in 1 .. k : s[i] \in Bin /\ t[back(i)] \in Bin /\ bins[i] \in Bin
    BY <1>3, <1>5
  <2> QED
    BY <2>1, <2>2
<1>a. \A i \in 1 .. k : /\ Weighed(s[i]) <=> (empty(s[i]) => s[i].sum = 0) /\ (~empty(s[i]) => s[i].sum > 0)
                        /\ Weighed(t[back(i)]) <=> /\ empty(t[back(i)]) => t[back(i)].sum = 0
                                                   /\ ~empty(t[back(i)]) => t[back(i)].sum > 0
                        /\ Weighed(bins[i]) <=> (empty(bins[i]) => bins[i].sum = 0) /\ (~empty(bins[i]) => bins[i].sum > 0)
  BY DEF Weighed
<1>b. \A i, j \in 1 .. k : /\ empty(s[i]) => len(s[j]) <= 1
                           /\ empty(t[back(i)]) => len(t[back(j)]) <= 1
  BY <1>3 DEF Loaded
<1>c. \A i, j \in 1 .. k : /\ empty(s[i]) /\ i <= j => empty(s[j])
                           /\ empty(t[back(i)]) /\ j <= i => empty(t[back(j)])
  BY <1>3, <1>4, EmptyBin
<1> HIDE DEF len, empty
<1>9. ASSUME NEW i \in 1 .. k PROVE Weighed(bins[i])
  <2>1. Weighed(s[i]) /\ Weighed(t[back(i)]) /\ s[i] \in Bin /\ t[back(i)] \in Bin
    BY <1>3 DEF Loaded
  <2>2. /\ bins[i] \in Bin /\ bins[i].sum = s[i].sum + t[back(i)].sum
        /\ len(bins[i]) = len(s[i]) + len(t[back(i)])
    BY <1>5
  <2>3. /\ len(s[i]) \in Nat /\ (len(s[i]) = 0 <=> empty(s[i])) /\ s[i].sum \in Int
        /\ len(t[back(i)]) \in Nat /\ (len(t[back(i)]) = 0 <=> empty(t[back(i)]))
        /\ t[back(i)].sum \in Int
        /\ (len(bins[i]) = 0 <=> empty(bins[i]))
    BY <1>8
  <2>4. empty(bins[i]) <=> empty(s[i]) /\ empty(t[back(i)])
    BY <2>2, <2>3
  <2>5. /\ empty(s[i]) => s[i].sum = 0
        /\ ~empty(s[i]) => s[i].sum > 0
        /\ empty(t[back(i)]) => t[back(i)].sum = 0
        /\ ~empty(t[back(i)]) => t[back(i)].sum > 0
    BY <1>a, <2>1
  <2>6. empty(bins[i]) => bins[i].sum = 0
    BY <2>2, <2>3, <2>4, <2>5
  <2>7. ~empty(bins[i]) => bins[i].sum > 0
    <3>1. ~empty(bins[i]) => ~empty(s[i]) \/ ~empty(t[back(i)])
      BY <2>4
    <3> QED
      BY <2>2, <2>3, <2>5, <3>1
  <2> QED
    BY <1>a, <2>6, <2>7
<1>10. ASSUME NEW i \in 1 .. k, empty(bins[i]), NEW j \in 1 .. k PROVE len(bins[j]) <= 1
  <2>1. empty(s[i]) /\ empty(t[back(i)])
    <3>1. /\ len(s[i]) \in Nat /\ (len(s[i]) = 0 <=> empty(s[i]))
          /\ len(t[back(i)]) \in Nat /\ (len(t[back(i)]) = 0 <=> empty(t[back(i)]))
          /\ (len(bins[i]) = 0 <=> empty(bins[i]))
      BY <1>8
    <3>2. len(bins[i]) = len(s[i]) + len(t[back(i)])
      BY <1>5
    <3> QED
      BY <1>10, <3>1, <3>2
  <2>2. len(s[j]) <= 1 /\ len(t[back(j)]) <= 1
    BY <1>b, <2>1
  <2>3. empty(s[j]) \/ empty(t[back(j)])
    <3>1. i <= j \/ j <= i
      OBVIOUS
    <3> QED
      BY <1>c, <2>1, <3>1
  <2>4. /\ len(s[j]) \in Nat /\ (len(s[j]) = 0 <=> empty(s[j]))
        /\ len(t[back(j)]) \in Nat /\ (len(t[back(j)]) = 0 <=> empty(t[back(j)]))
    BY <1>8
  <2>5. len(bins[j]) = len(s[j]) + len(t[back(j)])
    BY <1>5
  <2> QED
    BY <2>2, <2>3, <2>4, <2>5
<1>11. \A i, j \in 1 .. k : bins[i].items = <<>> => Len(bins[j].items) <= 1
  BY <1>10 DEF empty, len
<1> QED
  BY <1>2, <1>6, <1>7, <1>9, <1>11, SortedLoaded

\* The heap of a method that does not ask for equal sizes.
LoadedHeap(h, k, n) == Sharing(h, k, n) /\ \A s \in h : Loaded(s, k)

LEMMA TopExists ==
  ASSUME NEW k \in Nat \ {0}, NEW h, IsFiniteSet(h), h # {},
         \A s \in h : Packing(s, k) /\ Held(s) # {} /\ Loaded(s, k),
         \A s, t \in h : s # t => Held(s) \cap Held(t) = {}
  PROVE  \E s \in h : IsTop(s, h)
<1> DEFINE sum(s) == s[1].sum
           len(s) == Len(s[1].items)
           head(s) == Head(s[1].items)
           R == {p \in h \X h : PopsBefore(p[1], p[2])}
<1>1. \A s, t \in h : <<s, t>> \in R <=> PopsBefore(s, t)
  OBVIOUS
<1> HIDE DEF R
<1>2. ASSUME NEW s \in h
      PROVE  /\ Spread(s) \in Int /\ sum(s) \in Int /\ len(s) \in Nat /\ head(s) \in Nat
             /\ s[1].items # <<>> /\ head(s) \in Held(s)
  <2>1. s \in [1 .. k -> Bin] /\ 1 \in 1 .. k /\ Len(s) = k /\ k \in 1 .. k
    BY DEF Packing
  <2>2. s[1] \in Bin /\ s[k] \in Bin
    BY <2>1
  <2>3. s[1].sum \in Int /\ s[k].sum \in Int /\ s[1].items \in Seq(Nat)
    BY <2>2 DEF Bin
  <2>4. s[1].items # <<>>
    <3>1. PICK x \in Held(s) : TRUE
      OBVIOUS
    <3>2. PICK i \in 1 .. k : x \in ItemsOf(s[i])
      BY <2>1, <3>1 DEF Held
    <3>3. s[i].items # <<>>
      <4>1. DOMAIN s[i].items # {}
        BY <3>2 DEF ItemsOf
      <4> QED
        BY <4>1
    <3>4. 1 <= i
      OBVIOUS
    <3> QED
      BY <2>1, <3>3, <3>4, EmptyBin
  <2> DEFINE f == s[1].items
  <2>5. f \in Seq(Nat) /\ f # <<>>
    BY <2>3, <2>4
  <2> HIDE DEF f
  <2>6. 1 \in DOMAIN f /\ Head(f) = f[1] /\ Head(f) \in Nat /\ Len(f) \in Nat
    BY <2>5
  <2>7. Head(f) \in Held(s)
    BY <2>1, <2>6 DEF Held, ItemsOf, f
  <2> QED
    BY <2>1, <2>3, <2>5, <2>6, <2>7 DEF Spread, f
<1>3. ASSUME NEW s \in h, NEW t \in h, s # t PROVE head(s) # head(t)
  BY <1>2, <1>3
<1>4. \A s, t \in h : PopsBefore(s, t) <=>
        \/ Spread(s) > Spread(t)
        \/ Spread(s) = Spread(t) /\ sum(s) > sum(t)
        \/ Spread(s) = Spread(t) /\ sum(s) = sum(t) /\ len(s) > len(t)
        \/ Spread(s) = Spread(t) /\ sum(s) = sum(t) /\ len(s) = len(t) /\ head(s) > head(t)
  BY <1>2 DEF PopsBefore, Heavier
<1> HIDE DEF sum, len, head
<1>5. \A s \in h : Spread(s) \in Int /\ sum(s) \in Int /\ len(s) \in Nat /\ head(s) \in Nat
  BY <1>2
<1>6. \A s, t \in h : s # t => PopsBefore(s, t) \/ PopsBefore(t, s)
  BY <1>3, <1>4, <1>5
<1>7. \A s \in h : ~PopsBefore(s, s)
  BY <1>4, <1>5
<1>8. \A s, t, u \in h : PopsBefore(s, t) /\ PopsBefore(t, u) => PopsBefore(s, u)
  BY <1>4, <1>5
<1>9. StrictOrder(R, h)
  BY <1>1, <1>6, <1>7, <1>8 DEF StrictOrder
<1>10. 1 \in 1 .. Cardinality(h)
  BY FS_EmptySet, FS_CardinalityType
<1>11. PICK s \in h : Cardinality(Below(R, h, s)) = 1 - 1
  BY <1>9, <1>10, Ranking
<1>12. Below(R, h, s) = {}
  <2>1. Below(R, h, s) \in SUBSET h
    BY DEF Below
  <2>2. IsFiniteSet(Below(R, h, s))
    BY <2>1, FS_Subset
  <2> QED
    BY <1>11, <2>2, FS_EmptySet
<1>13. \A t \in h \ {s} : PopsBefore(s, t)
  BY <1>1, <1>6, <1>12 DEF Below
<1> QED
  BY <1>13 DEF IsTop

LEMMA TopMerge ==
  ASSUME NEW k \in Nat \ {0}, NEW n \in Nat, NEW h, IsFiniteSet(h), LoadedHeap(h, k, n), Cardinality(h) >= 2
  PROVE  /\ IsFiniteSet(MergedTop(h)) /\ LoadedHeap(MergedTop(h), k, n)
         /\ Cardinality(MergedTop(h)) = Cardinality(h) - 1
<1> DEFINE s == CHOOSE s \in h : IsTop(s, h)
           t == CHOOSE t \in h : IsTop(t, h \ {s})
           rest == h \ {s}
<1>1. MergedTop(h) = (h \ {s, t}) \cup {Merged(s, t)}
  BY DEF MergedTop
<1>2. /\ \A u \in h : Packing(u, k) /\ Held(u) # {} /\ Loaded(u, k)
      /\ \A u, v \in h : u # v => Held(u) \cap Held(v) = {}
      /\ Sharing(h, k, n) /\ Cardinality(h) \in Nat
  BY FS_CardinalityType DEF LoadedHeap, Sharing
<1>3. h # {}
  BY FS_EmptySet
<1>4. \E u \in h : IsTop(u, h)
  BY <1>2, <1>3, TopExists
<1>5. s \in h /\ IsTop(s, h)
  BY <1>4
<1> HIDE DEF s
<1>6. IsFiniteSet(rest) /\ Cardinality(rest) = Cardinality(h) - 1
  BY <1>5, FS_RemoveElement
<1>7. rest # {}
  <2>1. Cardinality(rest) # 0
    BY <1>2, <1>6
  <2> QED
    BY <2>1, FS_EmptySet
<1>8. \A u \in rest : u \in h
  OBVIOUS
<1> HIDE DEF rest
<1>9. \E u \in rest : IsTop(u, rest)
  BY <1>2, <1>6, <1>7, <1>8, TopExists
<1>10. \E u \in h : IsTop(u, h \ {s})
  BY <1>9 DEF rest
<1>11. t \in h /\ t # s
  BY <1>10 DEF IsTop
<1> HIDE DEF t
<1>12. /\ Sharing((h \ {s, t}) \cup {Merged(s, t)}, k, n)
       /\ Merged(s, t) \notin h \ {s, t}
  BY <1>2, <1>5, <1>11, MergedSharing
<1>13. s \in [1 .. k -> Bin] /\ t \in [1 .. k -> Bin] /\ Loaded(s, k) /\ Loaded(t, k) /\ k \in Nat
  BY <1>2, <1>5, <1>11 DEF Packing
<1>14. Loaded(Merged(s, t), k)
  BY <1>13, MergedLoaded
<1>15. LoadedHeap(MergedTop(h), k, n)
  BY <1>1, <1>2, <1>12, <1>14 DEF LoadedHeap
<1> DEFINE few == rest \ {t}
<1>16. few = h \ {s, t}
  BY DEF rest
<1>17. IsFiniteSet(few) /\ Cardinality(few) = Cardinality(h) - 2
  <2>1. t \in rest
    BY <1>11 DEF rest
  <2> QED
    BY <1>2, <1>6, <2>1, FS_RemoveElement
<1> HIDE DEF few
<1>18. IsFiniteSet(few \cup {Merged(s, t)}) /\ Cardinality(few \cup {Merged(s, t)}) = Cardinality(few) + 1
  BY <1>12, <1>16, <1>17, FS_AddElement
<1> QED
  BY <1>1, <1>2, <1>15, <1>16, <1>17, <1>18

\* One item per state.
LEMMA SingleStates ==
  ASSUME NEW k \in Nat \ {0}, NEW n \in Nat, NEW w \in [1 .. n -> Nat \ {0}]
  PROVE  /\ IsFiniteSet(FirstStates(w, k, FALSE)) /\ Cardinality(FirstStates(w, k, FALSE)) = n
         /\ LoadedHeap(FirstStates(w, k, FALSE), k, n)
<1> DEFINE state(x) == [i \in 1 .. k |-> IF i = 1 THEN Single(w, x) ELSE NoItem]
           f == [x \in 1 .. n |-> state(x)]
           first == FirstStates(w, k, FALSE)
<1>1. first = {state(x) : x \in 1 .. n}
  BY DEF FirstStates
<1> HIDE DEF first
<1>2. /\ NoItem \in Bin /\ NoItem.sum = 0 /\ NoItem.items = <<>> /\ Len(NoItem.items) = 0
      /\ ItemsOf(NoItem) = {} /\ Weighed(NoItem)
  BY DEF NoItem, Bin, ItemsOf, Weighed
<1>3. ASSUME NEW x \in 1 .. n
      PROVE  /\ Single(w, x) \in Bin /\ Single(w, x).sum = w[x] /\ Len(Single(w, x).items) = 1
             /\ ItemsOf(Single(w, x)) = {x} /\ Weighed(Single(w, x)) /\ w[x] \in Nat /\ w[x] > 0
             /\ Single(w, x).items # <<>>
  <2>1. x \in Nat /\ w[x] \in Int /\ w[x] > 0 /\ w[x] \in Nat
    OBVIOUS
  <2>2. Single(w, x) \in Bin /\ Single(w, x).sum = w[x] /\ Len(Single(w, x).items) = 1 /\ ItemsOf(Single(w, x)) = {x}
    BY <2>1, SingleItem
  <2>3. Single(w, x).items # <<>>
    BY <2>1 DEF Single
  <2> QED
    BY <2>1, <2>2, <2>3 DEF Weighed
<1>4. ASSUME NEW x \in 1 .. n
      PROVE  Packing(state(x), k) /\ Held(state(x)) = {x} /\ Loaded(state(x), k)
  <2> DEFINE s == state(x)
  <2>1. 1 \in 1 .. k /\ s[1] = Single(w, x) /\ \A i \in 1 .. k : i # 1 => s[i] = NoItem
    OBVIOUS
  <2>2. s \in [1 .. k -> Bin] /\ DOMAIN s = 1 .. k
    BY <1>2, <1>3
  <2> HIDE DEF s
  <2>3. ItemsOf(s[1]) = {x} /\ \A i \in 1 .. k : i # 1 => ItemsOf(s[i]) = {}
    <3>1. ItemsOf(Single(w, x)) = {x} /\ ItemsOf(NoItem) = {}
      BY <1>2, <1>3
    <3> QED
      BY <2>1, <3>1
  <2>4. Packing(s, k)
    BY <2>2, <2>3 DEF Packing
  <2>5. Held(s) = {x}
    BY <2>1, <2>2, <2>3 DEF Held
  <2>6. \A i \in 1 .. k : Weighed(s[i]) /\ Len(s[i].items) <= 1
    <3>1. Weighed(Single(w, x)) /\ Weighed(NoItem)
      BY <1>2, <1>3
    <3>2. Len(Single(w, x).items) = 1 /\ Len(NoItem.items) = 0
      BY <1>2, <1>3
    <3>3. \A i \in 1 .. k : Weighed(s[i])
      BY <2>1, <3>1
    <3>4. \A i \in 1 .. k : Len(s[i].items) <= 1
      <4> SUFFICES ASSUME NEW i \in 1 .. k PROVE Len(s[i].items) <= 1
        OBVIOUS
      <4>1. CASE i = 1
        <5>1. s[i] = Single(w, x)
          BY <2>1, <4>1
        <5>2. Len(s[i].items) = 1
          BY <3>2, <5>1
        <5> HIDE DEF state
        <5> QED
          BY <5>2
      <4>2. CASE i # 1
        <5>1. s[i] = NoItem
          BY <2>1, <4>2
        <5> QED
          BY <3>2, <5>1
      <4> QED
        BY <4>1, <4>2
    <3> QED
      BY <3>3, <3>4
  <2>7. ASSUME NEW i \in 1 .. k, NEW j \in 1 .. k, i < j PROVE s[i].sum >= s[j].sum
    <3>1. j # 1
      BY <2>7
    <3>2. s[j].sum = 0
      BY <1>2, <2>1, <3>1
    <3>3. s[i].sum = 0 \/ s[i].sum = w[x]
      BY <1>2, <1>3, <2>1
    <3> QED
      BY <1>3, <3>2, <3>3
  <2>8. Loaded(s, k)
    BY <2>6, <2>7 DEF Loaded
  <2> QED
    BY <2>4, <2>5, <2>8 DEF s
<1> HIDE DEF state
<1>5. \A x, y \in 1 .. n : x # y => state(x) # state(y)
  BY <1>4
<1>6. IsFiniteSet(1 .. n) /\ Cardinality(1 .. n) = n
  BY FS_Interval
<1>7. f \in Bijection(1 .. n, first)
  <2>1. f \in [1 .. n -> first]
    BY <1>1
  <2>2. f \in Injection(1 .. n, first)
    BY <1>5, <2>1 DEF Injection, IsInjective
  <2>3. f \in Surjection(1 .. n, first)
    BY <1>1, <2>1 DEF Surjection
  <2> QED
    BY <2>2, <2>3 DEF Bijection
<1>8. IsFiniteSet(first) /\ Cardinality(first) = n
  BY <1>6, <1>7, FS_Surjection DEF Bijection
<1>9. \A s \in first : \E x \in 1 .. n : s = state(x)
  BY <1>1
<1>10. \A s \in first : Packing(s, k) /\ Held(s) # {} /\ Loaded(s, k)
  BY <1>4, <1>9
<1>11. \A s, t \in first : s # t => Held(s) \cap Held(t) = {}
  BY <1>4, <1>9
<1>12. UNION {Held(s) : s \in first} = 1 .. n
  <2>1. \A x \in 1 .. n : state(x) \in first /\ x \in Held(state(x))
    BY <1>1, <1>4
  <2>2. \A s \in first : Held(s) \subseteq 1 .. n
    BY <1>4, <1>9
  <2> QED
    BY <2>1, <2>2
<1>13. LoadedHeap(first, k, n)
  BY <1>10, <1>11, <1>12 DEF LoadedHeap, Sharing
<1> QED
  BY <1>8, <1>13 DEF first

LEMMA Greatest ==
  ASSUME NEW m \in Nat, NEW S \in SUBSET (0 .. m), S # {}
  PROVE  \E x \in S : \A y \in S : x >= y
<1> DEFINE T == {m - x : x \in S}
<1>1. T \in SUBSET Nat /\ T # {}
  OBVIOUS
<1> HIDE DEF T
<1>2. PICK a \in T : \A b \in T : a <= b
  BY <1>1, Least
<1>3. PICK x \in S : a = m - x
  BY DEF T
<1>4. \A y \in S : m - y \in T
  BY DEF T
<1>5. \A y \in S : x >= y
  <2> SUFFICES ASSUME NEW y \in S PROVE x >= y
    OBVIOUS
  <2>1. m - x <= m - y
    BY <1>2, <1>3, <1>4
  <2> QED
    BY <2>1
<1> QED
  BY <1>5

LEMMA MaxPicked ==
  ASSUME NEW m \in Nat, NEW S \in SUBSET (1 .. m), S # {}
  PROVE  Max(S) \in S
<1>1. S \in SUBSET (0 .. m)
  OBVIOUS
<1>2. \E x \in S : \A y \in S : x >= y
  BY <1>1, Greatest
<1> QED
  BY <1>2 DEF Max

-----------------------------------------------------------------------------
(* All merges. *)

\* The heaps from the first one to the one after n merges.
Chain(g, first, n) ==
  g = [i \in 0 .. n |-> g[i]] /\ g[0] = first /\ \A i \in 1 .. n : g[i] = MergedTop(g[i - 1])

LEMMA ChainExists ==
  ASSUME NEW first, NEW m \in Nat
  PROVE  \E g : Chain(g, first, m)
<1> DEFINE I == {n \in Nat : \E g : Chain(g, first, n)}
<1>1. 0 \in I
  <2> DEFINE g == [i \in 0 .. 0 |-> first]
  <2>1. g[0] = first /\ g = [i \in 0 .. 0 |-> g[i]]
    OBVIOUS
  <2> HIDE DEF g
  <2>2. Chain(g, first, 0)
    BY <2>1 DEF Chain
  <2> QED
    BY <2>2
<1>2. ASSUME NEW n \in Nat, n \in I PROVE n + 1 \in I
  <2>1. PICK g : Chain(g, first, n)
    BY <1>2
  <2> DEFINE f == [i \in 0 .. n + 1 |-> IF i = n + 1 THEN MergedTop(g[n]) ELSE g[i]]
  <2>2. f = [i \in 0 .. n + 1 |-> f[i]]
    OBVIOUS
  <2>3. f[n + 1] = MergedTop(g[n]) /\ \A i \in 0 .. n : f[i] = g[i]
    OBVIOUS
  <2> HIDE DEF f
  <2>4. f[0] = first
    <3>1. 0 \in 0 .. n
      OBVIOUS
    <3> QED
      BY <2>1, <2>3, <3>1 DEF Chain
  <2>5. ASSUME NEW i \in 1 .. n + 1 PROVE f[i] = MergedTop(f[i - 1])
    <3>1. CASE i = n + 1
      <4>1. i - 1 = n /\ n \in 0 .. n
        BY <3>1
      <4>2. f[n] = g[n]
        BY <2>3, <4>1
      <4> QED
        BY <2>3, <3>1, <4>1, <4>2
    <3>2. CASE i # n + 1
      <4>1. i \in 1 .. n /\ i \in 0 .. n /\ i - 1 \in 0 .. n
        BY <3>2
      <4>2. f[i] = g[i] /\ f[i - 1] = g[i - 1]
        BY <2>3, <4>1
      <4> QED
        BY <2>1, <4>1, <4>2 DEF Chain
    <3> QED
      BY <3>1, <3>2
  <2>6. Chain(f, first, n + 1)
    BY <2>2, <2>4, <2>5 DEF Chain
  <2> QED
    BY <2>6
<1>3. m \in I
  <2> HIDE DEF I
  <2> QED
    BY <1>1, <1>2, Inductive
<1> QED
  BY <1>3

AllMerged(first, m) == FoldLeft(LAMBDA states, i : MergedTop(states), first, [i \in 1 .. m |-> i])

\* Merging the two top states as often as there are states but one leaves one
\* state, with every item in it.
LEMMA FoldMerges ==
  ASSUME NEW k \in Nat \ {0}, NEW n \in Nat, NEW first, IsFiniteSet(first), LoadedHeap(first, k, n),
         NEW m \in Nat, Cardinality(first) = m + 1
  PROVE  LoadedHeap(AllMerged(first, m), k, n) /\ Cardinality(AllMerged(first, m)) = 1
<1> DEFINE X == 1 .. m
           D == SUBSET X
           Rule(f) == f = [s \in D |-> IF s = {} THEN first ELSE MergedTop(f[s \ {Max(s)}])]
           h == CHOOSE f : Rule(f)
<1>1. AllMerged(first, m) = h[X]
  BY DEF AllMerged, FoldLeft, MapThenFoldSet
<1>2. IsFiniteSet(X) /\ Cardinality(X) = m
  BY FS_Interval
<1>3. \A s \in D : s # {} => Max(s) \in s
  BY MaxPicked
<1> HIDE DEF X
<1>4. /\ \A s \in D : Cardinality(s) \in 0 .. m
      /\ \A s \in D : Cardinality(s) = 0 <=> s = {}
      /\ \A s \in D : s # {} => /\ Cardinality(s) \in 1 .. m /\ s \ {Max(s)} \in D
                                /\ Cardinality(s \ {Max(s)}) = Cardinality(s) - 1
  <2>1. \A s \in D : Cardinality(s) \in Nat /\ Cardinality(s) <= m
    BY <1>2, FS_Subset, Smaller
  <2>2. \A s \in D : Cardinality(s) = 0 <=> s = {}
    BY <1>2, Smaller
  <2>3. \A s \in D : s # {} => s \ {Max(s)} \in D /\ Cardinality(s \ {Max(s)}) = Cardinality(s) - 1
    BY <1>2, <1>3, Smaller
  <2> QED
    BY <2>1, <2>2, <2>3
<1>5. PICK g : Chain(g, first, m)
  BY ChainExists
<1>6. \E f : Rule(f)
  <2> DEFINE f == [s \in D |-> g[Cardinality(s)]]
             e == [s \in D |-> IF s = {} THEN first ELSE MergedTop(f[s \ {Max(s)}])]
  <2>1. ASSUME NEW s \in D PROVE f[s] = e[s]
    <3>1. CASE s = {}
      <4>1. Cardinality(s) = 0
        BY <1>4, <3>1
      <4> QED
        BY <1>5, <3>1, <4>1 DEF Chain
    <3>2. CASE s # {}
      <4>1. /\ Cardinality(s) \in 1 .. m /\ s \ {Max(s)} \in D
            /\ Cardinality(s \ {Max(s)}) = Cardinality(s) - 1
        BY <1>4, <3>2
      <4>2. g[Cardinality(s)] = MergedTop(g[Cardinality(s) - 1])
        BY <1>5, <4>1 DEF Chain
      <4>3. f[s \ {Max(s)}] = g[Cardinality(s) - 1]
        BY <4>1
      <4>4. f[s] = g[Cardinality(s)] /\ e[s] = MergedTop(f[s \ {Max(s)}])
        BY <3>2
      <4> QED
        BY <4>2, <4>3, <4>4
    <3> QED
      BY <3>1, <3>2
  <2>2. f = [s \in D |-> f[s]] /\ e = [s \in D |-> e[s]]
    OBVIOUS
  <2>3. f = e
    <3> HIDE DEF f, e, D
    <3> QED
      BY <2>1, <2>2
  <2>4. Rule(f)
    <3>1. e = [s \in D |-> IF s = {} THEN first ELSE MergedTop(f[s \ {Max(s)}])]
      OBVIOUS
    <3> HIDE DEF f, e
    <3> QED
      BY <2>3, <3>1
  <2> HIDE DEF f, Rule
  <2> QED
    BY <2>4
<1>7. Rule(h)
  <2> HIDE DEF Rule
  <2> QED
    BY <1>6
<1> HIDE DEF h
<1>8. /\ \A s \in D : s = {} => h[s] = first
      /\ \A s \in D : s # {} => h[s] = MergedTop(h[s \ {Max(s)}])
  BY <1>7
<1> HIDE DEF Rule, D
<1> DEFINE Good(s) == IsFiniteSet(h[s]) /\ LoadedHeap(h[s], k, n) /\ Cardinality(h[s]) = m + 1 - Cardinality(s)
           I == {c \in Nat : \A s \in D : Cardinality(s) = c => Good(s)}
<1>9. 0 \in I
  <2> SUFFICES ASSUME NEW s \in D, Cardinality(s) = 0 PROVE Good(s)
    OBVIOUS
  <2>1. h[s] = first
    BY <1>4, <1>8
  <2> QED
    BY <2>1
<1>10. ASSUME NEW c \in Nat, c \in I PROVE c + 1 \in I
  <2> SUFFICES ASSUME NEW s \in D, Cardinality(s) = c + 1 PROVE Good(s)
    OBVIOUS
  <2> DEFINE less == s \ {Max(s)}
  <2>1. s # {} /\ less \in D /\ Cardinality(less) = c /\ c + 1 <= m
    <3>1. s # {}
      BY <1>4
    <3>2. Cardinality(s) \in 1 .. m /\ less \in D /\ Cardinality(less) = Cardinality(s) - 1
      BY <1>4, <3>1
    <3> QED
      BY <3>1, <3>2
  <2>2. h[s] = MergedTop(h[less])
    BY <1>8, <2>1
  <2> HIDE DEF less
  <2>3. IsFiniteSet(h[less]) /\ LoadedHeap(h[less], k, n) /\ Cardinality(h[less]) = m + 1 - c
    BY <1>10, <2>1
  <2>4. Cardinality(h[less]) >= 2
    BY <2>1, <2>3
  <2>5. /\ IsFiniteSet(MergedTop(h[less])) /\ LoadedHeap(MergedTop(h[less]), k, n)
        /\ Cardinality(MergedTop(h[less])) = Cardinality(h[less]) - 1
    BY <2>3, <2>4, TopMerge
  <2>6. (m + 1 - c) - 1 = m + 1 - (c + 1)
    OBVIOUS
  <2> QED
    BY <2>2, <2>3, <2>5, <2>6
<1>11. m \in I
  <2> HIDE DEF I
  <2> QED
    BY <1>9, <1>10, Inductive
<1>12. Good(X)
  <2>1. X \in D
    BY DEF D
  <2> HIDE DEF Good
  <2> QED
    BY <1>2, <1>11, <2>1
<1>13. m + 1 - m = 1
  OBVIOUS
<1> QED
  BY <1>1, <1>2, <1>12, <1>13

\* With no more bins than items none is empty.
LEMMA NoBinEmpty ==
  ASSUME NEW k \in Nat \ {0}, NEW n \in Nat, k <= n, NEW s, Sharing({s}, k, n), Loaded(s, k),
         NEW i \in 1 .. k
  PROVE  ItemsOf(s[i]) # {}
<1> SUFFICES ASSUME ItemsOf(s[i]) = {} PROVE FALSE
  OBVIOUS
<1>1. Packing(s, k) /\ Held(s) = 1 .. n
  BY DEF Sharing
<1>2. s \in [1 .. k -> Bin] /\ DOMAIN s = 1 .. k
  BY <1>1 DEF Packing
<1>3. \A j \in 1 .. k : s[j].items \in Seq(Nat)
  BY <1>2 DEF Bin
<1>4. s[i].items = <<>>
  <2> DEFINE f == s[i].items
  <2>1. f \in Seq(Nat) /\ {f[j] : j \in DOMAIN f} = {}
    BY <1>3 DEF ItemsOf
  <2> HIDE DEF f
  <2>2. DOMAIN f = {}
    BY <2>1
  <2>3. f = <<>>
    BY <2>1, <2>2
  <2> QED
    BY <2>3 DEF f
<1>5. \A j \in 1 .. k : Len(s[j].items) <= 1
  BY <1>4 DEF Loaded
<1>6. \A j \in 1 .. k : \A x, y \in ItemsOf(s[j]) : x = y
  <2> SUFFICES ASSUME NEW j \in 1 .. k, NEW x \in ItemsOf(s[j]), NEW y \in ItemsOf(s[j]) PROVE x = y
    OBVIOUS
  <2> DEFINE f == s[j].items
  <2>1. f \in Seq(Nat) /\ Len(f) <= 1
    BY <1>3, <1>5
  <2>2. PICK a \in DOMAIN f, b \in DOMAIN f : x = f[a] /\ y = f[b]
    BY DEF ItemsOf
  <2> HIDE DEF f
  <2>3. a = 1 /\ b = 1
    BY <2>1, <2>2
  <2> QED
    BY <2>2, <2>3
<1>7. \A x \in 1 .. n : \E j \in 1 .. k : x \in ItemsOf(s[j])
  BY <1>1, <1>2 DEF Held
<1> DEFINE bin(x) == CHOOSE j \in 1 .. k : x \in ItemsOf(s[j])
           T == (1 .. k) \ {i}
           S == 1 .. n
           f == [x \in S |-> bin(x)]
<1>8. \A x \in S : bin(x) \in T /\ x \in ItemsOf(s[bin(x)])
  <2> SUFFICES ASSUME NEW x \in S PROVE bin(x) \in T /\ x \in ItemsOf(s[bin(x)])
    OBVIOUS
  <2>1. bin(x) \in 1 .. k /\ x \in ItemsOf(s[bin(x)])
    BY <1>7
  <2> HIDE DEF bin
  <2> QED
    BY <2>1
<1> HIDE DEF bin
<1>9. IsFiniteSet(S) /\ Cardinality(S) = n
  BY FS_Interval
<1>10. IsFiniteSet(T) /\ Cardinality(T) = k - 1
  <2> DEFINE U == 1 .. k
  <2>1. IsFiniteSet(U) /\ Cardinality(U) = k /\ i \in U /\ T = U \ {i}
    BY FS_Interval
  <2> HIDE DEF U, T
  <2> QED
    BY <2>1, FS_RemoveElement
<1>11. f \in [S -> T] /\ \A x \in S : x \in ItemsOf(s[f[x]])
  BY <1>8
<1> HIDE DEF f, S
<1>12. \A j \in T : j \in 1 .. k
  OBVIOUS
<1> HIDE DEF T
<1>13. Cardinality(T) < Cardinality(S)
  BY <1>9, <1>10
<1>14. PICK x \in S, y \in S : x # y /\ f[x] = f[y]
  BY <1>9, <1>10, <1>11, <1>13, FS_PigeonHole
<1> QED
  BY <1>6, <1>11, <1>12, <1>14

-----------------------------------------------------------------------------
(* The weight of a part. *)

\* FoldLeft adds the weights up from the last element.
LEMMA TotalSums ==
  ASSUME NEW n \in Nat, NEW part, DOMAIN part = 1 .. n, NEW w, \A i \in 1 .. n : w[part[i]] \in Int
  PROVE  \E h, pick, F : /\ F = [i \in 1 .. n |-> w[part[i]]]
                         /\ Picks(pick, 1 .. n) /\ SumRule(h, F, pick, 1 .. n)
                         /\ TotalOf(part, w) = h[1 .. n]
<1> DEFINE X == 1 .. n
           D == SUBSET X
           F == [i \in X |-> w[part[i]]]
           pick == [s \in D |-> Max(s)]
           Rule(f) == f = [s \in D |-> IF s = {} THEN 0 ELSE f[s \ {Max(s)}] + w[part[Max(s)]]]
           h == CHOOSE f : Rule(f)
<1>1. TotalOf(part, w) = h[X]
  BY DEF TotalOf, FoldLeft, MapThenFoldSet
<1>2. IsFiniteSet(X) /\ F \in [X -> Int]
  BY FS_Interval
<1>3. \A s \in D : s # {} => Max(s) \in s
  BY MaxPicked
<1> HIDE DEF X
<1>4. Picks(pick, X)
  BY <1>3 DEF Picks
<1>5. \A s \in D : s # {} => pick[s] = Max(s) /\ Max(s) \in X /\ F[pick[s]] = w[part[Max(s)]] /\ s \ {Max(s)} \in D
  BY <1>3
<1> HIDE DEF pick, F
<1>6. PICK e : Sums(e, F, pick, X)
  BY <1>2, <1>4, SumExists
<1>a. e \in [D -> Int] /\ \A s \in D : IF s = {} THEN e[s] = 0 ELSE e[s] = F[pick[s]] + e[s \ {pick[s]}]
  BY <1>6 DEF Sums
<1>7. Rule(e)
  <2> DEFINE d == [s \in D |-> IF s = {} THEN 0 ELSE e[s \ {Max(s)}] + w[part[Max(s)]]]
  <2>1. ASSUME NEW s \in D PROVE e[s] = d[s]
    <3>1. CASE s = {}
      BY <1>a, <3>1
    <3>2. CASE s # {}
      <4>1. F[pick[s]] \in Int /\ e[s \ {Max(s)}] \in Int
        BY <1>2, <1>5, <1>a, <3>2
      <4>2. e[s] = F[pick[s]] + e[s \ {Max(s)}]
        BY <1>5, <1>a, <3>2
      <4>3. d[s] = e[s \ {Max(s)}] + F[pick[s]]
        BY <1>5, <3>2
      <4> HIDE DEF d
      <4> QED
        BY <4>1, <4>2, <4>3
    <3> QED
      BY <3>1, <3>2
  <2>2. e = [s \in D |-> e[s]] /\ d = [s \in D |-> d[s]]
    BY <1>a
  <2>3. e = d
    <3> HIDE DEF d, D
    <3> QED
      BY <2>1, <2>2
  <2> QED
    BY <2>3
<1>8. Rule(h)
  <2> HIDE DEF Rule
  <2> QED
    BY <1>7
<1> HIDE DEF h
<1>9. SumRule(h, F, pick, X)
  BY <1>5, <1>8 DEF SumRule
<1> QED
  BY <1>1, <1>4, <1>9 DEF F, X

LEMMA TotalFacts ==
  ASSUME NEW n \in Nat, NEW part, DOMAIN part = 1 .. n, NEW w, \A i \in 1 .. n : w[part[i]] \in Int
  PROVE  /\ TotalOf(part, w) \in Int
         /\ (\A i \in 1 .. n : w[part[i]] > 0) => TotalOf(part, w) >= 0 /\ (n > 0 => TotalOf(part, w) > 0)
<1> DEFINE X == 1 .. n
<1>1. PICK h, pick, F : /\ F = [i \in 1 .. n |-> w[part[i]]]
                        /\ Picks(pick, 1 .. n) /\ SumRule(h, F, pick, 1 .. n)
                        /\ TotalOf(part, w) = h[1 .. n]
  BY TotalSums
<1>2. F \in [X -> Int] /\ \A i \in X : F[i] = w[part[i]]
  BY <1>1
<1>b. Picks(pick, X) /\ SumRule(h, F, pick, X) /\ TotalOf(part, w) = h[X]
  BY <1>1
<1>c. IsFiniteSet(X)
  BY FS_Interval
<1>d. n > 0 => 1 \in X
  OBVIOUS
<1> HIDE DEF X
<1>3. /\ \A s \in SUBSET X : h[s] \in Int
      /\ (\A x \in X : F[x] > 0) => \A s \in SUBSET X : h[s] >= 0 /\ (s # {} => h[s] > 0)
  BY <1>2, <1>b, <1>c, SumFacts
<1>4. X \in SUBSET X
  OBVIOUS
<1>5. h[X] \in Int /\ ((\A x \in X : F[x] > 0) => h[X] >= 0 /\ (X # {} => h[X] > 0))
  BY <1>3, <1>4
<1>6. (\A i \in 1 .. n : w[part[i]] > 0) => \A x \in X : F[x] > 0
  BY <1>2 DEF X
<1> QED
  BY <1>b, <1>d, <1>5, <1>6

LEMMA FirstOf ==
  ASSUME NEW T, NEW p \in Seq(T), Len(p) # 0
  PROVE  SubSeq(p, 1, 1) = <<p[1]>>
<1> DEFINE q == SubSeq(p, 1, 1)
<1>1. Len(p) \in Nat /\ p \in [1 .. Len(p) -> T]
  BY LenProperties
<1>2. 1 \in 1 .. Len(p)
  BY <1>1
<1>3. \A i \in 1 .. 1 : p[i] \in T
  BY <1>1, <1>2
<1>4. q \in Seq(T) /\ Len(q) = 1 /\ q[1] = p[1]
  BY <1>1, <1>3, SubSeqProperties
<1> HIDE DEF q
<1>5. q = <<q[1]>>
  BY <1>4
<1> QED
  BY <1>4, <1>5 DEF q

-----------------------------------------------------------------------------
(* The micro-batches. *)

LEMMA PartitionsFacts ==
  ASSUME NEW n \in Nat \ {0}, NEW w \in [1 .. n -> Nat \ {0}], NEW k \in 1 .. n
  PROVE  \E s : /\ Partitions(w, k, FALSE) = PartsOf(s)
                /\ Sharing({s}, k, n) /\ \A i \in 1 .. k : ItemsOf(s[i]) # {}
<1> DEFINE first == FirstStates(w, k, FALSE)
           last == AllMerged(first, Cardinality(first) - 1)
           s == CHOOSE s \in last : TRUE
<1>1. k \in Nat \ {0} /\ n \in Nat
  OBVIOUS
<1>2. IsFiniteSet(first) /\ Cardinality(first) = n /\ LoadedHeap(first, k, n)
  BY <1>1, SingleStates
<1>3. Partitions(w, k, FALSE) = PartsOf(s)
  BY DEF Partitions, AllMerged
<1> HIDE DEF first
<1> DEFINE m == Cardinality(first) - 1
<1>4. m \in Nat /\ Cardinality(first) = m + 1
  BY <1>2
<1> HIDE DEF m
<1>5. LoadedHeap(AllMerged(first, m), k, n) /\ Cardinality(AllMerged(first, m)) = 1
  BY <1>1, <1>2, <1>4, FoldMerges
<1>6. LoadedHeap(last, k, n) /\ Cardinality(last) = 1
  BY <1>5 DEF m
<1> HIDE DEF last
<1>7. UNION {Held(t) : t \in last} = 1 .. n /\ 1 \in 1 .. n
  BY <1>6 DEF LoadedHeap, Sharing
<1>8. last = {s}
  BY <1>6, SharingOne DEF LoadedHeap
<1> HIDE DEF s
<1>9. s \in last
  BY <1>8
<1>10. Sharing({s}, k, n) /\ Loaded(s, k)
  BY <1>6, <1>8, <1>9 DEF LoadedHeap
<1>11. \A i \in 1 .. k : ItemsOf(s[i]) # {}
  <2>1. k <= n
    OBVIOUS
  <2> QED
    BY <1>1, <1>10, <2>1, NoBinEmpty
<1> QED
  BY <1>3, <1>10, <1>11

\* The micro-batches hold every row once, and none is empty.
LEMMA MicroBatchesFacts ==
  ASSUME NEW n \in Nat \ {0}, NEW lens \in [1 .. n -> Nat \ {0}], NEW k \in 1 .. n
  PROVE  /\ MicroBatches(lens, k) \in [1 .. k -> Seq(1 .. n)]
         /\ \A i \in 1 .. k : MicroBatches(lens, k)[i] # <<>>
         /\ Lists(FlattenSeq(MicroBatches(lens, k)), 1 .. n)
<1> DEFINE f == [i \in DOMAIN lens |-> calculate_workload(lens[i])]
           w == Listed(f)
           parts == Partitions(w, k, FALSE)
           S == DOMAIN parts
           b == [i \in S |-> [sum |-> TotalOf(parts[i], w), items |-> SubSeq(parts[i], 1, 1)]]
           bins == Listed(b)
           Before(i, j) == Heavier(bins[i], bins[j])
           R == {p \in S \X S : Before(p[1], p[2])}
           o == [i \in 1 .. Cardinality(S) |-> CHOOSE x \in S : Cardinality({y \in S : Before(y, x)}) = i - 1]
           d == [i \in S |-> parts[Listed(o)[i]]]
           all == MicroBatches(lens, k)
<1>0. all = Reverse(Evens(Listed(d))) \o Odds(Listed(d))
  BY DEF MicroBatches, SortedBy
<1>1. k \in Nat \ {0} /\ n \in Nat
  OBVIOUS
<1>2. f \in [1 .. n -> Nat \ {0}]
  <2> SUFFICES ASSUME NEW i \in 1 .. n PROVE calculate_workload(lens[i]) \in Nat \ {0}
    OBVIOUS
  <2> DEFINE x == lens[i]
  <2>1. x \in Nat /\ x > 0
    OBVIOUS
  <2> HIDE DEF x
  <2>2. x * x \in Nat
    BY <2>1, Products
  <2>3. calculate_workload(x) \in Nat \ {0}
    BY <2>1, <2>2 DEF calculate_workload
  <2> QED
    BY <2>3 DEF x
<1> HIDE DEF f
<1>3. w \in [1 .. n -> Nat \ {0}]
  BY <1>1, <1>2, ListedFcn
<1> HIDE DEF w
<1>5. PICK s : /\ parts = PartsOf(s)
               /\ Sharing({s}, k, n) /\ \A i \in 1 .. k : ItemsOf(s[i]) # {}
  BY <1>3, PartitionsFacts
<1> HIDE DEF parts
<1>6. /\ parts \in [1 .. k -> Seq(1 .. n)]
      /\ \A i \in 1 .. k : Lists(parts[i], ItemsOf(s[i])) /\ ItemsOf(s[i]) \subseteq 1 .. n
      /\ \A i, j \in 1 .. k : i # j => ItemsOf(s[i]) \cap ItemsOf(s[j]) = {}
      /\ \A x : x \in 1 .. n <=> \E i \in 1 .. k : x \in ItemsOf(s[i])
  <2>1. Parted(PartsOf(s), s, k, n)
    BY <1>1, <1>5, LastParts
  <2>2. Parted(parts, s, k, n)
    BY <1>5, <2>1
  <2> QED
    BY <2>2 DEF Parted
<1>7. S = 1 .. k
  BY <1>6
<1>8. ASSUME NEW i \in S
      PROVE  /\ parts[i] # <<>> /\ parts[i][1] \in ItemsOf(s[i]) /\ parts[i][1] \in Nat
             /\ TotalOf(parts[i], w) \in Int
             /\ SubSeq(parts[i], 1, 1) = <<parts[i][1]>>
  <2> DEFINE p == parts[i]
             len == Len(p)
  <2>1. p \in Seq(1 .. n) /\ Lists(p, ItemsOf(s[i])) /\ ItemsOf(s[i]) # {}
    BY <1>5, <1>6, <1>7
  <2> HIDE DEF p
  <2>2. len \in Nat /\ p \in [1 .. len -> ItemsOf(s[i])] /\ DOMAIN p = 1 .. len
    BY <2>1, ListsLength
  <2>3. len # 0
    <3>1. PICK x \in ItemsOf(s[i]) : TRUE
      BY <2>1
    <3>2. PICK c \in 1 .. Len(p) : p[c] = x
      BY <2>1, <3>1 DEF Lists
    <3> QED
      BY <2>2, <3>2
  <2>4. 1 \in 1 .. len
    BY <2>2, <2>3
  <2>5. p # <<>> /\ p[1] \in ItemsOf(s[i])
    BY <2>2, <2>3, <2>4
  <2>6. p[1] \in 1 .. n
    BY <2>1, <2>4
  <2>7. \A c \in 1 .. len : w[p[c]] \in Int
    <3> SUFFICES ASSUME NEW c \in 1 .. len PROVE w[p[c]] \in Int
      OBVIOUS
    <3>1. p[c] \in 1 .. n
      BY <2>1
    <3> QED
      BY <1>3, <3>1
  <2> HIDE DEF len
  <2>8. TotalOf(p, w) \in Int
    BY <2>2, <2>7, TotalFacts
  <2>9. SubSeq(p, 1, 1) = <<p[1]>>
    <3>1. p \in Seq(1 .. n) /\ Len(p) # 0
      BY <2>1, <2>3 DEF len
    <3> QED
      BY <3>1, FirstOf
  <2> QED
    BY <2>5, <2>6, <2>8, <2>9 DEF p
<1>9. b \in [1 .. k -> Bin]
  <2>1. ASSUME NEW i \in S PROVE b[i] \in Bin
    <3>1. TotalOf(parts[i], w) \in Int /\ SubSeq(parts[i], 1, 1) \in Seq(Nat)
      BY <1>8
    <3> QED
      BY <3>1 DEF Bin
  <2>2. b = [i \in 1 .. k |-> b[i]]
    BY <1>7
  <2> HIDE DEF b
  <2> QED
    BY <1>7, <2>1, <2>2
<1> DEFINE sum(i) == bins[i].sum
           head(i) == parts[i][1]
<1>10. ASSUME NEW i \in S
       PROVE  bins[i].items = <<head(i)>> /\ sum(i) \in Int /\ head(i) \in Nat
  <2>1. bins = b
    <3> HIDE DEF b
    <3> QED
      BY <1>1, <1>9, ListedFcn
  <2>2. b[i] = [sum |-> TotalOf(parts[i], w), items |-> SubSeq(parts[i], 1, 1)]
    OBVIOUS
  <2> HIDE DEF b, bins
  <2>3. bins[i].items = SubSeq(parts[i], 1, 1) /\ bins[i].sum = TotalOf(parts[i], w)
    BY <2>1, <2>2
  <2> QED
    BY <1>8, <2>3
<1>a. \A i \in S : sum(i) \in Int /\ head(i) \in Nat
  BY <1>10
<1>11. \A i, j \in S : i # j => head(i) # head(j)
  <2> SUFFICES ASSUME NEW i \in S, NEW j \in S, i # j PROVE head(i) # head(j)
    OBVIOUS
  <2>1. head(i) \in ItemsOf(s[i]) /\ head(j) \in ItemsOf(s[j])
    BY <1>8
  <2>2. ItemsOf(s[i]) \cap ItemsOf(s[j]) = {}
    BY <1>6, <1>7
  <2> HIDE DEF head
  <2> QED
    BY <2>1, <2>2
<1>12. \A i, j \in S : Before(i, j) <=> sum(i) > sum(j) \/ (sum(i) = sum(j) /\ head(i) > head(j))
  <2> SUFFICES ASSUME NEW i \in S, NEW j \in S
               PROVE  Before(i, j) <=> sum(i) > sum(j) \/ (sum(i) = sum(j) /\ head(i) > head(j))
    OBVIOUS
  <2>1. bins[i].items = <<head(i)>> /\ bins[j].items = <<head(j)>>
    BY <1>10
  <2> HIDE DEF head, bins, b, S
  <2>2. \A x, y : Len(<<x>>) = Len(<<y>>) /\ ~(Len(<<x>>) > Len(<<y>>)) /\ <<x>> # <<>> /\ Head(<<x>>) = x
    OBVIOUS
  <2> QED
    BY <2>1, <2>2 DEF Heavier
<1>13. \A i, j \in S : <<i, j>> \in R <=> Before(i, j)
  <2> HIDE DEF Before
  <2> QED
    OBVIOUS
<1>14. \A x \in S : Below(R, S, x) = {y \in S : Before(y, x)}
  <2> HIDE DEF R, Before
  <2> QED
    BY <1>13 DEF Below
<1> HIDE DEF R
<1>15. StrictOrder(R, S)
  <2> HIDE DEF sum, head, Before, S
  <2>1. \A x \in S : ~Before(x, x)
    BY <1>a, <1>12
  <2>2. \A x, y \in S : x # y => Before(x, y) \/ Before(y, x)
    BY <1>a, <1>11, <1>12
  <2>3. \A x, y, z \in S : Before(x, y) /\ Before(y, z) => Before(x, z)
    BY <1>a, <1>12
  <2> QED
    BY <1>13, <2>1, <2>2, <2>3 DEF StrictOrder
<1>16. IsFiniteSet(S) /\ Cardinality(S) = k
  <2> HIDE DEF S
  <2> QED
    BY <1>1, <1>7, FS_Interval
<1>17. \A i \in 1 .. k : o[i] \in S /\ Cardinality(Below(R, S, o[i])) = i - 1
  <2> SUFFICES ASSUME NEW i \in 1 .. k PROVE o[i] \in S /\ Cardinality(Below(R, S, o[i])) = i - 1
    OBVIOUS
  <2> HIDE DEF Before, S, o
  <2>1. i \in 1 .. Cardinality(S)
    BY <1>16
  <2>a. IsFiniteSet(S) /\ StrictOrder(R, S)
    BY <1>15, <1>16
  <2>2. \E x \in S : Cardinality(Below(R, S, x)) = i - 1
    BY <2>1, <2>a, Ranking
  <2>3. \E x \in S : Cardinality({y \in S : Before(y, x)}) = i - 1
    BY <1>14, <2>2
  <2>4. o[i] = CHOOSE x \in S : Cardinality({y \in S : Before(y, x)}) = i - 1
    BY <2>1 DEF o
  <2>5. o[i] \in S /\ Cardinality({y \in S : Before(y, o[i])}) = i - 1
    BY <2>3, <2>4
  <2> QED
    BY <1>14, <2>5
<1>18. o \in [1 .. k -> 1 .. k]
  <2> HIDE DEF S
  <2> QED
    BY <1>7, <1>16, <1>17 DEF o
<1> HIDE DEF o, S
<1>19. \A i, j \in 1 .. k : i # j => o[i] # o[j]
  <2> SUFFICES ASSUME NEW i \in 1 .. k, NEW j \in 1 .. k, o[i] = o[j] PROVE i = j
    OBVIOUS
  <2>1. i - 1 = j - 1
    BY <1>17
  <2> QED
    BY <2>1
<1>20. Listed(o) = o /\ Permutation(o, k)
  BY <1>1, <1>18, <1>19, ListedFcn DEF Permutation
<1>21. d = At(parts, o, k)
  BY <1>7, <1>20 DEF At
<1> HIDE DEF d
<1>22. d \in [1 .. k -> Seq(1 .. n)]
  BY <1>6, <1>18, <1>21 DEF At
<1>23. Listed(d) = d
  BY <1>1, <1>22, ListedFcn
<1>24. PICK q : Permutation(q, k) /\ Reverse(Evens(d)) \o Odds(d) = At(d, q, k)
  <2>1. \A T, r : r \in [1 .. k -> T] => \E q : Permutation(q, k) /\ Reverse(Evens(r)) \o Odds(r) = At(r, q, k)
    BY <1>1, Fanned
  <2> QED
    BY <1>22, <2>1
<1>25. all = At(d, q, k)
  BY <1>0, <1>23, <1>24
<1> HIDE DEF all
<1> DEFINE c == [i \in 1 .. k |-> o[q[i]]]
<1>26. \A i \in 1 .. k : q[i] \in 1 .. k /\ c[i] \in 1 .. k
  BY <1>18, <1>24 DEF Permutation
<1>27. \A i \in 1 .. k : all[i] = parts[c[i]]
  BY <1>21, <1>25, <1>26 DEF At
<1>28. all = [i \in 1 .. k |-> all[i]] /\ DOMAIN all = 1 .. k
  BY <1>25 DEF At
<1>29. \A i, j \in 1 .. k : i # j => c[i] # c[j]
  BY <1>19, <1>24, <1>26 DEF Permutation
<1>30. \A x \in 1 .. k : \E i \in 1 .. k : c[i] = x
  <2>1. Permutation(c, k)
    BY <1>26, <1>29 DEF Permutation
  <2>2. Lists(c, 1 .. k) /\ Len(c) = k
    <3>1. Len(c) = k
      BY <1>1
    <3> HIDE DEF c
    <3> QED
      BY <1>1, <2>1, <3>1, Permuted
  <2> QED
    BY <2>2 DEF Lists
<1> HIDE DEF c
<1>31. all \in [1 .. k -> Seq(1 .. n)]
  <2> DEFINE T == Seq(1 .. n)
  <2>1. \A i \in 1 .. k : parts[i] \in T
    BY <1>6
  <2> HIDE DEF T
  <2>2. \A i \in 1 .. k : all[i] \in T
    BY <1>26, <1>27, <2>1
  <2>3. all \in [1 .. k -> T]
    BY <1>28, <2>2
  <2> QED
    BY <2>3 DEF T
<1>32. \A i \in 1 .. k : all[i] # <<>>
  BY <1>7, <1>8, <1>26, <1>27
<1> DEFINE sets == [i \in 1 .. k |-> ItemsOf(s[c[i]])]
<1>33. \A i \in 1 .. k : Lists(all[i], sets[i])
  BY <1>6, <1>26, <1>27
<1>34. \A i, j \in 1 .. k : i # j => sets[i] \cap sets[j] = {}
  BY <1>6, <1>26, <1>29
<1>35. Together(sets, k) = 1 .. n
  <2>1. \A x : (\E i \in 1 .. k : x \in sets[i]) <=> (\E i \in 1 .. k : x \in ItemsOf(s[i]))
    BY <1>26, <1>30
  <2>2. \A x : (\E i \in 1 .. k : x \in ItemsOf(s[i])) <=> x \in 1 .. n
    BY <1>6
  <2> HIDE DEF sets
  <2> QED
    BY <2>1, <2>2 DEF Together
<1> HIDE DEF sets
<1>36. Lists(FlattenSeq(all), Together(sets, k))
  BY <1>1, <1>28, <1>33, <1>34, FlattenLists
<1> QED
  BY <1>31, <1>32, <1>35, <1>36 DEF all

-----------------------------------------------------------------------------
(* The micro-batches of all ranks. *)

LEMMA WantedFacts ==
  ASSUME NEW n \in Nat \ {0}, NEW lens \in [1 .. n -> Nat \ {0}]
  PROVE  WantedMicroBatches(lens, max_token_len) \in 1 .. n
<1> DEFINE f == [i \in DOMAIN lens |-> i]
           total == TotalOf(f, lens)
           needed == CeilDiv(total, max_token_len)
<1>1. max_token_len \in Nat \ {0}
  BY BatchAssumption
<1>2. n \in Nat /\ DOMAIN f = 1 .. n /\ Len(lens) = n /\ \A i \in 1 .. n : f[i] = i
  OBVIOUS
<1>3. WantedMicroBatches(lens, max_token_len) = IF needed < n THEN needed ELSE n
  BY <1>2 DEF WantedMicroBatches
<1> HIDE DEF f
<1>4. \A i \in 1 .. n : lens[f[i]] \in Int /\ lens[f[i]] > 0
  BY <1>2
<1>5. total \in Int /\ total > 0
  <2>1. \A i \in 1 .. n : lens[f[i]] \in Int
    BY <1>4
  <2>2. n \in Nat /\ n > 0 /\ DOMAIN f = 1 .. n
    BY <1>2
  <2>3. /\ total \in Int
        /\ (\A i \in 1 .. n : lens[f[i]] > 0) => total >= 0 /\ (n > 0 => total > 0)
    BY <2>1, <2>2, TotalFacts
  <2> HIDE DEF total
  <2> QED
    BY <1>4, <2>2, <2>3
<1> HIDE DEF total
<1>6. needed \in Nat /\ needed > 0
  <2> DEFINE a == total + max_token_len - 1
             q == a \div max_token_len
  <2>1. a \in Nat /\ a >= max_token_len
    BY <1>1, <1>5
  <2> HIDE DEF a
  <2>2. q \in Nat /\ a < q * max_token_len + max_token_len
    BY <1>1, <2>1, DivFacts
  <2>3. q # 0
    BY <1>1, <2>1, <2>2
  <2> QED
    BY <2>2, <2>3 DEF CeilDiv, a
<1> HIDE DEF needed
<1> QED
  BY <1>2, <1>3, <1>6

\* Rows cut into k chunks: chunk c has the rows from (c - 1) * m + 1 on.
Place(c, m, i) == (c - 1) * m + i
Cuts(rows, k, m) == Len(rows) = k * m

LEMMA ChunkRows ==
  ASSUME NEW T, NEW rows, rows \in Seq(T), NEW k \in Nat \ {0}, NEW m \in Nat, Cuts(rows, k, m)
  PROVE  /\ Chunk(rows, k) \in [1 .. k -> Seq(T)]
         /\ \A c \in 1 .. k : /\ Len(Chunk(rows, k)[c]) = m
                              /\ \A i \in 1 .. m : /\ Place(c, m, i) \in 1 .. Len(rows)
                                                   /\ Chunk(rows, k)[c][i] = rows[Place(c, m, i)]
<1> DEFINE from(c) == (c - 1) * m
           to(c) == c * m
           seqs == [c \in 1 .. k |-> SubSeq(rows, from(c) + 1, to(c))]
<1>1. Len(rows) \div k = m /\ Len(rows) = k * m
  BY Products DEF Cuts
<1>2. Chunk(rows, k) = Listed(seqs)
  BY <1>1 DEF Chunk
<1>3. \A c \in 1 .. k : from(c) \in Nat /\ to(c) = from(c) + m /\ to(c) <= Len(rows)
  <2> SUFFICES ASSUME NEW c \in 1 .. k
               PROVE  from(c) \in Nat /\ to(c) = from(c) + m /\ to(c) <= Len(rows)
    OBVIOUS
  <2>0. Len(rows) = k * m
    BY <1>1
  <2>1. c \in Nat /\ c - 1 \in Nat /\ c <= k /\ (c - 1) + 1 = c
    OBVIOUS
  <2>2. from(c) \in Nat /\ ((c - 1) + 1) * m = (c - 1) * m + m
    BY <2>1, Products
  <2>3. c * m <= k * m
    BY <2>1, Products
  <2> QED
    BY <2>0, <2>1, <2>2, <2>3
<1> HIDE DEF from, to
<1>4. ASSUME NEW c \in 1 .. k
      PROVE  /\ SubSeq(rows, from(c) + 1, to(c)) \in Seq(T)
             /\ Len(SubSeq(rows, from(c) + 1, to(c))) = m
             /\ \A i \in 1 .. m : /\ from(c) + i \in 1 .. Len(rows)
                                  /\ SubSeq(rows, from(c) + 1, to(c))[i] = rows[from(c) + i]
  <2> DEFINE a == from(c)
             b == to(c)
             len == Len(rows)
  <2>1. a \in Nat /\ b = a + m /\ b <= len /\ b \in Int /\ len \in Nat
    BY <1>3
  <2> HIDE DEF a, b
  <2>2. \A i \in a + 1 .. b : rows[i] \in T
    <3>1. \A i \in a + 1 .. b : i \in 1 .. Len(rows)
      BY <2>1
    <3> QED
      BY <3>1
  <2>3. a + 1 \in Int /\ b \in Int
    BY <2>1
  <2>4. /\ SubSeq(rows, a + 1, b) \in Seq(T)
        /\ Len(SubSeq(rows, a + 1, b)) = IF a + 1 <= b THEN b - (a + 1) + 1 ELSE 0
        /\ \A i \in 1 .. b - (a + 1) + 1 : SubSeq(rows, a + 1, b)[i] = rows[(a + 1) + i - 1]
    BY <2>2, <2>3, SubSeqProperties
  <2>5. Len(SubSeq(rows, a + 1, b)) = m /\ b - (a + 1) + 1 = m
    BY <2>1, <2>4
  <2>6. \A i \in 1 .. m : a + i \in 1 .. len /\ (a + 1) + i - 1 = a + i
    BY <2>1
  <2>7. \A i \in 1 .. m : SubSeq(rows, a + 1, b)[i] = rows[a + i]
    BY <2>4, <2>5, <2>6
  <2> QED
    BY <2>4, <2>5, <2>6, <2>7 DEF a, b
<1>5. seqs \in [1 .. k -> Seq(T)]
  BY <1>4
<1>6. Listed(seqs) = seqs
  <2> HIDE DEF seqs
  <2> QED
    BY <1>5, ListedFcn
<1>7. \A c \in 1 .. k : seqs[c] = SubSeq(rows, from(c) + 1, to(c))
  OBVIOUS
<1> HIDE DEF seqs
<1>8. \A c \in 1 .. k : /\ Len(seqs[c]) = m
                        /\ \A i \in 1 .. m : from(c) + i \in 1 .. Len(rows) /\ seqs[c][i] = rows[from(c) + i]
  BY <1>4, <1>7
<1>9. \A c, i : Place(c, m, i) = from(c) + i
  BY DEF Place, from
<1> QED
  BY <1>2, <1>5, <1>6, <1>8, <1>9

LEMMA LengthsFacts ==
  ASSUME SettingKept, NEW k, NEW m \in Nat, DOMAIN mini[k] = 1 .. m,
         \A i \in 1 .. m : mini[k][i].response \in Responses
  PROVE  MiniLengths(k) \in [1 .. m -> Nat \ {0}]
<1> DEFINE f == [i \in 1 .. m |-> SeqLen(mini[k][i].response)]
<1>1. \A r \in Responses : SeqLen(r) \in Nat \ {0}
  <2> SUFFICES ASSUME NEW r \in Responses PROVE SeqLen(r) \in Nat \ {0}
    OBVIOUS
  <2>1. length \in [Responses -> 1 .. ResponseWindow]
    BY BatchAssumption DEF SettingKept
  <2>2. length[r] \in Nat /\ length[r] >= 1
    BY <2>1
  <2>3. PromptWindow \in Nat
    BY ScheduleConstants
  <2> QED
    BY <2>2, <2>3 DEF SeqLen
<1>2. f \in [1 .. m -> Nat \ {0}]
  BY <1>1
<1>3. MiniLengths(k) = Listed(f)
  BY DEF MiniLengths
<1> HIDE DEF f
<1> QED
  BY <1>2, <1>3, ListedFcn

\* Every rank has m rows of its own, all responses.
Drawn(m) ==
  \A k \in RankIds : DOMAIN mini[k] = 1 .. m /\ \A i \in 1 .. m : mini[k][i].response \in Responses

\* c micro-batches, none of them empty, with every row of m once.
Split(parts, c, m) ==
  /\ parts \in [1 .. c -> Seq(1 .. m)]
  /\ \A i \in 1 .. c : parts[i] # <<>>
  /\ Lists(FlattenSeq(parts), 1 .. m)

LEMMA RankIdsFacts == RankIds = 1 .. Ranks /\ Ranks \in Nat \ {0} /\ RankIds # {}
BY BatchAssumption DEF RankIds

\* all_reduce: all ranks make as many micro-batches, and none more than it has rows.
LEMMA AgreedFacts ==
  ASSUME SettingKept, NEW m \in Nat \ {0}, Drawn(m)
  PROVE  \E c \in 1 .. m : \A k \in RankIds : Split(MicroBatchesAgreed[k], c, m)
<1> DEFINE want(k) == WantedMicroBatches(MiniLengths(k), max_token_len)
           wanted == {want(k) : k \in RankIds}
           most == CHOOSE x \in wanted : \A n \in wanted : n <= x
           f == [k \in RankIds |-> MicroBatches(MiniLengths(k), most)]
<1>1. \A k \in RankIds : MiniLengths(k) \in [1 .. m -> Nat \ {0}]
  <2> SUFFICES ASSUME NEW k \in RankIds PROVE MiniLengths(k) \in [1 .. m -> Nat \ {0}]
    OBVIOUS
  <2>1. DOMAIN mini[k] = 1 .. m /\ \A i \in 1 .. m : mini[k][i].response \in Responses
    BY DEF Drawn
  <2> QED
    BY <2>1, LengthsFacts
<1>2. \A k \in RankIds : want(k) \in 1 .. m
  BY <1>1, WantedFacts
<1>3. MicroBatchesAgreed = Listed(f)
  BY DEF MicroBatchesAgreed
<1> HIDE DEF want
<1>4. wanted \in SUBSET (0 .. m) /\ wanted # {} /\ \A x \in wanted : x \in 1 .. m
  <2>1. \A x \in wanted : x \in 1 .. m
    BY <1>2
  <2>2. wanted # {}
    BY RankIdsFacts
  <2> HIDE DEF wanted
  <2>3. \A x \in wanted : x \in 0 .. m
    BY <2>1
  <2> QED
    BY <2>1, <2>2, <2>3
<1> HIDE DEF wanted
<1>5. \E x \in wanted : \A n \in wanted : x >= n
  BY <1>4, Greatest
<1>6. \E x \in wanted : \A n \in wanted : n <= x
  <2>1. PICK x \in wanted : \A n \in wanted : x >= n
    BY <1>5
  <2>2. \A n \in wanted : n <= x
    BY <1>4, <2>1
  <2> QED
    BY <2>2
<1>7. most \in wanted
  BY <1>6
<1> HIDE DEF most
<1>8. most \in 1 .. m
  BY <1>4, <1>7
<1>9. \A k \in RankIds : Split(MicroBatches(MiniLengths(k), most), most, m)
  <2> SUFFICES ASSUME NEW k \in RankIds PROVE Split(MicroBatches(MiniLengths(k), most), most, m)
    OBVIOUS
  <2> DEFINE all == MicroBatches(MiniLengths(k), most)
  <2>1. MiniLengths(k) \in [1 .. m -> Nat \ {0}]
    BY <1>1
  <2>2. /\ all \in [1 .. most -> Seq(1 .. m)]
        /\ \A i \in 1 .. most : all[i] # <<>>
        /\ Lists(FlattenSeq(all), 1 .. m)
    BY <1>8, <2>1, MicroBatchesFacts
  <2> HIDE DEF all
  <2>3. Split(all, most, m)
    BY <2>2 DEF Split
  <2> QED
    BY <2>3 DEF all
<1>10. f \in [1 .. Ranks -> {f[k] : k \in RankIds}]
  BY RankIdsFacts
<1>11. \A k \in RankIds : f[k] = MicroBatches(MiniLengths(k), most)
  OBVIOUS
<1> HIDE DEF f
<1>12. Listed(f) = f
  BY <1>10, RankIdsFacts, ListedFcn
<1> QED
  BY <1>3, <1>8, <1>9, <1>11, <1>12

LEMMA FixedFacts ==
  ASSUME NEW m \in Nat \ {0}, m % MicroBatchSize = 0, NEW k, DOMAIN mini[k] = 1 .. m
  PROVE  /\ Split(FixedMicroBatches(k), m \div MicroBatchSize, m)
         /\ FlattenSeq(FixedMicroBatches(k)) = [i \in 1 .. m |-> i]
<1> DEFINE rows == [i \in 1 .. m |-> i]
           c == m \div MicroBatchSize
           all == Chunk(rows, c)
<1>1. MicroBatchSize \in Nat \ {0}
  BY BatchAssumption
<1>2. c \in Nat \ {0} /\ m = c * MicroBatchSize
  BY <1>1
<1>3. rows \in [1 .. m -> 1 .. m] /\ rows \in Seq(1 .. m) /\ Len(rows) = m
  OBVIOUS
<1>4. Listed(rows) = rows
  <2> HIDE DEF rows
  <2> QED
    BY <1>3, ListedFcn
<1>5. FixedMicroBatches(k) = Chunk(Listed(rows), Len(Listed(rows)) \div MicroBatchSize)
  BY DEF FixedMicroBatches
<1>6. FixedMicroBatches(k) = all
  BY <1>3, <1>4, <1>5
<1>7. Lists(rows, 1 .. m)
  <2>1. \A x \in 1 .. m : \E i \in 1 .. m : rows[i] = x
    OBVIOUS
  <2>2. \A i, j \in 1 .. m : i # j => rows[i] # rows[j]
    OBVIOUS
  <2> HIDE DEF rows
  <2> QED
    BY <1>3, <2>1, <2>2 DEF Lists
<1> HIDE DEF rows, c
<1>8. /\ all \in [1 .. c -> Seq(1 .. m)]
      /\ \A i \in 1 .. c : Len(all[i]) = MicroBatchSize
  <2> DEFINE T == 1 .. m
             p == MicroBatchSize
  <2>1. rows \in Seq(T) /\ c \in Nat \ {0} /\ p \in Nat /\ Cuts(rows, c, p)
    BY <1>1, <1>2, <1>3 DEF Cuts
  <2> HIDE DEF T, p
  <2>2. Chunk(rows, c) \in [1 .. c -> Seq(T)] /\ \A i \in 1 .. c : Len(Chunk(rows, c)[i]) = p
    BY <2>1, ChunkRows
  <2> QED
    BY <2>2 DEF T, p
<1>9. Len(rows) % c = 0
  <2>1. c * MicroBatchSize % c = 0
    BY <1>1, <1>2
  <2> QED
    BY <1>2, <1>3, <2>1
<1>10. FlattenSeq(all) = rows
  BY <1>2, <1>3, <1>9, ChunkJoined
<1> HIDE DEF all
<1>11. \A i \in 1 .. c : all[i] # <<>>
  <2> SUFFICES ASSUME NEW i \in 1 .. c, all[i] = <<>> PROVE FALSE
    OBVIOUS
  <2>1. Len(all[i]) = 0
    OBVIOUS
  <2> QED
    BY <1>1, <1>8, <2>1
<1>12. Split(all, c, m)
  BY <1>7, <1>8, <1>10, <1>11 DEF Split
<1> QED
  BY <1>6, <1>10, <1>12 DEF rows, c

-----------------------------------------------------------------------------
(* Where the rows are at every stage. *)

Column(rows) == [i \in 1 .. Rows |-> rows[i].response]

\* A row has the prompt, the log probability and the advantage of its response.
OwnRow(row) ==
  /\ DOMAIN row = {"uid", "response", "logp", "adv"}
  /\ row.response \in Responses /\ row.uid = row.response[1]
  /\ row.logp \in {None, row.response}
  /\ row.adv # None => row.adv = GroupAdvantage(row.response)

\* A row for every response.
Whole(rows) ==
  /\ DOMAIN rows = 1 .. Rows /\ rows = [i \in 1 .. Rows |-> rows[i]]
  /\ \A i \in 1 .. Rows : OwnRow(rows[i])
  /\ Lists(Column(rows), Responses)

Outputs(k, part) == [i \in DOMAIN part |-> mini[k][part[i]].response]

\* A rank's micro-batches: those that were run, with their outputs, and the rest.
Computed(k) ==
  \E c \in Nat :
    /\ Split(index[k], c, RowsPerRank)
    /\ ~setting.dynamic => FlattenSeq(index[k]) = [i \in 1 .. RowsPerRank |-> i]
    /\ out[k] \in Seq(Seq(Responses)) /\ Len(out[k]) + Len(micro[k]) = c
    /\ \A i \in 1 .. Len(out[k]) : out[k][i] = Outputs(k, index[k][i])
    /\ \A i \in 1 .. Len(micro[k]) : micro[k][i] = index[k][Len(out[k]) + i]

\* The ranks have equally many micro-batches left, none of them empty.
Level ==
  \E c \in Nat : \A k \in RankIds : micro[k] \in Seq(Seq(Nat) \ {<<>>}) /\ Len(micro[k]) = c

RowsInv  == /\ stage = "generate" => batch = <<>>
            /\ stage # "generate" => Whole(batch)
HeapInv  == stage = "merge" => workload \in [1 .. Rows -> Int] /\ Sharing(heap, Ranks, Rows)
EarlyInv == stage \in {"generate", "balance", "merge"} =>
              index # None /\ \A k \in RankIds : out[k] = <<>>
DrawnInv == index = None => \E m \in Nat \ {0} : m % MicroBatchSize = 0 /\ Drawn(m)
LevelInv == index # None => Level
ShareInv == Training => \A k \in RankIds :
              /\ DOMAIN share[k] = 1 .. RowsPerRank
              /\ \A i \in 1 .. RowsPerRank : share[k][i].response \in Responses
ScoreInv == stage = "logprob" => \A k \in RankIds :
              /\ DOMAIN mini[k] = 1 .. RowsPerRank
              /\ \A i \in 1 .. RowsPerRank : mini[k][i] = batch[Place(k, RowsPerRank, i)]
              /\ index = None => out[k] = <<>>
              /\ index # None => Computed(k)

ColumnsInv ==
  RowsInv /\ HeapInv /\ EarlyInv /\ DrawnInv /\ LevelInv /\ ShareInv /\ ScoreInv

-----------------------------------------------------------------------------
(* The sizes. *)

LEMMA DividesTwice ==
  ASSUME NEW a \in Nat, NEW b \in Nat \ {0}, NEW c \in Nat \ {0}, a % b = 0, b % c = 0
  PROVE  a % c = 0
<1> DEFINE p == a \div b
           q == b \div c
<1>1. p \in Nat /\ a = p * b /\ q \in Nat /\ b = q * c
  OBVIOUS
<1> HIDE DEF p, q
<1>2. a = p * (q * c)
  BY <1>1
<1>3. p * (q * c) = (p * q) * c /\ p * q \in Nat
  BY <1>1
<1> DEFINE r == p * q
<1>4. a = r * c /\ r \in Nat
  BY <1>2, <1>3
<1> HIDE DEF r
<1>5. (r * c) % c = 0
  BY <1>4
<1> QED
  BY <1>4, <1>5

LEMMA Sizes ==
  /\ Rows \in Nat \ {0} /\ RowsPerRank \in Nat \ {0} /\ Rows = Ranks * RowsPerRank
  /\ RowsPerRank % MicroBatchSize = 0
  /\ MiniPerRank \in Nat \ {0} /\ MiniPerRank % MicroBatchSize = 0
<1>1. /\ Prompts \in Nat \ {0} /\ N \in Nat \ {0} /\ Ranks \in Nat \ {0} /\ MiniBatch \in Nat \ {0}
      /\ MicroBatchSize \in Nat \ {0}
      /\ Rows = Prompts * N /\ Rows % Ranks = 0 /\ (MiniBatch * N) % Ranks = 0
      /\ RowsPerRank % MiniPerRank = 0 /\ MiniPerRank % MicroBatchSize = 0
  BY BatchAssumption DEF Rows
<1> DEFINE a == MiniBatch * N
<1>2. Rows \in Nat \ {0} /\ a \in Nat \ {0}
  <2>1. \A x, y \in Nat \ {0} : x * y \in Nat \ {0}
    <3> SUFFICES ASSUME NEW x \in Nat \ {0}, NEW y \in Nat \ {0} PROVE x * y \in Nat \ {0}
      OBVIOUS
    <3>1. 0 * y < x * y /\ x * y \in Nat /\ 0 * y = 0
      BY Products
    <3> QED
      BY <3>1
  <2> QED
    BY <1>1, <2>1
<1> HIDE DEF a
<1>3. \A x, d \in Nat \ {0} : x % d = 0 => x \div d \in Nat \ {0} /\ x = d * (x \div d)
  <2> SUFFICES ASSUME NEW x \in Nat \ {0}, NEW d \in Nat \ {0}, x % d = 0
               PROVE  x \div d \in Nat \ {0} /\ x = d * (x \div d)
    OBVIOUS
  <2>1. x \div d \in Nat /\ x = d * (x \div d)
    OBVIOUS
  <2>2. x \div d # 0
    BY <2>1
  <2> QED
    BY <2>1, <2>2
<1>4. RowsPerRank \in Nat \ {0} /\ Rows = Ranks * RowsPerRank
  BY <1>1, <1>2, <1>3 DEF RowsPerRank
<1>5. MiniPerRank \in Nat \ {0}
  <2>1. a % Ranks = 0
    BY <1>1 DEF a
  <2>2. a \div Ranks \in Nat \ {0}
    BY <1>1, <1>2, <1>3, <2>1
  <2> QED
    BY <2>2 DEF MiniPerRank, a
<1>6. RowsPerRank % MicroBatchSize = 0
  <2>1. RowsPerRank \in Nat /\ RowsPerRank % MiniPerRank = 0
    BY <1>1, <1>4
  <2>2. MicroBatchSize \in Nat \ {0} /\ MiniPerRank % MicroBatchSize = 0
    BY <1>1
  <2> QED
    BY <1>5, <2>1, <2>2, DividesTwice
<1> QED
  BY <1>1, <1>2, <1>4, <1>5, <1>6

-----------------------------------------------------------------------------
(* Moving rows. *)

LEMMA WholePermuted ==
  ASSUME NEW rows, Whole(rows), NEW order, Lists(order, 1 .. Rows), NEW moved,
         moved = [i \in 1 .. Rows |-> rows[order[i]]]
  PROVE  Whole(moved)
<1>1. Rows \in Nat
  BY Sizes
<1>2. Len(order) = Rows /\ order \in [1 .. Rows -> 1 .. Rows]
  <2> DEFINE S == 1 .. Rows
  <2>1. IsFiniteSet(S) /\ Cardinality(S) = Rows
    BY <1>1, FS_Interval
  <2>2. Lists(order, S)
    OBVIOUS
  <2> HIDE DEF S
  <2>3. order \in [1 .. Len(order) -> S] /\ Cardinality(S) = Len(order)
    BY <2>2, ListsLength
  <2> QED
    BY <2>1, <2>3 DEF S
<1>3. Permutation(order, Rows)
  BY <1>2 DEF Lists, Permutation
<1>4. Lists(Column(rows), Responses) /\ Len(Column(rows)) = Rows
  BY <1>1 DEF Whole, Column
<1>5. Lists(At(Column(rows), order, Rows), Responses)
  BY <1>1, <1>3, <1>4, Permuted
<1>6. \A i \in 1 .. Rows : moved[i] = rows[order[i]] /\ order[i] \in 1 .. Rows
  BY <1>2
<1>7. Column(moved) = At(Column(rows), order, Rows)
  <2>1. \A i \in 1 .. Rows : moved[i].response = Column(rows)[order[i]]
    BY <1>6 DEF Column
  <2> QED
    BY <2>1 DEF Column, At
<1>8. \A i \in 1 .. Rows : OwnRow(moved[i])
  BY <1>6 DEF Whole
<1> QED
  BY <1>5, <1>7, <1>8 DEF Whole

\* The rows go to the ranks in equal shares.
LEMMA WholeShared ==
  ASSUME NEW rows, Whole(rows)
  PROVE  \A k \in RankIds :
           /\ DOMAIN Chunk(rows, Ranks)[k] = 1 .. RowsPerRank
           /\ \A i \in 1 .. RowsPerRank :
                /\ Chunk(rows, Ranks)[k][i] = rows[Place(k, RowsPerRank, i)]
                /\ Place(k, RowsPerRank, i) \in 1 .. Rows
                /\ Chunk(rows, Ranks)[k][i].response \in Responses
<1> DEFINE T == {rows[i] : i \in 1 .. Rows}
           m == RowsPerRank
           n == Rows
           all == Chunk(rows, Ranks)
<1>1. Rows \in Nat /\ Rows = Ranks * RowsPerRank /\ m \in Nat /\ RankIds = 1 .. Ranks /\ Ranks \in Nat \ {0}
  BY Sizes, RankIdsFacts
<1>2. rows \in [1 .. n -> T]
  BY DEF Whole
<1>3. rows \in Seq(T) /\ Len(rows) = n
  <2> HIDE DEF T, n
  <2>1. n \in Nat
    BY <1>1 DEF n
  <2> QED
    BY <1>2, <2>1
<1>4. Cuts(rows, Ranks, m)
  BY <1>1, <1>3 DEF Cuts
<1> HIDE DEF T, m, n
<1>5. /\ all \in [1 .. Ranks -> Seq(T)]
      /\ \A c \in 1 .. Ranks : /\ Len(all[c]) = m
                               /\ \A i \in 1 .. m : /\ Place(c, m, i) \in 1 .. Len(rows)
                                                    /\ all[c][i] = rows[Place(c, m, i)]
  <2>1. Ranks \in Nat \ {0} /\ m \in Nat
    BY <1>1 DEF m
  <2>2. rows \in Seq(T)
    BY <1>3
  <2> QED
    BY <1>4, <2>1, <2>2, ChunkRows
<1> HIDE DEF all
<1>6. \A k \in 1 .. Ranks : DOMAIN all[k] = 1 .. m
  <2> SUFFICES ASSUME NEW k \in 1 .. Ranks PROVE DOMAIN all[k] = 1 .. m
    OBVIOUS
  <2>1. all[k] \in Seq(T) /\ Len(all[k]) = m
    BY <1>5
  <2> QED
    BY <2>1, LenProperties
<1>7. \A i \in 1 .. n : rows[i].response \in Responses
  BY DEF Whole, OwnRow, n
<1>8. \A k \in 1 .. Ranks : \A i \in 1 .. m : /\ all[k][i] = rows[Place(k, m, i)]
                                              /\ Place(k, m, i) \in 1 .. n
                                              /\ all[k][i].response \in Responses
  BY <1>3, <1>5, <1>7
<1> QED
  BY <1>1, <1>6, <1>8 DEF all, m, n

-----------------------------------------------------------------------------
(* Every action keeps the rows together. *)

LEMMA InitColumns == Init => ColumnsInv
<1> SUFFICES ASSUME Init PROVE ColumnsInv
  OBVIOUS
<1>1. stage = "generate" /\ batch = <<>>
  BY DEF Init
<1>2. /\ index = [k \in RankIds |-> <<>>] /\ micro = [k \in RankIds |-> <<>>]
      /\ out = [k \in RankIds |-> <<>>]
  BY DEF Init
<1>3. <<>> \in Seq(Seq(Nat)) /\ <<>> \in Seq(Seq(Nat) \ {<<>>}) /\ Len(<<>>) = 0
  OBVIOUS
<1>4. index # None
  <2>1. index \in [RankIds -> Seq(Seq(Nat))]
    BY <1>2, <1>3
  <2> QED
    BY <2>1, NoneAssumption
<1>5. Level
  <2>1. \A k \in RankIds : micro[k] \in Seq(Seq(Nat) \ {<<>>}) /\ Len(micro[k]) = 0
    BY <1>2, <1>3
  <2> QED
    BY <2>1 DEF Level
<1>6. \A k \in RankIds : out[k] = <<>>
  BY <1>2
<1> QED
  BY <1>1, <1>4, <1>5, <1>6
  DEF ColumnsInv, RowsInv, HeapInv, EarlyInv, DrawnInv, LevelInv, ShareInv, ScoreInv, Training

\* union: the agent loop workers' answers are in the order of the prompts.
LEMMA GeneratedWhole ==
  ASSUME GenerateSequences
  PROVE  Whole(batch')
<1> DEFINE p(i) == (i - 1) \div N
           c(i) == (i - 1) % N
           answer == [i \in Positions |-> <<p(i) + 1, c(i) + 1>>]
<1>1. /\ Prompts \in Nat \ {0} /\ N \in Nat \ {0} /\ Agents \in Nat \ {0}
      /\ Rows \in Nat /\ Rows = Prompts * N /\ Rows % Agents = 0
  BY BatchAssumption DEF Rows
<1>2. \A i \in 1 .. Rows : /\ p(i) \in Nat /\ c(i) \in Nat /\ p(i) + 1 \in 1 .. Prompts /\ c(i) + 1 \in 1 .. N
                           /\ i - 1 = p(i) * N + c(i)
  <2> SUFFICES ASSUME NEW i \in 1 .. Rows
               PROVE  /\ p(i) \in Nat /\ c(i) \in Nat /\ p(i) + 1 \in 1 .. Prompts /\ c(i) + 1 \in 1 .. N
                      /\ i - 1 = p(i) * N + c(i)
    OBVIOUS
  <2>1. i - 1 \in Nat /\ i - 1 < Prompts * N
    BY <1>1
  <2>2. (i - 1) \div N \in Nat /\ (i - 1) \div N < Prompts
    BY <1>1, <2>1, DivFacts, DivBelow
  <2>3. (i - 1) % N \in 0 .. N - 1
    BY <1>1, <2>1
  <2>4. i - 1 = p(i) * N + c(i)
    <3>1. \A a \in Nat, d \in Nat \ {0} : a = (a \div d) * d + (a % d)
      OBVIOUS
    <3> QED
      BY <1>1, <2>1, <3>1
  <2> QED
    BY <1>1, <2>2, <2>3, <2>4
<1>3. Answers = FlattenSeq(Chunk(answer, Agents))
  <2> DEFINE asked == [i \in Positions |-> p(i) + 1]
  <2>1. [i \in Positions |-> <<asked[i], c(i) + 1>>] = answer
    OBVIOUS
  <2> QED
    BY <2>1 DEF Answers
<1>4. \A i \in 1 .. Rows : answer[i] = <<p(i) + 1, c(i) + 1>>
  BY DEF Positions
<1>a. answer = [i \in 1 .. Rows |-> answer[i]] /\ DOMAIN answer = 1 .. Rows
  BY DEF Positions
<1> HIDE DEF p, c, answer
<1>5. answer \in [1 .. Rows -> Responses]
  <2>1. \A i \in 1 .. Rows : answer[i] \in Responses
    BY <1>2, <1>4 DEF Responses
  <2> QED
    BY <1>a, <2>1
<1>6. answer \in Seq(Responses) /\ Len(answer) = Rows
  BY <1>1, <1>5
<1>7. Answers = answer
  BY <1>1, <1>3, <1>6, ChunkJoined
<1>8. \A i, j \in 1 .. Rows : i # j => answer[i] # answer[j]
  <2> SUFFICES ASSUME NEW i \in 1 .. Rows, NEW j \in 1 .. Rows, answer[i] = answer[j] PROVE i = j
    OBVIOUS
  <2>1. p(i) + 1 = p(j) + 1 /\ c(i) + 1 = c(j) + 1
    BY <1>4
  <2>2. p(i) = p(j) /\ c(i) = c(j)
    BY <1>2, <2>1
  <2>3. i - 1 = j - 1
    BY <1>2, <2>2
  <2> QED
    BY <2>3
<1>9. IsFiniteSet(Responses) /\ Cardinality(Responses) = Rows
  <2> DEFINE A == 1 .. Prompts
             B == 1 .. N
  <2>1. IsFiniteSet(A) /\ IsFiniteSet(B) /\ Cardinality(A) = Prompts /\ Cardinality(B) = N
    BY <1>1, FS_Interval
  <2>2. Responses = A \X B
    BY DEF Responses
  <2> HIDE DEF A, B
  <2> QED
    BY <1>1, <2>1, <2>2, FS_Product
<1>10. Lists(answer, Responses)
  BY <1>1, <1>5, <1>8, <1>9, ListsAll
<1>11. Len(Prompt) = Prompts /\ \A i \in 1 .. Prompts : Prompt[i] = i
  BY <1>1 DEF Prompt
<1>12. \A i \in 1 .. Rows : Repeat(Prompt, N)[i] = p(i) + 1
  <2>1. N * Len(Prompt) = Rows
    BY <1>1, <1>11
  <2>2. \A i \in 1 .. Rows : Repeat(Prompt, N)[i] = Prompt[p(i) + 1]
    BY <2>1 DEF Repeat, p
  <2> QED
    BY <1>2, <1>11, <2>2
<1> DEFINE row(i) == [uid |-> Repeat(Prompt, N)[i], response |-> answer[i], logp |-> None, adv |-> None]
<1>13. batch' = [i \in 1 .. Rows |-> row(i)]
  BY <1>7 DEF GenerateSequences, Positions
<1>14. \A i \in 1 .. Rows : /\ DOMAIN row(i) = {"uid", "response", "logp", "adv"}
                            /\ row(i).response = answer[i] /\ row(i).uid = p(i) + 1
                            /\ row(i).logp = None /\ row(i).adv = None
  BY <1>12
<1> HIDE DEF row
<1>15. \A i \in 1 .. Rows : OwnRow(batch'[i])
  <2> SUFFICES ASSUME NEW i \in 1 .. Rows PROVE OwnRow(row(i))
    BY <1>13
  <2>1. answer[i] = <<p(i) + 1, c(i) + 1>> /\ answer[i] \in Responses
    BY <1>4, <1>5
  <2> QED
    BY <1>14, <2>1 DEF OwnRow
<1>16. Column(batch') = answer
  <2>1. \A i \in 1 .. Rows : batch'[i].response = answer[i]
    BY <1>13, <1>14
  <2> QED
    BY <1>a, <2>1 DEF Column
<1> QED
  BY <1>10, <1>13, <1>15, <1>16 DEF Whole

LEMMA WholeNext ==
  ASSUME setting' = setting, Whole(batch')
  PROVE  Whole(batch)'
<1>1. \A r : GroupAdvantage(r)' = GroupAdvantage(r)
  BY DEF GroupAdvantage, SumOver, MapThenSumSet, MapThenFoldSet
<1>2. \A i : OwnRow(batch'[i]) <=> OwnRow(batch[i])'
  BY <1>1 DEF OwnRow
<1> QED
  BY <1>2 DEF Whole, Column

LEMMA BalanceColumns ==
  ASSUME SettingKept, ColumnsInv, BalanceBatch
  PROVE  ColumnsInv'
<1>1. /\ stage = "balance" /\ stage' = "merge" /\ setting' = setting /\ batch' = batch
      /\ index' = index /\ micro' = micro /\ out' = out
      /\ heap' = FirstStates(workload', Ranks, TRUE)
  BY DEF BalanceBatch, call
<1>2. Whole(batch)
  BY <1>1 DEF ColumnsInv, RowsInv
<1>3. BalanceInvariant
  BY <1>1, <1>2 DEF BalanceInvariant, Whole, OwnRow, Positions
<1>4. workload' \in [1 .. Rows -> Int]
  BY <1>1, <1>3, Measured
<1>5. Sharing(heap', Ranks, Rows)
  <2>1. Rows \in Nat /\ Rows % Ranks = 0 /\ Ranks \in Nat \ {0}
    BY Sizes, BatchAssumption
  <2> QED
    BY <1>1, <1>4, <2>1, FirstSharing
<1>6. RowsInv'
  <2>1. Whole(batch)'
    BY <1>1, <1>2, WholeNext
  <2> QED
    BY <1>1, <2>1 DEF RowsInv
<1>7. HeapInv'
  BY <1>4, <1>5 DEF HeapInv
<1>8. EarlyInv' /\ DrawnInv' /\ index' # None
  BY <1>1 DEF ColumnsInv, EarlyInv, DrawnInv
<1>9. LevelInv'
  BY <1>1 DEF ColumnsInv, LevelInv, Level
<1>10. ShareInv' /\ ScoreInv'
  BY <1>1 DEF ShareInv, ScoreInv, Training
<1> QED
  BY <1>6, <1>7, <1>8, <1>9, <1>10 DEF ColumnsInv

LEMMA GenerateColumns ==
  ASSUME SettingKept, ColumnsInv, GenerateSequences
  PROVE  ColumnsInv'
<1>1. /\ stage = "generate" /\ stage' = "balance" /\ setting' = setting
      /\ index' = index /\ micro' = micro /\ out' = out
  BY DEF GenerateSequences, call
<1>2. RowsInv'
  <2>1. Whole(batch)'
    BY <1>1, GeneratedWhole, WholeNext
  <2> QED
    BY <1>1, <2>1 DEF RowsInv
<1>3. EarlyInv' /\ DrawnInv' /\ index' # None
  BY <1>1 DEF ColumnsInv, EarlyInv, DrawnInv
<1>4. LevelInv'
  BY <1>1 DEF ColumnsInv, LevelInv, Level
<1>5. HeapInv' /\ ShareInv' /\ ScoreInv'
  BY <1>1 DEF HeapInv, ShareInv, ScoreInv, Training
<1> QED
  BY <1>2, <1>3, <1>4, <1>5 DEF ColumnsInv

LEMMA MergeColumns ==
  ASSUME SettingKept, ColumnsInv, MergeStates
  PROVE  ColumnsInv'
<1>1. /\ stage = "merge" /\ stage' = "merge" /\ setting' = setting /\ batch' = batch
      /\ workload' = workload /\ index' = index /\ micro' = micro /\ out' = out
  BY DEF MergeStates, call
<1>2. PICK s \in heap, t \in heap : s # t /\ heap' = (heap \ {s, t}) \cup {Merged(s, t)}
  BY DEF MergeStates
<1>3. workload \in [1 .. Rows -> Int] /\ Sharing(heap, Ranks, Rows)
  BY <1>1 DEF ColumnsInv, HeapInv
<1>4. Rows \in Nat /\ Ranks \in Nat
  BY Sizes, RanksNat
<1>5. Sharing(heap', Ranks, Rows)
  BY <1>2, <1>3, <1>4, MergedSharing
<1>6. RowsInv'
  <2>1. Whole(batch)
    BY <1>1 DEF ColumnsInv, RowsInv
  <2>2. Whole(batch)'
    BY <1>1, <2>1, WholeNext
  <2> QED
    BY <1>1, <2>2 DEF RowsInv
<1>7. HeapInv'
  BY <1>1, <1>3, <1>5 DEF HeapInv
<1>8. EarlyInv' /\ DrawnInv' /\ index' # None
  BY <1>1 DEF ColumnsInv, EarlyInv, DrawnInv
<1>9. LevelInv'
  BY <1>1 DEF ColumnsInv, LevelInv, Level
<1>10. ShareInv' /\ ScoreInv'
  BY <1>1 DEF ShareInv, ScoreInv, Training
<1> QED
  BY <1>6, <1>7, <1>8, <1>9, <1>10 DEF ColumnsInv

\* The rows move to the ranks they were given to, each row once.
LEMMA ReorderedWhole ==
  ASSUME ColumnsInv, stage = "merge", Cardinality(heap) = 1
  PROVE  Whole(Reordered)
<1> DEFINE s == CHOOSE s \in heap : TRUE
           parts == PartsOf(s)
           f == [k \in DOMAIN parts |-> SmallAtEnds(parts[k], workload)]
           order == FlattenSeq(Listed(f))
           moved == [i \in DOMAIN batch |-> batch[order[i]]]
<1>1. Reordered = Listed(moved)
  BY DEF Reordered
<1>2. Ranks \in Nat \ {0} /\ Rows \in Nat
  BY RanksNat, Sizes
<1>3. Whole(batch) /\ workload \in [1 .. Rows -> Int] /\ Sharing(heap, Ranks, Rows)
  BY DEF ColumnsInv, RowsInv, HeapInv
<1>4. heap = {s}
  BY <1>2, <1>3, SharingOne
<1> HIDE DEF s
<1>5. Sharing({s}, Ranks, Rows)
  BY <1>3, <1>4
<1>6. Parted(parts, s, Ranks, Rows)
  BY <1>2, <1>5, LastParts
<1> HIDE DEF parts
<1> DEFINE sets == [i \in 1 .. Ranks |-> ItemsOf(s[i])]
<1>7. /\ DOMAIN parts = 1 .. Ranks
      /\ \A i \in 1 .. Ranks : Lists(parts[i], sets[i]) /\ sets[i] \subseteq 1 .. Rows
      /\ \A i, j \in 1 .. Ranks : i # j => sets[i] \cap sets[j] = {}
      /\ \A x : x \in 1 .. Rows <=> \E i \in 1 .. Ranks : x \in sets[i]
  BY <1>6 DEF Parted
<1>8. \A i \in 1 .. Ranks : f[i] = SmallAtEnds(parts[i], workload)
  BY <1>7
<1>9. f = [i \in 1 .. Ranks |-> f[i]] /\ DOMAIN f = 1 .. Ranks
  BY <1>7
<1> HIDE DEF f
<1>10. \A i \in 1 .. Ranks : Lists(f[i], sets[i])
  <2> SUFFICES ASSUME NEW i \in 1 .. Ranks PROVE Lists(f[i], sets[i])
    OBVIOUS
  <2>1. Lists(parts[i], sets[i]) /\ \A x \in sets[i] : workload[x] \in Int
    BY <1>3, <1>7
  <2> HIDE DEF sets
  <2>2. Lists(SmallAtEnds(parts[i], workload), sets[i])
    BY <2>1, SmallAtEndsLists
  <2> QED
    BY <1>8, <2>2
<1> HIDE DEF sets
<1>11. Listed(f) = f
  <2> DEFINE T == {f[i] : i \in 1 .. Ranks}
  <2>1. f \in [1 .. Ranks -> T]
    BY <1>9
  <2> HIDE DEF T
  <2> QED
    BY <1>2, <2>1, ListedFcn
<1>12. Together(sets, Ranks) = 1 .. Rows
  BY <1>7 DEF Together
<1>13. Lists(order, 1 .. Rows)
  BY <1>2, <1>7, <1>9, <1>10, <1>11, <1>12, FlattenLists
<1> HIDE DEF order
<1>14. moved = [i \in 1 .. Rows |-> batch[order[i]]]
  BY <1>3 DEF Whole
<1> HIDE DEF moved
<1>15. Whole(moved)
  BY <1>3, <1>13, <1>14, WholePermuted
<1>16. Listed(moved) = moved
  <2> DEFINE T == {moved[i] : i \in 1 .. Rows}
  <2>1. moved = [i \in 1 .. Rows |-> moved[i]] /\ DOMAIN moved = 1 .. Rows
    BY <1>15 DEF Whole
  <2>2. moved \in [1 .. Rows -> T]
    BY <2>1
  <2> HIDE DEF T
  <2> QED
    BY <1>2, <2>2, ListedFcn
<1> QED
  BY <1>1, <1>15, <1>16

LEMMA ReorderColumns ==
  ASSUME SettingKept, ColumnsInv, Reorder
  PROVE  ColumnsInv'
<1>1. /\ stage = "merge" /\ stage' = "logprob" /\ setting' = setting /\ Cardinality(heap) = 1
      /\ batch' = Reordered /\ mini' = Chunk(batch', Ranks) /\ index' = None
      /\ micro' = micro /\ out' = out
  BY DEF Reorder
<1>2. Whole(batch')
  BY <1>1, ReorderedWhole
<1>3. RowsInv'
  <2>1. Whole(batch)'
    BY <1>1, <1>2, WholeNext
  <2> QED
    BY <1>1, <2>1 DEF RowsInv
<1>4. \A k \in RankIds :
        /\ DOMAIN mini'[k] = 1 .. RowsPerRank
        /\ \A i \in 1 .. RowsPerRank : /\ mini'[k][i] = batch'[Place(k, RowsPerRank, i)]
                                       /\ mini'[k][i].response \in Responses
  BY <1>1, <1>2, WholeShared
<1>5. DrawnInv'
  <2>1. RowsPerRank \in Nat \ {0} /\ RowsPerRank % MicroBatchSize = 0
    BY Sizes
  <2>2. Drawn(RowsPerRank)'
    BY <1>4 DEF Drawn
  <2> QED
    BY <2>1, <2>2 DEF DrawnInv
<1>6. ScoreInv'
  <2>1. \A k \in RankIds : out'[k] = <<>>
    BY <1>1 DEF ColumnsInv, EarlyInv
  <2> QED
    BY <1>1, <1>4, <2>1 DEF ScoreInv
<1>7. HeapInv' /\ EarlyInv' /\ LevelInv' /\ ShareInv'
  BY <1>1 DEF HeapInv, EarlyInv, LevelInv, ShareInv, Training
<1> QED
  BY <1>3, <1>5, <1>6, <1>7 DEF ColumnsInv

\* The split of one rank's rows, before any micro-batch is run.
LEMMA SplitLevel ==
  ASSUME NEW c \in Nat, NEW m \in Nat, NEW parts, Split(parts, c, m)
  PROVE  /\ parts \in Seq(Seq(Nat) \ {<<>>}) /\ Len(parts) = c
         /\ DOMAIN parts = 1 .. c
<1> DEFINE T == Seq(1 .. m)
           S == Seq(Nat) \ {<<>>}
<1>1. parts \in [1 .. c -> T] /\ \A i \in 1 .. c : parts[i] # <<>>
  BY DEF Split
<1>2. T \subseteq Seq(Nat)
  <2>1. 1 .. m \subseteq Nat
    OBVIOUS
  <2> QED
    BY <2>1
<1> HIDE DEF T
<1>3. \A i \in 1 .. c : parts[i] \in S
  BY <1>1, <1>2
<1> HIDE DEF S
<1>4. parts \in [1 .. c -> S]
  BY <1>1, <1>3
<1> QED
  BY <1>4 DEF S

LEMMA PreparedSplit ==
  ASSUME SettingKept, PrepareMicroBatches, NEW m \in Nat \ {0}, m % MicroBatchSize = 0, Drawn(m)
  PROVE  \E c \in Nat : \A k \in RankIds :
           /\ Split(index'[k], c, m)
           /\ ~setting.dynamic => FlattenSeq(index'[k]) = [i \in 1 .. m |-> i]
<1>1. CASE setting.dynamic
  <2>1. index' = MicroBatchesAgreed
    BY <1>1 DEF PrepareMicroBatches
  <2>2. PICK c \in 1 .. m : \A k \in RankIds : Split(MicroBatchesAgreed[k], c, m)
    BY AgreedFacts
  <2>3. c \in Nat
    OBVIOUS
  <2> QED
    BY <1>1, <2>1, <2>2, <2>3
<1>2. CASE ~setting.dynamic
  <2> DEFINE f == [k \in RankIds |-> FixedMicroBatches(k)]
             c == m \div MicroBatchSize
  <2>1. index' = Listed(f)
    BY <1>2 DEF PrepareMicroBatches
  <2>2. \A k \in RankIds : f[k] = FixedMicroBatches(k)
    OBVIOUS
  <2>3. f \in [1 .. Ranks -> {f[k] : k \in RankIds}]
    BY RankIdsFacts
  <2> HIDE DEF f
  <2>4. Listed(f) = f
    BY <2>3, RankIdsFacts, ListedFcn
  <2>5. c \in Nat
    BY BatchAssumption
  <2> HIDE DEF c
  <2>6. \A k \in RankIds : /\ Split(FixedMicroBatches(k), c, m)
                           /\ FlattenSeq(FixedMicroBatches(k)) = [i \in 1 .. m |-> i]
    BY FixedFacts DEF Drawn, c
  <2> QED
    BY <2>1, <2>2, <2>4, <2>5, <2>6
<1> QED
  BY <1>1, <1>2

LEMMA PrepareColumns ==
  ASSUME SettingKept, ColumnsInv, PrepareMicroBatches
  PROVE  ColumnsInv'
<1>1. /\ index = None /\ micro' = index'
      /\ UNCHANGED <<setting, stage, batch, workload, heap, share, mini, out>>
  BY DEF PrepareMicroBatches
<1>2. PICK m \in Nat \ {0} : m % MicroBatchSize = 0 /\ Drawn(m)
  BY <1>1 DEF ColumnsInv, DrawnInv
<1>3. PICK c \in Nat : \A k \in RankIds :
        /\ Split(index'[k], c, m)
        /\ ~setting.dynamic => FlattenSeq(index'[k]) = [i \in 1 .. m |-> i]
  BY <1>2, PreparedSplit
<1>4. \A k \in RankIds : /\ micro'[k] \in Seq(Seq(Nat) \ {<<>>}) /\ Len(micro'[k]) = c
                         /\ DOMAIN micro'[k] = 1 .. c
  BY <1>1, <1>3, SplitLevel
<1>5. RowsInv'
  <2>1. Whole(batch) => Whole(batch)'
    BY <1>1, WholeNext
  <2> QED
    BY <1>1, <2>1 DEF ColumnsInv, RowsInv
<1>6. HeapInv' /\ ShareInv'
  BY <1>1 DEF ColumnsInv, HeapInv, ShareInv, Training
<1>7. EarlyInv'
  BY <1>1 DEF ColumnsInv, EarlyInv
<1>8. DrawnInv'
  <2>1. Drawn(m)'
    BY <1>1, <1>2 DEF Drawn
  <2> QED
    BY <1>2, <2>1 DEF DrawnInv
<1>9. LevelInv'
  BY <1>4 DEF LevelInv, Level
<1>10. ASSUME stage = "logprob", NEW k \in RankIds PROVE Computed(k)'
  <2>1. DOMAIN mini[k] = 1 .. RowsPerRank /\ out[k] = <<>>
    BY <1>1, <1>10 DEF ColumnsInv, ScoreInv
  <2>2. m = RowsPerRank
    <3>1. 1 .. m = 1 .. RowsPerRank
      BY <1>2, <2>1 DEF Drawn
    <3>2. RowsPerRank \in Nat \ {0} /\ m \in Nat \ {0}
      BY Sizes
    <3>3. m \in 1 .. RowsPerRank /\ RowsPerRank \in 1 .. m
      BY <3>1, <3>2
    <3> QED
      BY <3>2, <3>3
  <2>3. out'[k] = <<>> /\ out'[k] \in Seq(Seq(Responses)) /\ Len(out'[k]) = 0
    BY <1>1, <2>1
  <2>4. Len(out'[k]) + Len(micro'[k]) = c /\ \A i \in 1 .. c : micro'[k][i] = index'[k][Len(out'[k]) + i]
    BY <1>1, <1>4, <2>3
  <2>5. /\ Split(index'[k], c, RowsPerRank)
        /\ ~setting'.dynamic => FlattenSeq(index'[k]) = [i \in 1 .. RowsPerRank |-> i]
    BY <1>1, <1>3, <2>2
  <2>6. Len(micro'[k]) = c
    BY <1>4
  <2>7. \A i \in 1 .. Len(out'[k]) : out'[k][i] = Outputs(k, index[k][i])'
    BY <2>3
  <2> QED
    BY <2>3, <2>4, <2>5, <2>6, <2>7 DEF Computed
<1>11. ScoreInv'
  <2> SUFFICES ASSUME stage = "logprob", NEW k \in RankIds
               PROVE  /\ DOMAIN mini'[k] = 1 .. RowsPerRank
                      /\ \A i \in 1 .. RowsPerRank : mini'[k][i] = batch'[Place(k, RowsPerRank, i)]
                      /\ index' = None => out'[k] = <<>>
                      /\ index' # None => Computed(k)'
    BY <1>1 DEF ScoreInv
  <2> QED
    BY <1>1, <1>10 DEF ColumnsInv, ScoreInv
<1> QED
  BY <1>5, <1>6, <1>7, <1>8, <1>9, <1>11 DEF ColumnsInv

\* Every rank runs one micro-batch.
LEMMA TailLevel ==
  ASSUME Level, EveryRankReady, micro' = [k \in RankIds |-> Tail(micro[k])]
  PROVE  Level'
<1> DEFINE T == Seq(Nat) \ {<<>>}
<1>1. PICK c \in Nat : \A k \in RankIds : micro[k] \in Seq(T) /\ Len(micro[k]) = c
  BY DEF Level
<1>2. \A k \in RankIds : micro[k] # <<>> /\ micro'[k] = Tail(micro[k])
  BY DEF EveryRankReady
<1> HIDE DEF T
<1>3. \A k \in RankIds : c # 0 /\ micro'[k] \in Seq(T) /\ Len(micro'[k]) = c - 1
  BY <1>1, <1>2
<1>4. c - 1 \in Nat
  BY <1>3, RankIdsFacts
<1>5. \A k \in RankIds : micro'[k] \in Seq(Seq(Nat) \ {<<>>}) /\ Len(micro'[k]) = c - 1
  BY <1>3 DEF T
<1> QED
  BY <1>4, <1>5 DEF Level

LEMMA OutputsSeq ==
  ASSUME NEW k, NEW m \in Nat, NEW part \in Seq(1 .. m),
         \A i \in 1 .. m : mini[k][i].response \in Responses
  PROVE  Outputs(k, part) \in Seq(Responses) /\ Len(Outputs(k, part)) = Len(part)
<1>1. Len(part) \in Nat /\ DOMAIN part = 1 .. Len(part) /\ \A i \in 1 .. Len(part) : part[i] \in 1 .. m
  <2> DEFINE T == 1 .. m
  <2>1. part \in Seq(T)
    OBVIOUS
  <2> HIDE DEF T
  <2>2. Len(part) \in Nat /\ part \in [1 .. Len(part) -> T]
    BY <2>1, LenProperties
  <2> QED
    BY <2>2 DEF T
<1>2. Outputs(k, part) \in [1 .. Len(part) -> Responses]
  BY <1>1 DEF Outputs
<1> QED
  BY <1>1, <1>2

LEMMA ComputedNext ==
  ASSUME NEW k \in RankIds, Computed(k), micro[k] # <<>>,
         micro[k] \in Seq(Seq(Nat) \ {<<>>}),
         \A i \in 1 .. RowsPerRank : mini[k][i].response \in Responses,
         index' = index, mini' = mini, setting' = setting,
         out'[k] = Append(out[k], Outputs(k, Head(micro[k]))), micro'[k] = Tail(micro[k])
  PROVE  Computed(k)'
<1> DEFINE Q == Seq(Responses)
           P == Seq(1 .. RowsPerRank)
           T == Seq(Nat) \ {<<>>}
           a == Len(out[k])
           b == Len(micro[k])
<1>1. PICK c \in Nat :
        /\ Split(index[k], c, RowsPerRank)
        /\ ~setting.dynamic => FlattenSeq(index[k]) = [i \in 1 .. RowsPerRank |-> i]
        /\ out[k] \in Seq(Q) /\ a + b = c
        /\ \A i \in 1 .. a : out[k][i] = Outputs(k, index[k][i])
        /\ \A i \in 1 .. b : micro[k][i] = index[k][a + i]
  BY DEF Computed
<1>2. micro[k] \in Seq(T)
  OBVIOUS
<1>3. index[k] \in [1 .. c -> P]
  BY <1>1 DEF Split
<1>4. a \in Nat /\ b \in Nat /\ b # 0
  <2> HIDE DEF T, Q
  <2> QED
    BY <1>1, <1>2
<1>5. Head(micro[k]) = index[k][a + 1] /\ index[k][a + 1] \in P
  <2>1. Head(micro[k]) = micro[k][1]
    OBVIOUS
  <2>2. a + b = c /\ \A i \in 1 .. b : micro[k][i] = index[k][a + i]
    BY <1>1
  <2> HIDE DEF P, a, b
  <2>3. 1 \in 1 .. b /\ a + 1 \in 1 .. c
    BY <1>4, <2>2
  <2> QED
    BY <1>3, <2>1, <2>2, <2>3
<1>6. Outputs(k, Head(micro[k])) \in Q
  BY <1>5, Sizes, OutputsSeq
<1>7. /\ Len(micro'[k]) = b - 1 /\ \A i \in 1 .. b - 1 : micro'[k][i] = micro[k][i + 1]
  <2> HIDE DEF T
  <2> QED
    BY <1>2, <1>4
<1>8. /\ out'[k] \in Seq(Q) /\ Len(out'[k]) = a + 1
      /\ \A i \in 1 .. a : out'[k][i] = out[k][i]
      /\ out'[k][a + 1] = Outputs(k, Head(micro[k]))
  <2> HIDE DEF Q
  <2> QED
    BY <1>1, <1>6
<1> HIDE DEF P, T, Q, a, b
<1>9. Len(out'[k]) + Len(micro'[k]) = c
  <2>1. a + b = c /\ Len(out'[k]) = a + 1 /\ Len(micro'[k]) = b - 1
    BY <1>1, <1>7, <1>8 DEF a, b
  <2>2. (a + 1) + (b - 1) = c
    BY <1>4, <2>1
  <2> QED
    BY <2>1, <2>2
<1>11. \A i \in 1 .. Len(out'[k]) : out'[k][i] = Outputs(k, index[k][i])
  <2> SUFFICES ASSUME NEW i \in 1 .. a + 1 PROVE out'[k][i] = Outputs(k, index[k][i])
    BY <1>8
  <2>1. i \in 1 .. a \/ i = a + 1
    BY <1>4
  <2> QED
    BY <1>1, <1>5, <1>8, <2>1
<1>12. \A i \in 1 .. Len(micro'[k]) : micro'[k][i] = index[k][Len(out'[k]) + i]
  <2> SUFFICES ASSUME NEW i \in 1 .. b - 1 PROVE micro'[k][i] = index[k][a + 1 + i]
    BY <1>7, <1>8
  <2>1. i + 1 \in 1 .. b /\ a + (i + 1) = a + 1 + i
    BY <1>4
  <2> QED
    BY <1>1, <1>7, <2>1
<1>13. \A i \in 1 .. Len(out'[k]) : out'[k][i] = Outputs(k, index[k][i])'
  BY <1>11 DEF Outputs
<1>14. Split(index[k], c, RowsPerRank)'
  BY <1>1
<1>15. ~setting'.dynamic => FlattenSeq(index[k]') = [i \in 1 .. RowsPerRank |-> i]
  BY <1>1
<1> QED
  BY <1>8, <1>9, <1>12, <1>13, <1>14, <1>15 DEF Computed, Q

LEMMA ComputeColumns ==
  ASSUME SettingKept, ColumnsInv, ComputeLogProb
  PROVE  ColumnsInv'
<1>1. /\ stage = "logprob" /\ EveryRankReady
      /\ UNCHANGED <<setting, stage, batch, workload, heap, share, mini, index>>
      /\ micro' = [k \in RankIds |-> Tail(micro[k])]
  BY DEF ComputeLogProb
<1>2. \A k \in RankIds : out'[k] = Append(out[k], Outputs(k, Head(micro[k])))
  BY DEF ComputeLogProb, Outputs
<1>3. index # None /\ Level
  BY <1>1 DEF ColumnsInv, LevelInv, EveryRankReady
<1>4. RowsInv'
  <2>1. Whole(batch) => Whole(batch)'
    BY <1>1, WholeNext
  <2> QED
    BY <1>1, <2>1 DEF ColumnsInv, RowsInv
<1>5. HeapInv' /\ ShareInv' /\ EarlyInv' /\ DrawnInv'
  BY <1>1, <1>3 DEF HeapInv, ShareInv, Training, EarlyInv, DrawnInv
<1>6. LevelInv'
  BY <1>1, <1>3, TailLevel DEF LevelInv
<1>7. ASSUME NEW k \in RankIds PROVE Computed(k)'
  <2>1. Computed(k)
    BY <1>1, <1>3 DEF ColumnsInv, ScoreInv
  <2>2. micro[k] # <<>> /\ micro[k] \in Seq(Seq(Nat) \ {<<>>}) /\ micro'[k] = Tail(micro[k])
    BY <1>1, <1>3 DEF EveryRankReady, Level
  <2>3. \A i \in 1 .. RowsPerRank : mini[k][i].response \in Responses
    <3>1. Whole(batch) /\ \A i \in 1 .. RowsPerRank : mini[k][i] = batch[Place(k, RowsPerRank, i)]
      BY <1>1 DEF ColumnsInv, RowsInv, ScoreInv
    <3>2. \A i \in 1 .. RowsPerRank : Place(k, RowsPerRank, i) \in 1 .. Rows
      BY <3>1, WholeShared
    <3> QED
      BY <3>1, <3>2 DEF Whole, OwnRow
  <2> QED
    BY <1>1, <1>2, <2>1, <2>2, <2>3, ComputedNext
<1>8. ScoreInv'
  BY <1>1, <1>3, <1>7 DEF ColumnsInv, ScoreInv
<1> QED
  BY <1>4, <1>5, <1>6, <1>8 DEF ColumnsInv

LEMMA TrainColumns ==
  ASSUME SettingKept, ColumnsInv, TrainMicroBatch
  PROVE  ColumnsInv'
<1>1. /\ Training /\ EveryRankReady
      /\ UNCHANGED <<setting, stage, batch, workload, heap, share, mini, index, out>>
      /\ micro' = [k \in RankIds |-> Tail(micro[k])]
  BY DEF TrainMicroBatch
<1>2. index # None /\ Level
  BY <1>1 DEF ColumnsInv, LevelInv, EveryRankReady
<1>3. RowsInv'
  <2>1. Whole(batch) => Whole(batch)'
    BY <1>1, WholeNext
  <2> QED
    BY <1>1, <2>1 DEF ColumnsInv, RowsInv
<1>4. HeapInv' /\ ShareInv' /\ EarlyInv' /\ DrawnInv' /\ ScoreInv'
  BY <1>1, <1>2 DEF ColumnsInv, HeapInv, ShareInv, Training, EarlyInv, DrawnInv, ScoreInv
<1>5. LevelInv'
  BY <1>1, <1>2, TailLevel DEF LevelInv
<1> QED
  BY <1>3, <1>4, <1>5 DEF ColumnsInv

LEMMA DrawColumns ==
  ASSUME SettingKept, ColumnsInv, DrawMiniBatch
  PROVE  ColumnsInv'
<1>1. /\ Training /\ index # None /\ index' = None
      /\ UNCHANGED <<setting, stage, batch, workload, heap, share, micro, out>>
  BY DEF DrawMiniBatch, NoRankReady
<1>2. PICK drawn \in [RankIds -> SUBSET (1 .. RowsPerRank)] :
        /\ \A k \in RankIds : Cardinality(drawn[k]) = MiniPerRank
        /\ mini' = [k \in RankIds |->
                      LET order == Ascending(drawn[k]) IN
                      [i \in 1 .. MiniPerRank |-> share[k][order[i]]]]
  BY DEF DrawMiniBatch
<1>3. MiniPerRank \in Nat \ {0} /\ MiniPerRank % MicroBatchSize = 0 /\ RowsPerRank \in Nat
  BY Sizes
<1>4. Drawn(MiniPerRank)'
  <2> SUFFICES ASSUME NEW k \in RankIds
               PROVE  DOMAIN mini'[k] = 1 .. MiniPerRank /\ \A i \in 1 .. MiniPerRank : mini'[k][i].response \in Responses
    BY DEF Drawn
  <2> DEFINE S == drawn[k]
             order == Ascending(S)
             T == 1 .. RowsPerRank
  <2>1. mini'[k] = [i \in 1 .. MiniPerRank |-> share[k][order[i]]]
    BY <1>2
  <2>2. S \in SUBSET T /\ Cardinality(S) = MiniPerRank
    BY <1>2
  <2>3. IsFiniteSet(T) /\ T \subseteq Nat
    BY <1>3, FS_Interval
  <2>4. \A i \in T : share[k][i].response \in Responses
    BY <1>1 DEF ColumnsInv, ShareInv
  <2> HIDE DEF T, S
  <2>5. IsFiniteSet(S) /\ S \in SUBSET Nat
    BY <2>2, <2>3, FS_Subset
  <2>6. Lists(order, S) /\ Len(order) = Cardinality(S)
    BY <2>5, AscendingLists
  <2> HIDE DEF order
  <2>7. Len(order) = MiniPerRank /\ order \in [1 .. Len(order) -> S]
    BY <2>2, <2>6, ListsLength
  <2>8. \A i \in 1 .. MiniPerRank : order[i] \in T
    BY <2>2, <2>7
  <2> QED
    BY <2>1, <2>4, <2>8
<1>5. RowsInv'
  <2>1. Whole(batch) => Whole(batch)'
    BY <1>1, WholeNext
  <2> QED
    BY <1>1, <2>1 DEF ColumnsInv, RowsInv
<1>6. DrawnInv'
  BY <1>3, <1>4 DEF DrawnInv
<1>7. HeapInv' /\ EarlyInv' /\ LevelInv' /\ ShareInv' /\ ScoreInv'
  BY <1>1 DEF ColumnsInv, HeapInv, ShareInv, Training, EarlyInv, LevelInv, ScoreInv
<1> QED
  BY <1>5, <1>6, <1>7 DEF ColumnsInv

\* What the rows and the micro-batches of a rank are does not change.
LEMMA TrainingColumns ==
  ASSUME SettingKept, ColumnsInv, NextEpoch \/ CriticUpdated \/ ActorUpdated
  PROVE  ColumnsInv'
<1>1. /\ Training /\ index # None
      /\ UNCHANGED <<setting, batch, workload, heap, mini, index, micro, out>>
  BY DEF NextEpoch, CriticUpdated, ActorUpdated, call, EpochDrawn, NoRankReady
<1>2. stage' \in {"critic", "actor", "done"}
  BY <1>1 DEF NextEpoch, CriticUpdated, ActorUpdated, Training
<1>3. Whole(batch)
  BY <1>1 DEF ColumnsInv, RowsInv, Training
<1>4. RowsInv'
  BY <1>1, <1>2, <1>3, WholeNext DEF RowsInv
<1>5. LevelInv'
  BY <1>1 DEF ColumnsInv, LevelInv, Level
<1>6. ShareInv'
  <2>1. CASE NextEpoch \/ ActorUpdated
    BY <1>1, <2>1 DEF NextEpoch, ActorUpdated, call, ColumnsInv, ShareInv, Training
  <2>2. CASE CriticUpdated
    <3>1. share' = Chunk(batch, Ranks)
      BY <2>2 DEF CriticUpdated, StartTraining
    <3> QED
      BY <1>3, <3>1, WholeShared DEF ShareInv
  <2> QED
    BY <2>1, <2>2
<1>7. HeapInv' /\ EarlyInv' /\ DrawnInv' /\ ScoreInv'
  BY <1>1, <1>2 DEF HeapInv, EarlyInv, DrawnInv, ScoreInv
<1> QED
  BY <1>4, <1>5, <1>6, <1>7 DEF ColumnsInv

LEMMA StutterColumns ==
  ASSUME SettingKept, ColumnsInv, UNCHANGED vars
  PROVE  ColumnsInv'
<1>1. UNCHANGED <<setting, length, stage, batch, workload, heap, share, mini, index, micro, out>>
  BY DEF vars, call
<1>2. RowsInv'
  <2>1. Whole(batch) => Whole(batch)'
    BY <1>1, WholeNext
  <2> QED
    BY <1>1, <2>1 DEF ColumnsInv, RowsInv
<1>3. HeapInv' /\ EarlyInv' /\ ShareInv'
  BY <1>1 DEF ColumnsInv, HeapInv, EarlyInv, ShareInv, Training
<1>4. DrawnInv'
  BY <1>1 DEF ColumnsInv, DrawnInv, Drawn
<1>5. LevelInv'
  BY <1>1 DEF ColumnsInv, LevelInv, Level
<1>6. \A k \in RankIds : Computed(k) => Computed(k)'
  <2> SUFFICES ASSUME NEW k \in RankIds, Computed(k) PROVE Computed(k)'
    OBVIOUS
  <2>1. PICK c \in Nat :
          /\ Split(index[k], c, RowsPerRank)
          /\ ~setting.dynamic => FlattenSeq(index[k]) = [i \in 1 .. RowsPerRank |-> i]
          /\ out[k] \in Seq(Seq(Responses)) /\ Len(out[k]) + Len(micro[k]) = c
          /\ \A i \in 1 .. Len(out[k]) : out[k][i] = Outputs(k, index[k][i])
          /\ \A i \in 1 .. Len(micro[k]) : micro[k][i] = index[k][Len(out[k]) + i]
    BY DEF Computed
  <2>2. Split(index[k], c, RowsPerRank)'
    BY <1>1, <2>1
  <2>3. \A i \in 1 .. Len(out'[k]) : out'[k][i] = Outputs(k, index[k][i])'
    BY <1>1, <2>1 DEF Outputs
  <2>4. ~setting'.dynamic => FlattenSeq(index[k]') = [i \in 1 .. RowsPerRank |-> i]
    BY <1>1, <2>1
  <2>5. /\ out'[k] \in Seq(Seq(Responses)) /\ Len(out'[k]) + Len(micro'[k]) = c
        /\ \A i \in 1 .. Len(micro'[k]) : micro'[k][i] = index'[k][Len(out'[k]) + i]
    BY <1>1, <2>1
  <2> QED
    BY <2>2, <2>3, <2>4, <2>5 DEF Computed
<1>7. ScoreInv'
  BY <1>1, <1>6 DEF ColumnsInv, ScoreInv
<1> QED
  BY <1>2, <1>3, <1>4, <1>5, <1>7 DEF ColumnsInv

-----------------------------------------------------------------------------
(* What is computed for the rows of a sequence of micro-batches. *)

\* a holds what F gives for the elements of b.
Follows(a, b, F) == Len(a) = Len(b) /\ \A i \in 1 .. Len(b) : a[i] = F[b[i]]

LEMMA FollowsJoined ==
  ASSUME NEW T, NEW a \in Seq(T), NEW c \in Seq(T), NEW S, NEW b \in Seq(S), NEW d \in Seq(S), NEW F,
         Follows(a, b, F), Follows(c, d, F)
  PROVE  Follows(a \o c, b \o d, F)
<1> DEFINE m == Len(b)
           n == Len(d)
<1>1. /\ Len(b \o d) = m + n /\ m \in Nat /\ n \in Nat
      /\ \A i \in 1 .. m + n : (b \o d)[i] = IF i <= m THEN b[i] ELSE d[i - m]
  BY ConcatProperties
<1>2. /\ Len(a) = m /\ \A i \in 1 .. m : a[i] = F[b[i]]
      /\ Len(c) = n /\ \A i \in 1 .. n : c[i] = F[d[i]]
  BY DEF Follows
<1>3. /\ Len(a \o c) = Len(a) + Len(c)
      /\ \A i \in 1 .. Len(a) + Len(c) : (a \o c)[i] = IF i <= Len(a) THEN a[i] ELSE c[i - Len(a)]
  BY ConcatProperties
<1> HIDE DEF m, n
<1>4. /\ Len(a \o c) = m + n
      /\ \A i \in 1 .. m + n : (a \o c)[i] = IF i <= m THEN a[i] ELSE c[i - m]
  BY <1>2, <1>3
<1>5. \A i \in 1 .. m + n : (a \o c)[i] = F[(b \o d)[i]]
  <2> SUFFICES ASSUME NEW i \in 1 .. m + n PROVE (a \o c)[i] = F[(b \o d)[i]]
    OBVIOUS
  <2>1. (b \o d)[i] = IF i <= m THEN b[i] ELSE d[i - m]
    BY <1>1
  <2>2. (a \o c)[i] = IF i <= m THEN a[i] ELSE c[i - m]
    BY <1>4
  <2>3. CASE i <= m
    <3>1. i \in 1 .. m
      BY <1>1, <2>3
    <3>2. a[i] = F[b[i]]
      BY <1>2, <3>1
    <3> QED
      BY <2>1, <2>2, <2>3, <3>2
  <2>4. CASE ~(i <= m)
    <3>1. i - m \in 1 .. n
      BY <1>1, <2>4
    <3>2. c[i - m] = F[d[i - m]]
      BY <1>2, <3>1
    <3> QED
      BY <2>1, <2>2, <2>4, <3>2
  <2> QED
    BY <2>3, <2>4
<1> QED
  BY <1>1, <1>4, <1>5 DEF Follows

\* What follows the parts one by one follows them joined.
LEMMA FlattenFollows ==
  ASSUME NEW k \in Nat \ {0}, NEW S, NEW seqs \in [1 .. k -> Seq(S)],
         NEW T, NEW imgs \in [1 .. k -> Seq(T)], NEW F,
         \A i \in 1 .. k : Follows(imgs[i], seqs[i], F)
  PROVE  FlattenSeq(imgs) \in Seq(T) /\ Follows(FlattenSeq(imgs), FlattenSeq(seqs), F)
<1>1. PICK g \in [1 .. k -> Seq(S)] : JoinsUpTo(g, seqs, k) /\ FlattenSeq(seqs) = g[k]
  BY FlattenExists
<1>2. PICK h \in [1 .. k -> Seq(T)] : JoinsUpTo(h, imgs, k) /\ FlattenSeq(imgs) = h[k]
  BY FlattenExists
<1> DEFINE I == {n \in Nat : n \in 1 .. k => Follows(h[n], g[n], F)}
<1>3. 0 \in I
  OBVIOUS
<1>4. ASSUME NEW n \in Nat, n \in I PROVE n + 1 \in I
  <2> SUFFICES ASSUME n + 1 \in 1 .. k PROVE Follows(h[n + 1], g[n + 1], F)
    OBVIOUS
  <2> DEFINE m == n + 1
  <2>1. CASE n = 0
    <3>1. m = 1 /\ 1 \in 1 .. k
      BY <2>1
    <3>2. h[1] = imgs[1] /\ g[1] = seqs[1]
      BY <1>1, <1>2 DEF JoinsUpTo
    <3> QED
      BY <3>1, <3>2
  <2>2. CASE n # 0
    <3>1. n \in 1 .. k /\ m # 1 /\ m - 1 = n /\ m \in 1 .. k
      BY <2>2
    <3>2. Follows(h[n], g[n], F)
      BY <1>4, <3>1
    <3> HIDE DEF m, I
    <3>3. h[m] = h[m - 1] \o imgs[m] /\ g[m] = g[m - 1] \o seqs[m]
      BY <1>1, <1>2, <3>1 DEF JoinsUpTo
    <3>4. h[n] \in Seq(T) /\ imgs[m] \in Seq(T) /\ g[n] \in Seq(S) /\ seqs[m] \in Seq(S)
      BY <3>1
    <3>5. Follows(imgs[m], seqs[m], F)
      BY <3>1
    <3>6. Follows(h[n] \o imgs[m], g[n] \o seqs[m], F)
      BY <3>2, <3>4, <3>5, FollowsJoined
    <3> QED
      BY <3>1, <3>3, <3>6 DEF m
  <2> QED
    BY <2>1, <2>2
<1>5. k \in I
  <2> HIDE DEF I
  <2> QED
    BY <1>3, <1>4, Inductive
<1>6. k \in 1 .. k
  OBVIOUS
<1>7. Follows(h[k], g[k], F) /\ h[k] \in Seq(T)
  BY <1>5, <1>6
<1> QED
  BY <1>1, <1>2, <1>7

\* restore_dynamic_batch: the outputs of a rank are in the order of its rows.
LEMMA RestoredRows ==
  ASSUME NEW k \in RankIds, Computed(k), micro[k] = <<>>,
         \A i \in 1 .. RowsPerRank : mini[k][i].response \in Responses
  PROVE  Restored(k) = [i \in 1 .. RowsPerRank |-> mini[k][i].response]
<1> DEFINE m == RowsPerRank
           F == [x \in 1 .. m |-> mini[k][x].response]
           data == FlattenSeq(out[k])
           idx == FlattenSeq(index[k])
<1>1. m \in Nat \ {0}
  BY Sizes
<1>2. PICK c \in Nat :
        /\ Split(index[k], c, RowsPerRank)
        /\ ~setting.dynamic => FlattenSeq(index[k]) = [i \in 1 .. RowsPerRank |-> i]
        /\ out[k] \in Seq(Seq(Responses)) /\ Len(out[k]) + Len(micro[k]) = c
        /\ \A i \in 1 .. Len(out[k]) : out[k][i] = Outputs(k, index[k][i])
        /\ \A i \in 1 .. Len(micro[k]) : micro[k][i] = index[k][Len(out[k]) + i]
  BY DEF Computed
<1> DEFINE Q == Seq(Responses)
<1>3. out[k] \in [1 .. c -> Q] /\ Len(out[k]) = c
  <2>1. Len(micro[k]) = 0 /\ Len(out[k]) \in Nat
    BY <1>2
  <2>2. Len(out[k]) = c
    BY <1>2, <2>1
  <2> HIDE DEF Q
  <2>3. out[k] \in Seq(Q)
    BY <1>2 DEF Q
  <2> QED
    BY <2>2, <2>3, LenProperties
<1>4. /\ index[k] \in [1 .. c -> Seq(1 .. m)]
      /\ Lists(idx, 1 .. m) /\ \A i \in 1 .. c : out[k][i] = Outputs(k, index[k][i])
  BY <1>2, <1>3 DEF Split
<1>5. Len(idx) = m /\ idx \in [1 .. m -> 1 .. m]
  <2> DEFINE S == 1 .. m
  <2>1. IsFiniteSet(S) /\ Cardinality(S) = m
    BY <1>1, FS_Interval
  <2>2. Lists(idx, S)
    BY <1>4
  <2> HIDE DEF S, idx
  <2>3. idx \in [1 .. Len(idx) -> S] /\ Cardinality(S) = Len(idx)
    BY <2>2, ListsLength
  <2> QED
    BY <2>1, <2>3 DEF S
<1>6. c # 0
  <2> SUFFICES ASSUME c = 0 PROVE FALSE
    OBVIOUS
  <2>1. Len(index[k]) = 0
    BY <1>4
  <2>2. idx = index[k]
    BY <2>1 DEF FlattenSeq
  <2>3. Len(idx) = 0
    BY <2>1, <2>2
  <2> HIDE DEF idx
  <2> QED
    BY <1>1, <1>5, <2>3
<1>7. \A i \in 1 .. c : Follows(out[k][i], index[k][i], F)
  <2> SUFFICES ASSUME NEW i \in 1 .. c PROVE Follows(Outputs(k, index[k][i]), index[k][i], F)
    BY <1>4
  <2> DEFINE part == index[k][i]
             T == 1 .. m
  <2>1. part \in Seq(1 .. m)
    BY <1>4
  <2> HIDE DEF part
  <2>2. Len(Outputs(k, part)) = Len(part)
    BY <1>1, <2>1, OutputsSeq
  <2>3. part \in Seq(T)
    BY <2>1
  <2> HIDE DEF T, m
  <2>4. DOMAIN part = 1 .. Len(part) /\ \A j \in 1 .. Len(part) : part[j] \in T
    BY <2>3, LenProperties
  <2>5. \A x \in T : F[x] = mini[k][x].response
    BY DEF T
  <2> HIDE DEF F
  <2>6. \A j \in 1 .. Len(part) : Outputs(k, part)[j] = F[part[j]]
    BY <2>4, <2>5 DEF Outputs
  <2> QED
    BY <2>2, <2>6 DEF Follows, part
<1>8. data \in Seq(Responses) /\ Follows(data, idx, F)
  <2> DEFINE S == 1 .. m
  <2>1. index[k] \in [1 .. c -> Seq(S)] /\ out[k] \in [1 .. c -> Seq(Responses)] /\ c \in Nat \ {0}
    BY <1>3, <1>4, <1>6
  <2> HIDE DEF S, F
  <2> QED
    BY <1>7, <2>1, FlattenFollows
<1>9. Len(data) = m /\ \A j \in 1 .. m : data[j] = F[idx[j]]
  BY <1>5, <1>8 DEF Follows
<1>10. DOMAIN data = 1 .. m /\ DOMAIN idx = 1 .. m
  BY <1>5, <1>8, <1>9, LenProperties
<1>11. CASE setting.dynamic
  <2> DEFINE back == [i \in DOMAIN idx |-> CHOOSE j \in DOMAIN idx : idx[j] = i]
             all == [i \in DOMAIN data |-> data[back[i]]]
  <2>1. Restored(k) = all
    BY <1>11 DEF Restored, restore_dynamic_batch, get_reverse_idx
  <2> HIDE DEF data, idx, F, m
  <2>2. \A i \in 1 .. m : \E j \in 1 .. m : idx[j] = i
    BY <1>4, <1>5 DEF Lists
  <2>3. \A i \in 1 .. m : back[i] \in 1 .. m /\ idx[back[i]] = i
    <3> SUFFICES ASSUME NEW i \in 1 .. m PROVE back[i] \in 1 .. m /\ idx[back[i]] = i
      OBVIOUS
    <3>1. back[i] = CHOOSE j \in 1 .. m : idx[j] = i
      BY <1>10
    <3> QED
      BY <2>2, <3>1
  <2> HIDE DEF back
  <2>4. \A i \in 1 .. m : all[i] = F[i]
    BY <1>9, <1>10, <2>3
  <2>5. all = [i \in 1 .. m |-> all[i]]
    BY <1>10
  <2>6. all = [i \in 1 .. m |-> F[i]]
    <3> HIDE DEF all
    <3> QED
      BY <2>4, <2>5
  <2> QED
    BY <2>1, <2>6 DEF F, m
<1>12. CASE ~setting.dynamic
  <2>1. Restored(k) = data
    BY <1>12 DEF Restored
  <2>2. idx = [i \in 1 .. m |-> i]
    BY <1>2, <1>12
  <2> HIDE DEF data, idx, F, m
  <2>3. \A i \in 1 .. m : data[i] = F[i]
    BY <1>9, <2>2
  <2>4. data = [i \in 1 .. m |-> data[i]]
    BY <1>8, <1>9, LenProperties
  <2>5. data = [i \in 1 .. m |-> F[i]]
    BY <2>3, <2>4
  <2> QED
    BY <2>1, <2>5 DEF F, m
<1> QED
  BY <1>11, <1>12

-----------------------------------------------------------------------------
(* collect_nd_compute: one answer of every rank, in the order of the ranks. *)

FirstProcess(q) == (q - 1) * GroupSize + 1

LEMMA FirstProcesses ==
  /\ \A q \in Nat \ {0} : /\ FirstProcess(q) \in Nat \ {0} /\ RankOf(FirstProcess(q)) = q
                          /\ Answering(FirstProcess(q))
  /\ \A q, r \in Nat \ {0} : q < r => FirstProcess(q) < FirstProcess(r)
  /\ \A p \in Processes : Answering(p) => \E q \in RankIds : p = FirstProcess(q)
  /\ \A q \in RankIds : FirstProcess(q) \in Processes
<1>1. GroupSize \in Nat \ {0} /\ Ranks \in Nat \ {0} /\ RankIds = 1 .. Ranks
  BY BatchAssumption DEF RankIds
<1>2. \A q \in Nat \ {0} : q - 1 \in Nat /\ (q - 1) * GroupSize \in Nat
  BY <1>1
<1>3. ASSUME NEW q \in Nat \ {0}
      PROVE  /\ FirstProcess(q) \in Nat \ {0} /\ RankOf(FirstProcess(q)) = q
             /\ Answering(FirstProcess(q))
  <2> DEFINE a == q - 1
             b == a * GroupSize
  <2>1. a \in Nat /\ b \in Nat /\ FirstProcess(q) = b + 1
    BY <1>2 DEF FirstProcess
  <2>2. b \div GroupSize = a /\ b % GroupSize = 0
    <3> HIDE DEF a
    <3> QED
      BY <1>1, <2>1
  <2>3. a + 1 = q
    OBVIOUS
  <2> HIDE DEF a, b
  <2>4. FirstProcess(q) - 1 = b /\ FirstProcess(q) \in Nat \ {0}
    BY <2>1
  <2> QED
    BY <2>2, <2>3, <2>4 DEF RankOf, Answering
<1>4. ASSUME NEW q \in Nat \ {0}, NEW r \in Nat \ {0}, q < r PROVE FirstProcess(q) < FirstProcess(r)
  <2>1. q - 1 \in Nat /\ r - 1 \in Nat /\ q - 1 < r - 1
    BY <1>4
  <2>2. (q - 1) * GroupSize < (r - 1) * GroupSize /\ (q - 1) * GroupSize \in Nat /\ (r - 1) * GroupSize \in Nat
    BY <1>1, <2>1, Products
  <2> QED
    BY <2>2 DEF FirstProcess
<1>5. ASSUME NEW p \in Processes, Answering(p) PROVE \E q \in RankIds : p = FirstProcess(q)
  <2> DEFINE a == p - 1
             q == a \div GroupSize
  <2>1. a \in Nat /\ a < Ranks * GroupSize /\ a % GroupSize = 0 /\ p = a + 1
    BY <1>1, <1>5 DEF Processes, Answering
  <2> HIDE DEF a
  <2>2. q \in Nat /\ q < Ranks /\ a = q * GroupSize
    BY <1>1, <2>1, DivBelow
  <2> HIDE DEF q
  <2>3. q + 1 \in RankIds /\ (q + 1) - 1 = q
    BY <1>1, <2>2
  <2>4. p = FirstProcess(q + 1)
    BY <2>1, <2>2, <2>3 DEF FirstProcess
  <2> QED
    BY <2>3, <2>4
<1>6. ASSUME NEW q \in RankIds PROVE FirstProcess(q) \in Processes
  <2> DEFINE a == q - 1
             b == a * GroupSize
             c == Ranks * GroupSize
  <2>1. a \in Nat /\ a + 1 <= Ranks /\ FirstProcess(q) = b + 1
    BY <1>1 DEF FirstProcess
  <2> HIDE DEF a
  <2>2. (a + 1) * GroupSize = b + GroupSize /\ (a + 1) * GroupSize <= c /\ b \in Nat /\ c \in Nat
    BY <1>1, <2>1, Products
  <2> HIDE DEF b, c
  <2>3. b + 1 \in 1 .. c
    BY <1>1, <2>2
  <2> QED
    BY <2>1, <2>3 DEF Processes, c
<1> QED
  BY <1>3, <1>4, <1>5, <1>6

LEMMA AnsweringOrder ==
  \A i \in RankIds : RankOf(Ascending({p \in Processes : Answering(p)})[i]) = i
<1> DEFINE S == {p \in Processes : Answering(p)}
           asc == Ascending(S)
           Less(x) == {y \in S : y < x}
<1>1. Ranks \in Nat \ {0} /\ RankIds = 1 .. Ranks
  BY RankIdsFacts
<1>2. /\ \A p \in S : \E q \in 1 .. Ranks : p = FirstProcess(q)
      /\ \A q \in 1 .. Ranks : FirstProcess(q) \in S
  BY <1>1, FirstProcesses
<1>3. \A q \in Nat \ {0} : FirstProcess(q) \in Nat \ {0} /\ RankOf(FirstProcess(q)) = q
  BY FirstProcesses
<1>4. \A q, r \in Nat \ {0} : q < r => FirstProcess(q) < FirstProcess(r)
  BY FirstProcesses
<1> HIDE DEF S
<1>5. \A p \in S : p \in Nat
  BY <1>2, <1>3
<1>6. ASSUME NEW n \in 0 .. Ranks, NEW U \in SUBSET S,
             \A p \in S : p \in U <=> \E r \in 1 .. n : p = FirstProcess(r)
      PROVE  IsFiniteSet(U) /\ Cardinality(U) = n
  <2> DEFINE f == [r \in 1 .. n |-> FirstProcess(r)]
  <2>1. n \in Nat /\ \A r \in 1 .. n : r \in 1 .. Ranks /\ r \in Nat \ {0}
    BY <1>1
  <2>2. \A r \in 1 .. n : f[r] \in U /\ f[r] = FirstProcess(r)
    BY <1>2, <1>6, <2>1
  <2>3. f \in [1 .. n -> U] /\ f \in Seq(U) /\ Len(f) = n
    BY <2>1, <2>2
  <2> HIDE DEF f
  <2>4. \A i, j \in 1 .. n : i # j => f[i] # f[j]
    <3> SUFFICES ASSUME NEW i \in 1 .. n, NEW j \in 1 .. n, f[i] = f[j] PROVE i = j
      OBVIOUS
    <3>1. RankOf(FirstProcess(i)) = i /\ RankOf(FirstProcess(j)) = j
      BY <1>3, <2>1
    <3> QED
      BY <2>2, <3>1
  <2>5. \A x \in U : \E i \in 1 .. n : f[i] = x
    BY <1>6, <2>2
  <2>6. Lists(f, U)
    BY <2>3, <2>4, <2>5 DEF Lists
  <2> QED
    BY <2>3, <2>6, ListsLength
<1>7. IsFiniteSet(S) /\ Cardinality(S) = Ranks
  <2>1. Ranks \in 0 .. Ranks /\ S \in SUBSET S
    BY <1>1
  <2> QED
    BY <1>2, <1>6, <2>1
<1>8. \A q \in 1 .. Ranks : Cardinality(Less(FirstProcess(q))) = q - 1
  <2> SUFFICES ASSUME NEW q \in 1 .. Ranks PROVE Cardinality(Less(FirstProcess(q))) = q - 1
    OBVIOUS
  <2> DEFINE n == q - 1
             U == Less(FirstProcess(q))
  <2>1. n \in 0 .. Ranks /\ U \in SUBSET S
    BY <1>1
  <2>2. ASSUME NEW p \in S PROVE p \in U <=> \E r \in 1 .. n : p = FirstProcess(r)
    <3>1. PICK r \in 1 .. Ranks : p = FirstProcess(r)
      BY <1>2
    <3>2. r \in Nat \ {0} /\ q \in Nat \ {0} /\ FirstProcess(r) \in Nat /\ FirstProcess(q) \in Nat
      BY <1>1, <1>3
    <3>3. CASE r < q
      <4>1. FirstProcess(r) < FirstProcess(q) /\ r \in 1 .. n
        BY <1>4, <3>2, <3>3
      <4> QED
        BY <3>1, <4>1
    <3>4. CASE ~(r < q)
      <4>1. ~(FirstProcess(r) < FirstProcess(q))
        <5>1. r = q \/ q < r
          BY <3>2, <3>4
        <5>2. q < r => FirstProcess(q) < FirstProcess(r)
          BY <1>4, <3>2
        <5> QED
          BY <3>2, <5>1, <5>2
      <4>2. \A x \in 1 .. n : p # FirstProcess(x)
        <5> SUFFICES ASSUME NEW x \in 1 .. n, FirstProcess(r) = FirstProcess(x) PROVE FALSE
          BY <3>1
        <5>1. x \in Nat \ {0} /\ x < q
          BY <3>2
        <5>2. RankOf(FirstProcess(x)) = x /\ RankOf(FirstProcess(r)) = r
          BY <1>3, <3>2, <5>1
        <5>3. x = r
          BY <5>2
        <5> QED
          BY <3>4, <5>1, <5>3
      <4> QED
        BY <3>1, <4>1, <4>2
    <3> QED
      BY <3>3, <3>4
  <2> HIDE DEF n, U
  <2>3. Cardinality(U) = n
    BY <1>6, <2>1, <2>2
  <2> QED
    BY <2>3 DEF n, U
<1>9. /\ Lists(asc, S) /\ Len(asc) = Ranks
      /\ \A i \in 1 .. Ranks : Cardinality(Less(asc[i])) = i - 1
  <2>1. S \in SUBSET Nat
    BY <1>5
  <2> QED
    BY <1>7, <2>1, AscendingLists
<1> HIDE DEF asc
<1>10. ASSUME NEW i \in 1 .. Ranks PROVE RankOf(asc[i]) = i
  <2>1. asc[i] \in S
    BY <1>1, <1>9, ListsLength
  <2>2. PICK q \in 1 .. Ranks : asc[i] = FirstProcess(q)
    BY <1>2, <2>1
  <2>3. Cardinality(Less(FirstProcess(q))) = q - 1 /\ Cardinality(Less(FirstProcess(q))) = i - 1
    BY <1>8, <1>9, <2>2
  <2>4. q = i
    BY <2>3
  <2>5. q \in Nat \ {0}
    BY <1>1
  <2> QED
    BY <1>3, <2>2, <2>4, <2>5
<1> QED
  BY <1>1, <1>10 DEF asc, S

\* The answers, joined, are in the order of the rows.
LEMMA CollectedColumn ==
  ASSUME ColumnsInv, stage = "logprob", NoRankReady
  PROVE  Collected([k \in RankIds |-> Restored(k)]) = Column(batch)
<1> DEFINE m == RowsPerRank
           answer == [k \in RankIds |-> Restored(k)]
           f == [i \in RankIds |-> answer[RankOf(Ascending({p \in Processes : Answering(p)})[i])]]
           all == Chunk(Column(batch), Ranks)
<1>1. Collected(answer) = FlattenSeq(f)
  BY DEF Collected
<1>2. Whole(batch) /\ index # None
  BY DEF ColumnsInv, RowsInv, NoRankReady
<1>3. Ranks \in Nat \ {0} /\ RankIds = 1 .. Ranks /\ m \in Nat \ {0} /\ Rows \in Nat /\ Rows = Ranks * m
  BY RankIdsFacts, Sizes
<1>4. \A i \in 1 .. Rows : Column(batch)[i] = batch[i].response /\ batch[i].response \in Responses
  BY <1>2 DEF Whole, OwnRow, Column
<1>5. Column(batch) \in Seq(Responses) /\ Len(Column(batch)) = Rows
  <2>1. Column(batch) \in [1 .. Rows -> Responses]
    BY <1>4 DEF Column
  <2> QED
    BY <1>3, <2>1
<1>6. \A k \in RankIds : \A i \in 1 .. m : /\ Place(k, m, i) \in 1 .. Rows
                                           /\ mini[k][i] = batch[Place(k, m, i)]
  <2>1. \A k \in RankIds : \A i \in 1 .. m : Place(k, m, i) \in 1 .. Rows
    BY <1>2, WholeShared
  <2>2. \A k \in RankIds : \A i \in 1 .. m : mini[k][i] = batch[Place(k, m, i)]
    BY DEF ColumnsInv, ScoreInv
  <2> QED
    BY <2>1, <2>2
<1>7. \A k \in RankIds : f[k] = Restored(k)
  BY AnsweringOrder
<1>8. f = [k \in 1 .. Ranks |-> f[k]]
  BY <1>3
<1> HIDE DEF f, answer
<1>9. ASSUME NEW k \in RankIds PROVE f[k] = [i \in 1 .. m |-> Column(batch)[Place(k, m, i)]]
  <2>1. Computed(k)
    BY <1>2 DEF ColumnsInv, ScoreInv
  <2>2. micro[k] = <<>>
    BY DEF NoRankReady
  <2>3. \A i \in 1 .. m : /\ mini[k][i].response \in Responses
                          /\ mini[k][i].response = Column(batch)[Place(k, m, i)]
    BY <1>4, <1>6
  <2>4. Restored(k) = [i \in 1 .. m |-> mini[k][i].response]
    BY <2>1, <2>2, <2>3, RestoredRows
  <2> QED
    BY <1>7, <2>3, <2>4
<1>10. /\ all \in [1 .. Ranks -> Seq(Responses)]
       /\ \A k \in 1 .. Ranks : /\ Len(all[k]) = m
                                /\ \A i \in 1 .. m : all[k][i] = Column(batch)[Place(k, m, i)]
  <2>1. Cuts(Column(batch), Ranks, m)
    BY <1>3, <1>5 DEF Cuts
  <2> HIDE DEF m
  <2>2. m \in Nat /\ Ranks \in Nat \ {0}
    BY <1>3
  <2>3. Column(batch) \in Seq(Responses)
    BY <1>5
  <2>4. /\ all \in [1 .. Ranks -> Seq(Responses)]
        /\ \A c \in 1 .. Ranks : /\ Len(all[c]) = m
                                 /\ \A i \in 1 .. m : /\ Place(c, m, i) \in 1 .. Len(Column(batch))
                                                      /\ all[c][i] = Column(batch)[Place(c, m, i)]
    BY <2>1, <2>2, <2>3, ChunkRows
  <2> HIDE DEF all
  <2> QED
    BY <2>4
<1> HIDE DEF all
<1>11. ASSUME NEW k \in 1 .. Ranks PROVE all[k] = f[k]
  <2> HIDE DEF m
  <2>1. all[k] \in Seq(Responses) /\ Len(all[k]) = m
    BY <1>10
  <2> DEFINE s == all[k]
  <2>2. s = [i \in 1 .. m |-> s[i]]
    <3>1. s \in Seq(Responses) /\ Len(s) = m
      BY <2>1
    <3> HIDE DEF s
    <3> QED
      BY <3>1, LenProperties
  <2>3. \A i \in 1 .. m : s[i] = Column(batch)[Place(k, m, i)]
    BY <1>10
  <2> HIDE DEF s
  <2>4. s = [i \in 1 .. m |-> Column(batch)[Place(k, m, i)]]
    BY <2>2, <2>3
  <2> QED
    BY <1>3, <1>9, <2>4 DEF s
<1>12. all = [k \in 1 .. Ranks |-> all[k]]
  BY <1>10
<1>13. f = all
  BY <1>8, <1>11, <1>12
<1>14. FlattenSeq(all) = Column(batch)
  <2>1. Len(Column(batch)) % Ranks = 0
    BY <1>5, BatchAssumption
  <2> QED
    BY <1>3, <1>5, <2>1, ChunkJoined DEF all
<1> QED
  BY <1>1, <1>13, <1>14 DEF answer

LEMMA CollectColumns ==
  ASSUME SettingKept, ColumnsInv, CollectLogProbs
  PROVE  ColumnsInv'
<1> DEFINE logp == Collected([k \in RankIds |-> Restored(k)])
           row(i) == [batch[i] EXCEPT !.logp = logp[i]]
<1>1. /\ stage = "logprob" /\ stage' = "advantage" /\ NoRankReady
      /\ UNCHANGED <<setting, workload, heap, share, mini, index, micro>>
      /\ batch' = [i \in DOMAIN batch |-> row(i)]
  BY DEF CollectLogProbs
<1>2. Whole(batch)
  BY <1>1 DEF ColumnsInv, RowsInv
<1>3. logp = Column(batch)
  BY <1>1, CollectedColumn
<1> HIDE DEF logp
<1>4. ASSUME NEW i \in 1 .. Rows
      PROVE  /\ DOMAIN row(i) = {"uid", "response", "logp", "adv"}
             /\ row(i).response = batch[i].response /\ row(i).uid = batch[i].uid
             /\ row(i).adv = batch[i].adv /\ row(i).logp = batch[i].response
  <2>1. DOMAIN batch[i] = {"uid", "response", "logp", "adv"}
    BY <1>2 DEF Whole, OwnRow
  <2>2. logp[i] = batch[i].response
    BY <1>3 DEF Column
  <2> QED
    BY <2>1, <2>2
<1>5. batch' = [i \in 1 .. Rows |-> row(i)]
  BY <1>1, <1>2 DEF Whole
<1> HIDE DEF row
<1>6. Whole(batch')
  <2>1. \A i \in 1 .. Rows : OwnRow(batch'[i])
    <3> SUFFICES ASSUME NEW i \in 1 .. Rows PROVE OwnRow(row(i))
      BY <1>5
    <3>1. OwnRow(batch[i])
      BY <1>2 DEF Whole
    <3> QED
      BY <1>4, <3>1 DEF OwnRow
  <2>2. Column(batch') = Column(batch)
    BY <1>4, <1>5 DEF Column
  <2> QED
    BY <1>2, <1>5, <2>1, <2>2 DEF Whole
<1>7. RowsInv'
  <2>1. Whole(batch)'
    BY <1>1, <1>6, WholeNext
  <2> QED
    BY <1>1, <2>1 DEF RowsInv
<1>8. index # None
  BY <1>1 DEF NoRankReady
<1>9. HeapInv' /\ EarlyInv' /\ DrawnInv' /\ ShareInv' /\ ScoreInv'
  BY <1>1, <1>8 DEF HeapInv, EarlyInv, DrawnInv, ShareInv, ScoreInv, Training
<1>10. LevelInv'
  BY <1>1 DEF ColumnsInv, LevelInv, Level
<1> QED
  BY <1>7, <1>9, <1>10 DEF ColumnsInv

-----------------------------------------------------------------------------
(* The scores of a group. *)

\* MapThenSumSet: the function it chooses.
Chosen(F, X) ==
  CHOOSE g : g = [s \in SUBSET X |-> IF s = {} THEN 0 ELSE F[First(s)] + g[s \ {First(s)}]]

\* h adds F up over the subsets of X, in any order.
Adds(h, F, X) ==
  /\ h[{}] = 0 /\ \A s \in SUBSET X : h[s] \in Int
  /\ \A s \in SUBSET X : \A x \in s : h[s] = F[x] + h[s \ {x}]

LEMMA ChosenAdds ==
  ASSUME NEW X, IsFiniteSet(X), NEW F \in [X -> Int]
  PROVE  Adds(Chosen(F, X), F, X)
<1> DEFINE D == SUBSET X
           Rule(g) == g = [s \in D |-> IF s = {} THEN 0 ELSE F[First(s)] + g[s \ {First(s)}]]
           h == CHOOSE g : Rule(g)
           pick == [s \in D |-> First(s)]
<1>1. Chosen(F, X) = h
  BY DEF Chosen
<1>2. \A s \in D : s # {} => First(s) \in s
  BY DEF First
<1>3. Picks(pick, X)
  BY <1>2 DEF Picks
<1>4. \A s \in D : pick[s] = First(s)
  OBVIOUS
<1> HIDE DEF pick
<1>5. PICK e : Sums(e, F, pick, X)
  BY <1>3, SumExists
<1>6. e = [s \in D |-> IF s = {} THEN 0 ELSE F[pick[s]] + e[s \ {pick[s]}]]
  BY <1>5 DEF Sums
<1> HIDE DEF D
<1>7. Rule(e)
  <2> DEFINE a == [s \in D |-> IF s = {} THEN 0 ELSE F[pick[s]] + e[s \ {pick[s]}]]
             b == [s \in D |-> IF s = {} THEN 0 ELSE F[First(s)] + e[s \ {First(s)}]]
  <2>1. \A s \in D : a[s] = b[s]
    BY <1>4
  <2>2. a = [s \in D |-> a[s]] /\ b = [s \in D |-> b[s]]
    OBVIOUS
  <2> HIDE DEF a, b
  <2>3. a = b
    BY <2>1, <2>2
  <2> QED
    BY <1>6, <2>3 DEF a, b
<1>8. Rule(h)
  <2> HIDE DEF Rule
  <2> QED
    BY <1>7
<1> HIDE DEF h
<1>9. \A s \in D : h[s] = IF s = {} THEN 0 ELSE F[First(s)] + h[s \ {First(s)}]
  BY <1>8
<1>10. SumRule(h, F, pick, X)
  BY <1>4, <1>9 DEF SumRule, D
<1>11. Adds(h, F, X)
  BY <1>3, <1>10, SumFacts DEF Adds
<1> QED
  BY <1>1, <1>11

\* b gives every element of X another name in Y.
Renames(b, X, F, Y, E) ==
  /\ b \in [X -> Y] /\ \A x \in X : F[x] = E[b[x]]
  /\ \A x, z \in X : x # z => b[x] # b[z]
  /\ \A y \in Y : \E x \in X : b[x] = y

\* A sum does not depend on the names of what is summed.
LEMMA SumMoved ==
  ASSUME NEW X, IsFiniteSet(X), NEW F \in [X -> Int], NEW Y, IsFiniteSet(Y), NEW E \in [Y -> Int],
         NEW b, Renames(b, X, F, Y, E)
  PROVE  Chosen(F, X)[X] = Chosen(E, Y)[Y]
<1> DEFINE h == Chosen(F, X)
           e == Chosen(E, Y)
<1>0. /\ b \in [X -> Y] /\ \A x \in X : F[x] = E[b[x]]
      /\ \A x, z \in X : x # z => b[x] # b[z]
      /\ \A y \in Y : \E x \in X : b[x] = y
  BY DEF Renames
<1>1. Adds(h, F, X)
  BY ChosenAdds
<1>2. Adds(e, E, Y)
  BY ChosenAdds
<1> HIDE DEF h, e
<1>3. /\ h[{}] = 0 /\ \A s \in SUBSET X : h[s] \in Int
      /\ \A s \in SUBSET X : \A x \in s : h[s] = F[x] + h[s \ {x}]
  BY <1>1 DEF Adds
<1>4. /\ e[{}] = 0 /\ \A s \in SUBSET Y : e[s] \in Int
      /\ \A s \in SUBSET Y : \A x \in s : e[s] = E[x] + e[s \ {x}]
  BY <1>2 DEF Adds
<1> DEFINE G(s) == {b[x] : x \in s}
           I == {n \in Nat : \A s \in SUBSET X : Cardinality(s) = n => h[s] = e[G(s)]}
<1>5. /\ \A s \in SUBSET X : IsFiniteSet(s) /\ Cardinality(s) \in Nat
      /\ \A s \in SUBSET X : Cardinality(s) = 0 <=> s = {}
      /\ \A s \in SUBSET X : \A x \in s : /\ s \ {x} \in SUBSET X
                                          /\ Cardinality(s \ {x}) = Cardinality(s) - 1
  BY Smaller
<1>6. 0 \in I
  <2> SUFFICES ASSUME NEW s \in SUBSET X, Cardinality(s) = 0 PROVE h[s] = e[G(s)]
    OBVIOUS
  <2>1. s = {} /\ G(s) = {}
    BY <1>5
  <2> HIDE DEF G
  <2> QED
    BY <1>3, <1>4, <2>1
<1>7. ASSUME NEW n \in Nat, n \in I PROVE n + 1 \in I
  <2> HIDE DEF G
  <2> SUFFICES ASSUME NEW s \in SUBSET X, Cardinality(s) = n + 1 PROVE h[s] = e[G(s)]
    OBVIOUS
  <2> USE DEF G
  <2>1. s # {}
    BY <1>5
  <2>2. PICK x \in s : TRUE
    BY <2>1
  <2> DEFINE t == s \ {x}
  <2>3. t \in SUBSET X /\ Cardinality(t) = n
    BY <1>5
  <2>4. h[t] = e[G(t)]
    BY <1>7, <2>3
  <2>5. h[s] = F[x] + h[t]
    BY <1>3
  <2>6. G(s) \in SUBSET Y /\ b[x] \in G(s)
    BY <1>0
  <2>7. G(s) \ {b[x]} = G(t)
    <3>1. \A z \in s : z # x => b[z] # b[x]
      BY <1>0
    <3> QED
      BY <3>1
  <2> HIDE DEF G, t, I
  <2>8. e[G(s)] = E[b[x]] + e[G(t)]
    <3>1. \A u \in SUBSET Y : \A y \in u : e[u] = E[y] + e[u \ {y}]
      BY <1>4
    <3>2. e[G(s)] = E[b[x]] + e[G(s) \ {b[x]}]
      BY <2>6, <3>1
    <3> QED
      BY <2>7, <3>2
  <2>9. F[x] = E[b[x]]
    BY <1>0
  <2> QED
    BY <2>4, <2>5, <2>8, <2>9
<1>8. \A n \in Nat : n \in I
  <2> HIDE DEF I
  <2> QED
    BY <1>6, <1>7, Inductive
<1>9. h[X] = e[G(X)]
  <2>1. Cardinality(X) \in Nat /\ X \in SUBSET X
    BY <1>5
  <2> HIDE DEF G
  <2> QED
    BY <1>8, <2>1
<1>10. G(X) = Y
  BY <1>0
<1> QED
  BY <1>9, <1>10 DEF h, e

\* id2score: the advantage of a row is that of its response in its group.
LEMMA OwnAdvantage ==
  ASSUME Whole(batch), NEW i \in 1 .. Rows
  PROVE  Advantage(i) = GroupAdvantage(batch[i].response)
<1> DEFINE r == batch[i].response
           X == GroupOf(i)
           Y == 1 .. N
           F == [j \in X |-> Scores[batch[j].response]]
           E == [c \in Y |-> Scores[<<r[1], c>>]]
           b == [j \in X |-> batch[j].response[2]]
           f == Chosen(F, X)[X]
           e == Chosen(E, Y)[Y]
<1>1. /\ Rows \in Nat /\ N \in Nat \ {0} /\ Scores \in [Responses -> Int]
      /\ Responses = (1 .. Prompts) \X Y
  BY Sizes, BatchAssumption DEF Responses
<1>2. DOMAIN batch = 1 .. Rows
  BY DEF Whole
<1>3. \A j \in 1 .. Rows : batch[j].response \in Responses /\ batch[j].uid = batch[j].response[1]
  BY DEF Whole, OwnRow
<1>4. /\ \A j, k \in 1 .. Rows : j # k => batch[j].response # batch[k].response
      /\ \A x \in Responses : \E j \in 1 .. Rows : batch[j].response = x
  <2>1. Lists(Column(batch), Responses)
    BY DEF Whole
  <2>2. Len(Column(batch)) = Rows /\ \A j \in 1 .. Rows : Column(batch)[j] = batch[j].response
    BY <1>1 DEF Column
  <2> QED
    BY <2>1, <2>2 DEF Lists
<1>5. \A j : j \in X <=> j \in 1 .. Rows /\ batch[j].response[1] = r[1]
  BY <1>2, <1>3 DEF GroupOf
<1> HIDE DEF X
<1>6. r \in Responses /\ r[1] \in 1 .. Prompts
  BY <1>1, <1>3
<1>7. \A j \in X : batch[j].response = <<r[1], b[j]>> /\ b[j] \in Y
  <2> SUFFICES ASSUME NEW j \in X PROVE batch[j].response = <<r[1], b[j]>> /\ b[j] \in Y
    OBVIOUS
  <2> DEFINE x == batch[j].response
  <2>1. x \in (1 .. Prompts) \X Y /\ x[1] = r[1] /\ b[j] = x[2]
    BY <1>1, <1>3, <1>5
  <2> HIDE DEF x, b, r
  <2>2. x = <<x[1], x[2]>> /\ x[2] \in Y
    BY <2>1
  <2> QED
    BY <2>1, <2>2 DEF x
<1>8. DOMAIN b = X /\ b = [j \in X |-> b[j]]
  OBVIOUS
<1>9. /\ \A j \in X : F[j] = Scores[<<r[1], b[j]>>]
      /\ \A c \in Y : E[c] = Scores[<<r[1], c>>] /\ <<r[1], c>> \in Responses
  <2>1. \A c \in Y : <<r[1], c>> \in Responses
    BY <1>1, <1>6
  <2> HIDE DEF r, b
  <2> QED
    BY <1>7, <2>1
<1>10. F = [j \in X |-> F[j]] /\ E = [c \in Y |-> E[c]] /\ IsFiniteSet(Y) /\ Cardinality(Y) = N
  BY <1>1, FS_Interval
<1>11. \A c \in Y : \E j \in X : b[j] = c
  <2> SUFFICES ASSUME NEW c \in Y PROVE \E j \in X : b[j] = c
    OBVIOUS
  <2>1. PICK j \in 1 .. Rows : batch[j].response = <<r[1], c>>
    BY <1>4, <1>9
  <2>2. j \in X /\ batch[j].response[2] = c
    BY <1>5, <2>1
  <2> QED
    BY <2>2
<1> HIDE DEF b, Y
<1>12. b \in [X -> Y]
  BY <1>7, <1>8
<1>13. \A j, k \in X : j # k => b[j] # b[k]
  <2> SUFFICES ASSUME NEW j \in X, NEW k \in X, b[j] = b[k] PROVE j = k
    OBVIOUS
  <2>1. batch[j].response = batch[k].response
    BY <1>7
  <2> QED
    BY <1>4, <1>5, <2>1
<1>14. IsFiniteSet(X) /\ Cardinality(X) = N
  <2>1. b \in Bijection(X, Y)
    BY <1>11, <1>12, <1>13 DEF Bijection, Injection, Surjection, IsInjective
  <2>2. IsFiniteSet(X)
    BY <1>10, <2>1, FS_Injection DEF Bijection
  <2>3. ExistsBijection(X, Y)
    BY <2>1 DEF ExistsBijection
  <2> QED
    BY <1>10, <2>2, <2>3, FS_Bijection
<1>15. f = e
  <2>1. \A j \in X : F[j] = E[b[j]]
    BY <1>7, <1>9
  <2>2. F \in [X -> Int] /\ E \in [Y -> Int]
    <3> HIDE DEF F, E, r
    <3>1. \A j \in X : F[j] \in Int
      BY <1>1, <1>7, <1>9
    <3>2. \A c \in Y : E[c] \in Int
      BY <1>1, <1>9
    <3> QED
      BY <1>10, <3>1, <3>2
  <2> HIDE DEF F, E
  <2>3. Renames(b, X, F, Y, E)
    BY <1>11, <1>12, <1>13, <2>1 DEF Renames
  <2> QED
    BY <1>10, <1>14, <2>2, <2>3, SumMoved
<1> DEFINE score(j) == Scores[batch[j].response]
           total(x) == SumOver(score, x)
<1>16. total(X) = f
  <2> DEFINE P(g) == g = [s \in SUBSET X |-> IF s = {} THEN 0 ELSE score(First(s)) + g[s \ {First(s)}]]
             Q(g) == g = [s \in SUBSET X |-> IF s = {} THEN 0 ELSE F[First(s)] + g[s \ {First(s)}]]
  <2>1. total(X) = (CHOOSE g : P(g))[X]
    BY DEF SumOver, MapThenSumSet, MapThenFoldSet, First
  <2>2. f = (CHOOSE g : Q(g))[X]
    BY DEF Chosen
  <2>3. ASSUME NEW g PROVE P(g) <=> Q(g)
    <3> DEFINE u == [s \in SUBSET X |-> IF s = {} THEN 0 ELSE score(First(s)) + g[s \ {First(s)}]]
               v == [s \in SUBSET X |-> IF s = {} THEN 0 ELSE F[First(s)] + g[s \ {First(s)}]]
    <3>1. \A s \in SUBSET X : s # {} => First(s) \in X
      BY DEF First
    <3>2. \A s \in SUBSET X : u[s] = v[s]
      BY <3>1
    <3>3. u = [s \in SUBSET X |-> u[s]] /\ v = [s \in SUBSET X |-> v[s]]
      OBVIOUS
    <3> HIDE DEF u, v
    <3>4. u = v
      BY <3>2, <3>3
    <3> QED
      BY <3>4 DEF u, v
  <2> HIDE DEF P, Q, f, total
  <2>4. (CHOOSE g : P(g)) = (CHOOSE g : Q(g))
    BY <2>3
  <2> QED
    BY <2>1, <2>2, <2>4
<1>17. SumOver(LAMBDA c : Scores[<<r[1], c>>], Y) = e
  <2> DEFINE P(g) == g = [s \in SUBSET Y |-> IF s = {} THEN 0 ELSE Scores[<<r[1], First(s)>>] + g[s \ {First(s)}]]
             Q(g) == g = [s \in SUBSET Y |-> IF s = {} THEN 0 ELSE E[First(s)] + g[s \ {First(s)}]]
  <2>1. SumOver(LAMBDA c : Scores[<<r[1], c>>], Y) = (CHOOSE g : P(g))[Y]
    BY DEF SumOver, MapThenSumSet, MapThenFoldSet, First
  <2>2. e = (CHOOSE g : Q(g))[Y]
    BY DEF Chosen
  <2>3. ASSUME NEW g PROVE P(g) <=> Q(g)
    <3> DEFINE u == [s \in SUBSET Y |-> IF s = {} THEN 0 ELSE Scores[<<r[1], First(s)>>] + g[s \ {First(s)}]]
               v == [s \in SUBSET Y |-> IF s = {} THEN 0 ELSE E[First(s)] + g[s \ {First(s)}]]
    <3>1. \A s \in SUBSET Y : s # {} => First(s) \in Y
      BY DEF First
    <3>2. \A s \in SUBSET Y : u[s] = v[s]
      BY <3>1
    <3>3. u = [s \in SUBSET Y |-> u[s]] /\ v = [s \in SUBSET Y |-> v[s]]
      OBVIOUS
    <3> HIDE DEF u, v
    <3>4. u = v
      BY <3>2, <3>3
    <3> QED
      BY <3>4 DEF u, v
  <2> HIDE DEF P, Q, e
  <2>4. (CHOOSE g : P(g)) = (CHOOSE g : Q(g))
    BY <2>3
  <2> QED
    BY <2>1, <2>2, <2>4
<1> DEFINE own == IF N = 1 THEN [num |-> Scores[r], den |-> 1]
                  ELSE [num |-> N * Scores[r] - f, den |-> IF setting.estimator = "grpo" THEN N ELSE N - 1]
<1>18. Advantage(i) = own
  BY <1>14, <1>16 DEF Advantage, X
<1>19. GroupAdvantage(r) = own
  BY <1>15, <1>17 DEF GroupAdvantage, Y
<1> QED
  BY <1>18, <1>19

LEMMA AdvantageColumns ==
  ASSUME SettingKept, ColumnsInv, ComputeAdvantage
  PROVE  ColumnsInv'
<1> DEFINE row(i) == [batch[i] EXCEPT !.adv = Advantage(i)]
           rows == [i \in DOMAIN batch |-> row(i)]
<1>1. /\ stage = "advantage" /\ stage' = "critic"
      /\ UNCHANGED <<setting, workload, heap, mini, index, micro, out>>
      /\ batch' = Listed(rows) /\ share' = Chunk(batch', Ranks)
  BY DEF ComputeAdvantage, StartTraining
<1>2. Whole(batch) /\ Rows \in Nat
  BY <1>1, Sizes DEF ColumnsInv, RowsInv
<1>3. ASSUME NEW i \in 1 .. Rows
      PROVE  /\ DOMAIN row(i) = {"uid", "response", "logp", "adv"}
             /\ row(i).response = batch[i].response /\ row(i).uid = batch[i].uid
             /\ row(i).logp = batch[i].logp /\ row(i).adv = GroupAdvantage(batch[i].response)
  <2>1. DOMAIN batch[i] = {"uid", "response", "logp", "adv"}
    BY <1>2 DEF Whole, OwnRow
  <2>2. Advantage(i) = GroupAdvantage(batch[i].response)
    BY <1>2, OwnAdvantage
  <2> QED
    BY <2>1, <2>2
<1>4. rows = [i \in 1 .. Rows |-> row(i)]
  BY <1>2 DEF Whole
<1> HIDE DEF row, rows
<1>5. batch' = rows
  <2> DEFINE T == {row(i) : i \in 1 .. Rows}
  <2>1. rows \in [1 .. Rows -> T]
    BY <1>4
  <2> HIDE DEF T
  <2> QED
    BY <1>1, <1>2, <2>1, ListedFcn
<1>6. Whole(batch')
  <2>1. \A i \in 1 .. Rows : OwnRow(batch'[i])
    <3> SUFFICES ASSUME NEW i \in 1 .. Rows PROVE OwnRow(row(i))
      BY <1>4, <1>5
    <3>1. OwnRow(batch[i])
      BY <1>2 DEF Whole
    <3> QED
      BY <1>3, <3>1 DEF OwnRow
  <2>2. Column(batch') = Column(batch)
    BY <1>3, <1>4, <1>5 DEF Column
  <2> QED
    BY <1>2, <1>4, <1>5, <2>1, <2>2 DEF Whole
<1>7. RowsInv'
  <2>1. Whole(batch)'
    BY <1>1, <1>6, WholeNext
  <2> QED
    BY <1>1, <2>1 DEF RowsInv
<1>8. ShareInv'
  BY <1>1, <1>6, WholeShared DEF ShareInv
<1>9. HeapInv' /\ EarlyInv' /\ ScoreInv'
  BY <1>1 DEF HeapInv, EarlyInv, ScoreInv
<1>10. DrawnInv'
  BY <1>1 DEF ColumnsInv, DrawnInv, Drawn
<1>11. LevelInv'
  BY <1>1 DEF ColumnsInv, LevelInv, Level
<1> QED
  BY <1>7, <1>8, <1>9, <1>10, <1>11 DEF ColumnsInv

LEMMA ColumnsInvariance == Spec => []ColumnsInv
<1>1. SettingKept /\ ColumnsInv /\ [Next]_vars => ColumnsInv'
  <2> SUFFICES ASSUME SettingKept, ColumnsInv, [Next]_vars PROVE ColumnsInv'
    OBVIOUS
  <2>1. CASE GenerateSequences
    BY <2>1, GenerateColumns
  <2>2. CASE BalanceBatch
    BY <2>2, BalanceColumns
  <2>3. CASE MergeStates
    BY <2>3, MergeColumns
  <2>4. CASE Reorder
    BY <2>4, ReorderColumns
  <2>5. CASE PrepareMicroBatches
    BY <2>5, PrepareColumns
  <2>6. CASE ComputeLogProb
    BY <2>6, ComputeColumns
  <2>7. CASE CollectLogProbs
    BY <2>7, CollectColumns
  <2>8. CASE ComputeAdvantage
    BY <2>8, AdvantageColumns
  <2>9. CASE DrawMiniBatch
    BY <2>9, DrawColumns
  <2>10. CASE TrainMicroBatch
    BY <2>10, TrainColumns
  <2>11. CASE NextEpoch \/ CriticUpdated \/ ActorUpdated
    BY <2>11, TrainingColumns
  <2>12. CASE Done \/ UNCHANGED vars
    BY <2>12, StutterColumns DEF Done
  <2> QED
    BY <2>1, <2>2, <2>3, <2>4, <2>5, <2>6, <2>7, <2>8, <2>9, <2>10, <2>11, <2>12 DEF Next
<1> QED
  BY <1>1, InitColumns, SettingInvariance, PTL DEF Spec

\* union, reorder, restore_dynamic_batch, collect and compute_advantage: every
\* response is in the batch once, next to its own prompt, its own log
\* probability and the advantage of its own group, for every number of prompts,
\* responses and ranks, every lengths of the responses and either kind of
\* micro-batches.
THEOREM ColumnsKept == Spec => []OwnColumns
<1>1. ColumnsInv => OwnColumns
  <2> SUFFICES ASSUME ColumnsInv PROVE OwnColumns
    OBVIOUS
  <2>1. CASE stage = "generate"
    <3>1. batch = <<>>
      BY <2>1 DEF ColumnsInv, RowsInv
    <3> QED
      BY <2>1, <3>1 DEF OwnColumns
  <2>2. CASE stage # "generate"
    <3>1. Whole(batch)
      BY <2>2 DEF ColumnsInv, RowsInv
    <3>2. DOMAIN batch = 1 .. Rows /\ \A i \in 1 .. Rows : OwnRow(batch[i])
      BY <3>1 DEF Whole
    <3>3. {batch[i].response : i \in DOMAIN batch} = Responses
      <4>1. Lists(Column(batch), Responses)
        BY <3>1 DEF Whole
      <4>2. Len(Column(batch)) = Rows /\ \A i \in 1 .. Rows : Column(batch)[i] = batch[i].response
        BY Sizes DEF Column
      <4>3. \A x \in Responses : \E i \in 1 .. Rows : batch[i].response = x
        BY <4>1, <4>2 DEF Lists
      <4> QED
        BY <3>2, <4>3 DEF OwnRow
    <3> QED
      BY <3>2, <3>3 DEF OwnColumns, OwnRow
  <2> QED
    BY <2>1, <2>2
<1> QED
  BY <1>1, ColumnsInvariance, PTL

\* rearrange_micro_batches: at every step all ranks have equally many
\* micro-batches left, none of them empty: no rank waits in a collective call
\* for one that has nothing left to run.
THEOREM RanksInLockstep == Spec => []Lockstep
<1>1. ColumnsInv => Lockstep
  <2> SUFFICES ASSUME ColumnsInv, index # None, NEW j \in RankIds, NEW k \in RankIds
               PROVE  Len(micro[j]) = Len(micro[k]) /\ \A i \in DOMAIN micro[k] : micro[k][i] # <<>>
    BY DEF Lockstep
  <2> DEFINE T == Seq(Nat) \ {<<>>}
  <2>1. PICK c \in Nat : \A r \in RankIds : micro[r] \in Seq(T) /\ Len(micro[r]) = c
    BY DEF ColumnsInv, LevelInv, Level
  <2>2. Len(micro[j]) = Len(micro[k]) /\ micro[k] \in Seq(T)
    BY <2>1
  <2>3. \A i \in DOMAIN micro[k] : micro[k][i] \in T
    <3> HIDE DEF T
    <3> QED
      BY <2>2
  <2> QED
    BY <2>2, <2>3
<1> QED
  BY <1>1, ColumnsInvariance, PTL

==============================================================================

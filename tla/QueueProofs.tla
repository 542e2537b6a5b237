----------------------------- MODULE QueueProofs -----------------------------
(***************************************************************************)
(* The message queue actor, for every size of the queue, number of         *)
(* consumers and bound on the puts: nothing unaccounted for, nothing out   *)
(* of order, no consumer asleep beside a sample.                           *)
(***************************************************************************)
EXTENDS MessageQueue, FiniteSetTheorems, TLAPS

QueueTypes ==
    /\ queue \in Seq(Nat) /\ Len(queue) <= MaxQueueSize
    /\ running \in BOOLEAN
    /\ total_produced \in Nat /\ total_consumed \in Nat /\ dropped_samples \in Nat
    /\ cleared \in Nat /\ last_out \in Nat
    /\ getter \in [Consumers -> GetterStates] /\ result \in [Consumers -> Nat]
    /\ total_produced <= MaxProduced

\* Ascending samples above low, up to high.
Ordered(q, low, high) ==
    /\ \A i, j \in 1..Len(q) : i < j => q[i] < q[j]
    /\ \A i \in 1..Len(q) : low < q[i] /\ q[i] <= high

\* What was handed out or queued was produced, in this order.
Produced == last_out <= total_produced /\ Ordered(queue, last_out, total_produced)

QueueInvariant == QueueTypes /\ Accounting /\ Produced /\ NoLostWakeup

-----------------------------------------------------------------------------
(* The two ends of the deque. *)

LEMMA TailOrdered ==
  ASSUME NEW q \in Seq(Nat), NEW low \in Nat, NEW high \in Nat, q # <<>>, Ordered(q, low, high)
  PROVE  /\ Tail(q) \in Seq(Nat) /\ Len(Tail(q)) = Len(q) - 1 /\ Len(q) >= 1
         /\ Head(q) \in Nat /\ low < Head(q) /\ Head(q) <= high
         /\ Ordered(Tail(q), Head(q), high) /\ Ordered(Tail(q), low, high)
<1> DEFINE t == Tail(q)
<1>1. /\ t \in Seq(Nat) /\ Len(t) = Len(q) - 1 /\ Len(t) \in Nat /\ Len(q) \in Nat /\ Len(q) >= 1
      /\ Head(q) = q[1] /\ \A i \in 1..Len(t) : t[i] = q[i + 1]
  OBVIOUS
<1>2. \A i \in 1..Len(q) : q[i] \in Nat /\ low < q[i] /\ q[i] <= high
  BY DEF Ordered
<1>3. 1 \in 1..Len(q) /\ q[1] \in Nat /\ low < q[1] /\ q[1] <= high
  BY <1>1, <1>2
<1> HIDE DEF t
<1>4. ASSUME NEW i \in 1..Len(t)
      PROVE  /\ i \in 1..Len(q) /\ i + 1 \in 1..Len(q) /\ t[i] = q[i + 1]
             /\ q[1] < t[i] /\ low < t[i] /\ t[i] <= high
  <2>1. i \in 1..Len(q) /\ i + 1 \in 1..Len(q) /\ t[i] = q[i + 1]
    <3>1. i \in Nat /\ 1 <= i /\ i <= Len(t)
      BY <1>1
    <3>2. i <= Len(q) - 1
      BY <1>1, <3>1
    <3>3. t[i] = q[i + 1]
      BY <1>1
    <3> QED
      BY <1>1, <3>1, <3>2, <3>3
  <2>2. q[1] < q[i + 1]
    BY <1>3, <2>1 DEF Ordered
  <2>3. low < q[i + 1] /\ q[i + 1] <= high
    BY <1>2, <2>1
  <2> QED
    BY <2>1, <2>2, <2>3
<1>5. ASSUME NEW i \in 1..Len(t), NEW j \in 1..Len(t), i < j PROVE t[i] < t[j]
  <2>1. i + 1 \in 1..Len(q) /\ j + 1 \in 1..Len(q) /\ t[i] = q[i + 1] /\ t[j] = q[j + 1]
    BY <1>4
  <2>2. i + 1 < j + 1
    BY <1>5
  <2>3. q[i + 1] < q[j + 1]
    BY <2>1, <2>2 DEF Ordered
  <2> QED
    BY <2>1, <2>3
<1>6. Ordered(t, q[1], high) /\ Ordered(t, low, high)
  BY <1>4, <1>5 DEF Ordered
<1> QED
  BY <1>1, <1>3, <1>6 DEF t

LEMMA AppendOrdered ==
  ASSUME NEW q \in Seq(Nat), NEW low \in Nat, NEW high \in Nat, low <= high, Ordered(q, low, high)
  PROVE  /\ Append(q, high + 1) \in Seq(Nat) /\ Len(Append(q, high + 1)) = Len(q) + 1
         /\ Ordered(Append(q, high + 1), low, high + 1)
<1> DEFINE a == Append(q, high + 1)
<1>1. /\ a \in Seq(Nat) /\ Len(a) = Len(q) + 1 /\ Len(a) \in Nat /\ Len(q) \in Nat
      /\ a[Len(q) + 1] = high + 1 /\ \A i \in 1..Len(q) : a[i] = q[i]
  OBVIOUS
<1>2. \A i \in 1..Len(q) : q[i] \in Nat /\ low < q[i] /\ q[i] <= high
  BY DEF Ordered
<1> HIDE DEF a
<1>3. ASSUME NEW i \in 1..Len(a)
      PROVE  \/ i \in 1..Len(q) /\ a[i] = q[i] /\ a[i] \in Nat /\ low < a[i] /\ a[i] <= high
             \/ i = Len(q) + 1 /\ a[i] = high + 1
  <2>1. i \in 1..Len(q) \/ i = Len(q) + 1
    BY <1>1
  <2>2. CASE i \in 1..Len(q)
    BY <1>1, <1>2, <2>2
  <2>3. CASE i = Len(q) + 1
    BY <1>1, <2>3
  <2> QED
    BY <2>1, <2>2, <2>3
<1>4. ASSUME NEW i \in 1..Len(a), NEW j \in 1..Len(a), i < j PROVE a[i] < a[j]
  <2>1. i \in 1..Len(q) /\ a[i] = q[i] /\ a[i] \in Nat /\ a[i] <= high
    <3>1. i \in Nat /\ j \in Nat /\ j <= Len(a)
      BY <1>1
    <3>2. i # Len(q) + 1
      BY <1>1, <1>4, <3>1
    <3> QED
      BY <1>3, <3>2
  <2>2. CASE j \in 1..Len(q) /\ a[j] = q[j]
    <3>1. q[i] < q[j]
      BY <1>4, <2>1, <2>2 DEF Ordered
    <3> QED
      BY <2>1, <2>2, <3>1
  <2>3. CASE a[j] = high + 1
    BY <2>1, <2>3
  <2> QED
    BY <1>3, <2>2, <2>3
<1>5. \A i \in 1..Len(a) : low < a[i] /\ a[i] <= high + 1
  BY <1>3
<1> QED
  BY <1>1, <1>4, <1>5 DEF Ordered, a

\* put_sample loses at most the oldest sample, counts it, and keeps the bound.
LEMMA PutFacts ==
  ASSUME NEW q \in Seq(Nat), NEW low \in Nat, NEW high \in Nat, low <= high,
         Ordered(q, low, high), NEW n \in Nat \ {0}, Len(q) <= n
  PROVE  /\ PutSample(q, high + 1, n) \in Seq(Nat)
         /\ Len(PutSample(q, high + 1, n)) <= n
         /\ Cardinality(PutDrops(q, n)) \in Nat
         /\ Len(PutSample(q, high + 1, n)) + Cardinality(PutDrops(q, n)) = Len(q) + 1
         /\ Ordered(PutSample(q, high + 1, n), low, high + 1)
<1> DEFINE put == PutSample(q, high + 1, n)
           drops == Cardinality(PutDrops(q, n))
<1>1. CASE QueueFull(q, n)
  <2>1. q # <<>>
    BY <1>1 DEF QueueFull
  <2>2. /\ Tail(q) \in Seq(Nat) /\ Len(Tail(q)) = Len(q) - 1 /\ Len(q) >= 1
        /\ Ordered(Tail(q), low, high)
    BY <2>1, TailOrdered
  <2>3. drops = 1
    BY <1>1, FS_Singleton DEF PutDrops
  <2>4. put = Append(Tail(q), high + 1)
    BY <1>1 DEF PutSample
  <2>5. put \in Seq(Nat) /\ Len(put) = Len(Tail(q)) + 1 /\ Ordered(put, low, high + 1)
    BY <2>2, <2>4, AppendOrdered
  <2> HIDE DEF put, drops
  <2> QED
    BY <2>2, <2>3, <2>5 DEF put, drops
<1>2. CASE ~QueueFull(q, n)
  <2>1. Len(q) < n /\ put = Append(q, high + 1)
    BY <1>2 DEF QueueFull, PutSample
  <2>2. drops = 0
    BY <1>2, FS_EmptySet DEF PutDrops
  <2>3. put \in Seq(Nat) /\ Len(put) = Len(q) + 1 /\ Ordered(put, low, high + 1)
    BY <2>1, AppendOrdered
  <2> HIDE DEF put, drops
  <2> QED
    BY <2>1, <2>2, <2>3 DEF put, drops
<1> QED
  BY <1>1, <1>2

-----------------------------------------------------------------------------
LEMMA QueueInit == Init => QueueInvariant
<1> SUFFICES ASSUME Init PROVE QueueInvariant
  OBVIOUS
<1>1. QueueTypes
  BY MessageQueueAssumption DEF Init, QueueTypes, GetterStates, Closed
<1>2. Accounting /\ Produced /\ NoLostWakeup
  BY DEF Init, Accounting, Produced, Ordered, NoLostWakeup
<1> QED
  BY <1>1, <1>2 DEF QueueInvariant

LEMMA PutKeeps == QueueInvariant /\ PutSampleCall => QueueInvariant'
<1> SUFFICES ASSUME QueueInvariant, PutSampleCall PROVE QueueInvariant'
  OBVIOUS
<1>t. QueueTypes /\ MaxQueueSize \in Nat \ {0} /\ MaxProduced \in Nat
  BY MessageQueueAssumption DEF QueueInvariant
<1> DEFINE drops == Cardinality(PutDrops(queue, MaxQueueSize))
<1>1. /\ queue' \in Seq(Nat) /\ Len(queue') <= MaxQueueSize /\ drops \in Nat
      /\ Len(queue') + drops = Len(queue) + 1
      /\ Ordered(queue', last_out, total_produced + 1)
  <2>1. queue' = PutSample(queue, total_produced + 1, MaxQueueSize)
    BY DEF PutSampleCall
  <2> QED
    BY <1>t, <2>1, PutFacts DEF QueueInvariant, QueueTypes, Produced
<1>2. dropped_samples' = dropped_samples + drops /\ total_produced' = total_produced + 1
      /\ UNCHANGED <<running, total_consumed, result, cleared, last_out>>
  BY DEF PutSampleCall
<1> HIDE DEF drops
<1>3. QueueTypes'
  <2>1. getter' \in [Consumers -> GetterStates]
    BY <1>t DEF QueueTypes, PutSampleCall, NotifyConsumers, GetterStates
  <2>2. total_produced' \in Nat /\ total_produced' <= MaxProduced
    BY <1>t DEF QueueTypes, PutSampleCall
  <2> QED
    BY <1>t, <1>1, <1>2, <2>1, <2>2 DEF QueueTypes
<1>4. Accounting'
  BY <1>t, <1>1, <1>2 DEF QueueInvariant, QueueTypes, Accounting
<1>5. Produced'
  BY <1>t, <1>1, <1>2 DEF QueueInvariant, QueueTypes, Produced
<1>6. NoLostWakeup'
  BY <1>t DEF PutSampleCall, NotifyConsumers, NoLostWakeup, QueueTypes
<1> QED
  BY <1>3, <1>4, <1>5, <1>6 DEF QueueInvariant

LEMMA GetKeeps ==
  ASSUME QueueInvariant, NEW c \in Consumers, GetSampleReturn(c)
  PROVE  QueueInvariant'
<1>t. QueueTypes
  BY DEF QueueInvariant
<1>1. /\ queue' \in Seq(Nat) /\ Len(queue') = Len(queue) - 1 /\ Len(queue) >= 1
      /\ last_out' \in Nat /\ last_out' <= total_produced
      /\ Ordered(queue', last_out', total_produced)
      /\ result' = [result EXCEPT ![c] = last_out']
  BY <1>t, TailOrdered DEF QueueInvariant, QueueTypes, Produced, GetSampleReturn
<1>2. /\ total_consumed' = total_consumed + 1 /\ getter' = [getter EXCEPT ![c] = "idle"]
      /\ UNCHANGED <<running, total_produced, dropped_samples, cleared>>
  BY DEF GetSampleReturn
<1>3. QueueTypes'
  <2>1. result' \in [Consumers -> Nat] /\ getter' \in [Consumers -> GetterStates]
    BY <1>t, <1>1, <1>2 DEF QueueTypes, GetterStates
  <2> QED
    BY <1>t, <1>1, <1>2, <2>1, MessageQueueAssumption DEF QueueTypes
<1>4. Accounting'
  BY <1>t, <1>1, <1>2 DEF QueueInvariant, QueueTypes, Accounting
<1>5. Produced'
  BY <1>1, <1>2 DEF Produced
<1>6. NoLostWakeup'
  BY <1>t, <1>1, <1>2 DEF QueueInvariant, QueueTypes, NoLostWakeup
<1> QED
  BY <1>3, <1>4, <1>5, <1>6 DEF QueueInvariant

LEMMA QueueStepKeeps == QueueInvariant /\ [Next]_vars => QueueInvariant'
<1> SUFFICES ASSUME QueueInvariant, [Next]_vars PROVE QueueInvariant'
  OBVIOUS
<1> USE DEF QueueInvariant, QueueTypes, Accounting, Produced, NoLostWakeup, GetterStates
<1>1. CASE PutSampleCall
  BY <1>1, PutKeeps
<1>2. ASSUME NEW c \in Consumers, GetSampleCall(c) PROVE QueueInvariant'
  BY <1>2 DEF GetSampleCall
<1>3. ASSUME NEW c \in Consumers, GetSampleWait(c) PROVE QueueInvariant'
  BY <1>3 DEF GetSampleWait
<1>4. ASSUME NEW c \in Consumers, GetSampleReturn(c) PROVE QueueInvariant'
  BY <1>4, GetKeeps
<1>5. ASSUME NEW c \in Consumers, GetSampleClosed(c) PROVE QueueInvariant'
  BY <1>5 DEF GetSampleClosed, Closed
<1>6. CASE ClearQueue
  <2>1. Len(<<>>) = 0 /\ Ordered(<<>>, last_out, total_produced) /\ <<>> \in Seq(Nat)
    BY DEF Ordered
  <2> QED
    BY <1>6, <2>1, MessageQueueAssumption DEF ClearQueue
<1>7. CASE Shutdown
  BY <1>7 DEF Shutdown, NotifyConsumers
<1>8. CASE UNCHANGED vars
  BY <1>8 DEF vars
<1> QED
  BY <1>1, <1>2, <1>3, <1>4, <1>5, <1>6, <1>7, <1>8 DEF Next

LEMMA QueueSafe == Spec => []QueueInvariant
  BY QueueInit, QueueStepKeeps, PTL DEF Spec

-----------------------------------------------------------------------------
\* The counters of get_statistics account for every sample that was put.
THEOREM EverySampleCounted == Spec => []Accounting
<1>1. QueueInvariant => Accounting
  BY DEF QueueInvariant
<1> QED
  BY <1>1, QueueSafe, PTL

\* Samples are consumed in the order of their production, drops and clears and
\* concurrent consumers notwithstanding.
THEOREM InOrder == Spec => []ProductionOrder
<1>1. QueueInvariant => ProductionOrder
  BY DEF QueueInvariant, Produced, Ordered, ProductionOrder
<1> QED
  BY <1>1, QueueSafe, PTL

\* A consumer sleeps only while the queue is empty and open.
THEOREM NoConsumerForgotten == Spec => []NoLostWakeup
<1>1. QueueInvariant => NoLostWakeup
  BY DEF QueueInvariant
<1> QED
  BY <1>1, QueueSafe, PTL
=============================================================================

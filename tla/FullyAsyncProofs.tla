-------------------------- MODULE FullyAsyncProofs --------------------------
(***************************************************************************)
(* Theorems about FullyAsync for every value of its constants, checked by  *)
(* TLAPS: types, wake-ups and freshness control - the generation budget is *)
(* never exceeded, and no paused processor sleeps through the end of its   *)
(* pause - that the pipeline implements FreshnessContract, with failures   *)
(* or without, where the samples are, and how the pipeline ends.           *)
(***************************************************************************)
EXTENDS FullyAsync, FiniteSetTheorems, SequenceTheorems, TLAPS

-----------------------------------------------------------------------------
(* Types *)

\* Division of natural numbers, as far as it is needed here.
LEMMA DivBound ==
  ASSUME NEW x \in Nat, NEW d \in Nat \ {0}, x >= d
  PROVE  x \div d \in Nat \ {0}
  OBVIOUS

\* Freshness control allows at least one sample.
LEMMA MaxRequiredType == max_required_samples \in Nat \ {0}
<1> DEFINE d == StalenessDen
           y == StalenessNum + StalenessDen
           x == SamplesPerSync * y
<1>1. SamplesPerSync \in Nat /\ SamplesPerSync >= 1
  BY RollouterAssumption DEF SamplesPerSync
<1>2. d \in Nat \ {0} /\ y \in Nat /\ y >= d
  BY RollouterAssumption
<1>3. x \in Nat /\ x >= d
  <2> HIDE DEF d, y
  <2>1. SamplesPerSync * y >= y
    BY <1>1, <1>2
  <2> QED
    BY <1>1, <1>2, <2>1
<1>4. x \div d \in Nat \ {0}
  <2> HIDE DEF x, d
  <2> QED
    BY <1>2, <1>3, DivBound
<1> QED
  BY <1>4 DEF max_required_samples

\* put_sample keeps a queue of samples and end signals.
LEMMA PutSampleType ==
  ASSUME NEW S, NEW q \in Seq(S), NEW x \in S, NEW max \in Nat \ {0}
  PROVE  PutSample(q, x, max) \in Seq(S) /\ PutDrops(q, max) \subseteq S
<1>1. CASE QueueFull(q, max)
  <2>1. q # <<>> /\ Tail(q) \in Seq(S) /\ Head(q) \in S
    BY <1>1 DEF QueueFull
  <2> QED
    BY <1>1, <2>1 DEF PutSample, PutDrops
<1>2. CASE ~QueueFull(q, max)
  BY <1>2 DEF PutSample, PutDrops
<1> QED
  BY <1>1, <1>2

\* A cancelled coroutine leaves a queue of coroutines behind, and does not
\* take the lock from another holder.
LEMMA LeaveLockType ==
  ASSUME lock \in Seq(Coroutines), LeaveLock("processor")
  PROVE  /\ lock' \in Seq(Coroutines)
         /\ Holds("reset") => Holds("reset")'
<1> USE DEF Coroutines
<1>1. CASE UNCHANGED lock
  BY <1>1 DEF Holds
<1>2. ASSUME NEW i \in 1..Len(lock), lock[i] = "processor",
             lock' = SubSeq(lock, 1, i - 1) \o SubSeq(lock, i + 1, Len(lock))
      PROVE  /\ lock' \in Seq(Coroutines)
             /\ Holds("reset") => Holds("reset")'
  <2> DEFINE l1 == SubSeq(lock, 1, i - 1)
             l2 == SubSeq(lock, i + 1, Len(lock))
  <2>1. Len(lock) \in Nat /\ \A j \in 1..Len(lock) : lock[j] \in Coroutines
    OBVIOUS
  <2>2. /\ l1 \in Seq(Coroutines)
        /\ Len(l1) = IF 1 <= i - 1 THEN (i - 1) - 1 + 1 ELSE 0
        /\ \A j \in 1..(i - 1) - 1 + 1 : l1[j] = lock[1 + j - 1]
    <3>1. 1 \in Int /\ i - 1 \in Int /\ \A j \in 1..i - 1 : lock[j] \in Coroutines
      BY <2>1
    <3> QED
      BY <3>1, SubSeqProperties
  <2>3. l2 \in Seq(Coroutines)
    <3>1. i + 1 \in Int /\ Len(lock) \in Int /\ \A j \in i + 1..Len(lock) : lock[j] \in Coroutines
      BY <2>1
    <3> QED
      BY <3>1, SubSeqProperties
  <2> HIDE DEF l1, l2
  <2>4. /\ l1 \o l2 \in Seq(Coroutines)
        /\ Len(l1 \o l2) = Len(l1) + Len(l2)
        /\ \A j \in 1..Len(l1) + Len(l2) :
              (l1 \o l2)[j] = IF j <= Len(l1) THEN l1[j] ELSE l2[j - Len(l1)]
    BY <2>2, <2>3, ConcatProperties
  <2>5. ASSUME Holds("reset") PROVE Holds("reset")'
    <3>1. lock # <<>> /\ lock[1] = "reset"
      BY <2>5 DEF Holds
    <3>2. i # 1
      BY <1>2, <3>1
    <3>3. Len(l1) >= 1 /\ l1[1] = "reset"
      BY <2>1, <2>2, <3>1, <3>2
    <3>4. Len(l2) \in Nat
      BY <2>3
    <3>5. Len(l1 \o l2) >= 1 /\ (l1 \o l2)[1] = "reset"
      BY <2>2, <2>4, <3>3, <3>4
    <3>6. lock' = l1 \o l2
      BY <1>2 DEF l1, l2
    <3> QED
      BY <2>4, <3>5, <3>6 DEF Holds
  <2> QED
    BY <1>2, <2>4, <2>5 DEF l1, l2
<1> QED
  BY <1>1, <1>2 DEF LeaveLock

\* Requests, releases and notifications keep a queue of coroutines.
LEMMA RequestType ==
  ASSUME lock \in Seq(Coroutines), NEW c \in Coroutines, Request(c)
  PROVE  lock' \in Seq(Coroutines)
  BY DEF Request

LEMMA ReleaseType ==
  ASSUME lock \in Seq(Coroutines), NEW c, Holds(c), Release
  PROVE  lock' \in Seq(Coroutines)
  BY DEF Holds, Release

LEMMA RerequestType ==
  ASSUME lock \in Seq(Coroutines), NEW c \in Coroutines, Holds(c), Rerequest(c)
  PROVE  lock' \in Seq(Coroutines)
  BY DEF Holds, Rerequest

LEMMA NotifyType ==
  ASSUME NEW l \in Seq(Coroutines), NotifyAll(l)
  PROVE  lock' \in Seq(Coroutines)
  BY DEF NotifyAll, Coroutines

\* Where the processor is after a notification.
LEMMA WokenType ==
  ASSUME NEW l, NotifyAll(l), TypeOK
  PROVE  /\ processor' \in {"start", "check", "pausing", "draining", "parking", "get", "limit",
                            "submit", "finishing", "done", "raised", "cancelled"}
         /\ processor' \in {"limit", "submit"} => held \in Samples
  BY DEF NotifyAll, TypeOK

\* Sets of samples are finite, and what is in flight is such a set.
LEMMA FiniteSamples ==
  \A S \in SUBSET Samples : IsFiniteSet(S) /\ Cardinality(S) \in Nat
<1>1. IsFiniteSet(Samples)
  BY RollouterAssumption, FS_Interval DEF Samples
<1> QED
  BY <1>1, FS_Subset, FS_CardinalityType

LEMMA InFlightType ==
  ASSUME mq \in Seq(Samples \cup {End})
  PROVE  InFlight \subseteq Samples
  BY DEF InFlight, Generating, QueuedSamples

\* What a pop and a put leave of the pending queue and of the message queue.
LEMMA PendingType ==
  ASSUME pending_queue \in Seq(Samples \cup {End})
  PROVE  /\ \A x \in Samples \cup {End} :
               Append(pending_queue, x) \in Seq(Samples \cup {End})
         /\ pending_queue # <<>> =>
              /\ Head(pending_queue) \in Samples \cup {End}
              /\ Tail(pending_queue) \in Seq(Samples \cup {End})
  OBVIOUS

LEMMA MqType ==
  ASSUME mq \in Seq(Samples \cup {End})
  PROVE  /\ \A x \in Samples \cup {End} :
               /\ PutSample(mq, x, max_queue_size) \in Seq(Samples \cup {End})
               /\ PutDrops(mq, max_queue_size) \subseteq Samples \cup {End}
         /\ mq # <<>> =>
              /\ Head(mq) \in Samples \cup {End}
              /\ Tail(mq) \in Seq(Samples \cup {End})
<1>1. mq # <<>> => /\ Head(mq) \in Samples \cup {End}
                   /\ Tail(mq) \in Seq(Samples \cup {End})
  OBVIOUS
<1>2. max_queue_size \in Nat \ {0}
  BY MaxRequiredType DEF max_queue_size
<1>3. ASSUME NEW x \in Samples \cup {End}
      PROVE  /\ PutSample(mq, x, max_queue_size) \in Seq(Samples \cup {End})
             /\ PutDrops(mq, max_queue_size) \subseteq Samples \cup {End}
  BY <1>2, PutSampleType
<1> QED
  BY <1>1, <1>3

\* Every variable keeps its type.
THEOREM TypeCorrect == Spec => []TypeOK
<1> USE DEF lockVars, countVars, feedVars, processorVars, resetVars, queueVars
<1>1. FullyAsyncInit => TypeOK
  <2> SUFFICES ASSUME FullyAsyncInit PROVE TypeOK
    OBVIOUS
  <2>1. 1 \in Samples /\ 1 \in 1..TriggerSteps
    BY RollouterAssumption DEF Samples
  <2>2. lock \in Seq(Coroutines)
    BY DEF FullyAsyncInit, Init, Coroutines
  <2>3. <<>> \in Seq(Samples \cup {End})
    OBVIOUS
  <2> QED
    BY <2>1, <2>2, <2>3 DEF FullyAsyncInit, Init, TypeOK
<1>2. TypeOK /\ [Next]_vars => TypeOK'
  <2> SUFFICES ASSUME TypeOK, [Next]_vars PROVE TypeOK'
    OBVIOUS
  <2> USE DEF TypeOK, rollouterVars, trainerVars
  <2>1. CASE FeedSample /\ UNCHANGED <<trainerVars, driver>>
    <3>1. pending_queue' \in Seq(Samples \cup {End})
      BY <2>1, PendingType DEF FeedSample
    <3>2. global_steps' \in Samples
      BY <2>1, RollouterAssumption DEF FeedSample, Samples
    <3>3. feed' \in {"feeding", "ending"}
      BY <2>1 DEF FeedSample
    <3> QED
      BY <2>1, <3>1, <3>2, <3>3 DEF FeedSample
  <2>2. CASE FeedEnd /\ UNCHANGED <<trainerVars, driver>>
    BY <2>2, PendingType DEF FeedEnd
  <2>3. CASE FeedFail /\ UNCHANGED <<trainerVars, driver>>
    BY <2>3 DEF FeedFail
  <2>4. CASE ProcessorSeesPause /\ UNCHANGED <<trainerVars, driver>>
    <3>1. lock' \in Seq(Coroutines)
      BY <2>4, RequestType DEF ProcessorSeesPause, Coroutines
    <3> QED
      BY <2>4, <3>1 DEF ProcessorSeesPause
  <2>5. CASE ProcessorPause /\ UNCHANGED <<trainerVars, driver>>
    <3>1. lock' \in Seq(Coroutines)
      BY <2>5, RerequestType DEF ProcessorPause, Coroutines
    <3> QED
      BY <2>5, <3>1 DEF ProcessorPause, DrainOrPark
  <2>6. CASE ProcessorReap /\ UNCHANGED <<trainerVars, driver>>
    <3>1. lock' \in Seq(Coroutines)
      BY <2>6, ReleaseType, RerequestType DEF ProcessorReap, Coroutines
    <3> QED
      BY <2>6, <3>1 DEF ProcessorReap, AfterReap, DrainOrPark, LimitOrSubmit
  <2>7. CASE ProcessorPark /\ UNCHANGED <<trainerVars, driver>>
    <3>1. lock' \in Seq(Coroutines)
      BY <2>7, ReleaseType DEF ProcessorPark, Coroutines
    <3> QED
      BY <2>7, <3>1 DEF ProcessorPark
  <2>8. CASE ProcessorWaitPending /\ UNCHANGED <<trainerVars, driver>>
    BY <2>8 DEF ProcessorWaitPending
  <2>9. CASE ProcessorTake /\ UNCHANGED <<trainerVars, driver>>
    <3>1. lock' \in Seq(Coroutines)
      BY <2>9, RequestType DEF ProcessorTake, Coroutines
    <3> QED
      BY <2>9, <3>1, PendingType DEF ProcessorTake, LimitOrSubmit, End
  <2>10. CASE ProcessorSubmit /\ UNCHANGED <<trainerVars, driver>>
    <3>1. lock' \in Seq(Coroutines)
      BY <2>10, ReleaseType DEF ProcessorSubmit, Coroutines
    <3>2. CASE paused
      BY <2>10, <3>1, <3>2 DEF ProcessorSubmit
    <3>3. CASE ~paused
      <4>1. held \in Samples
        BY <2>10 DEF ProcessorSubmit
      <4>2. task' \in [Samples -> {"new", "generating", "stored", "evicting", "done", "failed"}]
        BY <2>10, <3>3, <4>1 DEF ProcessorSubmit
      <4>3. active_tasks' \subseteq Samples
        BY <2>10, <3>3, <4>1 DEF ProcessorSubmit
      <4> QED
        BY <2>10, <3>1, <3>3, <4>2, <4>3 DEF ProcessorSubmit
    <3> QED
      BY <3>2, <3>3
  <2>11. ASSUME NEW s \in Samples, TaskPut(s), UNCHANGED <<trainerVars, driver>>
         PROVE  TypeOK'
    BY <2>11, MqType DEF TaskPut
  <2>12. ASSUME NEW s \in Samples, TaskReply(s), UNCHANGED <<trainerVars, driver>>
         PROVE  TypeOK'
    BY <2>12 DEF TaskReply
  <2>13. ASSUME NEW s \in Samples, TaskFail(s), UNCHANGED <<trainerVars, driver>>
         PROVE  TypeOK'
    BY <2>13 DEF TaskFail
  <2>14. CASE MainFeedDone /\ UNCHANGED <<trainerVars, driver>>
    BY <2>14 DEF MainFeedDone
  <2>15. CASE MainJoin /\ UNCHANGED <<trainerVars, driver>>
    BY <2>15 DEF MainJoin
  <2>16. CASE MainRaise /\ UNCHANGED <<trainerVars, driver>>
    <3>1. lock' \in Seq(Coroutines)
      BY <2>16, LeaveLockType DEF MainRaise, Coroutines
    <3> QED
      BY <2>16, <3>1 DEF MainRaise
  <2>17. CASE MainSendEnd /\ UNCHANGED <<trainerVars, driver>>
    <3>1. lock' \in Seq(Coroutines)
      BY <2>17, RequestType DEF MainSendEnd, Coroutines
    <3> QED
      BY <2>17, <3>1, MqType DEF MainSendEnd
  <2>18. CASE MainStop /\ UNCHANGED <<trainerVars, driver>>
    <3>1. lock' \in Seq(Coroutines)
      BY <2>18, ReleaseType DEF MainStop, Coroutines
    <3> QED
      <4>1. /\ running' \in BOOLEAN /\ main' = "done"
            /\ UNCHANGED <<paused, countVars, feedVars, processorVars, resetVars, queueVars,
                           pending_queue, task, monitor, budget, trainerVars, driver>>
        BY <2>18 DEF MainStop
      <4> QED
        BY <3>1, <4>1
  <2>19. CASE MonitorTop /\ UNCHANGED <<trainerVars, driver>>
    <3>1. lock' \in Seq(Coroutines)
      BY <2>19, ReleaseType DEF MonitorTop, Coroutines
    <3> QED
      BY <2>19, <3>1 DEF MonitorTop
  <2>20. CASE MonitorWake /\ UNCHANGED <<trainerVars, driver>>
    <3>1. lock' \in Seq(Coroutines)
      BY <2>20, RequestType DEF MonitorWake, Coroutines
    <3> QED
      BY <2>20, <3>1 DEF MonitorWake
  <2>21. CASE MonitorResume /\ UNCHANGED <<trainerVars, driver>>
    <3>1. lock' \in Seq(Coroutines)
      <4>1. Append(Tail(lock), "monitor") \in Seq(Coroutines)
        BY <2>21 DEF MonitorResume, Holds, Coroutines
      <4> QED
        BY <2>21, <4>1, NotifyType DEF MonitorResume
    <3>2. NotifyAll(Append(Tail(lock), "monitor"))
      BY <2>21 DEF MonitorResume
    <3>4. /\ processor' \in {"start", "check", "pausing", "draining", "parking", "get", "limit",
                             "submit", "finishing", "done", "raised", "cancelled"}
          /\ processor' \in {"limit", "submit"} => held \in Samples
      <4> HIDE DEF TypeOK
      <4>1. TypeOK
        OBVIOUS
      <4> QED
        BY <3>2, <4>1, WokenType
    <3>5. /\ paused' \in BOOLEAN /\ monitor' = "top"
          /\ UNCHANGED <<countVars, feedVars, held, active_tasks, staleness_samples, resetVars,
                         queueVars, pending_queue, running, task, main, budget,
                         trainerVars, driver>>
      BY <2>21 DEF MonitorResume
    <3> QED
      BY <3>1, <3>4, <3>5
  <2>22. CASE ResetBegin /\ UNCHANGED <<trainerVars, driver>>
    <3>1. lock' \in Seq(Coroutines)
      BY <2>22, NotifyType DEF ResetBegin, Coroutines
    <3>2. NotifyAll(lock)
      BY <2>22 DEF ResetBegin
    <3>3. counted' \in Nat
      BY <2>22, FiniteSamples DEF ResetBegin
    <3>4. /\ processor' \in {"start", "check", "pausing", "draining", "parking", "get", "limit",
                             "submit", "finishing", "done", "raised", "cancelled"}
          /\ processor' \in {"limit", "submit"} => held \in Samples
      <4> HIDE DEF TypeOK
      <4>1. TypeOK
        OBVIOUS
      <4> QED
        BY <3>2, <4>1, WokenType
    <3>5. /\ paused' \in BOOLEAN /\ reset' = "sizing"
          /\ UNCHANGED <<countVars, feedVars, held, active_tasks, staleness_samples, queueVars,
                         pending_queue, running, task, main, monitor, budget,
                         trainerVars, driver>>
      BY <2>22 DEF ResetBegin
    <3> QED
      BY <3>1, <3>3, <3>4, <3>5
  <2>23. CASE ResetEnd /\ UNCHANGED <<trainerVars, driver>>
    <3>1. lock' \in Seq(Coroutines)
      BY <2>23, ReleaseType DEF ResetEnd, Coroutines
    <3> QED
      BY <2>23, <3>1, FiniteSamples, InFlightType DEF ResetEnd
  <2>24. CASE TrainerGet
    BY <2>24, MqType DEF TrainerGet
  <2>25. CASE TrainerStep
    BY <2>25, RollouterAssumption DEF TrainerStep, WindowOpen
  <2>26. CASE TrainerSync
    <3>1. lock' \in Seq(Coroutines)
      BY <2>26, RequestType DEF TrainerSync, Coroutines
    <3> QED
      BY <2>26, <3>1 DEF TrainerSync
  <2>27. CASE TrainerSynced
    BY <2>27 DEF TrainerSynced
  <2>28. CASE TrainerStop
    BY <2>28 DEF TrainerStop
  <2>29. CASE DriverReturn
    BY <2>29 DEF DriverReturn
  <2>30. CASE Returned
    BY <2>30 DEF Returned, vars
  <2>31. CASE UNCHANGED vars
    BY <2>31 DEF vars
  <2> QED
    BY <2>1, <2>2, <2>3, <2>4, <2>5, <2>6, <2>7, <2>8, <2>9, <2>10, <2>11, <2>12, <2>13, <2>14, <2>15, <2>16, <2>17, <2>18, <2>19, <2>20, <2>21, <2>22, <2>23, <2>24, <2>25, <2>26, <2>27, <2>28, <2>29, <2>30, <2>31 DEF Next, RollouterStep, FeedStep,
       ProcessorStep, TaskStep, MainStep, MonitorStep, ResetStep, TrainerNext
<1> QED
  BY <1>1, <1>2, PTL DEF Spec

-----------------------------------------------------------------------------
(* Sizes *)

\* A queue has no more samples than entries.
LEMMA QueuedBound ==
  ASSUME mq \in Seq(Samples \cup {End})
  PROVE  Cardinality(QueuedSamples) <= Len(mq)
<1> DEFINE dom == 1..Len(mq)
           all == {mq[i] : i \in dom}
           f   == [i \in dom |-> mq[i]]
<1>1. Len(mq) \in Nat
  OBVIOUS
<1>2. IsFiniteSet(dom) /\ Cardinality(dom) = Len(mq)
  BY <1>1, FS_Interval
<1>3. f \in Surjection(dom, all)
  BY DEF Surjection
<1>4. IsFiniteSet(all) /\ Cardinality(all) <= Cardinality(dom)
  <2> HIDE DEF f, dom, all
  <2> QED
    BY <1>2, <1>3, FS_Surjection
<1>5. QueuedSamples \subseteq all
  BY DEF QueuedSamples
<1>6. IsFiniteSet(QueuedSamples) /\ Cardinality(QueuedSamples) <= Cardinality(all)
  <2> HIDE DEF all
  <2> QED
    BY <1>4, <1>5, FS_Subset
<1> QED
  <2> HIDE DEF all, dom
  <2>1. /\ Cardinality(QueuedSamples) \in Nat /\ Cardinality(all) \in Nat
        /\ Cardinality(dom) \in Nat
    BY <1>2, <1>4, <1>6, FS_CardinalityType
  <2> QED
    BY <1>1, <1>2, <1>4, <1>6, <2>1

\* Fewer samples, smaller set.
LEMMA SmallerSet ==
  ASSUME NEW S, NEW T, T \subseteq Samples, S \subseteq T
  PROVE  Cardinality(S) <= Cardinality(T)
<1>1. IsFiniteSet(T)
  BY FiniteSamples
<1> QED
  BY <1>1, FS_Subset

\* The samples in flight are those generating and those queued, at most.
LEMMA InFlightBound ==
  ASSUME mq \in Seq(Samples \cup {End})
  PROVE  Cardinality(InFlight) <= Cardinality(Generating) + Len(mq)
<1>1. Generating \subseteq Samples /\ QueuedSamples \subseteq Samples
  BY DEF Generating, QueuedSamples
<1>2. /\ IsFiniteSet(Generating) /\ IsFiniteSet(QueuedSamples)
      /\ IsFiniteSet(Generating \cap QueuedSamples)
  BY <1>1, FiniteSamples
<1>3. /\ Cardinality(Generating) \in Nat /\ Cardinality(QueuedSamples) \in Nat
      /\ Cardinality(Generating \cap QueuedSamples) \in Nat
  BY <1>2, FS_CardinalityType
<1>4. Cardinality(InFlight) = Cardinality(Generating) + Cardinality(QueuedSamples)
                                - Cardinality(Generating \cap QueuedSamples)
  BY <1>2, FS_Union DEF InFlight
<1>5. Len(mq) \in Nat
  OBVIOUS
<1> QED
  BY <1>3, <1>4, <1>5, QueuedBound

-----------------------------------------------------------------------------
(* The processor never sleeps on the condition without a pause: both ways of
   clearing the flag notify it, and it goes to sleep only with the flag set. *)

THEOREM NoLostResume == Spec => []ParkedOnlyWhilePaused
<1>1. FullyAsyncInit => ParkedOnlyWhilePaused
  BY DEF FullyAsyncInit, Init, ParkedOnlyWhilePaused
<1>2. ParkedOnlyWhilePaused /\ [Next]_vars => ParkedOnlyWhilePaused'
  <2> SUFFICES ASSUME ParkedOnlyWhilePaused, [Next]_vars PROVE ParkedOnlyWhilePaused'
    OBVIOUS
  <2> USE DEF ParkedOnlyWhilePaused, lockVars, processorVars
  <2>1. CASE ProcessorStep
    <3>1. CASE ProcessorSeesPause \/ ProcessorPause \/ ProcessorPark
      BY <3>1 DEF ProcessorSeesPause, ProcessorPause, ProcessorPark, DrainOrPark
    <3>2. CASE ProcessorReap
      BY <3>2 DEF ProcessorReap, AfterReap, DrainOrPark, LimitOrSubmit
    <3>3. CASE ProcessorWaitPending \/ ProcessorTake \/ ProcessorSubmit
      BY <3>3 DEF ProcessorWaitPending, ProcessorTake, ProcessorSubmit, LimitOrSubmit
    <3> QED
      BY <2>1, <3>1, <3>2, <3>3 DEF ProcessorStep
  <2>2. CASE MonitorResume \/ ResetBegin
    BY <2>2 DEF MonitorResume, ResetBegin, NotifyAll
  <2>3. CASE MainRaise
    BY <2>3 DEF MainRaise
  <2>4. CASE MainFeedDone \/ MainJoin \/ MainSendEnd \/ MainStop \/ MonitorTop \/ MonitorWake
    BY <2>4 DEF MainFeedDone, MainJoin, MainSendEnd, MainStop, MonitorTop, MonitorWake
  <2>5. CASE FeedSample \/ FeedEnd \/ FeedFail \/ ResetEnd
    BY <2>5 DEF FeedSample, FeedEnd, FeedFail, ResetEnd
  <2>6. ASSUME NEW s \in Samples, TaskPut(s) \/ TaskReply(s) \/ TaskFail(s)
        PROVE  ParkedOnlyWhilePaused'
    BY <2>6 DEF TaskPut, TaskReply, TaskFail
  <2>7. CASE TrainerNext
    BY <2>7 DEF TrainerNext, TrainerGet, TrainerStep, TrainerSync, TrainerSynced, TrainerStop,
                rollouterVars
  <2>8. CASE DriverReturn \/ Returned \/ UNCHANGED vars
    BY <2>8 DEF DriverReturn, Returned, vars, rollouterVars
  <2> QED
    BY <2>1, <2>2, <2>3, <2>4, <2>5, <2>6, <2>7, <2>8
       DEF Next, RollouterStep, FeedStep, MainStep, MonitorStep, ResetStep, TaskStep
<1> QED
  BY <1>1, <1>2, PTL DEF Spec

-----------------------------------------------------------------------------
(* The generation budget *)

\* A step that charges nothing, starts nothing and puts nothing new in flight.
LEMMA UnchargedStep ==
  ASSUME TypeOK, BudgetInvariant,
         UNCHANGED <<staleness_samples, budget>>,
         Carrying' => Carrying,
         processor' = "get" => processor = "get",
         InFlight' \subseteq InFlight, Generating' \subseteq Generating,
         Generating' \subseteq active_tasks',
         reset' = "sizing" => reset = "sizing" /\ Holds("reset")' /\ counted' = counted
  PROVE  BudgetInvariant'
<1>1. InFlight \subseteq Samples /\ Generating \subseteq Samples
  BY InFlightType DEF TypeOK, InFlight
<1>2. /\ Cardinality(InFlight') <= Cardinality(InFlight)
      /\ Cardinality(Generating') <= Cardinality(Generating)
  BY <1>1, SmallerSet
<1>3. /\ Cardinality(InFlight) \in Nat /\ Cardinality(InFlight') \in Nat
      /\ Cardinality(Generating) \in Nat /\ Cardinality(Generating') \in Nat
  BY <1>1, FiniteSamples
<1>4. budget \in Nat /\ staleness_samples \in Nat /\ counted \in Nat
  BY DEF TypeOK
<1>5. /\ Charged' <= Charged /\ Charged \in Nat /\ Charged' \in Nat
  BY <1>4 DEF Charged
<1>6. Charged' <= staleness_samples' + 1 /\ Charged' <= max_required_samples' + 1
  <2>1. max_required_samples' = max_required_samples
    BY DEF max_required_samples, SamplesPerSync
  <2>2. Charged <= staleness_samples + 1 /\ Charged <= max_required_samples + 1
    BY DEF BudgetInvariant
  <2> QED
    BY <1>4, <1>5, <2>1, <2>2, MaxRequiredType
<1>7. (processor = "get" => budget <= max_required_samples)'
  BY DEF BudgetInvariant, max_required_samples, SamplesPerSync
<1>8. Cardinality(InFlight)' <= budget'
  BY <1>2, <1>3, <1>4 DEF BudgetInvariant
<1>9. (reset = "sizing" => Holds("reset") /\ Cardinality(Generating) <= counted)'
  BY <1>2, <1>3, <1>4 DEF BudgetInvariant
<1> QED
  BY <1>6, <1>7, <1>8, <1>9 DEF BudgetInvariant

\* The lock queue's head survives a request and a notification.
LEMMA RequestKeepsHolder ==
  ASSUME lock \in Seq(Coroutines), NEW c \in Coroutines, Holds("reset"), Request(c)
  PROVE  Holds("reset")'
  BY DEF Holds, Request

LEMMA NotifyKeepsHolder ==
  ASSUME lock \in Seq(Coroutines), Holds("reset"), NotifyAll(lock)
  PROVE  Holds("reset")'
  BY DEF Holds, NotifyAll, Coroutines

\* Only one coroutine holds the lock.
LEMMA SoleHolder ==
  ASSUME NEW c, Holds(c), Holds("reset")
  PROVE  c = "reset"
  BY DEF Holds

\* The processor's steps that charge nothing.
LEMMA ProcessorUncharged ==
  ASSUME TypeOK, BudgetInvariant,
         ProcessorSeesPause \/ ProcessorPause \/ ProcessorReap \/ ProcessorPark
  PROVE  BudgetInvariant'
<1> USE DEF lockVars, countVars, feedVars, resetVars, queueVars
<1>1. lock \in Seq(Coroutines) /\ "processor" \in Coroutines
  BY DEF TypeOK, Coroutines
<1>2. UNCHANGED <<staleness_samples, budget, task, mq, reset, counted>>
  BY DEF ProcessorSeesPause, ProcessorPause, ProcessorReap, ProcessorPark
<1>3. InFlight' = InFlight /\ Generating' = Generating
  BY <1>2 DEF InFlight, Generating, QueuedSamples
<1>4. Generating \subseteq active_tasks'
  <2>1. CASE ProcessorReap
    BY <2>1 DEF ProcessorReap, Finished, Generating, BudgetInvariant
  <2>2. CASE ProcessorSeesPause \/ ProcessorPause \/ ProcessorPark
    BY <2>2 DEF ProcessorSeesPause, ProcessorPause, ProcessorPark, BudgetInvariant
  <2> QED
    BY <2>1, <2>2
<1>5. (Carrying' => Carrying) /\ (processor' = "get" => processor = "get")
  <2>1. CASE ProcessorReap
    <3>1. processor \in {"draining", "limit", "finishing"}
      BY <2>1 DEF ProcessorReap
    <3>2. /\ processor' # "get"
          /\ processor' \in {"limit", "submit", "submitParked"} => processor = "limit"
      BY <2>1, <3>1 DEF ProcessorReap, AfterReap, DrainOrPark, LimitOrSubmit
    <3> QED
      BY <3>2 DEF Carrying
  <2>2. CASE ProcessorSeesPause \/ ProcessorPause \/ ProcessorPark
    BY <2>2 DEF ProcessorSeesPause, ProcessorPause, ProcessorPark, Carrying, DrainOrPark
  <2> QED
    BY <2>1, <2>2
<1>6. reset = "sizing" => Holds("reset")'
  <2>1. ASSUME reset = "sizing" PROVE Holds("reset") /\ ~Holds("processor")
    BY <2>1, SoleHolder DEF BudgetInvariant
  <2>2. CASE ProcessorSeesPause
    BY <1>1, <2>1, <2>2, RequestKeepsHolder DEF ProcessorSeesPause
  <2>3. CASE ProcessorPause \/ ProcessorReap \/ ProcessorPark
    BY <2>1, <2>3 DEF ProcessorPause, ProcessorReap, ProcessorPark
  <2> QED
    BY <2>2, <2>3
<1> QED
  BY <1>2, <1>3, <1>4, <1>5, <1>6, UnchargedStep

\* The processor waits for a pending sample only below the limit.
LEMMA WaitPendingBudget ==
  ASSUME TypeOK, BudgetInvariant, ProcessorWaitPending
  PROVE  BudgetInvariant'
<1> USE DEF lockVars, countVars, feedVars, resetVars, queueVars
<1>1. /\ budget \in Nat /\ staleness_samples \in Nat
      /\ ~Carrying /\ ~Carrying'
      /\ staleness_samples < max_required_samples
      /\ UNCHANGED <<staleness_samples, budget, task, mq, active_tasks, reset, counted, lock>>
  BY MaxRequiredType
     DEF TypeOK, ProcessorWaitPending, Checking, Carrying, ShouldPause
<1>2. /\ InFlight' = InFlight /\ Generating' = Generating
      /\ (Holds("reset"))' = Holds("reset")
      /\ max_required_samples' = max_required_samples
  BY <1>1 DEF InFlight, Generating, QueuedSamples, Holds, max_required_samples, SamplesPerSync
<1>3. Charged = budget /\ Charged' = budget
  BY <1>1 DEF Charged
<1>4. budget <= max_required_samples
  BY <1>1, <1>3, MaxRequiredType DEF BudgetInvariant
<1> QED
  BY <1>1, <1>2, <1>3, <1>4 DEF BudgetInvariant

\* A sample is charged when the processor takes it.
LEMMA TakeBudget ==
  ASSUME TypeOK, BudgetInvariant, ProcessorTake
  PROVE  BudgetInvariant'
<1> USE DEF lockVars, countVars, feedVars, resetVars, queueVars
<1>1. /\ budget \in Nat /\ staleness_samples \in Nat
      /\ ~Carrying /\ processor' # "get"
      /\ staleness_samples' = staleness_samples + 1
      /\ UNCHANGED <<budget, task, mq, active_tasks, reset, counted>>
  BY DEF TypeOK, ProcessorTake, Checking, Carrying, LimitOrSubmit
<1>2. /\ InFlight' = InFlight /\ Generating' = Generating
      /\ max_required_samples' = max_required_samples
  BY <1>1 DEF InFlight, Generating, QueuedSamples, max_required_samples, SamplesPerSync
<1>3. Charged = budget /\ Charged' \in {budget, budget + 1}
  BY <1>1 DEF Charged
<1>4. budget <= max_required_samples
  <2>1. CASE processor = "get"
    BY <2>1 DEF BudgetInvariant
  <2>2. CASE ~ShouldPause
    <3>1. staleness_samples < max_required_samples
      BY <2>2, <1>1, MaxRequiredType DEF ShouldPause
    <3> QED
      BY <1>1, <1>3, <3>1, MaxRequiredType DEF BudgetInvariant
  <2> QED
    BY <2>1, <2>2 DEF ProcessorTake
<1>5. /\ Charged' <= staleness_samples' + 1
      /\ Charged' <= max_required_samples' + 1
  BY <1>1, <1>2, <1>3, <1>4, MaxRequiredType DEF BudgetInvariant
<1>6. (reset = "sizing" => Holds("reset"))'
  <2> SUFFICES ASSUME reset = "sizing" PROVE Holds("reset")'
    BY <1>1
  <2>1. Holds("reset") /\ lock \in Seq(Coroutines) /\ "processor" \in Coroutines
    BY DEF BudgetInvariant, TypeOK, Coroutines
  <2>2. CASE UNCHANGED lock
    BY <2>1, <2>2 DEF Holds
  <2>3. CASE Request("processor")
    BY <2>1, <2>3, RequestKeepsHolder
  <2> QED
    BY <2>2, <2>3 DEF ProcessorTake
<1> QED
  BY <1>1, <1>2, <1>4, <1>5, <1>6 DEF BudgetInvariant

\* A task is started for the sample the processor carried.
LEMMA SubmitBudget ==
  ASSUME TypeOK, BudgetInvariant, ProcessorSubmit
  PROVE  BudgetInvariant'
<1> USE DEF lockVars, countVars, feedVars, resetVars, queueVars
<1>1. /\ budget \in Nat /\ staleness_samples \in Nat
      /\ Carrying /\ held \in Samples
      /\ UNCHANGED <<staleness_samples, mq, reset, counted>>
  BY DEF TypeOK, ProcessorSubmit, Carrying
<1>2. reset # "sizing" /\ reset' # "sizing"
  BY <1>1, SoleHolder DEF BudgetInvariant, ProcessorSubmit
<1>3. CASE paused
  <2>1. UNCHANGED <<staleness_samples, budget, task, mq, active_tasks>> /\ processor' = "submitParked"
    BY <1>1, <1>3 DEF ProcessorSubmit
  <2>2. InFlight' = InFlight /\ Generating' = Generating
    BY <2>1 DEF InFlight, Generating, QueuedSamples
  <2>3. Generating \subseteq active_tasks
    BY DEF BudgetInvariant
  <2> QED
    BY <1>1, <1>2, <2>1, <2>2, <2>3, UnchargedStep DEF Carrying
<1>4. CASE ~paused
  <2>1. /\ processor' = "check" /\ budget' = budget + 1
        /\ task' = [task EXCEPT ![held] = "generating"]
        /\ active_tasks' = active_tasks \cup {held}
    BY <1>4 DEF ProcessorSubmit
  <2>2. ~Carrying' /\ processor' # "get"
    BY <2>1 DEF Carrying
  <2>3. Charged = budget + 1 /\ Charged' = budget + 1 /\ max_required_samples' = max_required_samples
    BY <1>1, <2>1, <2>2 DEF Charged, max_required_samples, SamplesPerSync
  <2>4. Generating' = Generating \cup {held}
    BY <1>1, <2>1 DEF Generating, TypeOK
  <2>5. InFlight' = InFlight \cup {held}
    BY <1>1, <2>4 DEF InFlight, QueuedSamples
  <2>6. IsFiniteSet(InFlight) /\ Cardinality(InFlight) \in Nat
    BY InFlightType, FiniteSamples DEF TypeOK
  <2>7. Cardinality(InFlight') <= Cardinality(InFlight) + 1 /\ Cardinality(InFlight') \in Nat
    BY <2>5, <2>6, FS_AddElement
  <2>8. Cardinality(InFlight)' <= budget'
    BY <1>1, <2>1, <2>6, <2>7 DEF BudgetInvariant
  <2>9. (Generating \subseteq active_tasks)'
    BY <2>1, <2>4 DEF BudgetInvariant
  <2> QED
    BY <1>1, <1>2, <2>2, <2>3, <2>8, <2>9 DEF BudgetInvariant
<1> QED
  BY <1>3, <1>4

\* A notified processor carries what it carried.
LEMMA NotifiedCarries ==
  ASSUME NEW l, NotifyAll(l)
  PROVE  (Carrying' => Carrying) /\ (processor' = "get" => processor = "get")
  BY DEF NotifyAll, Carrying

\* reset_staleness reads a number of tasks that covers the ones generating.
LEMMA ResetBeginBudget ==
  ASSUME TypeOK, BudgetInvariant, ResetBegin
  PROVE  BudgetInvariant'
<1> USE DEF countVars, feedVars, queueVars
<1>1. /\ UNCHANGED <<staleness_samples, budget, task, mq, active_tasks>>
      /\ counted' = Cardinality(active_tasks) /\ Holds("reset") /\ NotifyAll(lock)
  BY DEF ResetBegin
<1>2. InFlight' = InFlight /\ Generating' = Generating
  BY <1>1 DEF InFlight, Generating, QueuedSamples
<1>3. Generating \subseteq active_tasks /\ active_tasks \subseteq Samples
  BY DEF BudgetInvariant, TypeOK
<1>4. Cardinality(Generating) <= Cardinality(active_tasks)
  BY <1>3, SmallerSet
<1>5. Holds("reset")'
  BY <1>1, NotifyKeepsHolder DEF TypeOK
<1>6. (Carrying' => Carrying) /\ (processor' = "get" => processor = "get")
  BY <1>1, NotifiedCarries
<1>7. budget \in Nat /\ staleness_samples \in Nat /\ max_required_samples' = max_required_samples
  BY DEF TypeOK, max_required_samples, SamplesPerSync
<1>8. Charged' \in Nat /\ Charged \in Nat /\ Charged' <= Charged
  BY <1>1, <1>6, <1>7 DEF Charged
<1>9. Charged' <= staleness_samples' + 1 /\ Charged' <= max_required_samples' + 1
  <2>1. Charged <= staleness_samples + 1 /\ Charged <= max_required_samples + 1
    BY DEF BudgetInvariant
  <2> QED
    BY <1>1, <1>7, <1>8, <2>1, MaxRequiredType
<1> QED
  BY <1>1, <1>2, <1>3, <1>4, <1>5, <1>6, <1>7, <1>9 DEF BudgetInvariant

\* The new staleness_samples covers what is in flight, which the old budget
\* covered too.
LEMMA ResetEndBudget ==
  ASSUME TypeOK, BudgetInvariant, ResetEnd
  PROVE  BudgetInvariant'
<1> USE DEF countVars, feedVars, queueVars
<1> DEFINE flight == Cardinality(InFlight)
<1>1. /\ UNCHANGED <<processor, task, mq, active_tasks, counted>>
      /\ reset = "sizing" /\ reset' = "returned"
      /\ staleness_samples' = counted + Len(mq) /\ budget' = flight
  BY DEF ResetEnd
<1>2. /\ InFlight' = InFlight /\ Generating' = Generating /\ Carrying' = Carrying
      /\ max_required_samples' = max_required_samples
  BY <1>1 DEF InFlight, Generating, QueuedSamples, Carrying, max_required_samples, SamplesPerSync
<1>3. /\ budget \in Nat /\ staleness_samples \in Nat /\ counted \in Nat /\ Len(mq) \in Nat
      /\ mq \in Seq(Samples \cup {End})
  BY DEF TypeOK
<1>4. flight \in Nat /\ Cardinality(Generating) \in Nat
  BY <1>3, InFlightType, FiniteSamples DEF Generating
<1>5. flight <= Cardinality(Generating) + Len(mq)
  BY <1>3, InFlightBound
<1>6. Cardinality(Generating) <= counted /\ flight <= budget
  BY <1>1 DEF BudgetInvariant
<1> HIDE DEF flight
<1>7. flight <= staleness_samples' /\ staleness_samples' \in Nat
  BY <1>1, <1>3, <1>4, <1>5, <1>6
<1>8. Charged' <= staleness_samples' + 1
  BY <1>1, <1>4, <1>7 DEF Charged
<1>9. /\ Charged' <= max_required_samples' + 1
      /\ (processor = "get" => budget <= max_required_samples)'
  <2>1. Charged <= max_required_samples + 1 /\ (processor = "get" => budget <= max_required_samples)
    BY DEF BudgetInvariant
  <2> QED
    BY <1>1, <1>2, <1>3, <1>4, <1>6, <2>1, MaxRequiredType DEF Charged
<1>10. Cardinality(InFlight)' <= budget'
  BY <1>1, <1>2, <1>4 DEF flight
<1>11. (Generating \subseteq active_tasks)'
  BY <1>1, <1>2 DEF BudgetInvariant
<1> QED
  BY <1>1, <1>8, <1>9, <1>10, <1>11 DEF BudgetInvariant

\* A put brings nothing into the queue but the sample itself.
LEMMA PutSampleContents ==
  ASSUME mq \in Seq(Samples \cup {End}), NEW x \in Samples \cup {End},
         mq' = PutSample(mq, x, max_queue_size)
  PROVE  QueuedSamples' \subseteq QueuedSamples \cup ({x} \ {End})
<1>1. max_queue_size \in Nat \ {0}
  BY MaxRequiredType DEF max_queue_size
<1>2. CASE QueueFull(mq, max_queue_size)
  <2>1. mq # <<>> /\ mq' = Append(Tail(mq), x)
    BY <1>1, <1>2 DEF QueueFull, PutSample
  <2>2. \A i \in 1..Len(mq') : mq'[i] = x \/ (\E j \in 1..Len(mq) : mq'[i] = mq[j])
    BY <2>1
  <2> QED
    BY <2>2 DEF QueuedSamples
<1>3. CASE ~QueueFull(mq, max_queue_size)
  <2>1. mq' = Append(mq, x)
    BY <1>3 DEF PutSample
  <2>2. \A i \in 1..Len(mq') : mq'[i] = x \/ (\E j \in 1..Len(mq) : mq'[i] = mq[j])
    BY <2>1
  <2> QED
    BY <2>2 DEF QueuedSamples
<1> QED
  BY <1>2, <1>3

\* The steps of a sample's task.
LEMMA TaskBudget ==
  ASSUME TypeOK, BudgetInvariant, NEW s \in Samples, TaskPut(s) \/ TaskReply(s) \/ TaskFail(s)
  PROVE  BudgetInvariant'
<1> USE DEF lockVars, countVars, feedVars, processorVars, resetVars, queueVars
<1>1. UNCHANGED <<staleness_samples, budget, processor, active_tasks, reset, counted, lock>>
  BY DEF TaskPut, TaskReply, TaskFail
<1>2. Generating' \subseteq Generating
  BY DEF TaskPut, TaskReply, TaskFail, Generating, TypeOK
<1>3. InFlight' \subseteq InFlight
  <2>1. CASE TaskPut(s)
    <3>1. s \in Generating
      BY <2>1 DEF TaskPut, Generating
    <3>2. QueuedSamples' \subseteq QueuedSamples \cup {s}
      BY <2>1, PutSampleContents DEF TaskPut, TypeOK
    <3> QED
      BY <1>2, <3>1, <3>2 DEF InFlight
  <2>2. CASE TaskReply(s) \/ TaskFail(s)
    BY <1>2, <2>2 DEF TaskReply, TaskFail, InFlight, QueuedSamples
  <2> QED
    BY <2>1, <2>2
<1>4. Generating \subseteq active_tasks /\ (reset = "sizing" => Holds("reset"))
  BY DEF BudgetInvariant
<1> QED
  BY <1>1, <1>2, <1>3, <1>4, UnchargedStep DEF Carrying, Holds

\* The steps that only move the other coroutines or take from the queue.
LEMMA IdleBudget ==
  ASSUME TypeOK, BudgetInvariant,
         UNCHANGED <<staleness_samples, budget, task, active_tasks, counted>>,
         Carrying' => Carrying, processor' = "get" => processor = "get",
         QueuedSamples' \subseteq QueuedSamples,
         reset' = "sizing" => reset = "sizing",
         reset = "sizing" => Holds("reset")'
  PROVE  BudgetInvariant'
<1>1. Generating' = Generating
  BY DEF Generating
<1>2. InFlight' \subseteq InFlight
  BY <1>1 DEF InFlight
<1>3. Generating \subseteq active_tasks
  BY DEF BudgetInvariant
<1> QED
  BY <1>1, <1>2, <1>3, UnchargedStep

\* A coroutine other than the processor takes, releases or awaits the lock.
LEMMA LockBudget ==
  ASSUME TypeOK, BudgetInvariant,
         MainStop \/ MonitorTop \/ MonitorWake \/ MonitorResume \/ MainRaise \/ TrainerSync
  PROVE  BudgetInvariant'
<1> USE DEF lockVars, countVars, feedVars, processorVars, resetVars, queueVars
<1>1. /\ UNCHANGED <<staleness_samples, budget, task, active_tasks, counted, mq>>
      /\ reset' = "sizing" => reset = "sizing"
  BY DEF MainStop, MonitorTop, MonitorWake, MonitorResume, MainRaise, TrainerSync
<1>2. QueuedSamples' \subseteq QueuedSamples
  BY <1>1 DEF QueuedSamples
<1>3. (Carrying' => Carrying) /\ (processor' = "get" => processor = "get")
  <2>1. CASE MonitorResume
    BY <2>1, NotifiedCarries DEF MonitorResume
  <2>2. CASE MainStop \/ MonitorTop \/ MonitorWake \/ MainRaise \/ TrainerSync
    BY <2>2 DEF MainStop, MonitorTop, MonitorWake, MainRaise, TrainerSync, Carrying
  <2> QED
    BY <2>1, <2>2
<1>4. reset = "sizing" => Holds("reset")'
  <2> SUFFICES ASSUME reset = "sizing" PROVE Holds("reset")'
    OBVIOUS
  <2>1. /\ Holds("reset") /\ ~Holds("main") /\ ~Holds("monitor")
        /\ lock \in Seq(Coroutines) /\ Coroutines = {"processor", "monitor", "main", "reset"}
    BY SoleHolder DEF BudgetInvariant, TypeOK, Coroutines
  <2>2. CASE MonitorWake \/ TrainerSync
    BY <2>1, <2>2, RequestKeepsHolder DEF MonitorWake, TrainerSync
  <2>3. CASE MainRaise
    BY <2>1, <2>3, LeaveLockType DEF MainRaise
  <2>4. CASE MainStop \/ MonitorTop \/ MonitorResume
    BY <2>1, <2>4 DEF MainStop, MonitorTop, MonitorResume
  <2> QED
    BY <2>2, <2>3, <2>4
<1> QED
  BY <1>1, <1>2, <1>3, <1>4, IdleBudget

\* A get takes the oldest entry, a cleared queue is empty, and the end signal
\* is no sample.
LEMMA QueueBudget ==
  ASSUME TypeOK, BudgetInvariant, TrainerGet \/ MainSendEnd \/ DriverReturn
  PROVE  BudgetInvariant'
<1> USE DEF lockVars, countVars, feedVars, processorVars, resetVars, queueVars
<1>1. UNCHANGED <<staleness_samples, budget, task, active_tasks, counted, processor, reset>>
  BY DEF TrainerGet, MainSendEnd, DriverReturn
<1>2. QueuedSamples' \subseteq QueuedSamples
  <2>1. CASE TrainerGet
    <3>1. mq # <<>> /\ mq' = Tail(mq) /\ mq \in Seq(Samples \cup {End})
      BY <2>1 DEF TrainerGet, TypeOK
    <3>2. \A i \in 1..Len(mq') : \E j \in 1..Len(mq) : mq'[i] = mq[j]
      BY <3>1
    <3> QED
      BY <3>2 DEF QueuedSamples
  <2>2. CASE MainSendEnd
    BY <2>2, PutSampleContents DEF MainSendEnd, TypeOK
  <2>3. CASE DriverReturn
    BY <2>3 DEF DriverReturn, QueuedSamples
  <2> QED
    BY <2>1, <2>2, <2>3
<1>3. reset = "sizing" => Holds("reset")'
  <2> SUFFICES ASSUME reset = "sizing" PROVE Holds("reset")'
    OBVIOUS
  <2>1. Holds("reset") /\ lock \in Seq(Coroutines) /\ "main" \in Coroutines
    BY DEF BudgetInvariant, TypeOK, Coroutines
  <2>2. CASE UNCHANGED lock
    BY <2>1, <2>2 DEF Holds
  <2>3. CASE Request("main")
    BY <2>1, <2>3, RequestKeepsHolder
  <2> QED
    BY <2>2, <2>3 DEF TrainerGet, MainSendEnd, DriverReturn
<1> QED
  BY <1>1, <1>2, <1>3, IdleBudget DEF Carrying

\* The budget is kept by every step.
LEMMA BudgetStep == TypeOK /\ BudgetInvariant /\ [Next]_vars => BudgetInvariant'
<1> SUFFICES ASSUME TypeOK, BudgetInvariant, [Next]_vars PROVE BudgetInvariant'
  OBVIOUS
<1>1. CASE ProcessorStep
  BY <1>1, ProcessorUncharged, WaitPendingBudget, TakeBudget, SubmitBudget DEF ProcessorStep
<1>2. CASE ResetStep
  BY <1>2, ResetBeginBudget, ResetEndBudget DEF ResetStep
<1>3. CASE \E s \in Samples : TaskStep(s)
  BY <1>3, TaskBudget DEF TaskStep
<1>4. CASE MainStop \/ MonitorTop \/ MonitorWake \/ MonitorResume \/ MainRaise \/ TrainerSync
  BY <1>4, LockBudget
<1>5. CASE TrainerGet \/ MainSendEnd \/ DriverReturn
  BY <1>5, QueueBudget
<1>6. CASE \/ FeedSample \/ FeedEnd \/ FeedFail \/ MainFeedDone \/ MainJoin
           \/ TrainerStep \/ TrainerSynced \/ TrainerStop \/ UNCHANGED vars
  <2>1. /\ UNCHANGED <<staleness_samples, budget, task, active_tasks, counted, processor, mq, lock>>
        /\ reset' = "sizing" => reset = "sizing"
    BY <1>6 DEF FeedSample, FeedEnd, FeedFail, MainFeedDone, MainJoin, TrainerStep, TrainerSynced,
                TrainerStop, vars, rollouterVars, lockVars, countVars, feedVars, processorVars,
                resetVars, queueVars
  <2>2. QueuedSamples' = QueuedSamples /\ Carrying' = Carrying /\ (Holds("reset"))' = Holds("reset")
    BY <2>1 DEF QueuedSamples, Carrying, Holds
  <2>3. reset = "sizing" => Holds("reset")
    BY DEF BudgetInvariant
  <2> QED
    BY <2>1, <2>2, <2>3, IdleBudget
<1> QED
  BY <1>1, <1>2, <1>3, <1>4, <1>5, <1>6
     DEF Next, RollouterStep, FeedStep, MainStep, MonitorStep, TrainerNext, Returned

\* Nothing is in flight when the coroutines start.
LEMMA BudgetInit == FullyAsyncInit => BudgetInvariant
<1> SUFFICES ASSUME FullyAsyncInit PROVE BudgetInvariant
  OBVIOUS
<1>1. /\ budget = 0 /\ staleness_samples = 0 /\ processor = "start" /\ reset = "idle"
      /\ mq = <<>> /\ task = [s \in Samples |-> "new"]
  BY DEF FullyAsyncInit, Init
<1>2. Generating = {} /\ InFlight = {}
  BY <1>1 DEF InFlight, Generating, QueuedSamples
<1>3. Cardinality(InFlight) = 0
  BY <1>2, FS_EmptySet
<1>4. Charged = 0
  BY <1>1 DEF Charged, Carrying
<1> QED
  BY <1>1, <1>2, <1>3, <1>4, MaxRequiredType DEF BudgetInvariant

\* Freshness control holds: no parameter version is charged more than its
\* limit and the one sample the processor carries across a reset.
THEOREM FreshnessControl == Spec => [](BudgetInvariant /\ GenerationBudget)
<1>1. TypeOK /\ BudgetInvariant => GenerationBudget
  <2> SUFFICES ASSUME TypeOK, BudgetInvariant PROVE GenerationBudget
    OBVIOUS
  <2>1. budget \in Nat /\ budget <= Charged /\ Charged \in Nat
    BY DEF TypeOK, Charged
  <2> QED
    BY <2>1, MaxRequiredType DEF BudgetInvariant, GenerationBudget
<1> QED
  BY <1>1, BudgetInit, BudgetStep, TypeCorrect, PTL DEF Spec

-----------------------------------------------------------------------------
(* The pipeline implements FreshnessContract: where the samples are, as    *)
(* far as the contract depends on it, and the step simulation.             *)

\* What a queue holds besides the end signal, and that it holds it once.
Contents(q) == {q[i] : i \in 1..Len(q)} \ {End}
Once(q)     == \A i, j \in 1..Len(q) : i # j /\ q[i] # End => q[i] # q[j]

Generated == {"stored", "evicting", "done"}
Consumed  == batch \cup trained
Lost      == {s \in Samples : task[s] \notin {"new", "generating"}} \ (QueuedSamples \cup Consumed)

\* Where a sample can be, as far as the contract depends on it: what waits is
\* new, what is queued was generated and is in the queue once, what the trainer
\* took is not queued any more, and what is not fed yet is nowhere.
Placed(s) ==
    /\ s \in Contents(mq) => task[s] \in Generated
    /\ s \in Consumed => task[s] \in Generated /\ s \notin Contents(mq)
    /\ s \in Contents(pending_queue) => task[s] = "new" /\ s # held
    /\ s = held => task[s] = "new"
    /\ feed = "feeding" /\ s >= global_steps =>
           task[s] = "new" /\ s \notin Contents(pending_queue) /\ s # held

Placement == Once(mq) /\ Once(pending_queue) /\ \A s \in Samples : Placed(s)

-----------------------------------------------------------------------------
(* The two ends of a queue. *)

LEMMA TailOnce ==
  ASSUME NEW q \in Seq(Samples \cup {End}), q # <<>>, Once(q)
  PROVE  Once(Tail(q)) /\ Contents(Tail(q)) = Contents(q) \ {Head(q)}
<1> DEFINE t == Tail(q)
<1>1. /\ Len(t) = Len(q) - 1 /\ Len(t) \in Nat /\ Len(q) \in Nat /\ Len(q) >= 1
      /\ Head(q) = q[1] /\ \A i \in 1..Len(t) : t[i] = q[i + 1]
  OBVIOUS
<1> HIDE DEF t
<1>2. ASSUME NEW i \in 1..Len(t) PROVE i + 1 \in 1..Len(q) /\ i + 1 # 1 /\ t[i] = q[i + 1]
  <2>1. i \in Nat /\ 1 <= i /\ i <= Len(t) /\ t[i] = q[i + 1]
    BY <1>1
  <2> QED
    BY <1>1, <2>1
<1>3. ASSUME NEW j \in 1..Len(q), j # 1 PROVE j - 1 \in 1..Len(t) /\ t[j - 1] = q[j]
  <2>1. j - 1 \in 1..Len(t) /\ (j - 1) + 1 = j
    BY <1>1, <1>3
  <2> QED
    BY <1>2, <2>1
<1>4. Once(t)
  <2> SUFFICES ASSUME NEW i \in 1..Len(t), NEW j \in 1..Len(t), i # j, t[i] # End
               PROVE  t[i] # t[j]
    BY DEF Once
  <2>1. /\ i + 1 \in 1..Len(q) /\ j + 1 \in 1..Len(q) /\ i + 1 # j + 1
        /\ t[i] = q[i + 1] /\ t[j] = q[j + 1]
    BY <1>2
  <2> QED
    BY <2>1 DEF Once
<1>5. 1 \in 1..Len(q)
  BY <1>1
<1>6. ASSUME NEW x \in Contents(t) PROVE x \in Contents(q) \ {q[1]}
  <2>1. PICK i \in 1..Len(t) : x = t[i]
    BY DEF Contents
  <2>2. i + 1 \in 1..Len(q) /\ i + 1 # 1 /\ x = q[i + 1] /\ x # End
    BY <1>2, <2>1 DEF Contents
  <2>3. x # q[1]
    BY <1>5, <2>2 DEF Once
  <2> QED
    BY <2>2, <2>3 DEF Contents
<1>7. ASSUME NEW x \in Contents(q) \ {q[1]} PROVE x \in Contents(t)
  <2>1. PICK j \in 1..Len(q) : x = q[j]
    BY DEF Contents
  <2>2. j # 1 /\ x # End
    BY <2>1 DEF Contents
  <2> QED
    BY <1>3, <2>1, <2>2 DEF Contents
<1> QED
  BY <1>1, <1>4, <1>6, <1>7 DEF t

LEMMA AppendOnce ==
  ASSUME NEW q \in Seq(Samples \cup {End}), NEW x \in Samples \cup {End},
         Once(q), x \notin Contents(q)
  PROVE  Once(Append(q, x)) /\ Contents(Append(q, x)) = Contents(q) \cup ({x} \ {End})
<1> DEFINE a == Append(q, x)
<1>1. /\ Len(a) = Len(q) + 1 /\ Len(a) \in Nat /\ Len(q) \in Nat
      /\ a[Len(q) + 1] = x /\ \A i \in 1..Len(q) : a[i] = q[i]
  OBVIOUS
<1> HIDE DEF a
<1>2. ASSUME NEW i \in 1..Len(a)
      PROVE  \/ i \in 1..Len(q) /\ a[i] = q[i]
             \/ i = Len(q) + 1 /\ a[i] = x
  <2>1. i \in 1..Len(q) \/ i = Len(q) + 1
    BY <1>1
  <2> QED
    BY <1>1, <2>1
<1>3. ASSUME NEW i \in 1..Len(q) PROVE i \in 1..Len(a) /\ a[i] = q[i]
  BY <1>1
<1>4. Once(a)
  <2> SUFFICES ASSUME NEW i \in 1..Len(a), NEW j \in 1..Len(a), i # j, a[i] # End
               PROVE  a[i] # a[j]
    BY DEF Once
  <2>1. CASE i \in 1..Len(q) /\ a[i] = q[i] /\ j \in 1..Len(q) /\ a[j] = q[j]
    BY <2>1 DEF Once
  <2>2. CASE i \in 1..Len(q) /\ a[i] = q[i] /\ a[j] = x
    BY <2>2 DEF Contents
  <2>3. CASE j \in 1..Len(q) /\ a[j] = q[j] /\ a[i] = x
    BY <2>3 DEF Contents
  <2> QED
    BY <1>2, <2>1, <2>2, <2>3
<1>5. ASSUME NEW y \in Contents(a) PROVE y \in Contents(q) \cup ({x} \ {End})
  <2>1. PICK i \in 1..Len(a) : y = a[i]
    BY DEF Contents
  <2> QED
    BY <1>2, <2>1 DEF Contents
<1>6. ASSUME NEW y \in Contents(q) \cup ({x} \ {End}) PROVE y \in Contents(a)
  <2>1. CASE y \in Contents(q)
    <3>1. PICK i \in 1..Len(q) : y = q[i]
      BY <2>1 DEF Contents
    <3> QED
      BY <1>3, <2>1, <3>1 DEF Contents
  <2>2. CASE y = x /\ x # End
    <3>1. Len(q) + 1 \in 1..Len(a)
      BY <1>1
    <3> QED
      BY <1>1, <2>2, <3>1 DEF Contents
  <2> QED
    BY <2>1, <2>2
<1> QED
  BY <1>4, <1>5, <1>6 DEF a

\* A put brings in one entry and throws out at most one.
LEMMA PutOnce ==
  ASSUME mq \in Seq(Samples \cup {End}), NEW x \in Samples \cup {End},
         Once(mq), x \notin Contents(mq), mq' = PutSample(mq, x, max_queue_size)
  PROVE  LET drops == PutDrops(mq, max_queue_size) \ {End} IN
         /\ Once(mq)' /\ drops \subseteq Contents(mq)
         /\ Contents(mq)' = (Contents(mq) \ drops) \cup ({x} \ {End})
<1> DEFINE drops == PutDrops(mq, max_queue_size) \ {End}
<1>1. max_queue_size \in Nat \ {0}
  BY MaxRequiredType DEF max_queue_size
<1>2. CASE QueueFull(mq, max_queue_size)
  <2>1. mq # <<>> /\ mq' = Append(Tail(mq), x) /\ drops = {Head(mq)} \ {End}
    BY <1>1, <1>2 DEF QueueFull, PutSample, PutDrops
  <2>2. Once(Tail(mq)) /\ Contents(Tail(mq)) = Contents(mq) \ {Head(mq)}
    BY <2>1, TailOnce
  <2>3. Tail(mq) \in Seq(Samples \cup {End}) /\ x \notin Contents(Tail(mq))
    BY <2>1, <2>2
  <2>4. /\ Once(Append(Tail(mq), x))
        /\ Contents(Append(Tail(mq), x)) = Contents(Tail(mq)) \cup ({x} \ {End})
    BY <2>2, <2>3, AppendOnce
  <2>5. 1 \in 1..Len(mq) /\ Head(mq) = mq[1]
    BY <2>1
  <2>6. drops \subseteq Contents(mq) /\ Contents(mq) \ {Head(mq)} = Contents(mq) \ drops
    BY <2>1, <2>5 DEF Contents
  <2> QED
    BY <2>1, <2>2, <2>4, <2>6
<1>3. CASE ~QueueFull(mq, max_queue_size)
  <2>1. mq' = Append(mq, x) /\ drops = {}
    BY <1>3 DEF PutSample, PutDrops
  <2>2. Once(Append(mq, x)) /\ Contents(Append(mq, x)) = Contents(mq) \cup ({x} \ {End})
    BY AppendOnce
  <2> QED
    BY <2>1, <2>2
<1> QED
  BY <1>2, <1>3

-----------------------------------------------------------------------------
(* The invariant. *)

LEMMA PlacementInit == FullyAsyncInit => Placement
<1> SUFFICES ASSUME FullyAsyncInit PROVE Placement
  OBVIOUS
<1>1. /\ mq = <<>> /\ pending_queue = <<>> /\ Consumed = {} /\ held = End
      /\ \A s \in Samples : task[s] = "new"
  BY DEF FullyAsyncInit, Init, Consumed
<1>2. Contents(<<>>) = {} /\ Once(<<>>) /\ End \notin Samples
  BY RollouterAssumption DEF Contents, Once, End, Samples
<1> QED
  BY <1>1, <1>2 DEF Placement, Placed

\* Steps that move no sample keep the placement.
LEMMA PlacementKept ==
  ASSUME Placement, UNCHANGED <<mq, pending_queue, task, held>>, Consumed' = Consumed,
         feed' = "feeding" => feed = "feeding" /\ global_steps' = global_steps
  PROVE  Placement'
<1>1. Once(mq)' /\ Once(pending_queue)'
  BY DEF Placement, Once
<1>2. Contents(mq)' = Contents(mq) /\ Contents(pending_queue)' = Contents(pending_queue)
  BY DEF Contents
<1>3. ASSUME NEW s \in Samples PROVE Placed(s)'
  BY <1>2 DEF Placement, Placed
<1> QED
  BY <1>1, <1>3 DEF Placement

LEMMA FeedPlacement ==
  ASSUME TypeOK, Placement, FeedSample \/ FeedEnd, UNCHANGED <<trainerVars, driver>>
  PROVE  Placement'
<1> USE DEF lockVars, countVars, processorVars, resetVars, queueVars, trainerVars
<1> DEFINE x == IF feed = "feeding" THEN global_steps ELSE End
<1>1. /\ pending_queue' = Append(pending_queue, x) /\ x \in Samples \cup {End}
      /\ feed = "feeding" => x = global_steps
      /\ feed # "feeding" => x = End
      /\ feed' = "feeding" => feed = "feeding" /\ global_steps' = global_steps + 1
      /\ UNCHANGED <<mq, task, held, batch, trained>>
  BY DEF FeedSample, FeedEnd, TypeOK
<1> HIDE DEF x
<1>2. End \notin Samples /\ End \notin Contents(pending_queue) /\ global_steps \in Samples
  BY RollouterAssumption DEF End, Samples, Contents, TypeOK
<1>3. x \notin Contents(pending_queue)
  <2>1. CASE feed = "feeding"
    <3>1. global_steps >= global_steps
      BY <1>2 DEF Samples
    <3> QED
      BY <1>1, <1>2, <2>1, <3>1 DEF Placement, Placed
  <2>2. CASE feed # "feeding"
    BY <1>1, <1>2, <2>2
  <2> QED
    BY <2>1, <2>2
<1>4. Once(pending_queue)' /\ Contents(pending_queue)' = Contents(pending_queue) \cup ({x} \ {End})
  <2>1. /\ Once(Append(pending_queue, x))
        /\ Contents(Append(pending_queue, x)) = Contents(pending_queue) \cup ({x} \ {End})
    BY <1>1, <1>3, AppendOnce DEF Placement, TypeOK
  <2> QED
    BY <1>1, <2>1
<1>5. Once(mq)' /\ Contents(mq)' = Contents(mq) /\ Consumed' = Consumed
  BY <1>1 DEF Placement, Once, Contents, Consumed
<1>6. ASSUME NEW s \in Samples PROVE Placed(s)'
  <2>1. Placed(s)
    BY DEF Placement
  <2>2. s \in Contents(pending_queue)' => task'[s] = "new" /\ s # held'
    <3>1. CASE s \in Contents(pending_queue)
      BY <1>1, <2>1, <3>1 DEF Placed
    <3>2. CASE s = x
      <4>1. feed = "feeding" /\ s = global_steps /\ s >= global_steps
        BY <1>1, <1>2, <3>2 DEF Samples
      <4> QED
        BY <1>1, <2>1, <4>1 DEF Placed
    <3> QED
      BY <1>4, <3>1, <3>2
  <2>3. feed' = "feeding" /\ s >= global_steps' =>
           task'[s] = "new" /\ s \notin Contents(pending_queue)' /\ s # held'
    <3> SUFFICES ASSUME feed' = "feeding", s >= global_steps'
                 PROVE  task'[s] = "new" /\ s \notin Contents(pending_queue)' /\ s # held'
      OBVIOUS
    <3>1. feed = "feeding" /\ s >= global_steps /\ s # global_steps
      BY <1>1, <1>2 DEF Samples
    <3> QED
      BY <1>1, <1>4, <2>1, <3>1 DEF Placed
  <2> QED
    BY <1>1, <1>5, <2>1, <2>2, <2>3 DEF Placed
<1> QED
  BY <1>4, <1>5, <1>6 DEF Placement

LEMMA TakePlacement ==
  ASSUME TypeOK, Placement, ProcessorTake, UNCHANGED <<trainerVars, driver>>
  PROVE  Placement'
<1> USE DEF countVars, feedVars, resetVars, queueVars, trainerVars
<1>1. /\ pending_queue # <<>> /\ pending_queue' = Tail(pending_queue)
      /\ held' = Head(pending_queue)
      /\ UNCHANGED <<mq, task, batch, trained, feed, global_steps>>
  BY DEF ProcessorTake
<1>2. /\ Once(pending_queue)'
      /\ Contents(pending_queue)' = Contents(pending_queue) \ {Head(pending_queue)}
  BY <1>1, TailOnce DEF Placement, TypeOK
<1>3. Once(mq)' /\ Contents(mq)' = Contents(mq) /\ Consumed' = Consumed
  BY <1>1 DEF Placement, Once, Contents, Consumed
<1>4. held' = End \/ held' \in Contents(pending_queue)
  <2>1. 1 \in 1..Len(pending_queue) /\ Head(pending_queue) = pending_queue[1]
    BY <1>1 DEF TypeOK
  <2> QED
    BY <1>1, <2>1 DEF Contents
<1>5. End \notin Samples
  BY DEF End, Samples
<1>6. ASSUME NEW s \in Samples PROVE Placed(s)'
  BY <1>1, <1>2, <1>3, <1>4, <1>5 DEF Placement, Placed
<1> QED
  BY <1>2, <1>3, <1>6 DEF Placement

LEMMA SubmitPlacement ==
  ASSUME TypeOK, Placement, ProcessorSubmit, ~paused, UNCHANGED <<trainerVars, driver>>
  PROVE  Placement'
<1> USE DEF countVars, feedVars, resetVars, queueVars, trainerVars
<1>1. /\ held \in Samples /\ held' = End /\ task' = [task EXCEPT ![held] = "generating"]
      /\ UNCHANGED <<mq, pending_queue, batch, trained, feed, global_steps>>
  BY DEF ProcessorSubmit, TypeOK
<1>2. Contents(mq)' = Contents(mq) /\ Contents(pending_queue)' = Contents(pending_queue)
      /\ Once(mq)' /\ Once(pending_queue)' /\ Consumed' = Consumed
  BY <1>1 DEF Placement, Once, Contents, Consumed
<1>3. End \notin Samples /\ \A s \in Samples : task'[s] = IF s = held THEN "generating" ELSE task[s]
  BY <1>1 DEF End, Samples, TypeOK
<1>4. ASSUME NEW s \in Samples PROVE Placed(s)'
  BY <1>1, <1>2, <1>3 DEF Placement, Placed, Generated
<1> QED
  BY <1>2, <1>4 DEF Placement

LEMMA TaskPlacement ==
  ASSUME TypeOK, Placement, NEW s \in Samples, TaskReply(s) \/ TaskFail(s),
         UNCHANGED <<trainerVars, driver>>
  PROVE  Placement'
<1> USE DEF lockVars, countVars, feedVars, processorVars, resetVars, queueVars, trainerVars
<1>1. /\ UNCHANGED <<mq, pending_queue, held, batch, trained, feed, global_steps>>
      /\ \/ task[s] \in {"stored", "evicting"} /\ task' = [task EXCEPT ![s] = "done"]
         \/ task[s] = "generating" /\ task' = [task EXCEPT ![s] = "failed"]
  BY DEF TaskReply, TaskFail
<1>2. Contents(mq)' = Contents(mq) /\ Contents(pending_queue)' = Contents(pending_queue)
      /\ Once(mq)' /\ Once(pending_queue)' /\ Consumed' = Consumed
  BY <1>1 DEF Placement, Once, Contents, Consumed
<1>3. \A q \in Samples : \/ task'[q] = task[q]
                         \/ task[q] \in {"stored", "evicting"} /\ task'[q] = "done"
                         \/ task[q] = "generating" /\ task'[q] = "failed"
  BY <1>1 DEF TypeOK
<1>4. ASSUME NEW q \in Samples PROVE Placed(q)'
  <2>1. Placed(q)
    BY DEF Placement
  <2> QED
    BY <1>1, <1>2, <1>3, <2>1 DEF Placed, Generated
<1> QED
  BY <1>2, <1>4 DEF Placement

LEMMA PutPlacement ==
  ASSUME TypeOK, Placement, NEW s \in Samples, TaskPut(s), UNCHANGED <<trainerVars, driver>>
  PROVE  Placement'
<1> USE DEF lockVars, countVars, feedVars, processorVars, resetVars, queueVars, trainerVars
<1>1. /\ task[s] = "generating" /\ UNCHANGED <<pending_queue, held, batch, trained, feed, global_steps>>
      /\ mq' = PutSample(mq, s, max_queue_size)
      /\ \A q \in Samples : IF q = s THEN task'[q] \in {"stored", "evicting"} ELSE task'[q] = task[q]
  BY DEF TaskPut, TypeOK
<1>2. s \notin Contents(mq) /\ s \notin Consumed
  BY <1>1 DEF Placement, Placed, Generated
<1>3. Once(mq)' /\ Contents(mq)' \subseteq Contents(mq) \cup {s}
  BY <1>1, <1>2, PutOnce DEF Placement, TypeOK
<1>4. /\ Contents(pending_queue)' = Contents(pending_queue) /\ Once(pending_queue)'
      /\ Consumed' = Consumed
  BY <1>1 DEF Placement, Once, Contents, Consumed
<1>5. ASSUME NEW q \in Samples PROVE Placed(q)'
  <2>1. Placed(q)
    BY DEF Placement
  <2>2. CASE q = s
    BY <1>1, <1>2, <1>3, <1>4, <2>1, <2>2 DEF Placed, Generated
  <2>3. CASE q # s
    BY <1>1, <1>2, <1>3, <1>4, <2>1, <2>3 DEF Placed, Generated
  <2> QED
    BY <2>2, <2>3
<1> QED
  BY <1>3, <1>4, <1>5 DEF Placement

\* Steps on the message queue that bring in no sample.
LEMMA QueuePlacement ==
  ASSUME TypeOK, Placement, UNCHANGED <<pending_queue, task, held, global_steps, feed>>,
         Once(mq)', Contents(mq)' \subseteq Contents(mq),
         Consumed' \subseteq Consumed \cup (Contents(mq) \ Contents(mq)')
  PROVE  Placement'
<1>1. Contents(pending_queue)' = Contents(pending_queue) /\ Once(pending_queue)'
  BY DEF Placement, Once, Contents
<1>2. ASSUME NEW q \in Samples PROVE Placed(q)'
  <2>1. Placed(q)
    BY DEF Placement
  <2> QED
    BY <1>1, <2>1 DEF Placed
<1> QED
  BY <1>1, <1>2 DEF Placement

-----------------------------------------------------------------------------
(* Steps of the contract. *)

\* Nothing the contract sees.
LEMMA ContractStutters ==
  ASSUME UNCHANGED <<mq, budget>>, Consumed' = Consumed,
         \A s \in Samples : (task'[s] = "new") <=> (task[s] = "new"),
         \A s \in Samples : (task'[s] = "generating") <=> (task[s] = "generating")
  PROVE  UNCHANGED Contract!vars
<1>1. InFlight' = InFlight /\ QueuedSamples' = QueuedSamples
  BY DEF InFlight, Generating, QueuedSamples
<1>2. Lost' = Lost
  BY <1>1 DEF Lost
<1> QED
  BY <1>1, <1>2 DEF Contract!vars, Lost, Consumed

\* Samples in flight are lost.
LEMMA ContractLoses ==
  ASSUME Placement, NEW D \in SUBSET InFlight,
         InFlight' = InFlight \ D, Lost' = Lost \cup D, Consumed' = Consumed, budget' = budget
  PROVE  Contract!Next
<1>1. Contract!Lose
  BY DEF Contract!Lose, Lost, Consumed
<1> QED
  BY <1>1 DEF Contract!Next

\* A task is started: within the budget, for a sample not started before.
LEMMA SubmitContract ==
  ASSUME TypeOK, BudgetInvariant, Placement, ProcessorSubmit, ~paused,
         UNCHANGED <<trainerVars, driver>>
  PROVE  Contract!Next
<1> USE DEF countVars, feedVars, resetVars, queueVars, trainerVars
<1>1. /\ held \in Samples /\ task' = [task EXCEPT ![held] = "generating"]
      /\ budget' = budget + 1 /\ processor = "submit"
      /\ UNCHANGED <<mq, batch, trained>>
  BY DEF ProcessorSubmit, TypeOK
<1>2. task[held] = "new" /\ held \notin Contents(mq) /\ held \notin Consumed
  BY <1>1 DEF Placement, Placed, Generated
<1>3. QueuedSamples' = QueuedSamples /\ QueuedSamples = Contents(mq) /\ Consumed' = Consumed
  BY <1>1 DEF QueuedSamples, Contents, Consumed
<1>4. \A s \in Samples : task'[s] = IF s = held THEN "generating" ELSE task[s]
  BY <1>1 DEF TypeOK
<1>5. InFlight' = InFlight \cup {held}
  BY <1>1, <1>3, <1>4 DEF InFlight, Generating
<1>6. Lost' = Lost
  BY <1>1, <1>2, <1>3, <1>4 DEF Lost
<1>7. held \notin InFlight /\ held \notin Lost
  BY <1>1, <1>2, <1>3 DEF InFlight, Generating, Lost
<1>8. budget < max_required_samples + 1
  <2>1. Charged = budget + 1 /\ budget \in Nat
    BY <1>1 DEF Charged, Carrying, TypeOK
  <2> QED
    BY <2>1, MaxRequiredType DEF BudgetInvariant
<1>9. Contract!Start(held)
  BY <1>1, <1>2, <1>3, <1>5, <1>6, <1>7, <1>8
     DEF Contract!Start, Contract!Fresh, Lost, Consumed
<1> QED
  BY <1>1, <1>9 DEF Contract!Next

\* A put moves a sample within what is in flight, and may lose another one.
LEMMA PutContract ==
  ASSUME TypeOK, Placement, NEW s \in Samples, TaskPut(s), UNCHANGED <<trainerVars, driver>>
  PROVE  Contract!Next
<1> USE DEF lockVars, countVars, feedVars, processorVars, resetVars, trainerVars
<1> DEFINE D == PutDrops(mq, max_queue_size) \ {End}
<1>1. /\ task[s] = "generating" /\ UNCHANGED <<batch, trained, budget>>
      /\ mq' = PutSample(mq, s, max_queue_size)
      /\ \A q \in Samples : IF q = s THEN task'[q] \in {"stored", "evicting"} ELSE task'[q] = task[q]
  BY DEF TaskPut, TypeOK
<1>2. s \notin Contents(mq) /\ s \notin Consumed
  BY <1>1 DEF Placement, Placed, Generated
<1>3. End \notin Samples /\ Contents(mq) \subseteq Samples
  BY DEF End, Samples, Contents, TypeOK
<1>4. /\ D \subseteq Contents(mq)
      /\ Contents(mq)' = (Contents(mq) \ D) \cup {s}
  BY <1>1, <1>2, <1>3, PutOnce DEF Placement, TypeOK
<1> HIDE DEF D
<1>5. QueuedSamples' = Contents(mq)' /\ QueuedSamples = Contents(mq) /\ Consumed' = Consumed
  BY <1>1 DEF QueuedSamples, Contents, Consumed
<1>6. \A q \in Contents(mq) : task[q] \in Generated /\ q \notin Consumed /\ q # s
  BY <1>2, <1>3 DEF Placement, Placed
<1>7. InFlight' = InFlight \ D
  BY <1>1, <1>3, <1>4, <1>5, <1>6 DEF InFlight, Generating, Generated
<1>8. Lost' = Lost \cup D
  BY <1>1, <1>2, <1>3, <1>4, <1>5, <1>6 DEF Lost, Generated
<1>9. D \subseteq InFlight
  BY <1>4, <1>5 DEF InFlight
<1> QED
  BY <1>1, <1>5, <1>7, <1>8, <1>9, ContractLoses

\* A generation that raises loses its sample.
LEMMA FailContract ==
  ASSUME TypeOK, Placement, NEW s \in Samples, TaskFail(s), UNCHANGED <<trainerVars, driver>>
  PROVE  Contract!Next
<1> USE DEF lockVars, countVars, feedVars, processorVars, resetVars, queueVars, trainerVars
<1>1. /\ task[s] = "generating" /\ UNCHANGED <<mq, batch, trained, budget>>
      /\ \A q \in Samples : task'[q] = IF q = s THEN "failed" ELSE task[q]
  BY DEF TaskFail, TypeOK
<1>2. s \notin Contents(mq) /\ s \notin Consumed
  BY <1>1 DEF Placement, Placed, Generated
<1>3. QueuedSamples' = QueuedSamples /\ QueuedSamples = Contents(mq) /\ Consumed' = Consumed
  BY <1>1 DEF QueuedSamples, Contents, Consumed
<1>4. InFlight' = InFlight \ {s} /\ s \in InFlight
  BY <1>1, <1>2, <1>3 DEF InFlight, Generating
<1>5. Lost' = Lost \cup {s}
  BY <1>1, <1>2, <1>3 DEF Lost
<1> QED
  BY <1>1, <1>3, <1>4, <1>5, ContractLoses

\* What is taken out of the queue and not consumed is lost.
LEMMA QueueContract ==
  ASSUME TypeOK, Placement, UNCHANGED <<task, budget>>, Consumed' = Consumed,
         Contents(mq)' \subseteq Contents(mq)
  PROVE  Contract!Next
<1> DEFINE D == Contents(mq) \ Contents(mq)'
<1>1. Contents(mq) \subseteq Samples
  BY DEF End, Samples, Contents, TypeOK
<1>2. QueuedSamples' = Contents(mq)' /\ QueuedSamples = Contents(mq)
  BY DEF QueuedSamples, Contents
<1>3. \A q \in Contents(mq) : task[q] \in Generated /\ q \notin Consumed
  BY <1>1 DEF Placement, Placed
<1>4. InFlight' = InFlight \ D /\ D \subseteq InFlight
  BY <1>1, <1>2, <1>3 DEF InFlight, Generating, Generated
<1>5. Lost' = Lost \cup D
  BY <1>1, <1>2, <1>3 DEF Lost, Generated
<1> QED
  BY <1>4, <1>5, ContractLoses

\* The trainer takes a sample, or the end signal.
LEMMA GetContract ==
  ASSUME TypeOK, Placement, TrainerGet
  PROVE  Placement' /\ (Contract!Next \/ UNCHANGED Contract!vars)
<1> USE DEF lockVars, countVars, feedVars, processorVars, resetVars
<1> DEFINE x == Head(mq)
<1>1. /\ mq # <<>> /\ mq' = Tail(mq) /\ x \in Samples \cup {End}
      /\ UNCHANGED <<pending_queue, task, held, global_steps, feed, budget, trained>>
      /\ batch' = batch \cup ({x} \ {End})
  BY DEF TrainerGet, TypeOK
<1>2. Once(mq)' /\ Contents(mq)' = Contents(mq) \ {x}
  BY <1>1, TailOnce DEF Placement, TypeOK
<1>3. x # End => x \in Contents(mq)
  <2>1. 1 \in 1..Len(mq) /\ x = mq[1]
    BY <1>1 DEF TypeOK
  <2> QED
    BY <2>1 DEF Contents
<1>4. Consumed' = Consumed \cup ({x} \ {End})
  BY <1>1 DEF Consumed
<1> HIDE DEF x
<1>5. Placement'
  BY <1>1, <1>2, <1>3, <1>4, QueuePlacement
<1>6. QueuedSamples' = Contents(mq)' /\ QueuedSamples = Contents(mq)
  BY DEF QueuedSamples, Contents
<1>7. CASE x = End
  <2>1. Contents(mq)' = Contents(mq) /\ Consumed' = Consumed
    BY <1>2, <1>4, <1>7 DEF Contents
  <2> QED
    BY <1>1, <1>5, <2>1, QueueContract
<1>8. CASE x # End
  <2>1. x \in Samples /\ task[x] \in Generated
    BY <1>1, <1>3, <1>8 DEF Placement, Placed
  <2>2. InFlight' = InFlight \ {x} /\ x \in InFlight
    BY <1>1, <1>2, <1>3, <1>6, <1>8, <2>1 DEF InFlight, Generating, Generated
  <2>3. Lost' = Lost
    BY <1>1, <1>2, <1>3, <1>4, <1>6, <1>8 DEF Lost
  <2>4. Consumed' = Consumed \cup {x}
    BY <1>4, <1>8
  <2>5. Contract!Consume(x)
    BY <1>1, <2>2, <2>3, <2>4 DEF Contract!Consume, Lost, Consumed
  <2> QED
    BY <1>5, <2>1, <2>5 DEF Contract!Next
<1> QED
  BY <1>7, <1>8

\* The end signal may push a sample out; the task runner clears the queue.
LEMMA EndContract ==
  ASSUME TypeOK, Placement,
         \/ MainSendEnd /\ UNCHANGED <<trainerVars, driver>>
         \/ DriverReturn
  PROVE  Placement' /\ Contract!Next
<1> USE DEF lockVars, countVars, feedVars, processorVars, resetVars, trainerVars
<1>1. UNCHANGED <<pending_queue, task, held, global_steps, feed, budget, batch, trained>>
  BY DEF MainSendEnd, DriverReturn
<1>2. Consumed' = Consumed
  BY <1>1 DEF Consumed
<1>3. Once(mq)' /\ Contents(mq)' \subseteq Contents(mq)
  <2>1. CASE MainSendEnd
    <3>1. mq' = PutSample(mq, End, max_queue_size) /\ End \notin Contents(mq)
      BY <2>1 DEF MainSendEnd, Contents
    <3> QED
      BY <3>1, PutOnce DEF Placement, TypeOK
  <2>2. CASE DriverReturn
    <3>1. mq' = <<>>
      BY <2>2 DEF DriverReturn
    <3> QED
      BY <3>1 DEF Once, Contents
  <2> QED
    BY <2>1, <2>2
<1> QED
  BY <1>1, <1>2, <1>3, QueuePlacement, QueueContract

\* reset_staleness begins a new version.
LEMMA ResetContract ==
  ASSUME ResetEnd, UNCHANGED <<trainerVars, driver>>
  PROVE  Contract!Next
<1> USE DEF countVars, feedVars, queueVars, trainerVars
<1>1. /\ budget' = Cardinality(InFlight) /\ UNCHANGED <<mq, task, batch, trained>>
  BY DEF ResetEnd
<1>2. InFlight' = InFlight /\ QueuedSamples' = QueuedSamples
  BY <1>1 DEF InFlight, Generating, QueuedSamples
<1>3. Contract!Cardinality(InFlight) = Cardinality(InFlight)
  BY DEF Contract!Cardinality, Cardinality
<1>4. Contract!NewVersion
  BY <1>1, <1>2, <1>3 DEF Contract!NewVersion
<1> QED
  BY <1>4 DEF Contract!Next

-----------------------------------------------------------------------------
\* Every step of the pipeline is a step of the contract or none of its business.
LEMMA ContractStep ==
  ASSUME TypeOK, BudgetInvariant, Placement, [Next]_vars
  PROVE  Placement' /\ (Contract!Next \/ UNCHANGED Contract!vars)
<1> DEFINE Goal == Placement' /\ (Contract!Next \/ UNCHANGED Contract!vars)
           Others == UNCHANGED <<trainerVars, driver>>
<1> USE DEF lockVars, countVars, feedVars, processorVars, resetVars, queueVars, trainerVars
<1>1. ASSUME UNCHANGED <<mq, task, budget>>, Consumed' = Consumed
      PROVE  UNCHANGED Contract!vars
  BY <1>1, ContractStutters
<1>2. CASE (FeedSample \/ FeedEnd) /\ Others
  <2>1. UNCHANGED <<mq, task, budget>> /\ Consumed' = Consumed
    BY <1>2 DEF FeedSample, FeedEnd, Consumed
  <2> QED
    BY <1>1, <1>2, <2>1, FeedPlacement
<1>3. CASE ProcessorTake /\ Others
  <2>1. UNCHANGED <<mq, task, budget>> /\ Consumed' = Consumed
    BY <1>3 DEF ProcessorTake, Consumed
  <2> QED
    BY <1>1, <1>3, <2>1, TakePlacement
<1>4. CASE ProcessorSubmit /\ ~paused /\ Others
  BY <1>4, SubmitPlacement, SubmitContract
<1>5. ASSUME NEW s \in Samples, TaskStep(s), Others PROVE Goal
  <2>1. CASE TaskPut(s)
    BY <1>5, <2>1, PutPlacement, PutContract
  <2>2. CASE TaskReply(s)
    <3>1. /\ \A q \in Samples : (task'[q] = "new") <=> (task[q] = "new")
          /\ \A q \in Samples : (task'[q] = "generating") <=> (task[q] = "generating")
          /\ UNCHANGED <<mq, budget>> /\ Consumed' = Consumed
      BY <1>5, <2>2 DEF TaskReply, TypeOK, Consumed
    <3> QED
      BY <1>5, <2>2, <3>1, TaskPlacement, ContractStutters
  <2>3. CASE TaskFail(s)
    BY <1>5, <2>3, TaskPlacement, FailContract
  <2> QED
    BY <1>5, <2>1, <2>2, <2>3 DEF TaskStep
<1>6. CASE TrainerGet
  BY <1>6, GetContract
<1>7. CASE (MainSendEnd /\ Others) \/ DriverReturn
  BY <1>7, EndContract
<1>8. CASE ResetEnd /\ Others
  <2>1. Placement'
    BY <1>8, PlacementKept DEF ResetEnd, Consumed
  <2> QED
    BY <1>8, <2>1, ResetContract
<1>9. CASE \/ (ProcessorSubmit /\ paused /\ Others) \/ (FeedFail /\ Others)
           \/ ((ProcessorSeesPause \/ ProcessorPause \/ ProcessorReap) /\ Others)
           \/ ((ProcessorPark \/ ProcessorWaitPending) /\ Others)
           \/ ((MainFeedDone \/ MainJoin \/ MainRaise \/ MainStop) /\ Others)
           \/ (MonitorStep /\ Others) \/ (ResetBegin /\ Others)
           \/ TrainerStep \/ TrainerSync \/ TrainerSynced \/ TrainerStop \/ UNCHANGED vars
  <2>1. UNCHANGED <<mq, task, budget, pending_queue, held, global_steps>>
    BY <1>9 DEF ProcessorSubmit, FeedFail, ProcessorSeesPause, ProcessorPause, ProcessorReap,
         ProcessorPark, ProcessorWaitPending, MainFeedDone, MainJoin, MainRaise, MainStop,
         MonitorStep, MonitorTop, MonitorWake, MonitorResume, ResetBegin,
         TrainerStep, TrainerSync, TrainerSynced, TrainerStop, vars, rollouterVars
  <2>2. Consumed' = Consumed
    BY <1>9 DEF TrainerStep, TrainerSync, TrainerSynced, TrainerStop, vars, rollouterVars, Consumed
  <2>3. feed' = "feeding" => feed = "feeding"
    BY <1>9 DEF ProcessorSubmit, FeedFail, ProcessorSeesPause, ProcessorPause, ProcessorReap,
         ProcessorPark, ProcessorWaitPending, MainFeedDone, MainJoin, MainRaise, MainStop,
         MonitorStep, MonitorTop, MonitorWake, MonitorResume, ResetBegin,
         TrainerStep, TrainerSync, TrainerSynced, TrainerStop, vars, rollouterVars
  <2> QED
    BY <1>1, <2>1, <2>2, <2>3, PlacementKept
<1> QED
  BY <1>2, <1>3, <1>4, <1>5, <1>6, <1>7, <1>8, <1>9
     DEF Next, RollouterStep, FeedStep, ProcessorStep, MainStep, ResetStep, TrainerNext, Returned

LEMMA ContractInit == FullyAsyncInit => Contract!Init
<1> SUFFICES ASSUME FullyAsyncInit PROVE Contract!Init
  OBVIOUS
<1>1. /\ mq = <<>> /\ batch = {} /\ trained = {} /\ budget = 0
      /\ \A s \in Samples : task[s] = "new"
  BY DEF FullyAsyncInit, Init
<1>2. QueuedSamples = {} /\ InFlight = {}
  BY <1>1 DEF InFlight, Generating, QueuedSamples
<1> QED
  BY <1>1, <1>2 DEF Contract!Init

\* What the coroutines, locks and queues of fully asynchronous training do, the
\* contract allows: samples start once, are consumed at most once, and no
\* version starts more than its budget.
THEOREM ContractImplemented == Spec => ContractSpec
<1>1. TypeOK /\ BudgetInvariant /\ Placement /\ [Next]_vars
         => Placement' /\ [Contract!Next]_(Contract!vars)
  BY ContractStep
<1> QED
  BY <1>1, ContractInit, PlacementInit, TypeCorrect, FreshnessControl, PTL
     DEF Spec, ContractSpec, Contract!Spec

-----------------------------------------------------------------------------
(* Conservation: each sample is in one place, the trainer has seen all of   *)
(* them when both sides are done, a reset carries over no more than the     *)
(* freshness control allows, and the end signal is not pushed out.          *)

Stopped  == processor \in {"done", "raised", "cancelled"}
Training == trainer \in {"collect", "train", "sync", "resetting"}

\* How the rollouter shuts down: what the processor holds, what a finished
\* processor leaves behind, and what the main coroutine has seen by then.
Shutdown ==
    /\ held # End => Carrying \/ processor \in {"raised", "cancelled"}
    /\ processor = "done" => active_tasks = {}
    /\ \A s \in Samples : task[s] = "failed" =>
          s \in active_tasks \/ processor \in {"raised", "cancelled"}
    /\ main = "waitProcessor" => feed = "done"
    /\ main \in {"finally", "stopping", "done"} =>
          processor = "done" /\ feed = "done" /\ pending_queue = <<>>
    /\ main \in {"finallyRaise", "raised"} => Stopped
    /\ ~running => main = "done"
    /\ monitor = "done" => ~running

-----------------------------------------------------------------------------
(* Shutdown *)

LEMMA ShutdownInit == FullyAsyncInit => Shutdown
  BY DEF FullyAsyncInit, Init, Shutdown

LEMMA ShutdownProcessor ==
  ASSUME TypeOK, Shutdown, ProcessorStep
  PROVE  Shutdown'
<1> USE DEF lockVars, countVars, feedVars, resetVars, queueVars
<1>1. CASE ProcessorSeesPause \/ ProcessorPause \/ ProcessorPark \/ ProcessorWaitPending
  BY <1>1 DEF ProcessorSeesPause, ProcessorPause, ProcessorPark, ProcessorWaitPending, Checking,
              DrainOrPark, Shutdown, Stopped, Carrying
<1>2. CASE ProcessorReap
  <2>1. /\ processor \in {"draining", "limit", "finishing"}
        /\ active_tasks' = active_tasks \ Finished
        /\ processor' = IF \E s \in Finished : task[s] = "failed"
                        THEN "raised" ELSE AfterReap(active_tasks')
        /\ UNCHANGED <<held, task, main, feed, pending_queue, running, monitor>>
    BY <1>2 DEF ProcessorReap
  <2>2. held # End => processor = "limit"
    BY <2>1 DEF Shutdown, Carrying
  <2>3. held' # End => Carrying' \/ processor' = "raised"
    BY <2>1, <2>2 DEF AfterReap, LimitOrSubmit, Carrying
  <2>4. processor' = "done" => active_tasks' = {}
    BY <2>1 DEF AfterReap, LimitOrSubmit, DrainOrPark
  <2>5. ASSUME NEW s \in Samples, task'[s] = "failed"
        PROVE  s \in active_tasks' \/ processor' = "raised"
    BY <2>1, <2>5 DEF Shutdown, Finished
  <2>6. main \notin {"finally", "stopping", "done", "finallyRaise", "raised"}
    BY <2>1 DEF Shutdown, Stopped
  <2> QED
    BY <2>1, <2>3, <2>4, <2>5, <2>6 DEF Shutdown
<1>3. CASE ProcessorTake
  <2>1. /\ processor \in {"start", "check", "get"}
        /\ processor' \in {"done", "finishing", "limit", "submit"}
        /\ Head(pending_queue) = End => processor' \in {"done", "finishing"}
        /\ Head(pending_queue) # End => processor' \in {"limit", "submit"}
        /\ processor' = "done" => active_tasks = {}
        /\ held' = Head(pending_queue)
        /\ UNCHANGED <<active_tasks, task, main, feed, running, monitor>>
    BY <1>3 DEF ProcessorTake, Checking, LimitOrSubmit
  <2>2. main \notin {"finally", "stopping", "done", "finallyRaise", "raised"}
    BY <2>1 DEF Shutdown, Stopped
  <2> QED
    BY <2>1, <2>2 DEF Shutdown, Carrying
<1>4. CASE ProcessorSubmit
  <2>1. CASE paused
    BY <1>4, <2>1 DEF ProcessorSubmit, Shutdown, Stopped, Carrying
  <2>2. CASE ~paused
    <3>1. /\ processor = "submit" /\ processor' = "check" /\ held' = End /\ held \in Samples
          /\ \A s \in Samples : task'[s] = IF s = held THEN "generating" ELSE task[s]
          /\ active_tasks' = active_tasks \cup {held}
          /\ UNCHANGED <<main, feed, pending_queue, running, monitor>>
      BY <1>4, <2>2 DEF ProcessorSubmit, TypeOK
    <3>2. main \notin {"finally", "stopping", "done", "finallyRaise", "raised"}
      BY <3>1 DEF Shutdown, Stopped
    <3> QED
      BY <3>1, <3>2 DEF Shutdown
  <2> QED
    BY <2>1, <2>2
<1> QED
  BY <1>1, <1>2, <1>3, <1>4 DEF ProcessorStep

\* A notification moves the processor within its wait.
LEMMA NotifiedWaits ==
  ASSUME NEW l, NotifyAll(l)
  PROVE  /\ Carrying' <=> Carrying
         /\ processor' = processor \/ processor' \in {"parking", "submit"}
         /\ Stopped' <=> Stopped
         /\ processor' = "done" <=> processor = "done"
         /\ processor \in {"raised", "cancelled"} => processor' = processor
  BY DEF NotifyAll, Carrying, Stopped

LEMMA ShutdownStep ==
  ASSUME TypeOK, BudgetInvariant, Shutdown, [Next]_vars
  PROVE  Shutdown'
<1> USE DEF lockVars, countVars, feedVars, processorVars, resetVars, queueVars, rollouterVars
<1>1. CASE ProcessorStep
  BY <1>1, ShutdownProcessor
<1>2. CASE FeedStep
  BY <1>2 DEF FeedStep, FeedSample, FeedEnd, FeedFail, Shutdown, Stopped, Carrying
<1>3. ASSUME NEW s \in Samples, TaskStep(s) PROVE Shutdown'
  <2>1. /\ UNCHANGED <<held, active_tasks, processor, main, feed, pending_queue, running, monitor>>
        /\ \A q \in Samples : task'[q] = "failed" => task[q] = "failed" \/ task[q] = "generating"
    BY <1>3 DEF TaskStep, TaskPut, TaskReply, TaskFail, TypeOK
  <2>2. \A q \in Samples : task[q] = "generating" => q \in active_tasks
    BY DEF BudgetInvariant, Generating
  <2> QED
    BY <2>1, <2>2 DEF Shutdown, Stopped, Carrying
<1>4. CASE MainFeedDone \/ MainJoin \/ MainSendEnd \/ MainStop
  BY <1>4 DEF MainFeedDone, MainJoin, MainSendEnd, MainStop, Shutdown, Stopped, Carrying
<1>5. CASE MainRaise
  BY <1>5 DEF MainRaise, Shutdown, Stopped, Carrying
<1>6. CASE MonitorTop \/ MonitorWake
  BY <1>6 DEF MonitorTop, MonitorWake, Shutdown, Stopped, Carrying
<1>7. CASE MonitorResume \/ ResetBegin
  <2>1. /\ UNCHANGED <<held, task, active_tasks, main, feed, pending_queue, running>>
        /\ monitor' = "done" => monitor = "done"
    BY <1>7 DEF MonitorResume, ResetBegin
  <2>2. /\ (Carrying' <=> Carrying) /\ (Stopped' <=> Stopped)
        /\ processor' = "done" <=> processor = "done"
        /\ processor \in {"raised", "cancelled"} => processor' = processor
    BY <1>7, NotifiedWaits DEF MonitorResume, ResetBegin
  <2> QED
    BY <2>1, <2>2 DEF Shutdown
<1>8. CASE ResetEnd
  BY <1>8 DEF ResetEnd, Shutdown, Stopped, Carrying
<1>9. CASE TrainerNext \/ DriverReturn \/ UNCHANGED vars
  BY <1>9 DEF TrainerNext, TrainerGet, TrainerStep, TrainerSync, TrainerSynced, TrainerStop,
              DriverReturn, vars, Shutdown, Stopped, Carrying
<1> QED
  BY <1>1, <1>2, <1>3, <1>4, <1>5, <1>6, <1>7, <1>8, <1>9
     DEF Next, RollouterStep, MainStep, MonitorStep, ResetStep, Returned

-----------------------------------------------------------------------------
(* The end signal *)

\* It is sent once, by the main coroutine at its end.  Without a failure it is
\* the last entry until the trainer, having taken everything else, takes it.
EndOfQueue ==
    /\ \A i \in 1..Len(mq) : mq[i] = End => main \in {"stopping", "done", "raised"}
    /\ \A i, j \in 1..Len(mq) : mq[i] = End /\ mq[j] = End => i = j
    /\ ~Training => main \in {"stopping", "done", "raised"}
    /\ main \in {"stopping", "done"} =>
          IF Training THEN mq # <<>> /\ mq[Len(mq)] = End ELSE mq = <<>>

\* What a put leaves where.
LEMMA PutShape ==
  ASSUME mq \in Seq(Samples \cup {End}), NEW x \in Samples \cup {End},
         mq' = PutSample(mq, x, max_queue_size)
  PROVE  LET k == IF QueueFull(mq, max_queue_size) THEN 1 ELSE 0 IN
         /\ Len(mq') = Len(mq) - k + 1 /\ Len(mq') \in Nat /\ Len(mq) >= k
         /\ mq'[Len(mq')] = x
         /\ \A i \in 1..Len(mq') : i # Len(mq') => i + k \in 1..Len(mq) /\ mq'[i] = mq[i + k]
         /\ PutDrops(mq, max_queue_size) = IF k = 1 THEN {mq[1]} ELSE {}
<1>1. max_queue_size \in Nat \ {0}
  BY MaxRequiredType DEF max_queue_size
<1>2. CASE QueueFull(mq, max_queue_size)
  <2>1. mq # <<>> /\ mq' = Append(Tail(mq), x)
    BY <1>1, <1>2 DEF QueueFull, PutSample
  <2>2. PutDrops(mq, max_queue_size) = {mq[1]}
    BY <1>2, <2>1 DEF PutDrops
  <2> QED
    BY <1>2, <2>1, <2>2
<1>3. CASE ~QueueFull(mq, max_queue_size)
  <2>1. mq' = Append(mq, x) /\ PutDrops(mq, max_queue_size) = {}
    BY <1>3 DEF PutSample, PutDrops
  <2> QED
    BY <1>3, <2>1
<1> QED
  BY <1>2, <1>3

\* What a get leaves where.
LEMMA TailShape ==
  ASSUME mq \in Seq(Samples \cup {End}), mq # <<>>, mq' = Tail(mq)
  PROVE  /\ Len(mq') = Len(mq) - 1 /\ Len(mq') \in Nat /\ Len(mq) >= 1 /\ Len(mq) \in Nat
         /\ Head(mq) = mq[1] /\ (Len(mq) = 1 => mq' = <<>>) /\ (Len(mq) # 1 => mq' # <<>>)
         /\ \A i \in 1..Len(mq') : i + 1 \in 1..Len(mq) /\ mq'[i] = mq[i + 1]
<1>1. /\ Len(mq') = Len(mq) - 1 /\ Len(mq') \in Nat /\ Len(mq) >= 1 /\ Len(mq) \in Nat
      /\ Head(mq) = mq[1] /\ mq' \in Seq(Samples \cup {End})
  OBVIOUS
<1>2. (Len(mq) = 1 => mq' = <<>>) /\ (Len(mq) # 1 => mq' # <<>>)
  <2>1. mq' # <<>> => Len(mq') \in Nat \ {0}
    BY <1>1, EmptySeq
  <2>2. mq' = <<>> => Len(mq') = 0
    BY EmptySeq
  <2> QED
    BY <1>1, <2>1, <2>2
<1>3. \A i \in 1..Len(mq') : i + 1 \in 1..Len(mq) /\ mq'[i] = mq[i + 1]
  BY <1>1
<1> QED
  BY <1>1, <1>2, <1>3

LEMMA EndInit == FullyAsyncInit => EndOfQueue
  BY DEF FullyAsyncInit, Init, EndOfQueue, Training

\* No task is left to put a sample once the processor is done.
LEMMA NoTaskAfterEnd ==
  ASSUME BudgetInvariant, Shutdown, NEW s \in Samples, task[s] = "generating"
  PROVE  main \notin {"finally", "stopping", "done"}
  BY DEF BudgetInvariant, Shutdown, Generating

LEMMA PutEnd ==
  ASSUME TypeOK, BudgetInvariant, Shutdown, EndOfQueue, NEW s \in Samples, TaskPut(s),
         UNCHANGED <<trainerVars, driver>>
  PROVE  EndOfQueue'
<1> DEFINE k == IF QueueFull(mq, max_queue_size) THEN 1 ELSE 0
<1>1. /\ task[s] = "generating" /\ mq' = PutSample(mq, s, max_queue_size)
      /\ UNCHANGED <<main, trainer>> /\ s # End /\ mq \in Seq(Samples \cup {End})
  BY DEF TaskPut, trainerVars, TypeOK, End, Samples
<1>2. main \notin {"stopping", "done"}
  BY <1>1, NoTaskAfterEnd
<1>3. /\ mq'[Len(mq')] = s /\ k \in {0, 1}
      /\ \A i \in 1..Len(mq') : i # Len(mq') => i + k \in 1..Len(mq) /\ mq'[i] = mq[i + k]
  BY <1>1, PutShape
<1>4. Len(mq') \in Nat
  BY <1>1, PutShape
<1> HIDE DEF k
<1>5. ASSUME NEW i \in 1..Len(mq'), mq'[i] = End
      PROVE  i + k \in 1..Len(mq) /\ mq[i + k] = End
  BY <1>1, <1>3, <1>5
<1>6. \A i \in 1..Len(mq') : mq'[i] = End => main' \in {"stopping", "done", "raised"}
  BY <1>1, <1>5 DEF EndOfQueue
<1>7. ASSUME NEW i \in 1..Len(mq'), NEW j \in 1..Len(mq'), mq'[i] = End, mq'[j] = End
      PROVE  i = j
  <2>1. i + k = j + k
    BY <1>5, <1>7 DEF EndOfQueue
  <2> QED
    BY <1>3, <1>4, <2>1
<1> QED
  BY <1>1, <1>2, <1>6, <1>7 DEF EndOfQueue, Training

LEMMA SendEnd ==
  ASSUME TypeOK, EndOfQueue, MainSendEnd, UNCHANGED <<trainerVars, driver>>
  PROVE  EndOfQueue'
<1> DEFINE k == IF QueueFull(mq, max_queue_size) THEN 1 ELSE 0
<1>1. /\ main \in {"finally", "finallyRaise"} /\ main' \in {"stopping", "raised"}
      /\ mq' = PutSample(mq, End, max_queue_size) /\ UNCHANGED trainer
      /\ mq \in Seq(Samples \cup {End})
  BY DEF MainSendEnd, trainerVars, TypeOK
<1>2. Training /\ \A i \in 1..Len(mq) : mq[i] # End
  BY <1>1 DEF EndOfQueue
<1>3. /\ mq'[Len(mq')] = End /\ k \in {0, 1}
      /\ \A i \in 1..Len(mq') : i # Len(mq') => i + k \in 1..Len(mq) /\ mq'[i] = mq[i + k]
      /\ Len(mq') = Len(mq) - k + 1 /\ Len(mq) >= k
  BY <1>1, PutShape
<1>4. Len(mq) \in Nat
  BY <1>1
<1> HIDE DEF k
<1>5. mq' # <<>>
  BY <1>3, <1>4
<1>6. \A i, j \in 1..Len(mq') : mq'[i] = End /\ mq'[j] = End => i = j
  BY <1>2, <1>3
<1> QED
  BY <1>1, <1>2, <1>3, <1>5, <1>6 DEF EndOfQueue, Training

LEMMA GetEnd ==
  ASSUME TypeOK, EndOfQueue, TrainerGet
  PROVE  EndOfQueue'
<1>1. /\ mq # <<>> /\ mq' = Tail(mq) /\ mq \in Seq(Samples \cup {End}) /\ UNCHANGED main
      /\ Training /\ (Training' <=> Head(mq) # End)
  BY DEF TrainerGet, TypeOK, Training
<1>2. /\ Len(mq') = Len(mq) - 1 /\ Len(mq') \in Nat /\ Len(mq) >= 1 /\ Len(mq) \in Nat
      /\ Head(mq) = mq[1] /\ (Len(mq) = 1 => mq' = <<>>) /\ (Len(mq) # 1 => mq' # <<>>)
      /\ \A i \in 1..Len(mq') : i + 1 \in 1..Len(mq) /\ mq'[i] = mq[i + 1]
  BY <1>1, TailShape
<1>3. 1 \in 1..Len(mq) /\ Len(mq) \in 1..Len(mq)
  BY <1>2
<1>4. \A i \in 1..Len(mq') : mq'[i] = End => main' \in {"stopping", "done", "raised"}
  BY <1>1, <1>2 DEF EndOfQueue
<1>5. ASSUME NEW i \in 1..Len(mq'), NEW j \in 1..Len(mq'), mq'[i] = End, mq'[j] = End
      PROVE  i = j
  <2>1. i + 1 = j + 1
    BY <1>2, <1>5 DEF EndOfQueue
  <2> QED
    BY <1>2, <2>1
<1>6. ~Training' => main' \in {"stopping", "done", "raised"}
  BY <1>1, <1>2, <1>3 DEF EndOfQueue
<1>7. ASSUME main \in {"stopping", "done"}
      PROVE  IF Training' THEN mq' # <<>> /\ mq'[Len(mq')] = End ELSE mq' = <<>>
  <2>1. mq[Len(mq)] = End
    BY <1>1, <1>7 DEF EndOfQueue
  <2>2. CASE Head(mq) = End
    <3>1. Len(mq) = 1
      BY <1>2, <1>3, <2>1, <2>2 DEF EndOfQueue
    <3> QED
      BY <1>1, <1>2, <2>2, <3>1
  <2>3. CASE Head(mq) # End
    <3>1. Len(mq) # 1
      BY <1>2, <2>1, <2>3
    <3>2. Len(mq') \in 1..Len(mq') /\ Len(mq') + 1 = Len(mq)
      BY <1>2, <3>1
    <3> QED
      BY <1>1, <1>2, <2>1, <2>3, <3>1, <3>2
  <2> QED
    BY <2>2, <2>3
<1> QED
  BY <1>1, <1>4, <1>5, <1>6, <1>7 DEF EndOfQueue

LEMMA EndStep ==
  ASSUME TypeOK, BudgetInvariant, Shutdown, EndOfQueue, [Next]_vars
  PROVE  EndOfQueue'
<1> DEFINE Others == UNCHANGED <<trainerVars, driver>>
<1> USE DEF lockVars, countVars, feedVars, processorVars, resetVars, queueVars, trainerVars
<1>1. ASSUME UNCHANGED mq, Training' <=> Training,
             main' # main => Training /\ (\A i \in 1..Len(mq) : mq[i] # End) /\ main' \notin {"stopping", "done"}
      PROVE  EndOfQueue'
  BY <1>1 DEF EndOfQueue
<1>2. ASSUME NEW s \in Samples, TaskStep(s), Others PROVE EndOfQueue'
  <2>1. CASE TaskPut(s)
    BY <1>2, <2>1, PutEnd
  <2>2. CASE TaskReply(s) \/ TaskFail(s)
    BY <1>1, <1>2, <2>2 DEF TaskReply, TaskFail, Training
  <2> QED
    BY <1>2, <2>1, <2>2 DEF TaskStep
<1>3. CASE MainSendEnd /\ Others
  BY <1>3, SendEnd
<1>4. CASE TrainerGet
  BY <1>4, GetEnd
<1>5. CASE MainStop /\ Others
  BY <1>5 DEF MainStop, EndOfQueue, Training
<1>6. CASE (MainFeedDone \/ MainJoin \/ MainRaise) /\ Others
  <2>1. /\ UNCHANGED <<mq, trainer>> /\ main \in {"waitAny", "waitProcessor"}
        /\ main' \in {"waitProcessor", "finally", "finallyRaise"}
    BY <1>6 DEF MainFeedDone, MainJoin, MainRaise
  <2>2. Training /\ \A i \in 1..Len(mq) : mq[i] # End
    BY <2>1 DEF EndOfQueue
  <2> QED
    BY <1>1, <2>1, <2>2 DEF Training
<1>7. CASE DriverReturn
  <2>1. mq' = <<>> /\ UNCHANGED <<main, trainer>> /\ ~Training
    BY <1>7 DEF DriverReturn, Training
  <2> QED
    BY <2>1 DEF EndOfQueue, Training
<1>8. CASE (ProcessorStep \/ FeedStep \/ MonitorStep \/ ResetStep) /\ Others
  <2>1. UNCHANGED <<mq, main, trainer>>
    BY <1>8 DEF ProcessorStep, ProcessorSeesPause, ProcessorPause, ProcessorReap, ProcessorPark,
         ProcessorWaitPending, ProcessorTake, ProcessorSubmit, FeedStep, FeedSample, FeedEnd,
         FeedFail, MonitorStep, MonitorTop, MonitorWake, MonitorResume, ResetStep, ResetBegin,
         ResetEnd
  <2> QED
    BY <1>1, <2>1 DEF Training
<1>9. CASE TrainerStep \/ TrainerSync \/ TrainerSynced \/ TrainerStop \/ UNCHANGED vars
  <2>1. UNCHANGED <<mq, main>> /\ (Training' <=> Training)
    BY <1>9 DEF TrainerStep, TrainerSync, TrainerSynced, TrainerStop, vars, rollouterVars, Training
  <2> QED
    BY <1>1, <2>1
<1> QED
  BY <1>2, <1>3, <1>4, <1>5, <1>6, <1>7, <1>8, <1>9
     DEF Next, RollouterStep, MainStep, TrainerNext, Returned

-----------------------------------------------------------------------------
(* Conservation of samples *)

\* A sample was fed; it is one of the places a sample can be.
Fed(s) == s < global_steps \/ feed \in {"ending", "done"}

Somewhere(s) ==
    \/ s \in Contents(pending_queue) \/ s = held
    \/ task[s] \in {"generating", "failed"}
    \/ s \in Contents(mq) \/ s \in Consumed \/ s \in evicted

\* What Placed leaves open: what was evicted, what is not fed yet, and that
\* what was fed is not gone.
Accounted(s) ==
    /\ s \in evicted => task[s] \in Generated /\ s \notin Contents(mq) /\ s \notin Consumed
    /\ s > global_steps => task[s] = "new" /\ s \notin Contents(pending_queue) /\ s # held
    /\ Fed(s) => Somewhere(s)

Conservation == batch \cap trained = {} /\ \A s \in Samples : Accounted(s)

LEMMA ConservationInit == FullyAsyncInit => Conservation
<1> SUFFICES ASSUME FullyAsyncInit PROVE Conservation
  OBVIOUS
<1>1. /\ batch = {} /\ trained = {} /\ evicted = {} /\ feed = "feeding" /\ global_steps = 1
      /\ pending_queue = <<>> /\ held = End /\ task = [s \in Samples |-> "new"]
  BY DEF FullyAsyncInit, Init
<1>2. Contents(<<>>) = {} /\ End \notin Samples /\ \A s \in Samples : ~(s < 1)
  BY RollouterAssumption DEF Contents, End, Samples
<1> QED
  BY <1>1, <1>2 DEF Conservation, Accounted, Fed

\* Steps that move no sample.
LEMMA ConservationKept ==
  ASSUME Conservation,
         UNCHANGED <<mq, pending_queue, task, held, batch, trained, evicted, global_steps>>,
         feed' \in {"ending", "done"} => feed \in {"ending", "done"}
  PROVE  Conservation'
<1>1. /\ Contents(mq)' = Contents(mq) /\ Contents(pending_queue)' = Contents(pending_queue)
      /\ Consumed' = Consumed
  BY DEF Contents, Consumed
<1>2. ASSUME NEW s \in Samples PROVE Accounted(s)'
  BY <1>1 DEF Conservation, Accounted, Fed, Somewhere
<1> QED
  BY <1>2 DEF Conservation

LEMMA FeedConserves ==
  ASSUME TypeOK, Placement, Conservation, FeedSample, UNCHANGED <<trainerVars, driver>>
  PROVE  Conservation'
<1> USE DEF lockVars, countVars, processorVars, resetVars, queueVars, trainerVars
<1>1. /\ feed = "feeding" /\ pending_queue' = Append(pending_queue, global_steps)
      /\ UNCHANGED <<mq, task, held, batch, trained, evicted>>
      /\ \/ global_steps >= TotalRolloutSteps /\ global_steps' = global_steps
         \/ global_steps' = global_steps + 1 /\ feed' = "feeding"
  BY DEF FeedSample
<1>2. global_steps \in Samples /\ End \notin Samples
  BY DEF TypeOK, End, Samples
<1>3. global_steps >= global_steps
  BY <1>2 DEF Samples
<1>4. Contents(pending_queue)' = Contents(pending_queue) \cup {global_steps}
  <2>1. global_steps \notin Contents(pending_queue)
    BY <1>1, <1>2, <1>3 DEF Placement, Placed
  <2>2. Contents(Append(pending_queue, global_steps))
           = Contents(pending_queue) \cup ({global_steps} \ {End})
    BY <1>2, <2>1, AppendOnce DEF Placement, TypeOK
  <2> QED
    BY <1>1, <1>2, <2>2
<1>5. Contents(mq)' = Contents(mq) /\ Consumed' = Consumed
  BY <1>1 DEF Contents, Consumed
<1>6. ASSUME NEW s \in Samples PROVE Accounted(s)'
  <2>1. Accounted(s)
    BY DEF Conservation
  <2>2. Fed(s)' => s = global_steps \/ Fed(s)
    BY <1>1, <1>2, RollouterAssumption DEF Fed, Samples
  <2>3. s > global_steps' => s > global_steps /\ s # global_steps
    BY <1>1, <1>2 DEF Samples
  <2> QED
    BY <1>1, <1>4, <1>5, <2>1, <2>2, <2>3 DEF Accounted, Somewhere
<1> QED
  BY <1>1, <1>6 DEF Conservation

LEMMA FeedEndConserves ==
  ASSUME TypeOK, Placement, Conservation, FeedEnd, UNCHANGED <<trainerVars, driver>>
  PROVE  Conservation'
<1> USE DEF lockVars, countVars, processorVars, resetVars, queueVars, trainerVars
<1>1. /\ feed = "ending" /\ pending_queue' = Append(pending_queue, End)
      /\ UNCHANGED <<mq, task, held, batch, trained, evicted, global_steps>>
  BY DEF FeedEnd
<1>2. Contents(pending_queue)' = Contents(pending_queue)
  <2>1. End \notin Contents(pending_queue)
    BY DEF Contents
  <2>2. Contents(Append(pending_queue, End)) = Contents(pending_queue) \cup ({End} \ {End})
    BY <2>1, AppendOnce DEF Placement, TypeOK
  <2> QED
    BY <1>1, <2>2
<1>3. Contents(mq)' = Contents(mq) /\ Consumed' = Consumed
  BY <1>1 DEF Contents, Consumed
<1>4. ASSUME NEW s \in Samples PROVE Accounted(s)'
  BY <1>1, <1>2, <1>3 DEF Conservation, Accounted, Somewhere, Fed
<1> QED
  BY <1>1, <1>4 DEF Conservation

\* The processor takes a sample only when it holds none.
LEMMA TakeConserves ==
  ASSUME TypeOK, Placement, Shutdown, Conservation, ProcessorTake,
         UNCHANGED <<trainerVars, driver>>
  PROVE  Conservation'
<1> USE DEF countVars, feedVars, resetVars, queueVars, trainerVars
<1>1. /\ pending_queue # <<>> /\ pending_queue' = Tail(pending_queue)
      /\ held' = Head(pending_queue) /\ processor \in {"start", "check", "get"}
      /\ UNCHANGED <<mq, task, batch, trained, evicted, feed, global_steps>>
  BY DEF ProcessorTake, Checking
<1>2. held = End /\ End \notin Samples
  BY <1>1 DEF Shutdown, Carrying, End, Samples
<1>3. Contents(pending_queue)' = Contents(pending_queue) \ {Head(pending_queue)}
  BY <1>1, TailOnce DEF Placement, TypeOK
<1>4. held' = End \/ held' \in Contents(pending_queue)
  <2>1. 1 \in 1..Len(pending_queue) /\ Head(pending_queue) = pending_queue[1]
    BY <1>1 DEF TypeOK
  <2> QED
    BY <1>1, <2>1 DEF Contents
<1>5. Contents(mq)' = Contents(mq) /\ Consumed' = Consumed
  BY <1>1 DEF Contents, Consumed
<1>6. ASSUME NEW s \in Samples PROVE Accounted(s)'
  BY <1>1, <1>2, <1>3, <1>4, <1>5 DEF Conservation, Accounted, Somewhere, Fed
<1> QED
  BY <1>1, <1>6 DEF Conservation

LEMMA SubmitConserves ==
  ASSUME TypeOK, Placement, Conservation, ProcessorSubmit, ~paused,
         UNCHANGED <<trainerVars, driver>>
  PROVE  Conservation'
<1> USE DEF countVars, feedVars, resetVars, queueVars, trainerVars
<1>1. /\ held \in Samples /\ held' = End
      /\ \A s \in Samples : task'[s] = IF s = held THEN "generating" ELSE task[s]
      /\ UNCHANGED <<mq, pending_queue, batch, trained, evicted, feed, global_steps>>
  BY DEF ProcessorSubmit, TypeOK
<1>2. /\ Contents(mq)' = Contents(mq) /\ Contents(pending_queue)' = Contents(pending_queue)
      /\ Consumed' = Consumed /\ End \notin Samples
  BY <1>1 DEF Contents, Consumed, End, Samples
<1>3. task[held] = "new"
  BY <1>1 DEF Placement, Placed
<1>4. ASSUME NEW s \in Samples PROVE Accounted(s)'
  BY <1>1, <1>2, <1>3, <1>4 DEF Conservation, Accounted, Somewhere, Fed, Generated
<1> QED
  BY <1>1, <1>4 DEF Conservation

LEMMA ReplyConserves ==
  ASSUME TypeOK, Conservation, NEW s \in Samples, TaskReply(s) \/ TaskFail(s),
         UNCHANGED <<trainerVars, driver>>
  PROVE  Conservation'
<1> USE DEF lockVars, countVars, feedVars, processorVars, resetVars, queueVars, trainerVars
<1>1. /\ UNCHANGED <<mq, pending_queue, held, batch, trained, evicted, feed, global_steps>>
      /\ \/ task[s] \in {"stored", "evicting"} /\ task' = [task EXCEPT ![s] = "done"]
         \/ task[s] = "generating" /\ task' = [task EXCEPT ![s] = "failed"]
  BY DEF TaskReply, TaskFail
<1>2. \A q \in Samples : \/ task'[q] = task[q]
                         \/ task[q] \in {"stored", "evicting"} /\ task'[q] = "done"
                         \/ task[q] = "generating" /\ task'[q] = "failed"
  BY <1>1 DEF TypeOK
<1>3. /\ Contents(mq)' = Contents(mq) /\ Contents(pending_queue)' = Contents(pending_queue)
      /\ Consumed' = Consumed
  BY <1>1 DEF Contents, Consumed
<1>4. ASSUME NEW q \in Samples PROVE Accounted(q)'
  <2>1. Accounted(q)
    BY DEF Conservation
  <2> QED
    BY <1>1, <1>2, <1>3, <2>1 DEF Accounted, Somewhere, Fed, Generated
<1> QED
  BY <1>1, <1>4 DEF Conservation

LEMMA PutConserves ==
  ASSUME TypeOK, Placement, Conservation, NEW s \in Samples, TaskPut(s),
         UNCHANGED <<trainerVars, driver>>
  PROVE  Conservation'
<1> USE DEF lockVars, countVars, feedVars, processorVars, resetVars, trainerVars
<1> DEFINE drops == PutDrops(mq, max_queue_size) \ {End}
<1>1. /\ task[s] = "generating" /\ mq' = PutSample(mq, s, max_queue_size)
      /\ evicted' = evicted \cup PutDrops(mq, max_queue_size)
      /\ UNCHANGED <<pending_queue, held, batch, trained, feed, global_steps>>
      /\ \A q \in Samples : IF q = s THEN task'[q] \in {"stored", "evicting"} ELSE task'[q] = task[q]
  BY DEF TaskPut, TypeOK
<1>2. s \notin Contents(mq) /\ s \notin Consumed /\ End \notin Samples
  BY <1>1 DEF Placement, Placed, Generated, End, Samples
<1>3. /\ drops \subseteq Contents(mq)
      /\ Contents(mq)' = (Contents(mq) \ drops) \cup {s}
  BY <1>1, <1>2, PutOnce DEF Placement, TypeOK
<1>4. \A q \in Samples : q \in evicted' <=> q \in evicted \/ q \in drops
  BY <1>1, <1>2
<1> HIDE DEF drops
<1>5. Contents(pending_queue)' = Contents(pending_queue) /\ Consumed' = Consumed
  BY <1>1 DEF Contents, Consumed
<1>6. ASSUME NEW q \in Samples PROVE Accounted(q)'
  <2>1. Accounted(q) /\ Placed(q)
    BY DEF Conservation, Placement
  <2>2. q \in evicted' => task'[q] \in Generated /\ q \notin Contents(mq)' /\ q \notin Consumed'
    BY <1>1, <1>2, <1>3, <1>4, <1>5, <2>1 DEF Accounted, Placed, Generated
  <2>3. q > global_steps' => task'[q] = "new" /\ q \notin Contents(pending_queue)' /\ q # held'
    BY <1>1, <1>5, <2>1 DEF Accounted
  <2>4. Fed(q)' => Somewhere(q)'
    <3>1. Somewhere(q) => Somewhere(q)'
      BY <1>1, <1>3, <1>4, <1>5 DEF Somewhere
    <3> QED
      BY <1>1, <2>1, <3>1 DEF Accounted, Fed
  <2> QED
    BY <2>2, <2>3, <2>4 DEF Accounted
<1> QED
  BY <1>1, <1>6 DEF Conservation

LEMMA SendEndConserves ==
  ASSUME TypeOK, Placement, Conservation, MainSendEnd, UNCHANGED <<trainerVars, driver>>
  PROVE  Conservation'
<1> USE DEF lockVars, countVars, feedVars, processorVars, resetVars, trainerVars
<1> DEFINE drops == PutDrops(mq, max_queue_size) \ {End}
<1>1. /\ mq' = PutSample(mq, End, max_queue_size)
      /\ evicted' = evicted \cup PutDrops(mq, max_queue_size)
      /\ UNCHANGED <<pending_queue, task, held, batch, trained, feed, global_steps>>
  BY DEF MainSendEnd
<1>2. End \notin Contents(mq) /\ End \notin Samples
  BY DEF Contents, End, Samples
<1>3. /\ drops \subseteq Contents(mq)
      /\ Contents(mq)' = Contents(mq) \ drops
  BY <1>1, <1>2, PutOnce DEF Placement, TypeOK
<1>4. \A q \in Samples : q \in evicted' <=> q \in evicted \/ q \in drops
  BY <1>1, <1>2
<1> HIDE DEF drops
<1>5. Contents(pending_queue)' = Contents(pending_queue) /\ Consumed' = Consumed
  BY <1>1 DEF Contents, Consumed
<1>6. ASSUME NEW q \in Samples PROVE Accounted(q)'
  <2>1. Accounted(q) /\ Placed(q)
    BY DEF Conservation, Placement
  <2> QED
    BY <1>1, <1>3, <1>4, <1>5, <2>1 DEF Accounted, Placed, Fed, Somewhere
<1> QED
  BY <1>1, <1>6 DEF Conservation

LEMMA GetConserves ==
  ASSUME TypeOK, Placement, Conservation, TrainerGet
  PROVE  Conservation'
<1> USE DEF lockVars, countVars, feedVars, processorVars, resetVars
<1> DEFINE x == Head(mq)
<1>1. /\ mq # <<>> /\ mq' = Tail(mq)
      /\ UNCHANGED <<pending_queue, task, held, global_steps, feed, evicted, trained>>
      /\ batch' = batch \cup ({x} \ {End})
  BY DEF TrainerGet
<1>2. Contents(mq)' = Contents(mq) \ {x}
  BY <1>1, TailOnce DEF Placement, TypeOK
<1>3. x # End => x \in Contents(mq) /\ x \in Samples
  <2>1. 1 \in 1..Len(mq) /\ x = mq[1] /\ x \in Samples \cup {End}
    BY <1>1 DEF TypeOK
  <2> QED
    BY <2>1 DEF Contents
<1> HIDE DEF x
<1>4. Consumed' = Consumed \cup ({x} \ {End})
  BY <1>1 DEF Consumed
<1>5. x # End => x \notin Consumed
  BY <1>3 DEF Placement, Placed
<1>6. batch' \cap trained' = {}
  BY <1>1, <1>5 DEF Conservation, Consumed
<1>7. Contents(pending_queue)' = Contents(pending_queue)
  BY <1>1 DEF Contents
<1>8. ASSUME NEW q \in Samples PROVE Accounted(q)'
  <2>1. Accounted(q) /\ q # End
    BY DEF Conservation, End, Samples
  <2> QED
    BY <1>1, <1>2, <1>3, <1>4, <1>7, <2>1 DEF Accounted, Fed, Somewhere
<1> QED
  BY <1>6, <1>8 DEF Conservation

LEMMA TrainConserves ==
  ASSUME Conservation, TrainerStep
  PROVE  Conservation'
<1>1. /\ UNCHANGED <<mq, pending_queue, task, held, global_steps, feed, evicted>>
      /\ batch' = {} /\ trained' = trained \cup batch
  BY DEF TrainerStep, rollouterVars, queueVars, feedVars, processorVars
<1>2. /\ Contents(mq)' = Contents(mq) /\ Contents(pending_queue)' = Contents(pending_queue)
      /\ Consumed' = Consumed
  BY <1>1 DEF Contents, Consumed
<1>3. ASSUME NEW q \in Samples PROVE Accounted(q)'
  BY <1>1, <1>2 DEF Conservation, Accounted, Fed, Somewhere
<1> QED
  BY <1>1, <1>3 DEF Conservation

\* The task runner clears a queue that is empty already.
LEMMA NothingToClear ==
  ASSUME Shutdown, EndOfQueue, DriverReturn
  PROVE  mq = <<>> /\ mq' = <<>>
  BY DEF DriverReturn, RolloutFitReturned, Shutdown, EndOfQueue, Training

LEMMA ConservationStep ==
  ASSUME TypeOK, Placement, Shutdown, EndOfQueue, Conservation, [Next]_vars
  PROVE  Conservation'
<1> DEFINE Others == UNCHANGED <<trainerVars, driver>>
<1> USE DEF lockVars, countVars, feedVars, processorVars, resetVars, queueVars, trainerVars
<1>1. CASE FeedStep /\ Others
  <2>1. CASE FeedFail
    BY <1>1, <2>1, ConservationKept DEF FeedFail
  <2> QED
    BY <1>1, <2>1, FeedConserves, FeedEndConserves DEF FeedStep
<1>2. CASE ProcessorTake /\ Others
  BY <1>2, TakeConserves
<1>3. CASE ProcessorSubmit /\ Others
  <2>1. CASE paused
    BY <1>3, <2>1, ConservationKept DEF ProcessorSubmit
  <2> QED
    BY <1>3, <2>1, SubmitConserves
<1>4. ASSUME NEW s \in Samples, TaskStep(s), Others PROVE Conservation'
  BY <1>4, PutConserves, ReplyConserves DEF TaskStep
<1>5. CASE MainSendEnd /\ Others
  BY <1>5, SendEndConserves
<1>6. CASE TrainerGet
  BY <1>6, GetConserves
<1>7. CASE TrainerStep
  BY <1>7, TrainConserves
<1>8. CASE DriverReturn
  <2>1. UNCHANGED <<mq, pending_queue, task, held, batch, trained, evicted, global_steps, feed>>
    BY <1>8, NothingToClear DEF DriverReturn
  <2> QED
    BY <2>1, ConservationKept
<1>9. CASE \/ (ProcessorSeesPause \/ ProcessorPause \/ ProcessorReap) /\ Others
           \/ (ProcessorPark \/ ProcessorWaitPending) /\ Others
           \/ (MainFeedDone \/ MainJoin \/ MainRaise \/ MainStop) /\ Others
           \/ (MonitorStep \/ ResetStep) /\ Others
           \/ TrainerSync \/ TrainerSynced \/ TrainerStop \/ UNCHANGED vars
  <2>1. UNCHANGED <<mq, pending_queue, task, held, batch, trained, evicted, global_steps>>
    BY <1>9 DEF ProcessorSeesPause, ProcessorPause, ProcessorReap, ProcessorPark,
         ProcessorWaitPending, MainFeedDone, MainJoin, MainRaise, MainStop, MonitorStep,
         MonitorTop, MonitorWake, MonitorResume, ResetStep, ResetBegin, ResetEnd,
         TrainerSync, TrainerSynced, TrainerStop, vars, rollouterVars
  <2>2. feed' \in {"ending", "done"} => feed \in {"ending", "done"}
    BY <1>9 DEF ProcessorSeesPause, ProcessorPause, ProcessorReap, ProcessorPark,
         ProcessorWaitPending, MainFeedDone, MainJoin, MainRaise, MainStop, MonitorStep,
         MonitorTop, MonitorWake, MonitorResume, ResetStep, ResetBegin, ResetEnd,
         TrainerSync, TrainerSynced, TrainerStop, vars, rollouterVars
  <2> QED
    BY <2>1, <2>2, ConservationKept
<1> QED
  BY <1>1, <1>2, <1>3, <1>4, <1>5, <1>6, <1>7, <1>8, <1>9
     DEF Next, RollouterStep, ProcessorStep, MainStep, TrainerNext, Returned

\* The inductive invariant of this module.
Pipeline ==
    TypeOK /\ BudgetInvariant /\ Placement /\ Shutdown /\ EndOfQueue /\ Conservation

LEMMA PipelineStep == Pipeline /\ TypeOK' /\ BudgetInvariant' /\ [Next]_vars => Pipeline'
  BY ContractStep, ShutdownStep, EndStep, ConservationStep DEF Pipeline

LEMMA PipelineInvariant == Spec => []Pipeline
<1>1. FullyAsyncInit /\ TypeOK /\ BudgetInvariant => Pipeline
  BY PlacementInit, ShutdownInit, EndInit, ConservationInit DEF Pipeline
<1> QED
  BY <1>1, PipelineStep, TypeCorrect, FreshnessControl, PTL DEF Spec

\* The places of a sample exclude each other.
LEMMA OnePlace ==
  ASSUME Pipeline, NEW s \in Samples
  PROVE  /\ PlaceCount(s) <= 1
         /\ Somewhere(s) => PlaceCount(s) = 1
         /\ s > global_steps => PlaceCount(s) = 0
<1> DEFINE places == {i \in 1..7 : Places(s)[i]}
<1>1. s # End
  BY DEF End, Samples
<1>2. /\ Places(s)[1] <=> s \in Contents(pending_queue)
      /\ Places(s)[2] <=> s = held
      /\ Places(s)[3] <=> task[s] \in {"generating", "failed"}
      /\ Places(s)[4] <=> s \in Contents(mq)
      /\ Places(s)[5] <=> s \in batch
      /\ Places(s)[6] <=> s \in trained
      /\ Places(s)[7] <=> s \in evicted
  BY <1>1 DEF Places, Contents, QueuedSamples
<1>3. 1..7 = {1, 2, 3, 4, 5, 6, 7}
  OBVIOUS
<1>4. Placed(s) /\ Accounted(s) /\ batch \cap trained = {}
  BY DEF Pipeline, Placement, Conservation
<1>5. (\E k \in 1..7 : places = {k}) \/ places = {}
  <2>1. CASE Places(s)[1]
    <3>1. places = {1}
      BY <1>2, <1>3, <1>4, <2>1 DEF Placed, Accounted, Generated, Consumed
    <3> QED
      BY <3>1
  <2>2. CASE Places(s)[2]
    <3>1. places = {2}
      BY <1>2, <1>3, <1>4, <2>2 DEF Placed, Accounted, Generated, Consumed
    <3> QED
      BY <3>1
  <2>3. CASE Places(s)[3]
    <3>1. places = {3}
      BY <1>2, <1>3, <1>4, <2>3 DEF Placed, Accounted, Generated, Consumed
    <3> QED
      BY <3>1
  <2>4. CASE Places(s)[4]
    <3>1. places = {4}
      BY <1>2, <1>3, <1>4, <2>4 DEF Placed, Accounted, Generated, Consumed
    <3> QED
      BY <3>1
  <2>5. CASE Places(s)[5]
    <3>1. places = {5}
      BY <1>2, <1>3, <1>4, <2>5 DEF Placed, Accounted, Generated, Consumed
    <3> QED
      BY <3>1
  <2>6. CASE Places(s)[6]
    <3>1. places = {6}
      BY <1>2, <1>3, <1>4, <2>6 DEF Placed, Accounted, Generated, Consumed
    <3> QED
      BY <3>1
  <2>7. CASE Places(s)[7]
    <3>1. places = {7}
      BY <1>2, <1>3, <1>4, <2>7 DEF Placed, Accounted, Generated, Consumed
    <3> QED
      BY <3>1
  <2> QED
    BY <1>3, <2>1, <2>2, <2>3, <2>4, <2>5, <2>6, <2>7
<1>6. PlaceCount(s) = Cardinality(places)
  BY DEF PlaceCount
<1>7. Somewhere(s) => places # {}
  BY <1>2, <1>3 DEF Somewhere, Consumed
<1>8. s > global_steps => places = {}
  BY <1>2, <1>3, <1>4 DEF Placed, Accounted, Generated, Consumed
<1> HIDE DEF places
<1>9. PlaceCount(s) \in {0, 1} /\ (PlaceCount(s) = 0 <=> places = {})
  <2>1. \A k \in 1..7 : Cardinality({k}) = 1
    BY FS_Singleton
  <2>2. Cardinality({}) = 0
    BY FS_EmptySet
  <2> QED
    BY <1>5, <1>6, <2>1, <2>2
<1> QED
  BY <1>7, <1>8, <1>9

\* No sample is lost, duplicated or trained on twice: at every moment each
\* sample the dataloader delivered is in exactly one place, whatever the
\* interleaving of the coroutines and whatever fails.
THEOREM SamplesConserved == Spec => []SampleConservation
<1>1. ASSUME Pipeline PROVE SampleConservation
  <2>1. ASSUME NEW i \in 1..Len(mq), NEW j \in 1..Len(mq), i # j PROVE mq[i] # mq[j]
    BY <1>1, <2>1 DEF Pipeline, Placement, Once, EndOfQueue
  <2>2. ASSUME NEW s \in Samples
        PROVE  /\ PlaceCount(s) <= 1
               /\ s < global_steps => PlaceCount(s) = 1
               /\ s > global_steps => PlaceCount(s) = 0
    BY <1>1, OnePlace DEF Pipeline, Conservation, Accounted, Fed
  <2> QED
    BY <2>1, <2>2 DEF SampleConservation
<1> QED
  BY <1>1, PipelineInvariant, PTL

-----------------------------------------------------------------------------
(* The trainer's steps *)

\* Every training step takes RequiredSamples samples; the parameter version
\* and the local step count the training steps.
StepsDone == current_param_version * TriggerSteps + local_trigger_step - 1

Batches ==
    /\ Cardinality(trained) = RequiredSamples * StepsDone
    /\ trainer \in {"sync", "resetting"} => batch = {} /\ local_trigger_step = 1
    /\ trainer = "train" => Cardinality(batch) = RequiredSamples
    /\ trainer \notin {"train", "sync", "resetting"} => Cardinality(batch) < RequiredSamples

LEMMA NextProduct ==
  ASSUME NEW a \in Nat, NEW b \in Nat
  PROVE  (a + 1) * b = a * b + b /\ b * (a + 1) = b * a + b /\ a * b \in Nat /\ b * a \in Nat
  OBVIOUS

LEMMA BatchesInit == FullyAsyncInit => Batches
<1> SUFFICES ASSUME FullyAsyncInit PROVE Batches
  OBVIOUS
<1>1. /\ trained = {} /\ batch = {} /\ current_param_version = 0 /\ local_trigger_step = 1
      /\ trainer = "collect"
  BY DEF FullyAsyncInit
<1>2. Cardinality(trained) = 0 /\ Cardinality(batch) = 0
  BY <1>1, FS_EmptySet
<1>3. StepsDone = 0
  BY <1>1, RollouterAssumption DEF StepsDone
<1>4. RequiredSamples * 0 = 0 /\ 0 < RequiredSamples
  BY RollouterAssumption
<1> QED
  BY <1>1, <1>2, <1>3, <1>4 DEF Batches

LEMMA GetBatch ==
  ASSUME Pipeline, Batches, TrainerGet
  PROVE  Batches'
<1> DEFINE x == Head(mq)
<1>1. /\ mq # <<>> /\ mq \in Seq(Samples \cup {End}) /\ trainer = "collect"
      /\ UNCHANGED <<trained, current_param_version, local_trigger_step>>
      /\ IF x = End
         THEN trainer' = "stopping" /\ batch' = batch
         ELSE /\ batch' = batch \cup {x}
              /\ trainer' = IF Cardinality(batch) + 1 >= RequiredSamples THEN "train" ELSE "collect"
  BY DEF TrainerGet, Pipeline, TypeOK
<1>2. batch \subseteq Samples /\ Cardinality(batch) < RequiredSamples
  BY <1>1 DEF Batches, Pipeline, TypeOK
<1>3. IsFiniteSet(batch) /\ Cardinality(batch) \in Nat /\ RequiredSamples \in Nat
  BY <1>2, FiniteSamples, RollouterAssumption
<1>4. CASE x = End
  BY <1>1, <1>2, <1>4 DEF Batches, StepsDone
<1>5. CASE x # End
  <2>1. 1 \in 1..Len(mq) /\ x = mq[1] /\ x \in Samples \cup {End}
    BY <1>1
  <2>2. x \in Samples /\ x \in Contents(mq)
    BY <1>5, <2>1 DEF Contents
  <2>3. x \notin batch
    BY <2>2 DEF Pipeline, Placement, Placed, Consumed
  <2>4. Cardinality(batch') = Cardinality(batch) + 1
    BY <1>1, <1>3, <1>5, <2>3, FS_AddElement
  <2> HIDE DEF x
  <2>5. /\ trainer' = "train" => Cardinality(batch') = RequiredSamples
        /\ trainer' # "train" => trainer' = "collect" /\ Cardinality(batch') < RequiredSamples
    BY <1>1, <1>2, <1>3, <1>5, <2>4
  <2>6. Cardinality(trained)' = Cardinality(trained) /\ StepsDone' = StepsDone
    BY <1>1 DEF StepsDone
  <2> QED
    BY <1>1, <1>5, <2>5, <2>6 DEF Batches
<1> QED
  BY <1>4, <1>5

LEMMA TrainBatch ==
  ASSUME Pipeline, Batches, TrainerStep
  PROVE  Batches'
<1>1. /\ trainer = "train" /\ trained' = trained \cup batch /\ batch' = {}
      /\ IF WindowOpen
         THEN /\ local_trigger_step' = local_trigger_step + 1
              /\ trainer' = "collect" /\ current_param_version' = current_param_version
         ELSE /\ current_param_version' = current_param_version + 1
              /\ local_trigger_step' = 1 /\ trainer' = "sync"
  BY DEF TrainerStep
<1>2. /\ current_param_version \in Nat /\ local_trigger_step \in Nat /\ local_trigger_step >= 1
      /\ local_trigger_step <= TriggerSteps /\ TriggerSteps \in Nat
      /\ RequiredSamples \in Nat /\ RequiredSamples > 0
  BY RollouterAssumption DEF Pipeline, TypeOK
<1>3. StepsDone \in Nat
  BY <1>2, NextProduct DEF StepsDone
<1>4. StepsDone' = StepsDone + 1
  <2> DEFINE p == current_param_version * TriggerSteps
             q == (current_param_version + 1) * TriggerSteps
  <2>1. p \in Nat /\ q = p + TriggerSteps
    BY <1>2, NextProduct
  <2>2. StepsDone = p + local_trigger_step - 1
    BY DEF StepsDone
  <2>3. CASE WindowOpen
    <3>1. StepsDone' = p + (local_trigger_step + 1) - 1
      BY <1>1, <2>3 DEF StepsDone
    <3> HIDE DEF p, q
    <3> QED
      BY <1>2, <2>1, <2>2, <3>1
  <2>4. CASE ~WindowOpen
    <3>1. StepsDone' = q + 1 - 1 /\ local_trigger_step = TriggerSteps
      BY <1>1, <1>2, <2>4 DEF StepsDone, WindowOpen
    <3> HIDE DEF p, q
    <3> QED
      BY <1>2, <2>1, <2>2, <3>1
  <2> QED
    BY <2>3, <2>4
<1>5. Cardinality(trained') = Cardinality(trained) + RequiredSamples
  <2>1. /\ IsFiniteSet(trained) /\ IsFiniteSet(batch)
        /\ Cardinality(trained) \in Nat /\ Cardinality(batch) = RequiredSamples
    BY <1>1, FiniteSamples DEF Pipeline, TypeOK, Batches
  <2>2. Cardinality(trained \cap batch) = 0
    BY FS_EmptySet DEF Pipeline, Conservation
  <2>3. Cardinality(trained \cup batch)
           = Cardinality(trained) + Cardinality(batch) - Cardinality(trained \cap batch)
    BY <2>1, FS_Union
  <2> QED
    BY <1>1, <1>2, <2>1, <2>2, <2>3
<1>6. Cardinality(trained)' = RequiredSamples * StepsDone'
  <2>1. RequiredSamples * (StepsDone + 1) = RequiredSamples * StepsDone + RequiredSamples
    BY <1>2, <1>3, NextProduct
  <2> QED
    BY <1>4, <1>5, <2>1 DEF Batches
<1>7. Cardinality(batch') = 0 /\ Cardinality(batch') < RequiredSamples
  BY <1>1, <1>2, FS_EmptySet
<1> QED
  BY <1>1, <1>6, <1>7 DEF Batches

LEMMA BatchesStep ==
  ASSUME Pipeline, Batches, [Next]_vars
  PROVE  Batches'
<1> USE DEF trainerVars
<1>1. ASSUME UNCHANGED <<batch, trained, current_param_version, local_trigger_step>>,
             \/ trainer' = trainer
             \/ trainer = "sync" /\ trainer' = "resetting"
             \/ trainer = "resetting" /\ trainer' = "collect"
             \/ /\ trainer \in {"stopping", "lastSync", "lastResetting"}
                /\ trainer' \in {"lastSync", "lastResetting", "done"}
      PROVE  Batches'
  <2>1. StepsDone' = StepsDone
    BY <1>1 DEF StepsDone
  <2>2. Cardinality({}) < RequiredSamples
    BY FS_EmptySet, RollouterAssumption
  <2> QED
    BY <1>1, <2>1, <2>2 DEF Batches
<1>2. CASE RollouterStep /\ UNCHANGED <<trainerVars, driver>>
  BY <1>1, <1>2
<1>3. CASE TrainerSync \/ TrainerSynced \/ TrainerStop \/ DriverReturn \/ UNCHANGED vars
  <2>1. UNCHANGED <<batch, trained, current_param_version, local_trigger_step>>
    BY <1>3 DEF TrainerSync, TrainerSynced, TrainerStop, DriverReturn, vars
  <2>2. \/ trainer' = trainer
        \/ trainer = "sync" /\ trainer' = "resetting"
        \/ trainer = "resetting" /\ trainer' = "collect"
        \/ /\ trainer \in {"stopping", "lastSync", "lastResetting"}
           /\ trainer' \in {"lastSync", "lastResetting", "done"}
    BY <1>3 DEF TrainerSync, TrainerSynced, TrainerStop, DriverReturn, vars
  <2> QED
    BY <1>1, <2>1, <2>2
<1> QED
  BY <1>2, <1>3, GetBatch, TrainBatch DEF Next, TrainerNext, Returned

LEMMA BatchesKept == Spec => []Batches
<1>1. Pipeline /\ Batches /\ [Next]_vars => Batches'
  BY BatchesStep
<1> QED
  BY <1>1, BatchesInit, PipelineInvariant, PTL DEF Spec

\* Training without a failure leaves nothing behind: when both sides are done,
\* every sample was trained on but the evicted ones and a last incomplete
\* batch, in whole steps of RequiredSamples.
THEOREM AllTrained == Spec => []NothingLeftBehind
<1>1. ASSUME Pipeline, Batches PROVE NothingLeftBehind
  <2> SUFFICES ASSUME trainer = "done", main = "done"
               PROVE  /\ Samples = trained \cup batch \cup (evicted \ {End})
                      /\ Cardinality(batch) < RequiredSamples
                      /\ Cardinality(trained) = RequiredSamples *
                           (current_param_version * TriggerSteps + local_trigger_step - 1)
    BY DEF NothingLeftBehind
  <2>1. /\ processor = "done" /\ feed = "done" /\ pending_queue = <<>> /\ active_tasks = {}
        /\ held = End /\ mq = <<>>
    BY <1>1 DEF Pipeline, Shutdown, Carrying, EndOfQueue, Training
  <2>2. Contents(mq) = {} /\ Contents(pending_queue) = {} /\ End \notin Samples
    BY <2>1 DEF Contents, End, Samples
  <2>3. \A s \in Samples : task[s] \notin {"generating", "failed"}
    BY <1>1, <2>1 DEF Pipeline, BudgetInvariant, Generating, Shutdown
  <2>4. \A s \in Samples : s \in Consumed \/ s \in evicted
    BY <1>1, <2>1, <2>2, <2>3 DEF Pipeline, Conservation, Accounted, Fed, Somewhere
  <2>5. trained \subseteq Samples /\ batch \subseteq Samples /\ evicted \subseteq Samples \cup {End}
    BY <1>1 DEF Pipeline, TypeOK
  <2>6. Samples = trained \cup batch \cup (evicted \ {End})
    BY <2>2, <2>4, <2>5 DEF Consumed
  <2> QED
    BY <1>1, <2>6 DEF Batches, StepsDone
<1> QED
  BY <1>1, PipelineInvariant, BatchesKept, PTL

-----------------------------------------------------------------------------
(* What a reset carries over *)

\* Samples the trainer took since the last reset of the rollouter's counts.
ConsumedSince ==
    IF trainer = "sync" \/ (trainer = "resetting" /\ reset # "returned") THEN SamplesPerSync
    ELSE IF trainer \in {"collect", "train"}
         THEN (local_trigger_step - 1) * RequiredSamples + Cardinality(batch)
         ELSE 0

\* They were paid for by the same budget as what is in flight.
CarryInvariant ==
    /\ Cardinality(InFlight) + ConsumedSince <= budget
    /\ reset \in {"called", "sizing"} => trainer \in {"resetting", "lastResetting"}

LEMMA SinceType ==
  ASSUME TypeOK
  PROVE  ConsumedSince \in Nat /\ SamplesPerSync \in Nat /\ Cardinality(InFlight) \in Nat
<1>1. SamplesPerSync \in Nat
  BY RollouterAssumption DEF SamplesPerSync
<1>2. /\ local_trigger_step - 1 \in Nat /\ RequiredSamples \in Nat
      /\ Cardinality(batch) \in Nat
  BY RollouterAssumption, FiniteSamples DEF TypeOK
<1>3. (local_trigger_step - 1) * RequiredSamples \in Nat
  BY <1>2, NextProduct
<1>4. Cardinality(InFlight) \in Nat
  BY InFlightType, FiniteSamples DEF TypeOK
<1>5. (local_trigger_step - 1) * RequiredSamples + Cardinality(batch) \in Nat
  BY <1>2, <1>3
<1> QED
  BY <1>1, <1>4, <1>5 DEF ConsumedSince

LEMMA CarryInit == FullyAsyncInit => CarryInvariant
<1> SUFFICES ASSUME FullyAsyncInit PROVE CarryInvariant
  OBVIOUS
<1>1. /\ batch = {} /\ budget = 0 /\ trainer = "collect" /\ local_trigger_step = 1
      /\ mq = <<>> /\ task = [s \in Samples |-> "new"] /\ reset = "idle"
  BY DEF FullyAsyncInit, Init
<1>2. InFlight = {}
  BY <1>1 DEF InFlight, Generating, QueuedSamples
<1>3. Cardinality(InFlight) = 0 /\ Cardinality(batch) = 0
  BY <1>1, <1>2, FS_EmptySet
<1>4. ConsumedSince = (1 - 1) * RequiredSamples + 0
  BY <1>1, <1>3 DEF ConsumedSince
<1> QED
  BY <1>1, <1>3, <1>4, RollouterAssumption DEF CarryInvariant

\* Steps that put nothing new in flight and consume nothing.
LEMMA CarryKept ==
  ASSUME TypeOK, CarryInvariant, InFlight' \subseteq InFlight, UNCHANGED budget,
         ConsumedSince' \in Nat, ConsumedSince' <= ConsumedSince,
         reset' \in {"called", "sizing"} => trainer' \in {"resetting", "lastResetting"}
  PROVE  CarryInvariant'
<1>1. InFlight \subseteq Samples
  BY InFlightType DEF TypeOK
<1>2. Cardinality(InFlight') <= Cardinality(InFlight) /\ Cardinality(InFlight') \in Nat
  BY <1>1, SmallerSet, FiniteSamples
<1>3. budget \in Nat /\ ConsumedSince \in Nat /\ Cardinality(InFlight) \in Nat
  BY SinceType DEF TypeOK
<1>4. Cardinality(InFlight)' + ConsumedSince' <= budget'
  BY <1>2, <1>3 DEF CarryInvariant
<1> QED
  BY <1>4 DEF CarryInvariant

LEMMA SubmitCarry ==
  ASSUME TypeOK, CarryInvariant, ProcessorSubmit, UNCHANGED <<trainerVars, driver>>
  PROVE  CarryInvariant'
<1> USE DEF countVars, feedVars, resetVars, queueVars, trainerVars
<1>1. ConsumedSince' = ConsumedSince /\ UNCHANGED <<reset, trainer>>
  BY DEF ProcessorSubmit, ConsumedSince
<1>2. CASE paused
  <2>1. InFlight' = InFlight /\ UNCHANGED budget
    BY <1>2 DEF ProcessorSubmit, InFlight, Generating, QueuedSamples
  <2> QED
    BY <1>1, <2>1, SinceType, CarryKept DEF CarryInvariant
<1>3. CASE ~paused
  <2>1. /\ budget' = budget + 1 /\ budget \in Nat /\ UNCHANGED mq /\ held \in Samples
        /\ \A s \in Samples : task'[s] = IF s = held THEN "generating" ELSE task[s]
    BY <1>3 DEF ProcessorSubmit, TypeOK
  <2>2. InFlight' = InFlight \cup {held}
    BY <2>1 DEF InFlight, Generating, QueuedSamples
  <2>3. IsFiniteSet(InFlight) /\ Cardinality(InFlight) \in Nat
    BY InFlightType, FiniteSamples DEF TypeOK
  <2>4. Cardinality(InFlight') <= Cardinality(InFlight) + 1 /\ Cardinality(InFlight') \in Nat
    BY <2>2, <2>3, FS_AddElement
  <2>5. Cardinality(InFlight)' + ConsumedSince' <= budget'
    BY <1>1, <2>1, <2>3, <2>4, SinceType DEF CarryInvariant
  <2> QED
    BY <1>1, <2>5 DEF CarryInvariant
<1> QED
  BY <1>2, <1>3

LEMMA ResetCarry ==
  ASSUME TypeOK, CarryInvariant, ResetEnd, UNCHANGED <<trainerVars, driver>>
  PROVE  CarryInvariant' /\ (trainer = "resetting" => budget' + SamplesPerSync <= budget)
<1> USE DEF trainerVars
<1>1. /\ reset = "sizing" /\ reset' = "returned" /\ budget' = Cardinality(InFlight)
      /\ UNCHANGED <<mq, task, trainer, batch, local_trigger_step>>
  BY DEF ResetEnd, queueVars
<1>2. InFlight' = InFlight
  BY <1>1 DEF InFlight, Generating, QueuedSamples
<1>3. trainer \in {"resetting", "lastResetting"}
  BY <1>1 DEF CarryInvariant
<1>4. ConsumedSince' = 0 /\ (trainer = "resetting" => ConsumedSince = SamplesPerSync)
  BY <1>1, <1>3 DEF ConsumedSince
<1>5. Cardinality(InFlight) \in Nat /\ SamplesPerSync \in Nat /\ budget \in Nat
  BY SinceType DEF TypeOK
<1> QED
  BY <1>1, <1>2, <1>3, <1>4, <1>5 DEF CarryInvariant

LEMMA PutCarry ==
  ASSUME TypeOK, CarryInvariant, NEW s \in Samples, TaskStep(s), UNCHANGED <<trainerVars, driver>>
  PROVE  CarryInvariant'
<1> USE DEF lockVars, countVars, feedVars, processorVars, resetVars, queueVars, trainerVars
<1>1. UNCHANGED <<budget, trainer, reset, batch, local_trigger_step>>
  BY DEF TaskStep, TaskPut, TaskReply, TaskFail
<1>2. ConsumedSince' = ConsumedSince
  BY <1>1 DEF ConsumedSince
<1>3. Generating' \subseteq Generating
  BY DEF TaskStep, TaskPut, TaskReply, TaskFail, Generating, TypeOK
<1>4. InFlight' \subseteq InFlight
  <2>1. CASE TaskPut(s)
    <3>1. s \in Generating
      BY <2>1 DEF TaskPut, Generating
    <3>2. QueuedSamples' \subseteq QueuedSamples \cup {s}
      BY <2>1, PutSampleContents DEF TaskPut, TypeOK
    <3> QED
      BY <1>3, <3>1, <3>2 DEF InFlight
  <2>2. CASE TaskReply(s) \/ TaskFail(s)
    BY <1>3, <2>2 DEF TaskReply, TaskFail, InFlight, QueuedSamples
  <2> QED
    BY <2>1, <2>2 DEF TaskStep
<1> QED
  BY <1>1, <1>2, <1>4, SinceType, CarryKept DEF CarryInvariant

\* A get moves a sample from what is in flight to what was consumed.
LEMMA GetCarry ==
  ASSUME Pipeline, CarryInvariant, TrainerGet
  PROVE  CarryInvariant'
<1> USE DEF lockVars, countVars, feedVars, processorVars, resetVars
<1> DEFINE x == Head(mq)
<1>1. /\ mq # <<>> /\ mq' = Tail(mq) /\ mq \in Seq(Samples \cup {End}) /\ trainer = "collect"
      /\ UNCHANGED <<task, budget, reset, local_trigger_step>>
      /\ IF x = End THEN trainer' = "stopping" /\ batch' = batch
                    ELSE trainer' \in {"collect", "train"} /\ batch' = batch \cup {x}
  BY DEF TrainerGet, Pipeline, TypeOK
<1>2. /\ Contents(mq)' = Contents(mq) \ {x} /\ Generating' = Generating
      /\ QueuedSamples = Contents(mq) /\ QueuedSamples' = Contents(mq)'
  BY <1>1, TailOnce DEF Pipeline, Placement, Generating, QueuedSamples, Contents
<1>3. reset' \notin {"called", "sizing"}
  BY <1>1 DEF CarryInvariant
<1>4. TypeOK
  BY DEF Pipeline
<1>5. CASE x = End
  <2>1. InFlight' \subseteq InFlight /\ ConsumedSince' = 0
    BY <1>1, <1>2, <1>5 DEF InFlight, ConsumedSince
  <2>2. 0 \in Nat /\ 0 <= ConsumedSince
    BY <1>4, SinceType
  <2> QED
    BY <1>1, <1>3, <1>4, <2>1, <2>2, CarryKept
<1>6. CASE x # End
  <2>1. 1 \in 1..Len(mq) /\ x = mq[1] /\ x \in Samples \cup {End}
    BY <1>1
  <2>2. x \in Samples /\ x \in Contents(mq)
    BY <1>6, <2>1 DEF Contents
  <2>3. x \notin batch /\ task[x] \in Generated
    BY <2>2 DEF Pipeline, Placement, Placed, Consumed
  <2> HIDE DEF x
  <2>4. x \in InFlight /\ InFlight' = InFlight \ {x}
    BY <1>1, <1>2, <2>2, <2>3 DEF InFlight, Generating, Generated
  <2>5. IsFiniteSet(InFlight) /\ IsFiniteSet(batch) /\ Cardinality(batch) \in Nat
    BY <1>4, InFlightType, FiniteSamples DEF TypeOK
  <2>6. /\ Cardinality(InFlight') = Cardinality(InFlight) - 1
        /\ Cardinality(batch') = Cardinality(batch) + 1
    BY <1>1, <1>6, <2>3, <2>4, <2>5, FS_RemoveElement, FS_AddElement
  <2> DEFINE p == (local_trigger_step - 1) * RequiredSamples
  <2>7. p \in Nat
    <3>1. local_trigger_step - 1 \in Nat /\ RequiredSamples \in Nat
      BY <1>4, RollouterAssumption DEF TypeOK
    <3> QED
      BY <3>1, NextProduct
  <2>8. ConsumedSince = p + Cardinality(batch) /\ ConsumedSince' = p + Cardinality(batch')
    BY <1>1, <1>6 DEF ConsumedSince
  <2> HIDE DEF p
  <2>9. Cardinality(InFlight)' + ConsumedSince' <= budget'
    BY <1>1, <1>4, <2>5, <2>6, <2>7, <2>8, SinceType DEF CarryInvariant
  <2> QED
    BY <1>3, <2>9 DEF CarryInvariant
<1> QED
  BY <1>5, <1>6

\* The batches of a window are the samples of one synchronisation.
LEMMA TrainCarry ==
  ASSUME Pipeline, Batches, CarryInvariant, TrainerStep
  PROVE  CarryInvariant'
<1> DEFINE l == local_trigger_step
           R == RequiredSamples
           p == (l - 1) * R
<1>1. /\ trainer = "train" /\ batch' = {} /\ UNCHANGED <<mq, task, budget, reset>>
      /\ IF WindowOpen THEN l' = l + 1 /\ trainer' = "collect"
                       ELSE l' = 1 /\ trainer' = "sync"
  BY DEF TrainerStep, rollouterVars, queueVars, resetVars
<1>2. TypeOK /\ InFlight' = InFlight
  BY <1>1 DEF Pipeline, InFlight, Generating, QueuedSamples
<1>3. /\ l - 1 \in Nat /\ R \in Nat /\ l \in Nat /\ l <= TriggerSteps /\ TriggerSteps \in Nat
      /\ Cardinality(batch) = R
  BY <1>1, <1>2, RollouterAssumption DEF TypeOK, Batches
<1>4. p \in Nat /\ ((l - 1) + 1) * R = p + R /\ (l - 1) + 1 = l
  BY <1>3, NextProduct
<1>5. l * R = p + R
  BY <1>4
<1>6. ConsumedSince = p + R
  BY <1>1, <1>3 DEF ConsumedSince
<1>7. ConsumedSince' = p + R
  <2>1. CASE WindowOpen
    <3>1. ConsumedSince' = ((l + 1) - 1) * R + Cardinality({})
      BY <1>1, <2>1 DEF ConsumedSince
    <3>2. (l + 1) - 1 = l
      BY <1>3
    <3>3. Cardinality({}) = 0
      BY FS_EmptySet
    <3>4. ConsumedSince' = l * R + 0
      BY <3>1, <3>2, <3>3
    <3> HIDE DEF p
    <3> QED
      BY <1>3, <1>4, <1>5, <3>4
  <2>2. CASE ~WindowOpen
    <3>1. l = TriggerSteps
      BY <1>3, <2>2 DEF WindowOpen
    <3>2. ConsumedSince' = SamplesPerSync
      BY <1>1, <2>2 DEF ConsumedSince, SamplesPerSync
    <3>3. SamplesPerSync = l * R
      BY <1>3, <3>1 DEF SamplesPerSync
    <3> QED
      BY <1>5, <3>2, <3>3
  <2> QED
    BY <2>1, <2>2
<1>8. ConsumedSince' \in Nat /\ ConsumedSince' <= ConsumedSince
  <2> HIDE DEF p
  <2> QED
    BY <1>3, <1>4, <1>6, <1>7
<1>9. reset' \notin {"called", "sizing"}
  BY <1>1 DEF CarryInvariant
<1> QED
  BY <1>1, <1>2, <1>8, <1>9, CarryKept

\* The trainer's other steps consume nothing.
LEMMA SyncCarry ==
  ASSUME Pipeline, Batches, CarryInvariant,
         TrainerSync \/ TrainerSynced \/ TrainerStop \/ DriverReturn
  PROVE  CarryInvariant'
<1> USE DEF resetVars, trainerVars
<1>1. /\ UNCHANGED <<task, budget, batch, local_trigger_step>>
      /\ reset' \in {"called", "sizing"} => trainer' \in {"resetting", "lastResetting"}
  BY DEF TrainerSync, TrainerSynced, TrainerStop, DriverReturn, CarryInvariant, rollouterVars
<1>2. InFlight' \subseteq InFlight
  BY DEF TrainerSync, TrainerSynced, TrainerStop, DriverReturn, rollouterVars, queueVars,
         InFlight, Generating, QueuedSamples
<1>3. ConsumedSince' \in {ConsumedSince, 0}
  <2>1. CASE TrainerSync
    BY <2>1 DEF TrainerSync, ConsumedSince
  <2>2. CASE TrainerSynced
    <3>1. /\ reset = "returned" /\ trainer \in {"resetting", "lastResetting"}
          /\ trainer' = IF trainer = "resetting" THEN "collect" ELSE "done"
      BY <2>2 DEF TrainerSynced
    <3>2. CASE trainer = "lastResetting"
      BY <3>1, <3>2 DEF ConsumedSince
    <3>3. CASE trainer = "resetting"
      <4>1. batch = {} /\ local_trigger_step = 1
        BY <3>3 DEF Batches
      <4>2. ConsumedSince' = (1 - 1) * RequiredSamples + Cardinality({})
        BY <1>1, <3>1, <3>3, <4>1 DEF ConsumedSince
      <4>3. (1 - 1) * RequiredSamples + Cardinality({}) = 0
        BY FS_EmptySet, RollouterAssumption
      <4> QED
        BY <4>2, <4>3
    <3> QED
      BY <3>1, <3>2, <3>3
  <2>3. CASE TrainerStop
    BY <2>3 DEF TrainerStop, ConsumedSince
  <2>4. CASE DriverReturn
    BY <2>4 DEF DriverReturn, ConsumedSince
  <2> QED
    BY <2>1, <2>2, <2>3, <2>4
<1>4. TypeOK
  BY DEF Pipeline
<1>5. ConsumedSince' \in Nat /\ ConsumedSince' <= ConsumedSince
  BY <1>3, <1>4, SinceType
<1> QED
  BY <1>1, <1>2, <1>4, <1>5, CarryKept

LEMMA CarryStep ==
  ASSUME Pipeline, Batches, CarryInvariant, [Next]_vars
  PROVE  CarryInvariant'
<1> DEFINE Others == UNCHANGED <<trainerVars, driver>>
<1> USE DEF lockVars, countVars, feedVars, processorVars, queueVars, trainerVars
<1>1. TypeOK
  BY DEF Pipeline
<1>2. ASSUME QueuedSamples' \subseteq QueuedSamples,
             UNCHANGED <<task, budget, batch, trainer, local_trigger_step>>,
             reset' = reset \/ (reset = "called" /\ reset' = "sizing")
      PROVE  CarryInvariant'
  <2>1. InFlight' \subseteq InFlight /\ ConsumedSince' = ConsumedSince
    BY <1>2 DEF InFlight, Generating, ConsumedSince
  <2> QED
    BY <1>1, <1>2, <2>1, SinceType, CarryKept DEF CarryInvariant
<1>3. CASE ProcessorSubmit /\ Others
  BY <1>1, <1>3, SubmitCarry
<1>4. CASE ResetEnd /\ Others
  BY <1>1, <1>4, ResetCarry
<1>5. CASE \E s \in Samples : TaskStep(s) /\ Others
  BY <1>1, <1>5, PutCarry
<1>6. CASE MainSendEnd /\ Others
  <2>1. QueuedSamples' \subseteq QueuedSamples
    BY <1>1, <1>6, PutSampleContents DEF MainSendEnd, TypeOK
  <2> QED
    BY <1>2, <1>6, <2>1 DEF MainSendEnd, resetVars
<1>7. CASE \/ (ProcessorSeesPause \/ ProcessorPause \/ ProcessorReap \/ ProcessorPark) /\ Others
           \/ (ProcessorWaitPending \/ ProcessorTake \/ FeedStep \/ ResetBegin) /\ Others
           \/ (MainFeedDone \/ MainJoin \/ MainRaise \/ MainStop \/ MonitorStep) /\ Others
           \/ UNCHANGED vars
  <2>1. /\ UNCHANGED <<mq, task, budget, batch, trainer, local_trigger_step>>
        /\ reset' = reset \/ (reset = "called" /\ reset' = "sizing")
    BY <1>7 DEF ProcessorSeesPause, ProcessorPause, ProcessorReap, ProcessorPark,
         ProcessorWaitPending, ProcessorTake, FeedStep, FeedSample, FeedEnd, FeedFail, ResetBegin,
         MainFeedDone, MainJoin, MainRaise, MainStop, MonitorStep, MonitorTop, MonitorWake,
         MonitorResume, vars, rollouterVars, resetVars
  <2> QED
    BY <1>2, <2>1 DEF QueuedSamples
<1>8. CASE TrainerNext \/ DriverReturn
  BY <1>8, GetCarry, TrainCarry, SyncCarry DEF TrainerNext
<1> QED
  BY <1>3, <1>4, <1>5, <1>6, <1>7, <1>8
     DEF Next, RollouterStep, ProcessorStep, MainStep, ResetStep, Returned

LEMMA CarryHolds == Spec => []CarryInvariant
<1>1. Pipeline /\ Batches /\ CarryInvariant /\ [Next]_vars => CarryInvariant'
  BY CarryStep
<1> QED
  BY <1>1, CarryInit, PipelineInvariant, BatchesKept, PTL DEF Spec

\* Only the end of reset_staleness lets the trainer's call return.
LEMMA OnlyResetReturns ==
  ASSUME [Next]_vars, reset = "sizing", reset' = "returned"
  PROVE  ResetEnd /\ UNCHANGED <<trainerVars, driver>>
<1> USE DEF resetVars
<1>1. ASSUME \/ ProcessorStep \/ FeedStep \/ MainStep \/ MonitorStep \/ ResetBegin
             \/ \E s \in Samples : TaskStep(s)
      PROVE  reset' # "returned" \/ reset' = reset
  BY <1>1 DEF ProcessorStep, ProcessorSeesPause, ProcessorPause, ProcessorReap, ProcessorPark,
       ProcessorWaitPending, ProcessorTake, ProcessorSubmit, FeedStep, FeedSample, FeedEnd,
       FeedFail, MainStep, MainFeedDone, MainJoin, MainRaise, MainSendEnd, MainStop, MonitorStep,
       MonitorTop, MonitorWake, MonitorResume, ResetBegin, TaskStep, TaskPut, TaskReply, TaskFail
<1>2. ASSUME TrainerNext \/ DriverReturn \/ Returned \/ UNCHANGED vars
      PROVE  reset' # "returned" \/ reset' = reset
  BY <1>2 DEF TrainerNext, TrainerGet, TrainerStep, TrainerSync, TrainerSynced, TrainerStop,
       DriverReturn, Returned, vars, rollouterVars
<1> QED
  BY <1>1, <1>2 DEF Next, RollouterStep, ResetStep

\* A reset starts the next version with no more than what the freshness
\* control allows beyond the samples of one synchronisation, and the one the
\* processor carries.
THEOREM CarryOverBounded == Spec => StaleCarryOver
<1>1. ASSUME Pipeline, CarryInvariant, [Next]_vars,
             trainer = "resetting", reset = "sizing", reset' = "returned"
      PROVE  budget' <= max_required_samples + 1 - SamplesPerSync
  <2>1. TypeOK /\ budget <= Charged /\ Charged \in Nat /\ budget \in Nat
    BY <1>1 DEF Pipeline, TypeOK, Charged
  <2>2. budget <= max_required_samples + 1
    BY <1>1, <2>1, MaxRequiredType DEF Pipeline, BudgetInvariant
  <2>3. ResetEnd /\ UNCHANGED <<trainerVars, driver>>
    BY <1>1, OnlyResetReturns
  <2>4. budget' + SamplesPerSync <= budget /\ budget' \in Nat
    <3>1. budget' = Cardinality(InFlight)
      BY <2>3 DEF ResetEnd
    <3> QED
      BY <1>1, <2>1, <2>3, <3>1, ResetCarry, SinceType
  <2> QED
    BY <2>1, <2>2, <2>4, SinceType, MaxRequiredType
<1>2. Pipeline /\ CarryInvariant /\ [Next]_vars
         => [trainer = "resetting" /\ reset = "sizing" /\ reset' = "returned"
                => budget' <= max_required_samples + 1 - SamplesPerSync]_vars
  BY <1>1
<1> QED
  BY <1>2, PipelineInvariant, CarryHolds, PTL DEF Spec, StaleCarryOver

-----------------------------------------------------------------------------
(* The end signal stays in the queue *)

\* Never more tasks than slots.
Slots ==
    /\ Cardinality(active_tasks) <= max_concurrent_samples
    /\ processor \in {"submit", "submitParked"} => Cardinality(active_tasks) < max_concurrent_samples

\* What is behind the end signal in the queue, or may still be put there.
BehindEnd ==
    \A i \in 1..Len(mq) : mq[i] = End =>
        (Len(mq) - i) + Cardinality(Generating) <= max_concurrent_samples

\* Nothing raises by itself.
NoFailure == ~MayFail =>
    /\ feed # "raised" /\ processor # "raised" /\ main \notin {"finallyRaise", "raised"}
    /\ \A s \in Samples : task[s] # "failed"

EndInvariant == Slots /\ BehindEnd /\ NoFailure /\ EndSignalNeverLost

LEMMA SlotsType ==
  /\ max_concurrent_samples \in Nat \ {0} /\ max_concurrent_samples <= max_queue_size
  /\ max_queue_size \in Nat
  BY MaxRequiredType, RollouterAssumption DEF max_concurrent_samples, max_queue_size

LEMMA EndInvariantInit == FullyAsyncInit => EndInvariant
<1> SUFFICES ASSUME FullyAsyncInit PROVE EndInvariant
  OBVIOUS
<1>1. /\ active_tasks = {} /\ mq = <<>> /\ evicted = {} /\ processor = "start" /\ feed = "feeding"
      /\ main = "waitAny" /\ task = [s \in Samples |-> "new"]
  BY DEF FullyAsyncInit, Init
<1>2. Cardinality(active_tasks) = 0
  BY <1>1, FS_EmptySet
<1> QED
  BY <1>1, <1>2, SlotsType DEF EndInvariant, Slots, BehindEnd, NoFailure, EndSignalNeverLost

LEMMA FailureStep ==
  ASSUME TypeOK, NoFailure, [Next]_vars
  PROVE  NoFailure'
<1> USE DEF lockVars, countVars, feedVars, processorVars, resetVars, queueVars, rollouterVars,
            NoFailure
<1>1. CASE ProcessorReap
  <2>1. /\ UNCHANGED <<feed, main, task>> /\ processor \in {"draining", "limit", "finishing"}
        /\ processor' = "raised" => \E s \in Finished : task[s] = "failed"
    BY <1>1 DEF ProcessorReap, AfterReap, DrainOrPark, LimitOrSubmit
  <2>2. Finished \subseteq Samples
    BY DEF Finished, TypeOK
  <2> QED
    BY <2>1, <2>2
<1>2. CASE \/ ProcessorSeesPause \/ ProcessorPause \/ ProcessorPark \/ ProcessorWaitPending
           \/ ProcessorTake
  BY <1>2 DEF ProcessorSeesPause, ProcessorPause, ProcessorPark, ProcessorWaitPending,
              ProcessorTake, DrainOrPark, LimitOrSubmit
<1>3. CASE ProcessorSubmit
  <2>1. /\ UNCHANGED <<feed, main>> /\ processor' # "raised"
        /\ \A s \in Samples : task'[s] = "failed" => task[s] = "failed"
    BY <1>3 DEF ProcessorSubmit, TypeOK
  <2> QED
    BY <2>1
<1>4. CASE FeedStep
  BY <1>4 DEF FeedStep, FeedSample, FeedEnd, FeedFail
<1>5. ASSUME NEW s \in Samples, TaskStep(s) PROVE NoFailure'
  <2>1. /\ UNCHANGED <<feed, main, processor>>
        /\ ~MayFail => \A q \in Samples : task'[q] = "failed" => task[q] = "failed"
    BY <1>5 DEF TaskStep, TaskPut, TaskReply, TaskFail, TypeOK
  <2> QED
    BY <2>1
<1>6. CASE MainStep
  BY <1>6 DEF MainStep, MainFeedDone, MainJoin, MainRaise, MainSendEnd, MainStop
<1>7. CASE MonitorStep \/ ResetStep
  <2>1. UNCHANGED <<feed, main, task>> /\ (processor' = "raised" => processor = "raised")
    BY <1>7 DEF MonitorStep, MonitorTop, MonitorWake, MonitorResume, ResetStep, ResetBegin,
         ResetEnd, NotifyAll
  <2> QED
    BY <2>1
<1>8. CASE TrainerNext \/ DriverReturn \/ UNCHANGED vars
  BY <1>8 DEF TrainerNext, TrainerGet, TrainerStep, TrainerSync, TrainerSynced, TrainerStop,
              DriverReturn, vars
<1> QED
  BY <1>1, <1>2, <1>3, <1>4, <1>5, <1>6, <1>7, <1>8
     DEF Next, RollouterStep, ProcessorStep, Returned

LEMMA SlotsStep ==
  ASSUME TypeOK, Slots, [Next]_vars
  PROVE  Slots'
<1> USE DEF lockVars, countVars, feedVars, processorVars, resetVars, queueVars, rollouterVars
<1>1. max_concurrent_samples' = max_concurrent_samples
  BY DEF max_concurrent_samples, max_required_samples, SamplesPerSync
<1>2. IsFiniteSet(active_tasks) /\ Cardinality(active_tasks) \in Nat
  BY FiniteSamples DEF TypeOK
<1>3. ASSUME UNCHANGED active_tasks,
             processor' \in {"submit", "submitParked"} => processor \in {"submit", "submitParked"}
      PROVE  Slots'
  BY <1>1, <1>3 DEF Slots
<1>4. CASE ProcessorReap
  <2>1. /\ active_tasks' = active_tasks \ Finished
        /\ processor' \in {"submit", "submitParked"} =>
              ~(Cardinality(active_tasks') >= max_concurrent_samples)
    BY <1>4 DEF ProcessorReap, AfterReap, DrainOrPark, LimitOrSubmit
  <2>2. Cardinality(active_tasks') <= Cardinality(active_tasks) /\ Cardinality(active_tasks') \in Nat
    <3>1. active_tasks' \subseteq active_tasks /\ active_tasks \subseteq Samples
      BY <2>1 DEF TypeOK
    <3> QED
      BY <3>1, SmallerSet, FiniteSamples
  <2> QED
    BY <1>1, <1>2, <2>1, <2>2, SlotsType DEF Slots
<1>5. CASE ProcessorTake
  <2>1. /\ UNCHANGED active_tasks
        /\ processor' \in {"submit", "submitParked"} =>
              ~(Cardinality(active_tasks) >= max_concurrent_samples)
    BY <1>5 DEF ProcessorTake, LimitOrSubmit
  <2> QED
    BY <1>1, <1>2, <2>1, SlotsType DEF Slots
<1>6. CASE ProcessorSubmit
  <2>1. CASE paused
    BY <1>3, <1>6, <2>1 DEF ProcessorSubmit
  <2>2. CASE ~paused
    <3>1. /\ active_tasks' = active_tasks \cup {held} /\ processor' = "check"
          /\ processor = "submit"
      BY <1>6, <2>2 DEF ProcessorSubmit
    <3>2. Cardinality(active_tasks') <= Cardinality(active_tasks) + 1 /\ Cardinality(active_tasks') \in Nat
      BY <1>2, <3>1, FS_AddElement
    <3>3. Cardinality(active_tasks) < max_concurrent_samples
      BY <3>1 DEF Slots
    <3> QED
      BY <1>1, <1>2, <3>1, <3>2, <3>3, SlotsType DEF Slots
  <2> QED
    BY <2>1, <2>2
<1>7. CASE ProcessorSeesPause \/ ProcessorPause \/ ProcessorPark \/ ProcessorWaitPending
  BY <1>3, <1>7 DEF ProcessorSeesPause, ProcessorPause, ProcessorPark, ProcessorWaitPending,
                    DrainOrPark
<1>8. CASE FeedStep \/ MainStep \/ MonitorStep \/ ResetStep \/ \E s \in Samples : TaskStep(s)
  <2>1. /\ UNCHANGED active_tasks
        /\ processor' \in {"submit", "submitParked"} => processor \in {"submit", "submitParked"}
    BY <1>8 DEF FeedStep, FeedSample, FeedEnd, FeedFail, MainStep, MainFeedDone, MainJoin, MainRaise,
         MainSendEnd, MainStop, MonitorStep, MonitorTop, MonitorWake, MonitorResume, ResetStep,
         ResetBegin, ResetEnd, TaskStep, TaskPut, TaskReply, TaskFail, NotifyAll
  <2> QED
    BY <1>3, <2>1
<1>9. CASE TrainerNext \/ DriverReturn \/ UNCHANGED vars
  <2>1. UNCHANGED <<active_tasks, processor>>
    BY <1>9 DEF TrainerNext, TrainerGet, TrainerStep, TrainerSync, TrainerSynced, TrainerStop,
                DriverReturn, vars
  <2> QED
    BY <1>3, <2>1
<1> QED
  BY <1>4, <1>5, <1>6, <1>7, <1>8, <1>9 DEF Next, RollouterStep, ProcessorStep, Returned

LEMMA GeneratingType ==
  Cardinality(Generating) \in Nat /\ IsFiniteSet(Generating)
  BY FiniteSamples DEF Generating

\* A put moves a task from the ones still to put to what is behind the signal.
LEMMA PutBehind ==
  ASSUME Pipeline, BehindEnd, NEW s \in Samples, TaskPut(s)
  PROVE  BehindEnd'
<1> DEFINE k == IF QueueFull(mq, max_queue_size) THEN 1 ELSE 0
<1>1. /\ task[s] = "generating" /\ mq' = PutSample(mq, s, max_queue_size) /\ s # End
      /\ mq \in Seq(Samples \cup {End})
      /\ \A q \in Samples : IF q = s THEN task'[q] \in {"stored", "evicting"} ELSE task'[q] = task[q]
  BY DEF TaskPut, Pipeline, TypeOK, End, Samples
<1>2. Generating' = Generating \ {s} /\ s \in Generating
  BY <1>1 DEF Generating
<1>3. /\ Cardinality(Generating') = Cardinality(Generating) - 1 /\ Cardinality(Generating) \in Nat
      /\ max_concurrent_samples' = max_concurrent_samples
  BY <1>2, GeneratingType, FS_RemoveElement
     DEF max_concurrent_samples, max_required_samples, SamplesPerSync
<1>4. /\ Len(mq') = Len(mq) - k + 1 /\ Len(mq') \in Nat /\ mq'[Len(mq')] = s /\ k \in {0, 1}
      /\ \A i \in 1..Len(mq') : i # Len(mq') => i + k \in 1..Len(mq) /\ mq'[i] = mq[i + k]
  BY <1>1, PutShape
<1>5. Len(mq) \in Nat
  BY <1>1
<1> HIDE DEF k
<1>6. ASSUME NEW i \in 1..Len(mq'), mq'[i] = End
      PROVE  (Len(mq') - i) + Cardinality(Generating') <= max_concurrent_samples
  <2>1. i + k \in 1..Len(mq) /\ mq[i + k] = End
    BY <1>1, <1>4, <1>6
  <2>2. (Len(mq) - (i + k)) + Cardinality(Generating) <= max_concurrent_samples
    BY <2>1 DEF BehindEnd
  <2>3. Len(mq') - i = (Len(mq) - (i + k)) + 1
    BY <1>4, <1>5
  <2> QED
    BY <1>3, <1>4, <1>5, <2>1, <2>2, <2>3, SlotsType
<1> QED
  BY <1>3, <1>6 DEF BehindEnd

LEMMA SendBehind ==
  ASSUME Pipeline, Slots, MainSendEnd
  PROVE  BehindEnd'
<1> DEFINE k == IF QueueFull(mq, max_queue_size) THEN 1 ELSE 0
<1>1. /\ main \in {"finally", "finallyRaise"} /\ mq \in Seq(Samples \cup {End})
      /\ mq' = PutSample(mq, End, max_queue_size) /\ UNCHANGED task
  BY DEF MainSendEnd, Pipeline, TypeOK
<1>2. \A i \in 1..Len(mq) : mq[i] # End
  BY <1>1 DEF Pipeline, EndOfQueue
<1>3. /\ Len(mq') \in Nat
      /\ \A i \in 1..Len(mq') : i # Len(mq') => i + k \in 1..Len(mq) /\ mq'[i] = mq[i + k]
  BY <1>1, PutShape
<1>4. Cardinality(Generating) <= max_concurrent_samples
  <2>1. Generating \subseteq active_tasks /\ active_tasks \subseteq Samples
    BY DEF Pipeline, BudgetInvariant, TypeOK
  <2>2. Cardinality(Generating) <= Cardinality(active_tasks) /\ Cardinality(active_tasks) \in Nat
    BY <2>1, SmallerSet, FiniteSamples
  <2> QED
    BY <2>2, GeneratingType, SlotsType DEF Slots
<1>5. Generating' = Generating /\ max_concurrent_samples' = max_concurrent_samples
  BY <1>1 DEF Generating, max_concurrent_samples, max_required_samples, SamplesPerSync
<1>6. ASSUME NEW i \in 1..Len(mq'), mq'[i] = End PROVE i = Len(mq')
  BY <1>2, <1>3, <1>6
<1>7. (Len(mq') - Len(mq')) + Cardinality(Generating) <= max_concurrent_samples
  BY <1>3, <1>4, GeneratingType
<1> QED
  BY <1>5, <1>6, <1>7 DEF BehindEnd

LEMMA GetBehind ==
  ASSUME Pipeline, BehindEnd, TrainerGet
  PROVE  BehindEnd'
<1>1. mq # <<>> /\ mq' = Tail(mq) /\ mq \in Seq(Samples \cup {End}) /\ UNCHANGED task
  BY DEF TrainerGet, Pipeline, TypeOK
<1>2. /\ Len(mq') = Len(mq) - 1 /\ Len(mq) \in Nat
      /\ \A i \in 1..Len(mq') : i + 1 \in 1..Len(mq) /\ mq'[i] = mq[i + 1]
  BY <1>1, TailShape
<1>3. Generating' = Generating /\ max_concurrent_samples' = max_concurrent_samples
  BY <1>1 DEF Generating, max_concurrent_samples, max_required_samples, SamplesPerSync
<1>4. ASSUME NEW i \in 1..Len(mq'), mq'[i] = End
      PROVE  (Len(mq') - i) + Cardinality(Generating) <= max_concurrent_samples
  <2>1. (Len(mq) - (i + 1)) + Cardinality(Generating) <= max_concurrent_samples
    BY <1>2, <1>4 DEF BehindEnd
  <2>2. Len(mq') - i = Len(mq) - (i + 1)
    BY <1>2
  <2> QED
    BY <2>1, <2>2
<1> QED
  BY <1>3, <1>4 DEF BehindEnd

LEMMA BehindStep ==
  ASSUME Pipeline, Slots, BehindEnd, [Next]_vars
  PROVE  BehindEnd'
<1> USE DEF lockVars, countVars, feedVars, processorVars, resetVars, queueVars, rollouterVars
<1>1. /\ max_concurrent_samples' = max_concurrent_samples /\ max_concurrent_samples \in Nat
      /\ mq \in Seq(Samples \cup {End}) /\ Len(mq) \in Nat
  BY SlotsType DEF max_concurrent_samples, max_required_samples, SamplesPerSync, Pipeline, TypeOK
<1>2. ASSUME UNCHANGED mq, Generating' \subseteq Generating PROVE BehindEnd'
  <2>1. Generating \subseteq Samples
    BY DEF Generating
  <2>2. Cardinality(Generating') <= Cardinality(Generating) /\ Cardinality(Generating') \in Nat
    BY <1>2, <2>1, SmallerSet, FiniteSamples
  <2>3. ASSUME NEW i \in 1..Len(mq), mq[i] = End
        PROVE  (Len(mq) - i) + Cardinality(Generating') <= max_concurrent_samples
    <3>1. (Len(mq) - i) + Cardinality(Generating) <= max_concurrent_samples
      BY <2>3 DEF BehindEnd
    <3> QED
      BY <1>1, <2>2, <3>1, GeneratingType
  <2> QED
    BY <1>1, <1>2, <2>3 DEF BehindEnd
<1>3. CASE ProcessorSubmit
  <2>1. CASE paused
    BY <1>2, <1>3, <2>1 DEF ProcessorSubmit, Generating
  <2>2. CASE ~paused
    <3>1. main \notin {"stopping", "done", "raised"}
      BY <1>3 DEF ProcessorSubmit, Pipeline, Shutdown, Stopped
    <3>2. \A i \in 1..Len(mq) : mq[i] # End
      BY <3>1 DEF Pipeline, EndOfQueue
    <3>3. UNCHANGED mq
      BY <1>3 DEF ProcessorSubmit
    <3> QED
      BY <3>2, <3>3 DEF BehindEnd
  <2> QED
    BY <2>1, <2>2
<1>4. ASSUME NEW s \in Samples, TaskStep(s) PROVE BehindEnd'
  <2>1. CASE TaskReply(s) \/ TaskFail(s)
    <3>1. UNCHANGED mq /\ Generating' \subseteq Generating
      BY <2>1 DEF TaskReply, TaskFail, Generating, Pipeline, TypeOK
    <3> QED
      BY <1>2, <3>1
  <2> QED
    BY <1>4, <2>1, PutBehind DEF TaskStep
<1>5. CASE MainSendEnd
  BY <1>5, SendBehind
<1>6. CASE TrainerGet
  BY <1>6, GetBehind
<1>7. CASE DriverReturn
  BY <1>7 DEF DriverReturn, BehindEnd
<1>8. CASE \/ ProcessorSeesPause \/ ProcessorPause \/ ProcessorReap \/ ProcessorPark
           \/ ProcessorWaitPending \/ ProcessorTake \/ FeedStep \/ MonitorStep \/ ResetStep
           \/ MainFeedDone \/ MainJoin \/ MainRaise \/ MainStop
           \/ TrainerStep \/ TrainerSync \/ TrainerSynced \/ TrainerStop \/ UNCHANGED vars
  <2>1. UNCHANGED <<mq, task>>
    BY <1>8 DEF ProcessorSeesPause, ProcessorPause, ProcessorReap, ProcessorPark,
         ProcessorWaitPending, ProcessorTake, FeedStep, FeedSample, FeedEnd, FeedFail, ResetStep,
         ResetBegin, ResetEnd, MainFeedDone, MainJoin, MainRaise, MainStop, MonitorStep,
         MonitorTop, MonitorWake, MonitorResume, TrainerStep, TrainerSync, TrainerSynced,
         TrainerStop, vars
  <2> QED
    BY <1>2, <2>1 DEF Generating
<1> QED
  BY <1>3, <1>4, <1>5, <1>6, <1>7, <1>8
     DEF Next, RollouterStep, ProcessorStep, MainStep, TrainerNext, Returned

\* Room for the end signal and for every task a failed rollouter leaves
\* running.  With max_concurrent_samples = max_queue_size those tasks can fill
\* the queue behind the signal and push it out.
EndFits == MayFail => max_concurrent_samples < max_queue_size

\* A put on a full queue throws the end signal out only if too much is behind.
LEMMA PutKeepsEnd ==
  ASSUME EndFits, Pipeline, BehindEnd, NoFailure, NEW s \in Samples, TaskPut(s)
  PROVE  End \notin PutDrops(mq, max_queue_size)
<1> SUFFICES ASSUME End \in PutDrops(mq, max_queue_size) PROVE FALSE
  OBVIOUS
<1>1. /\ task[s] = "generating" /\ mq \in Seq(Samples \cup {End})
      /\ mq' = PutSample(mq, s, max_queue_size)
  BY DEF TaskPut, Pipeline, TypeOK
<1>2. QueueFull(mq, max_queue_size) /\ Len(mq) >= 1 /\ mq[1] = End
  BY <1>1, PutShape
<1>3. Len(mq) \in Nat /\ Len(mq) >= max_queue_size /\ 1 \in 1..Len(mq)
  BY <1>1, <1>2 DEF QueueFull
<1>4. main \in {"stopping", "done", "raised"}
  BY <1>2, <1>3 DEF Pipeline, EndOfQueue
<1>5. MayFail
  <2> SUFFICES ASSUME ~MayFail PROVE FALSE
    OBVIOUS
  <2>1. main \in {"stopping", "done"}
    BY <1>4 DEF NoFailure
  <2> QED
    BY <1>1, <2>1, NoTaskAfterEnd DEF Pipeline
<1>6. (Len(mq) - 1) + Cardinality(Generating) <= max_concurrent_samples
  BY <1>2, <1>3 DEF BehindEnd
<1>7. Cardinality(Generating) >= 1
  <2>1. s \in Generating
    BY <1>1 DEF Generating
  <2>2. Cardinality(Generating) # 0
    BY <2>1, GeneratingType, FS_EmptySet
  <2> QED
    BY <2>2, GeneratingType
<1> QED
  BY <1>3, <1>5, <1>6, <1>7, GeneratingType, SlotsType DEF EndFits

LEMMA EndInvariantStep ==
  ASSUME EndFits, Pipeline, EndInvariant, [Next]_vars
  PROVE  EndInvariant'
<1> USE DEF lockVars, countVars, feedVars, processorVars, resetVars, rollouterVars
<1>1. TypeOK /\ Slots /\ BehindEnd /\ NoFailure /\ End \notin evicted
  BY DEF Pipeline, EndInvariant, EndSignalNeverLost
<1>2. Slots' /\ BehindEnd' /\ NoFailure'
  BY <1>1, SlotsStep, BehindStep, FailureStep
<1> SUFFICES End \notin evicted'
  BY <1>2 DEF EndInvariant, EndSignalNeverLost
<1>3. ASSUME NEW s \in Samples, TaskPut(s) PROVE End \notin evicted'
  <2>1. End \notin PutDrops(mq, max_queue_size)
    BY <1>1, <1>3, PutKeepsEnd
  <2>2. evicted' = evicted \cup PutDrops(mq, max_queue_size)
    BY <1>3 DEF TaskPut
  <2> QED
    BY <1>1, <2>1, <2>2
<1>4. CASE MainSendEnd
  <2>1. /\ main \in {"finally", "finallyRaise"} /\ mq \in Seq(Samples \cup {End})
        /\ mq' = PutSample(mq, End, max_queue_size)
        /\ evicted' = evicted \cup PutDrops(mq, max_queue_size)
    BY <1>1, <1>4 DEF MainSendEnd, TypeOK
  <2>2. \A i \in 1..Len(mq) : mq[i] # End
    BY <2>1 DEF Pipeline, EndOfQueue
  <2>3. End \notin PutDrops(mq, max_queue_size)
    <3> DEFINE k == IF QueueFull(mq, max_queue_size) THEN 1 ELSE 0
    <3>1. /\ PutDrops(mq, max_queue_size) = IF k = 1 THEN {mq[1]} ELSE {}
          /\ Len(mq) >= k
      BY <2>1, PutShape
    <3>2. CASE k = 1
      <4>1. 1 \in 1..Len(mq)
        BY <2>1, <3>1, <3>2
      <4> QED
        BY <2>2, <3>1, <3>2, <4>1
    <3>3. CASE k # 1
      BY <3>1, <3>3
    <3> QED
      BY <3>2, <3>3
  <2> QED
    BY <1>1, <2>1, <2>3
<1>5. CASE \/ ProcessorStep \/ FeedStep \/ MonitorStep \/ ResetStep
           \/ \E s \in Samples : TaskReply(s) \/ TaskFail(s)
           \/ MainFeedDone \/ MainJoin \/ MainRaise \/ MainStop
           \/ TrainerNext \/ DriverReturn \/ UNCHANGED vars
  <2>1. UNCHANGED evicted
    BY <1>5 DEF ProcessorStep, ProcessorSeesPause, ProcessorPause, ProcessorReap, ProcessorPark,
         ProcessorWaitPending, ProcessorTake, ProcessorSubmit, FeedStep, FeedSample, FeedEnd,
         FeedFail, ResetStep, ResetBegin, ResetEnd, TaskReply, TaskFail, MainFeedDone, MainJoin,
         MainRaise, MainStop, MonitorStep, MonitorTop, MonitorWake, MonitorResume, TrainerNext,
         TrainerGet, TrainerStep, TrainerSync, TrainerSynced, TrainerStop, DriverReturn, vars,
         queueVars
  <2> QED
    BY <1>1, <2>1
<1> QED
  BY <1>3, <1>4, <1>5 DEF Next, RollouterStep, MainStep, TaskStep, Returned

\* No put throws the end signal away before the trainer has it - not those of
\* the tasks that a rollouter which failed leaves running either, as long as
\* there are fewer slots than entries in the queue.
THEOREM EndSignalKept ==
  ASSUME EndFits
  PROVE  Spec => []EndSignalNeverLost
<1>1. Pipeline /\ EndInvariant /\ [Next]_vars => EndInvariant'
  BY EndFits, EndInvariantStep
<1>2. EndInvariant => EndSignalNeverLost
  BY DEF EndInvariant
<1> QED
  BY <1>1, <1>2, EndInvariantInit, PipelineInvariant, PTL DEF Spec

=============================================================================

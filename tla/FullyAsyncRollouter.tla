------------------------ MODULE FullyAsyncRollouter ------------------------
(***************************************************************************)
(* The Ray actor FullyAsyncRollouter of                                    *)
(* fully_async_policy/fully_async_rollouter.py: the coroutines of its      *)
(* event loop - feed, processor, one task per sample, monitor, the main    *)
(* streaming coroutine - and the handler reset_staleness that the trainer  *)
(* calls.                                                                  *)
(*                                                                         *)
(* An action is what a coroutine does between two awaits that can suspend  *)
(* it.  `lock' is the asyncio lock as a FIFO queue of the coroutines that  *)
(* requested it: the first one holds it.  asyncio grants the lock in that  *)
(* order.  A coroutine that finds it free is not suspended in the code and *)
(* takes a second step here; nothing that can run between the two steps    *)
(* touches what the second one reads or writes without the lock.           *)
(*                                                                         *)
(* The processor's pause check asks the queue with a blocking ray.get: no  *)
(* other coroutine of the rollouter runs before it is over (LoopFree).     *)
(*                                                                         *)
(* The message queue is another actor: a put takes effect there before its *)
(* reply reaches the sample's task.                                        *)
(***************************************************************************)
EXTENDS SampleQueue, Integers, FiniteSets

CONSTANTS
    TotalRolloutSteps,          \* total_rollout_steps: samples to generate
    RequiredSamples,            \* required_samples = ppo_mini_batch_size * require_batches
    TriggerSteps,               \* trigger_parameter_sync_step
    StalenessNum, StalenessDen, \* staleness_threshold = StalenessNum / StalenessDen
    ServerSlots,                \* 16 concurrent samples per rollout server
    PendingCapacity,            \* maxsize of pending_queue (128)
    MayFail                     \* may the dataloader or a sample's generation raise?

ASSUME RollouterAssumption ==
    /\ {TotalRolloutSteps, RequiredSamples, TriggerSteps,
        StalenessDen, ServerSlots, PendingCapacity} \subseteq Nat \ {0}
    /\ StalenessNum \in Nat
    /\ MayFail \in BOOLEAN

VARIABLES
    paused, running,            \* flags of the actor
    staleness_samples,          \* samples charged to the current parameter version
    active_tasks,               \* samples whose task was created and not yet reaped
    pending_queue,              \* from feed to processor
    global_steps,
    total_generated_samples, dropped_stale_samples,
    lock,                       \* holder and waiters of self.lock
    feed, processor, held,      \* coroutines; held: the sample the processor took
    task,                       \* task of each sample
    main, monitor,
    reset, counted,             \* reset_staleness: where it is, len(active_tasks) it read
    mq,                         \* the deque of the MessageQueue actor
    evicted,                    \* history: what a put on a full deque threw away
    budget                      \* history: samples in flight at the last reset
                                \* plus tasks created since

lockVars     == <<lock, paused>>
countVars    == <<total_generated_samples, dropped_stale_samples>>
feedVars     == <<feed, global_steps>>
processorVars == <<processor, held, active_tasks, staleness_samples>>
resetVars    == <<reset, counted>>
queueVars    == <<mq, evicted>>
rollouterVars == <<lockVars, countVars, feedVars, processorVars, resetVars, queueVars,
                   pending_queue, running, task, main, monitor, budget>>

-----------------------------------------------------------------------------
Samples == 1..TotalRolloutSteps

\* None: the end signal in pending_queue and in the message queue.
End == 0

\* Samples the trainer consumes between two parameter synchronisations.
SamplesPerSync == RequiredSamples * TriggerSteps

\* int(required_samples * (staleness_threshold + 1) * trigger_parameter_sync_step)
max_required_samples == (SamplesPerSync * (StalenessNum + StalenessDen)) \div StalenessDen

max_concurrent_samples ==
    IF ServerSlots < max_required_samples THEN ServerSlots ELSE max_required_samples

max_queue_size == max_required_samples

Coroutines == {"processor", "monitor", "main", "reset"}

Holds(c)   == lock # <<>> /\ Head(lock) = c
Request(c) == lock' = Append(lock, c)
Release    == lock' = Tail(lock)
Rerequest(c) == lock' = Append(Tail(lock), c)   \* release, then acquire again

\* A cancelled coroutine neither holds the lock nor waits for it any more.
LeaveLock(c) ==
    \/ /\ \A i \in 1..Len(lock) : lock[i] # c
       /\ UNCHANGED lock
    \/ \E i \in 1..Len(lock) :
          /\ lock[i] = c
          /\ lock' = SubSeq(lock, 1, i - 1) \o SubSeq(lock, i + 1, Len(lock))

\* condition.notify_all(): the processor, if it waits on the condition,
\* requests the lock again.  l is the lock queue the notifier leaves behind.
Waiting == processor \in {"parked", "submitParked"}
NotifyNobody(l) == lock' = l /\ UNCHANGED processor

NotifyAll(l) ==
    /\ lock' = IF Waiting THEN Append(l, "processor") ELSE l
    /\ processor' = CASE processor = "parked"       -> "parking"
                      [] processor = "submitParked" -> "submit"
                      [] OTHER                      -> processor

ShouldPauseOffByOne ==
    \/ Len(mq) >= max_queue_size
    \/ staleness_samples > max_required_samples

ShouldPause ==
    \/ Len(mq) >= max_queue_size
    \/ staleness_samples >= max_required_samples

\* Where the processor checks for a pause.  After its first start it gets there
\* from a step it took without being suspended since.
Checking == processor \in {"start", "check"}

LoopFree == processor # "check"

Finished   == {s \in active_tasks : task[s] \in {"done", "failed"}}
Generating == {s \in Samples : task[s] = "generating"}

\* What is in the message queue besides the end signal.
QueuedSamples == {mq[i] : i \in 1..Len(mq)} \ {End}

InFlight == Generating \cup QueuedSamples

-----------------------------------------------------------------------------
Init ==
    /\ paused = FALSE /\ running = TRUE
    /\ staleness_samples = 0
    /\ active_tasks = {}
    /\ pending_queue = <<>>
    /\ global_steps = 1
    /\ total_generated_samples = 0 /\ dropped_stale_samples = 0
    /\ lock = <<"monitor">>
    /\ feed = "feeding"
    /\ processor = "start" /\ held = End
    /\ task = [s \in Samples |-> "new"]
    /\ main = "waitAny" /\ monitor = "top"
    /\ reset = "idle" /\ counted = 0
    /\ mq = <<>> /\ evicted = {}
    /\ budget = 0

-----------------------------------------------------------------------------
(* _feed_samples *)

FeedSample ==
    /\ feed = "feeding"
    /\ Len(pending_queue) < PendingCapacity
    /\ pending_queue' = Append(pending_queue, global_steps)
    /\ IF global_steps >= TotalRolloutSteps
       THEN feed' = "ending" /\ UNCHANGED global_steps
       ELSE global_steps' = global_steps + 1 /\ UNCHANGED feed
    /\ UNCHANGED <<lockVars, countVars, processorVars, resetVars, queueVars,
                   running, task, main, monitor, budget>>

FeedEnd ==
    /\ feed = "ending"
    /\ Len(pending_queue) < PendingCapacity
    /\ pending_queue' = Append(pending_queue, End)
    /\ feed' = "done"
    /\ UNCHANGED <<lockVars, countVars, processorVars, resetVars, queueVars,
                   global_steps, running, task, main, monitor, budget>>

\* The dataloader raises.
FeedFail ==
    /\ MayFail
    /\ feed = "feeding"
    /\ feed' = "raised"
    /\ UNCHANGED <<lockVars, countVars, processorVars, resetVars, queueVars,
                   global_steps, pending_queue, running, task, main, monitor, budget>>

-----------------------------------------------------------------------------
(* _processor_worker *)

\* if self.paused or await self._should_pause_generation()
ProcessorSeesPause ==
    /\ Checking
    /\ paused \/ ShouldPause
    /\ processor' = "pausing"
    /\ Request("processor")
    /\ UNCHANGED <<paused, countVars, feedVars, held, active_tasks, staleness_samples,
                   resetVars, queueVars, pending_queue, running, task, main, monitor, budget>>

\* while self.active_tasks: ..., then on to the wait for the end of the pause
DrainOrPark(active) == IF active = {} THEN "parking" ELSE "draining"

ProcessorPause ==
    /\ processor = "pausing" /\ Holds("processor")
    /\ paused' = TRUE
    /\ processor' = DrainOrPark(active_tasks)
    /\ Rerequest("processor")
    /\ UNCHANGED <<countVars, feedVars, held, active_tasks, staleness_samples,
                   resetVars, queueVars, pending_queue, running, task, main, monitor, budget>>

\* while len(self.active_tasks) >= self.max_concurrent_samples
LimitByRequired(active) ==
    IF Cardinality(active) >= max_required_samples THEN "limit" ELSE "submit"

LimitOrSubmit(active) ==
    IF Cardinality(active) >= max_concurrent_samples THEN "limit" ELSE "submit"

\* What follows the three loops around asyncio.wait, for the tasks left.
AfterReapNoDrain(active) ==
    CASE processor = "draining"  -> "parking"
      [] processor = "limit"     -> LimitOrSubmit(active)
      [] processor = "finishing" -> "done"

AfterReap(active) ==
    CASE processor = "draining"  -> DrainOrPark(active)
      [] processor = "limit"     -> LimitOrSubmit(active)
      [] processor = "finishing" -> IF active = {} THEN "done" ELSE "finishing"

\* asyncio.wait(active_tasks, FIRST_COMPLETED), held lock and all: it returns
\* once a task is finished and reaps every finished one; `await task` re-raises
\* the exception of a failed one.
ProcessorReap ==
    /\ processor \in {"draining", "limit", "finishing"} /\ Holds("processor")
    /\ Finished # {}
    /\ active_tasks' = active_tasks \ Finished
    /\ processor' = IF \E s \in Finished : task[s] = "failed"
                    THEN "raised" ELSE AfterReap(active_tasks \ Finished)
    /\ IF processor' \in {"raised", "done"} THEN Release ELSE Rerequest("processor")
    /\ UNCHANGED <<paused, countVars, feedVars, held, staleness_samples, resetVars,
                   queueVars, pending_queue, running, task, main, monitor, budget>>

\* while self.paused: await self.condition.wait()
ProcessorPark ==
    /\ processor = "parking" /\ Holds("processor")
    /\ processor' = IF paused THEN "parked" ELSE "check"
    /\ Release
    /\ UNCHANGED <<paused, countVars, feedVars, held, active_tasks, staleness_samples,
                   resetVars, queueVars, pending_queue, running, task, main, monitor, budget>>

\* pending_queue.get() suspends the processor; the pause is not checked again
\* when it resumes.
ProcessorWaitPending ==
    /\ Checking /\ ~paused /\ ~ShouldPause
    /\ pending_queue = <<>>
    /\ processor' = "get"
    /\ UNCHANGED <<lockVars, countVars, feedVars, held, active_tasks, staleness_samples,
                   resetVars, queueVars, pending_queue, running, task, main, monitor, budget>>

ProcessorTake ==
    /\ \/ Checking /\ ~paused /\ ~ShouldPause
       \/ processor = "get"
    /\ pending_queue # <<>>
    /\ pending_queue' = Tail(pending_queue)
    /\ held' = Head(pending_queue)
    /\ staleness_samples' = staleness_samples + 1
    /\ processor' =
         IF Head(pending_queue) = End
         THEN IF active_tasks = {} THEN "done" ELSE "finishing"
         ELSE LimitOrSubmit(active_tasks)
    /\ IF processor' = "done" THEN UNCHANGED lock ELSE Request("processor")
    /\ UNCHANGED <<paused, countVars, feedVars, active_tasks, resetVars, queueVars,
                   running, task, main, monitor, budget>>

ProcessorSubmit ==
    /\ processor = "submit" /\ Holds("processor")
    /\ Release
    /\ IF paused
       THEN /\ processor' = "submitParked"
            /\ UNCHANGED <<held, active_tasks, task, budget>>
       ELSE /\ processor' = "check"
            /\ task' = [task EXCEPT ![held] = "generating"]
            /\ active_tasks' = active_tasks \cup {held}
            /\ held' = End
            /\ budget' = budget + 1
    /\ UNCHANGED <<paused, countVars, feedVars, staleness_samples, resetVars, queueVars,
                   pending_queue, running, main, monitor>>

-----------------------------------------------------------------------------
(* _process_single_sample_streaming *)

\* The sample is generated and put_sample takes effect in the queue.
TaskPut(s) ==
    /\ task[s] = "generating"
    /\ task' = [task EXCEPT ![s] = IF QueueFull(mq, max_queue_size) THEN "evicting" ELSE "stored"]
    /\ mq' = PutSample(mq, s, max_queue_size)
    /\ evicted' = evicted \cup PutDrops(mq, max_queue_size)
    /\ UNCHANGED <<lockVars, countVars, feedVars, processorVars, resetVars,
                   pending_queue, running, main, monitor, budget>>

\* The reply of put_sample reaches the task, which then is done.
TaskReply(s) ==
    /\ task[s] \in {"stored", "evicting"}
    /\ task' = [task EXCEPT ![s] = "done"]
    /\ IF task[s] = "stored"
       THEN /\ total_generated_samples' = total_generated_samples + 1
            /\ UNCHANGED dropped_stale_samples
       ELSE /\ dropped_stale_samples' = dropped_stale_samples + 1
            /\ UNCHANGED total_generated_samples
    /\ UNCHANGED <<lockVars, feedVars, processorVars, resetVars, queueVars,
                   pending_queue, running, main, monitor, budget>>

\* generate_sequences_single raises.
TaskFail(s) ==
    /\ MayFail
    /\ task[s] = "generating"
    /\ task' = [task EXCEPT ![s] = "failed"]
    /\ UNCHANGED <<lockVars, countVars, feedVars, processorVars, resetVars, queueVars,
                   pending_queue, running, main, monitor, budget>>

-----------------------------------------------------------------------------
(* _streaming_generation_main *)

MainFeedDone ==
    /\ main = "waitAny"
    /\ feed = "done" /\ processor # "raised"
    /\ main' = "waitProcessor"
    /\ UNCHANGED <<lockVars, countVars, feedVars, processorVars, resetVars, queueVars,
                   pending_queue, running, task, monitor, budget>>

\* await self.processor_task; await self.pending_queue.join()
MainJoin ==
    /\ main = "waitProcessor"
    /\ processor = "done" /\ pending_queue = <<>>
    /\ main' = "finally"
    /\ UNCHANGED <<lockVars, countVars, feedVars, processorVars, resetVars, queueVars,
                   pending_queue, running, task, monitor, budget>>

\* A coroutine raised: re-raise, and in the finally clause cancel the other
\* one.  The tasks of active_tasks are not cancelled.
MainRaise ==
    /\ \/ main = "waitAny" /\ feed = "raised"
       \/ main \in {"waitAny", "waitProcessor"} /\ processor = "raised"
    /\ main' = "finallyRaise"
    /\ feed' = IF feed \in {"done", "raised"} THEN feed ELSE "cancelled"
    /\ processor' = IF processor \in {"done", "raised"} THEN processor ELSE "cancelled"
    /\ LeaveLock("processor")
    /\ UNCHANGED <<paused, countVars, global_steps, held, active_tasks, staleness_samples,
                   resetVars, queueVars, pending_queue, running, task, monitor, budget>>

\* put_sample(sample=None), the end signal for the trainer.  Without an
\* exception, go on to running = False.
MainSendEnd ==
    /\ main \in {"finally", "finallyRaise"}
    /\ mq' = PutSample(mq, End, max_queue_size)
    /\ evicted' = evicted \cup PutDrops(mq, max_queue_size)
    /\ IF main = "finally"
       THEN main' = "stopping" /\ Request("main")
       ELSE main' = "raised" /\ UNCHANGED lock
    /\ UNCHANGED <<paused, countVars, feedVars, processorVars, resetVars,
                   pending_queue, running, task, monitor, budget>>

MainStop ==
    /\ main = "stopping" /\ Holds("main")
    /\ running' = FALSE
    /\ main' = "done"
    /\ Release
    /\ UNCHANGED <<paused, countVars, feedVars, processorVars, resetVars, queueVars,
                   pending_queue, task, monitor, budget>>

-----------------------------------------------------------------------------
(* _async_monitor_loop *)

MonitorTop ==
    /\ monitor = "top" /\ Holds("monitor")
    /\ monitor' = IF running THEN "sleeping" ELSE "done"
    /\ Release
    /\ UNCHANGED <<paused, countVars, feedVars, processorVars, resetVars, queueVars,
                   pending_queue, running, task, main, budget>>

\* if self.paused and not await self._should_pause_generation()
ResumeNever == FALSE

ResumeDue == paused /\ ~ShouldPause

MonitorWake ==
    /\ monitor = "sleeping"
    /\ monitor' = IF ResumeDue THEN "resuming" ELSE "top"
    /\ Request("monitor")
    /\ UNCHANGED <<paused, countVars, feedVars, processorVars, resetVars, queueVars,
                   pending_queue, running, task, main, budget>>

MonitorResume ==
    /\ monitor = "resuming" /\ Holds("monitor")
    /\ paused' = FALSE
    /\ monitor' = "top"
    /\ NotifyAll(Append(Tail(lock), "monitor"))
    /\ UNCHANGED <<countVars, feedVars, held, active_tasks, staleness_samples, resetVars,
                   queueVars, pending_queue, running, task, main, budget>>

-----------------------------------------------------------------------------
(* reset_staleness, called by the trainer *)

\* len(self.active_tasks) is read before the call of get_queue_size is awaited,
\* with the lock held.
ResetBegin ==
    /\ reset = "called" /\ Holds("reset")
    /\ paused' = FALSE
    /\ NotifyAll(lock)
    /\ counted' = Cardinality(active_tasks)
    /\ reset' = "sizing"
    /\ UNCHANGED <<countVars, feedVars, held, active_tasks, staleness_samples, queueVars,
                   pending_queue, running, task, main, monitor, budget>>

\* The queue's answer and the assignment are one step: a put in between would
\* be of a task that was counted, so the sum covers what is in flight as well.
ResetEnd ==
    /\ reset = "sizing" /\ Holds("reset")
    /\ staleness_samples' = counted + Len(mq)
    /\ budget' = Cardinality(InFlight)
    /\ reset' = "returned"
    /\ Release
    /\ UNCHANGED <<paused, countVars, feedVars, processor, held, active_tasks, counted,
                   queueVars, pending_queue, running, task, main, monitor>>

-----------------------------------------------------------------------------
ProcessorStep ==
    \/ ProcessorSeesPause \/ ProcessorPause \/ ProcessorReap \/ ProcessorPark
    \/ ProcessorWaitPending \/ ProcessorTake \/ ProcessorSubmit

FeedStep == LoopFree /\ (FeedSample \/ FeedEnd \/ FeedFail)

\* A put that was sent takes effect in the queue whatever the event loop does.
TaskStep(s) == TaskPut(s) \/ (LoopFree /\ (TaskReply(s) \/ TaskFail(s)))

MainStep == LoopFree /\ (MainFeedDone \/ MainJoin \/ MainRaise \/ MainSendEnd \/ MainStop)

MonitorStep == LoopFree /\ (MonitorTop \/ MonitorWake \/ MonitorResume)

ResetStep == LoopFree /\ (ResetBegin \/ ResetEnd)

RollouterStep ==
    \/ FeedStep \/ ProcessorStep \/ MainStep \/ MonitorStep \/ ResetStep
    \/ \E s \in Samples : TaskStep(s)

\* fit() returns: asyncio.gather waits for the main coroutine and the monitor.
RolloutFitReturned == main \in {"done", "raised"} /\ monitor = "done"

=============================================================================

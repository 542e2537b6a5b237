# Verification of RLVR-Schedule

RLVR-Schedule is a fork of verl: reinforcement learning of language models with
Ray actors for generation (vLLM servers), training (FSDP or Megatron workers)
and the control that ties them together. This directory holds TLA+ models of
the parts whose correctness depends on the order of things, TLC configurations
that check them on small instances, and theorems that TLAPS proves for every
value of the constants. Paths below are relative to `src/`.

Run from this directory: `tlc -config MCFullyAsync.cfg MCFullyAsync.tla` checks
an instance, `tlapm QueueProofs.tla` checks the proofs of a module. All runs
and theorems are listed in `PROJECT.json`, with the source lines behind every
definition (`map`).

## 1. Inventory

`FAP` is `verl/experimental/fully_async_policy`, `CE` is `verl/checkpoint_engine`.

| Component | Source | State | Operations | Hard because |
|---|---|---|---|---|
| Message queue | `FAP/message_queue.py` | a bounded deque, `running`, counters | `put_sample`, `get_sample`, `clear_queue`, `shutdown`, statistics | consumers wait on one condition; a full queue throws the oldest entry away; the end signal travels in it |
| Rollouter | `FAP/fully_async_rollouter.py` | `paused`, `running`, `staleness_samples`, `active_tasks`, `pending_queue`, lock and condition | coroutines `_feed_samples`, `_processor_worker`, one task per sample, `_async_monitor_loop`, `_streaming_generation_main`; handler `reset_staleness` | five kinds of coroutines interleave at every await; the lock is held across long waits; failures and cancellation |
| Trainer | `FAP/fully_async_trainer.py` | `current_param_version`, `local_trigger_step`, collected samples | `_get_samples_from_queue`, `fit_step`, `_fit_update_weights`, end of `fit` | blocks in calls to the rollouter that waits for it |
| Task runner | `FAP/fully_async_main.py` | the two futures | start, wait, clear the queue | must notice a failure of either side |
| Partial rollout | `FAP/agent_loop/agent_loop.py` | merged output and version tags of one call, the caller's `sampling_params` | `FullyAsyncLLMServerManager.generate` | a call is interrupted and continued any number of times |
| Load balancer | `verl/experimental/agent_loop/agent_loop.py` | in-flight counts, LRU routes | `acquire_server`, `release_server` | releases are sent without waiting |
| vLLM server | `verl/workers/rollout/vllm_rollout/` | engine paused or not, weights, `global_steps`, awake or asleep | `generate`, `abort_all_requests`, `resume_generation`, `set_global_steps`, sleep | handlers of one event loop race a running engine |
| Weight synchronisation | `CE/base.py` | where each replica is | `update_weights`, `sleep_replicas`, `build_process_group` | must be atomic for requests that see it happen |
| Checkpoint transports | `CE/nixl_*`, `CE/nccl_*`, `bucketed_weight_transfer.py` | two buffers per rank, one at the engine | send, read, pass on, load | asynchronous copies, double buffering across a chain of processes |
| Synchronous trainer | `verl/trainer/ppo/ray_trainer.py` | `global_steps`, dataloader, models, what is on the GPUs | `fit`, `_save_checkpoint`, `_load_checkpoint`, `_validate` | order of sleep, save, update, validate; crashes |
| One-step-off trainer | `verl/experimental/one_step_off_policy/` | one batch in flight | `fit_step`, `_async_gen_next_batch` | generation overlaps training; resume |
| Checkpoint managers | `verl/utils/checkpoint/` | files, tracker, `previous_saved_paths` | save, rotate, find the latest | a crash between any two writes |
| Workers and engines | `verl/workers/engine_workers.py`, `engine/`, `single_controller/` | offloaded parameters, mini-batches | `update_weights`, `train_mini_batch`, micro-batching, dispatch and collect | collective calls; four reorderings of the rows |
| Balancing, data protocol | `verl/utils/seqlen_balancing.py`, `verl/protocol.py` | none (pure) | Karmarkar-Karp, `rearrange_micro_batches`, `repeat`, `chunk`, `reorder` | inverses and boundaries |
| Response schedule | `agent_loop.py`, `ray_trainer.py` | none (pure) | `_prefix_curriculum`, split of a response, forking-token mask | three separate roundings; masks with holes |
| PPO algorithms | `verl/trainer/ppo/core_algos.py` | none (pure) | advantage estimators, `agg_loss` | written for masks without holes; normalisation |
| Reward loop | `verl/experimental/reward_loop/` | token buckets, semaphore, threads | `acquire`, `run_single`, gathering of scores | many coroutines wait for one bucket, threads outlive their timeout |
| Tool agent loop | `verl/experimental/agent_loop/tool_agent_loop.py` | per-request state machine | generate, call tools | cannot be entered (section 6) |

Models, Megatron, legacy workers, other rollout engines, tools, vision-language-
action environments, datasets, reward scoring, profiling, configuration and
vendored code are listed in `PROJECT.json` with the reason they are left out.

How the parts interact. In the synchronous trainer one driver makes blocking
calls: generate, put the replicas to sleep, compute, update critic and actor,
save, push the weights (which wakes the replicas), validate. In the one-step-off
trainer the generation of the next batch is a future. In the fully asynchronous
one the task runner starts the `fit` of rollouter and trainer and waits for
both; the rollouter feeds samples to generation tasks whose results go to the
message queue by a remote call; the trainer takes them one by one. After
`trigger_parameter_sync_step` local steps it has the checkpoint engine manager
abort the servers' requests, transfer weights and resume, and calls
`reset_staleness`. Generation tasks send their requests through the load
balancer and send them again when they were aborted. Every finished row is
scored by a reward loop worker before the batch is put together.

## 2. Modules

    SampleQueue              the deque as operators
      MessageQueue           the queue actor alone            MCMessageQueue
        QueueProofs          counters, order, wake-ups
      FullyAsyncRollouter    the rollouter's event loop
        FullyAsync           + trainer, queue, task runner    MCFullyAsync
          FullyAsyncProofs   freshness control, the contract, conservation, the end
    FreshnessContract        what FullyAsync implements
    LoadBalancer             the balancer's handlers
      PartialRollout         + calls, servers, weight sync    MCPartialRollout
        PartialRolloutProofs counts, lengths, versions across synchronisations
    CheckpointStore          files, rotation, tracker
      TrainingLoop           both step-by-step trainers       MCTrainingLoop
        TrainingProofs       recoverability; order of calls: GPUs, weights, resuming
    WeightTransfer           NIXL and NCCL transports         MCWeightTransfer
        TransferProofs       whole weights, stable offers, a clean end
    RewardLoop               rate limited scoring             MCRewardLoop
        RewardProofs         permits, quota, bursts
    SeqlenBalancing          Karmarkar-Karp, micro-batches
    ResponseSchedule         schedule curves and split
      TrainingBatch          the rows of one step             MCTrainingBatch
        BatchProofs          schedule, gradient weights, balance
    Advantages               advantage estimators             MCAdvantages
        AdvantageProofs      masked tokens, centred groups

**MessageQueue.** Every handler holds the actor's lock and only `get_sample`
awaits inside (`Condition.wait`), so a handler is one action and `get_sample`
is a call, a wait and a re-check. A sample is its production number.

**FullyAsyncRollouter.** An action is what a coroutine does between two awaits
that can suspend it. The asyncio lock is a FIFO queue of coroutines (`lock`,
the first one holds it), as asyncio grants it. The locations of the processor
are the awaits of `_processor_worker`: `check` (loop head), `pausing`,
`draining`, `parking`/`parked` (the pause), `get` (waiting for a sample),
`limit` (waiting for a slot), `submit`/`submitParked`, `finishing`. The pause
check of the processor calls the queue with a blocking `ray.get`; no other
coroutine runs meanwhile (`LoopFree`). A put takes effect in the queue before
its reply reaches the task (`TaskPut`, `TaskReply`). Cancellation (`MainRaise`)
takes a coroutine out of the lock queue wherever it is. `ResetEnd` joins the queue's answer to
`get_queue_size` with the assignment that follows; the code may run other
coroutines between the two. Only tasks counted at `ResetBegin` can put anything
then, so the sum covers what is in flight in either order. `budget` and
`evicted` are history variables.

**FullyAsync** adds the trainer: it collects samples one `get_sample` at a time,
trains, counts the local step, and synchronises. What happens inside the weight
synchronisation is PartialRollout's subject; here it is one step.
`DriverReturn` is the task runner.

**FreshnessContract** is the abstract specification: a sample starts once, is
consumed at most once, and no version starts more than its budget on top of
what is in flight. `FullyAsync` implements it under the mapping in `Contract`.

**LoadBalancer, PartialRollout.** A token is the version of the weights that
produced it, so a response is a sequence of versions and the tags can be
compared with it. `cap` is the length the running attempt may reach; it is
computed when the request is sent, from the shared `limit` in validation and
from the configured lengths in training. `phase` is where the synchronisation
is with each server; the barriers between its phases are the `gather` and
`ray.get` calls of `update_weights`. The engine modelled is the one that pauses
(vLLM 0.12); `MaxTokens` takes `max_model_len` to be at least prompt_length +
response_length.

**CheckpointStore, TrainingLoop.** The driver is sequential, so its state is
the list of calls it still has to make (`todo`); `ColocatedCalls` and
`PipelinedCalls` spell the lists of `fit` and `fit_step`, every call is an
action, and a crash may come between any two, inside a save between its writes.
A model is the sequence of batches it was trained on; replicas carry the
sequence their weights stand for; `gpu` is the set of things resident on the
trainer's GPUs. A folder of the checkpoint directory holds, for actor, critic
and dataloader, `Missing`, `Partial` or what was saved; the tracker is written
last, by truncating and writing. `previous_saved_paths` is memory of the
checkpoint managers and is lost with them. Six configurations vary trainer,
critic, reward model, warm-up, frequencies, checkpoints to keep and expiration.
`TrainingAssumption` leaves out a colocated reward model together with the
one-step-off trainer: a reward model is modelled with the synchronous one only,
and what is checked and proved of the pipelined trainer is without one.

**WeightTransfer.** Rank 0 fills one of two buffers with non-blocking copies
(`copies`) while the other is read by the next rank (NIXL) or broadcast (NCCL);
every rank offers a bucket on while it reads the next. `pc` are the awaits of
`send_weights` and `receive_weights`. A buffer maps bytes to the tensors they
belong to, and a read moves one byte per step, so a buffer reused too early
shows as a torn tensor. Rollout ranks hand the tensors over to the engine
through the bucket of `bucketed_weight_transfer.py`.

**RewardLoop.** Time is a counter of ticks; tokens are measured in ticks of
refill. `pc` of a row are the awaits of `run_single`: the two limiters (sleeping
off a debt, possibly for too long), the semaphore's FIFO queue, the score under
`wait_for`. A synchronous scoring function runs in the process's default
executor, where decoding runs too, and its thread outlives a timeout. So the rows
that hold a permit (`Holding`) and the scoring functions that run (`Running`, with
a request to the judge open each) are different sets: a row that timed out has given
its permit back while its thread goes on.

**SeqlenBalancing, ResponseSchedule, TrainingBatch.** One step's data, with
columns that remember which response they belong to. Balancing is the
differencing method one merge at a time; micro-batches, their agreement between
ranks, the inverse permutation, dispatch and collect are operators translated
from the code; a mini-batch is drawn by every rank for itself. The gradient is
the weight each response's tokens have in it, as an exact fraction, because
that is what batching can change. Ratios of the schedule are integers in
percent; the code computes in floating point.

**Advantages.** The estimators in integers and fractions over every choice of
forking tokens; the two that walk backwards over the columns are a step per
column. Whitening, standard deviations and epsilons are left out: they scale or
shift all tokens in the mask alike.

## 3. Runs

| Run | Instance | What it shows |
|---|---|---|
| `message_queue` | 2 consumers, queue of 2, 4 puts | every sample accounted for, production order, no consumer left asleep, a shutdown releases everyone |
| `fully_async` | 8 samples, 2 per step, threshold 1/2, 2 slots | generation budget, carry-over, conservation of samples, no lost resume, nothing left behind, the contract |
| `fully_async_failure` | 5 samples, 1 per step, 2 local steps, staleness threshold 1, failures possible | the end signal survives; a run without failures ends |
| `failure_reported` | 3 samples, failures | **violation**: after an exception `fit` never returns |
| `partial_rollout` | 2 requests, 2 servers, 2 synchronisations, responses of 2 tokens with 1 of slack in the prompt | honest version tags, one version at a time, no generation during a transfer, exact counts, responses that fit |
| `calls_return` | 2 requests, 1 server, cache of 1 | every call comes back, with a whole response |
| `training_loop` | 6 configurations, 4 steps in 2 epochs, 3 launches | nobody generates asleep, GPU memory is exclusive, batches are at most one update old, a crash leaves a loadable checkpoint, restarts leave no trace, the last model is saved |
| `weight_transfer` | 2 trainers, 3 rollout workers, tensors of 1, 1, 2, 1 bytes, buckets of 2, both engines | no tensor is lost, torn or loaded twice, an offered buffer is stable, the transfer ends and leaves nothing behind |
| `reward_loop` | 3 rows, 1 worker, 1 permit, 2 threads, a limit above and one below a request per second | quota, burst, permits; only rows that timed out are scored beside the permits; the batch is answered |
| `training_batch` | 4 prompts of 2 responses, 2 ranks of 2 processes, 2 mini-batches, 2 epochs | rows keep their columns, ranks are balanced and in step, the policy loss does not depend on the batching, the schedule's lengths fit |
| `critic_loss` | the same | **violation**: the value loss does |
| `advantages` | 3 rows in 2 groups, 4 columns, 9 estimators, every mask | masked tokens are invisible, groups are centred |

Bounds. In `fully_async` the queue holds 3 entries and 8 samples make four
parameter versions: the carry-over of one version meets that of the next, the
queue fills, the processor pauses, drains, and waits at every one of its awaits
with a reset at any point. (With 6 samples a pause check that is one off would
go unnoticed; with 8 it breaks the budget.) Two requests are enough for one to
be anywhere while the other is interrupted, two synchronisations for a response
to span three versions. In `training_loop` a third launch meets the files that
two interrupted runs left; two steps per epoch put a checkpoint in the middle
and at the end of an epoch. In `weight_transfer` three workers make a chain with
a first, a middle and a last rank, and the sizes a bucket of two tensors, one of
a large tensor and a last one that is not full: each buffer is used twice. In
`reward_loop` a second is two ticks, so a bucket in debt, a full one and an
oversleeping coroutine occur; one permit makes rows wait for it, and with one
thread more than permits an abandoned thread runs beside the next score, or two
of them fill the executor. In
`training_batch` the lengths range over all mixes of short and long responses
and every shuffle of the two ranks. `advantages` takes every choice of tokens.
`SYMMETRY` over requests is used only where no liveness is checked.

Fairness. The safety properties hold whatever is fair. Liveness assumes weak
fairness of each coroutine (the event loop runs what can run), of the actors,
and of generation (a running request gets its next token, a task ends). Nobody
is assumed to fail, to call `shutdown`, or to begin a synchronisation. In
`calls_return` the number of synchronisations is bounded: if weights were sent
more often than a token is generated, a response would never be complete.
`TrainingEnds` is checked with max_concurrent_samples at most
max_required_samples minus the samples of one synchronisation; beyond that, and
in particular with a staleness threshold of 0, a recount that counts finished
but unreaped tasks twice can leave the trainer short of samples.
`FinalModelSaved` assumes that the driver makes progress and that a job that
was killed is launched again, up to the bound on launches; crashes are not
fair. `TransferEnds` assumes that copies, reads and handlers make progress.
`BatchAnswered` assumes that time passes and coroutines run, not that the judge
answers; with a synchronous scoring function it asks in addition that threads
end again and again, which the property states as its premise.

Two properties are restricted where the code does not keep them: `Recoverable`
and `FinalModelSaved` to configurations that keep more than one checkpoint,
`ResumeExact` to the synchronous trainer after a restart. Section 4 says why.

## 4. Findings

1. `failure_reported`: an exception leaves `running` set, so the monitor loop
   and with it the rollouter's `fit` never end, and the task runner waits for
   ever, although `fully_async_rollouter.py:534-535` means to detect it.
2. `critic_loss`: `compute_value_loss` (`core_algos.py:2228`) calls `agg_loss`
   without the sizes of the global batch; the loss is normalised per
   micro-batch and the engine adds micro-batches up unscaled. `agg_loss`
   promises to be "invariant to fsdp/megatron parallelism"
   (`core_algos.py:1150`); `PolicyLossInvariant` shows that the policy loss is.

Further counterexamples, to be run by hand. Each of these configurations checks
one property that the code violates; they are not among the listed runs.

| Configuration | Module | What it shows |
|---|---|---|
| `MCRolloutNum.cfg` | MCFullyAsync | the bound of `FAP/README.md:136-138` is exceeded by one sample; `FreshnessControl` proves: never by more |
| `MCEndSignal.cfg` | MCFullyAsync | with as many slots as queue entries, tasks that outlive a failed rollouter evict the end signal |
| `MCNoPartialRollout.cfg` | MCPartialRollout | with `partial_rollout=False` an aborted response is returned as complete (`FAP/README.md:216-217`) |
| `MCValidationLimit.cfg` | MCPartialRollout | one `sampling_params` dict is shared by a validation batch and reduced by every request that returns |
| `MCCheckpointKept.cfg` | MCTrainingLoop | with one checkpoint to keep, the only complete one is deleted before the tracker moves to the new one (`checkpoint_manager.py:145-150`) |
| `MCCriticWarmup.cfg` | MCTrainingLoop | with `critic_warmup` above 1 the weight push that wakes the replicas is skipped and the next step generates on sleeping ones |
| `MCResumedJob.cfg` | MCTrainingLoop | the one-step-off trainer saves a dataloader position that is one batch ahead; after a restart it runs out of data |
| `MCSingleWorker.cfg` | MCWeightTransfer | with one rollout worker `metadata[-rollout_world_size + 1 :]` is the whole list and the group cannot be built |
| `MCGlobalRate.cfg` | MCRewardLoop | the limiters are per process, not shared by all workers as `limited.py:195-197` says |
| `MCMaxConcurrent.cfg` | MCRewardLoop | after a timeout a synchronous scoring function keeps its thread and its request while the permit starts the next one: more than `max_concurrent` requests are open, which "Limits the number of simultaneous API requests" (`limited.py:182-184`, also 210); `OnlyLateExceed` proves: the excess has timed out |

Read off the source, and listed as hazards without a property: `off_policy_schedule`
unpacks three values into two (`agent_loop.py:544`); the tool agent loop does
not accept the arguments it is called with (`agent_loop.py:624`); a row that
timed out makes `_postprocess` raise a `KeyError` for the whole batch
(`agent_loop.py:1080`).

## 5. Proofs

Every proof uses the named assumptions of the modules it extends and no others.

`FullyAsyncProofs` proves `TypeCorrect`, one step per action, and on top of it
seven theorems. `NoLostResume` is inductive as
it stands: both ways of clearing the pause notify the processor, and it goes to
sleep only with the flag set, in one step with the check. `FreshnessControl`
needs `BudgetInvariant`. The generation budget alone is not inductive: what
bounds it is `staleness_samples`, and after a recount that is a sum of two
numbers read at different times. The invariant therefore says that the charged
samples stay at most one ahead of `staleness_samples` and of the limit, that
the samples in flight were paid for (so that a recount does not raise the
budget), and that between the two reads of `reset_staleness` the tasks counted
cover the ones generating, because nobody starts a task without the lock.

`ContractImplemented` is the refinement itself. A start
must be of a sample that was never started, a loss must not hit what was
consumed; so the invariant `Placement` says where a sample can be: what waits
in the pending queue is new and not the sample the processor holds, what is
queued was generated and is queued once, what the trainer took is not queued
any more, and what the feed has not reached yet is nowhere. The budget of a
start comes from `BudgetInvariant`.

`SamplesConserved` says that a sample is never lost. `Placement` says where a
sample may be; `Conservation` adds that one which was fed *is* somewhere. That
needs the shutdown: what the processor holds when it is cancelled, that the main
coroutine stops only after the feed and the processor (`Shutdown`), and that the
end signal is sent once, and is the last entry of the queue until the trainer,
having taken everything else, takes it (`EndOfQueue`). `AllTrained` counts on top
of it: `Batches` ties the samples trained on to the versions and local steps.
`CarryOverBounded` is about an action. A reset may charge the next version with
what is in flight, and what the trainer has consumed since the last reset was
paid for by the same budget (`CarryInvariant`: in flight plus `ConsumedSince` is
at most the budget); what is left after the samples of one synchronisation is
the bound. `EndSignalKept` has the hypothesis `EndFits`: if failures are
possible, there are fewer slots than entries in the queue. A failed rollouter
leaves its tasks running, and each may still put a sample behind the end signal
(`BehindEnd`); with as many slots as entries they push it out, which is the
counterexample of `MCEndSignal.cfg`.

`QueueProofs` proves `EverySampleCounted`, `InOrder` and `NoConsumerForgotten` of
the queue actor alone. The invariant adds to the three
properties that what is queued lies between the last sample handed out and the
number of samples put.

`PartialRolloutProofs` proves `InflightCounts` (the counts of the balancer are
the holders of a server plus the releases on their way; each action moves at
most one request in or out of a server's holders) and `ResponseFits` (every
attempt is capped by what is left of the context, and a running attempt is
below its cap).

It proves `TransferQuiet`, `VersionsAgree` and `TagsEnclose` too. The first invariant says
what a server holds in each phase of a synchronisation (`ServerStates`), that a
server serves again only when all the others have the new weights (`Barrier`),
and that a request runs only before the abort of its server (`RunsQuietly`).
Tags need more: `Served`, the version requests are served with, never falls and
stays while anything runs, so the tokens of an attempt all come from the
version it is tagged with; `Tagged` carries for each request that its tokens
are ordered and lie between 0 and `Served`, and above the oldest tag once one
attempt was merged.

`TrainingProofs` proves `TypeCorrect`, whose strengthening says that the
driver's list of calls holds at most one save, in its order, and that
`global_steps` stays within the bound; and `CheckpointRecoverable`. The
tracker alone says too little: `SafeStore` carries that the checkpoint it names
is complete; that it is not newer than the step being made, and older while a
save is on its way (`TrackerBehind`); that the parts the save has already
written are complete (`PartsWritten`); and that the paths a checkpoint manager
remembers are ordered steps of which the tracker can only name the last one
(`Rotation`), so that what is deleted to make room is never what it names. With one
checkpoint to keep the last part fails, which is the counterexample of `MCCheckpointKept.cfg`.

Its second part is about the order of the driver's calls. What matters of `todo` is
which call lies before or between which: `Separated(todo, use, off, on)` says that
between a call of `off` and a later one of `use` there is one of `on`,
`Preceded(todo, use, on)` that there is one before the first `use`. A call takes
the head away and may put a plan in its place; lemmas show
once for every plan of either trainer (`Continuations`) what that preserves. Then
`GpuShared` follows from `MemoryPlan` (between a call that wakes the KV cache and
one that loads a model there is a sleep), and `ReplicasAwake` from `AwakePlan`
(between a sleep and a generation there is a push). The latter assumes `NoWarmup`,
that the colocated trainer has no `critic_warmup` above 1: with one the push is
skipped and the property is false (`MCCriticWarmup.cfg`). `BoundedLag` compares
the actor with the weights a batch was generated with: the replicas hold a prefix
of the actor's training and the actor itself whenever a generation may begin
(`PushPlan`), and between two updates of the actor a batch is received
(`BatchPlan`). `ResumedExactly` says that after any number of crashes the models
have seen the batches of an uninterrupted run: each model is trained once per step
and before it is saved (`RunOrder`); the checkpoint of step s holds models trained
on s batches in order and the dataloader's position behind them (`DiskRuns`); what
the tracker names is there (`TrackerRuns`); and models, dataloader and
`global_steps` of a running job are at the same place (`ModelRuns`, `PlaceRuns`).

`TransferProofs` proves `TransferTypes`, `WeightsWhole`, `OffersStable` and
`FinishesClean` for chains and stars of any size and every list of tensors. The
invariant has five parts. `TypeInv` has the types and the labels a rank may be at.
`Flow` counts tensors: at every stage of a receiver (mail, read under way, buffer,
engine's bucket, inbox, loaded) the bucket continues where the one ahead of it
ends, and what is offered downstream is what was taken. `Endings` says who has
seen the bucket marked as the last. `Wire` relates a rank to the one it reads: an
offer is unread mail or a read under way, never both, at each reader, and the
buffers they name agree. `Content` is about bytes: of a bucket being filled, those
of the copies the stream has made are there; of one being read, those that have
moved; of one that is offered, all. That the groups are a chain or a star is lemma
`Topology`, from the slices of `build_topology`. `WeightsIntact` alone says nothing of bytes
on their way, and a buffer is safe only because of where its readers are: no part
is inductive without those before it.

`RewardProofs` proves `PermitsKept`, `OnlyLateExceed`, `QuotaKept` and `BurstsLimited`. Its first part (`Located`)
says where a row is: a row in a semaphore's or an executor's queue is there once,
belongs to that worker and is at the place the queue stands for, and no row that
occupies a thread is queued for one. From it the permits are counted with the
rows that hold one, and the calls with the rows that are, or were, in a thread.
`PermitsKept` says nothing of the threads that timed out. `OnlyLateExceed` does:
a row leaves its thread behind only with the result `timeout` (`Abandoned`), so
whatever runs beyond the permits has timed out. Not proved, because false, is that
no more than `max_concurrent` requests are open (`MCMaxConcurrent.cfg`).
For the quota, that a bucket has given out no more than it held and gained
(`WithinQuota`) is not inductive for requests larger than the bucket, which take
their tokens at once and sleep off the debt: `InTurn` adds that the rows let through
so far and those that sleep no longer than a sleeper fit the quota of the time it
wakes up, and that none of them wakes after the bucket's debt is paid. Then a sleeper may be overtaken by a later one, and the calls still
fit.

`BurstsLimited` is the same question for every interval of time, where the last
calls count and not all of them. Its invariant (`Bursts`) has two cases. For
requests smaller than the bucket, the calls from the i-th on have been paid for
by what the bucket had then and gained since (`Saved`). For larger ones the
sleepers of a bucket wake up at least a request's refill apart (`Spaced`), and
the calls from the i-th on, with the sleepers that wake up by any later time, fit
that time (`InLine`); a sleeper oversleeps by no more than `Lag` (`Timely`). It is
`Spaced` that lets several sleepers overtake each other without a burst.

`BatchProofs` is about a training step's data. `ScheduleHolds` is arithmetic: three
quotients of products are compared by lemmas on division, since the solver does
not multiply variables. `PolicyLossEven` is inductive as it stands, because the
weights are cleared when rows are drawn and before the actor is trained, and the
sizes of the whole mini-batch reach every micro-batch. `RanksBalanced` needs that
the bins of every state are sorted and equally long (`State`): the merge pairs the
heaviest bins of one state with the lightest of the other, so that the differences
of one are taken from those of the other, and no state gets wider than the wider
of the two it was made of. Beneath it are general facts: a strict order of a finite
set ranks it (`Ranking`), so that sorting is a permutation and sorts; and cutting
into chunks and joining them is the identity (`ChunkJoined`). The latter is an
induction over data. The library's induction rules cannot be instantiated, but
sets can: a set of numbers that holds 0 and every successor holds all of them
(`Inductive`), because the least element of its complement (`Least`, from the
well-foundedness of <) would have a predecessor in the set.

`ColumnsKept` and `RanksInLockstep` (`OwnColumns`, `Lockstep`) follow the rows of a
step from the generation to the actor's losses. Their invariant, `ColumnsInv`, has a
part per stage. `Whole`: the batch has one row per response, each with its own prompt,
log-probability and advantage. `HeapInv`: while partitions are merged, the
states of the heap share the rows out, each row in one bin of one state; so the bins
that are left at the end are a permutation of the rows. `DrawnInv` and `LevelInv`: the
micro-batches drawn on a rank take each of its rows once, none is empty, and all ranks
have the same number of them left, also where they are balanced by length: the number
wanted by the busiest rank is no more than any rank has rows, and Karmarkar-Karp with
k bins of at least k positive lengths leaves no bin empty (`Loaded`: the heaviest bin
comes first, and no bin has two rows while another has none). `ScoreInv`: what a rank
has computed so far is in the order of the micro-batches done, so that reversing the
permutation at the end restores the order of its rows, and joining the ranks' answers
that of the batch. Beneath are the same kind of inductions: folds over a
sequence or a set as sums that depend only on the elements (`TotalSums`, `SumMoved`),
sequences that list a set (`Lists`), the merges of a heap, and the order in which
answers are collected. They assume that Python's `None` is no list of micro-batches
(`NoneAssumption`).

`AdvantageProofs` proves `MaskHidden` and `GroupsCancel` (`MaskedTokensInvisible`,
`GroupCentred`). The inductive invariant `AdvInv`, theorem `Computed`, says where a
backward pass stands: with r of a row's selected tokens at or before column t
(`Rank`), `lastgaelam` and `running_return` are the discounted sums from the token
after them on, `nextvalues` is that token's value (`Carried`), and the columns
behind t hold the sums from their own tokens on (`Filled`). A column outside the
mask leaves r, and so all of it, as it is. REINFORCE++ resets its sum there;
its part of the invariant holds of masks without holes, where nothing has been summed
up yet. The sums obey the recursion of the passes (`CutStep`), returns and energies over a
mask are those over its places (`ReturnCut`, `EnergyCut`, by renaming the columns),
and so the multi-turn baseline, put together by place (`PlacesCut`), and the
single-turn one on masks without holes (`SingleTurnCut`) are the same formula.
Groups cancel out because a weighted mean taken from every element takes nothing
from the whole (`MeanTaken`): the weights are 1, the number of tokens, or the
energies; energies may all be 0, and then so is the sum. A mask
is never empty, since the budget is rounded up and a ratio is below 100
(`AdvantageAssumption`, which also has rewards, values and penalties integers and
energies natural numbers). Beneath are sums as folds over a function's domain:
one element and the rest (`TotalSplit`), sums of multiples (`TotalLinear`), sums
under another naming (`TotalMoved`), and the powers of a factor (`PowersFacts`), all by
induction on sets.

Model-checked only: the liveness properties (`TrainingEnds`, `FinalModelSaved`,
`TransferEnds`, `CallsReturn`, `BatchAnswered`, `ShutdownReleasesConsumers`), since
the prover handles neither fairness nor `ENABLED`. Every invariant and every action
property of the passing runs is the subject of a theorem.

## 6. Not modelled

- **Numerical code.** Models, kernels, optimizers, losses beyond their
  normalisation, KL estimators, whitening, rollout correction, the
  entropy-weighted advantage: floating-point tensors, without behaviour over
  time. Together with the Megatron and vision-language-action code this is most
  of the repository's lines, so the share of lines the map covers stays small.
- **Other back ends** of a modelled interface: SGLang and TensorRT-LLM
  rollouts, Megatron engines and legacy FSDP workers, the hccl, kimi and
  mooncake transports, the other reward managers and routers.
- **Code that cannot be reached**: the tool agent loop with its tools and
  interactions, `off_policy_schedule`.
- **Checkpoints of the fully asynchronous pipeline**: the code accepts that
  samples in flight are lost (a WARNING says so) and promises nothing.
- **vLLM before 0.12**, where the engine is not paused for a synchronisation,
  and exceptions of the engine's abort.
- **Ray**: placement, start-up, serialisation; a remote call arrives once.
- **Pure input and output**: datasets, reward scoring, logging, profiling,
  model conversion, configuration.

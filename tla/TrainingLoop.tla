---------------------------- MODULE TrainingLoop ----------------------------
(***************************************************************************)
(* The two step-by-step trainers and the checkpoints they restart from:    *)
(*                                                                         *)
(*   - RayPPOTrainer.fit (trainer/ppo/ray_trainer.py), whose rollout       *)
(*     replicas share the GPUs with the trainer: they sleep while the      *)
(*     models train and are woken by the next weight push, nowhere else;   *)
(*   - OneStepOffRayTrainer.fit (experimental/one_step_off_policy), with   *)
(*     standalone replicas, which generates the next batch while the       *)
(*     trainer works on the current one.                                   *)
(*                                                                         *)
(* The job may crash between any two steps of the driver and be launched   *)
(* again.  "todo" is the driver's program counter: the calls the current   *)
(* handler still has to make.  A model is the sequence of batches it was   *)
(* trained on, a batch the place of its prompts in the epoch's order.      *)
(***************************************************************************)
EXTENDS CheckpointStore

CONSTANTS
    Configs,        \* configurations to consider
    StepsPerEpoch,  \* len(train_dataloader)
    MaxLaunches,    \* bound: times the job is started
    MaxSteps,       \* bound: steps the job may reach
    TornWrites,     \* a crash may hit between truncating and writing the tracker
    None            \* no batch

ConfigFields ==
  [pipelined: BOOLEAN,      \* one-step-off-policy, on standalone replicas
   total_epochs: Nat \ {0}, total_steps: Nat \ {0},
   use_critic: BOOLEAN,
   use_rm: BOOLEAN,         \* reward model colocated with the trainer
   critic_warmup: Nat, save_freq: Nat, test_freq: Nat,
   keep: Nat,               \* max_actor_ckpt_to_keep = max_critic_ckpt_to_keep
   may_expire: BOOLEAN]     \* the instance announces its expiration (ESI)

ASSUME TrainingAssumption ==
    /\ Configs \subseteq ConfigFields
    /\ {StepsPerEpoch, MaxLaunches, MaxSteps} \subseteq Nat \ {0}
    /\ TornWrites \in BOOLEAN
    /\ \A c \in Configs : /\ c.pipelined => ~c.use_rm
                          /\ c.total_steps + MaxLaunches <= MaxSteps

ASSUME MarkAssumption ==
    /\ Torn \notin Nat /\ Missing \notin Nat
    /\ Missing \notin Seq(Nat) /\ Partial \notin Seq(Nat)

VARIABLES
    config,             \* chosen once, when the job is configured
    job,                \* "down", "running", "failed" (an exception) or "done"
    todo,               \* calls still to be made
    global_steps, epoch,
    loader,             \* batches the dataloader has yielded in this pass
    batch, inflight,    \* the batch being trained on, the one being generated
    actor, critic,      \* batches each model has been trained on
    replicas,           \* [awake, weights] of the rollout replicas
    gpu,                \* what is resident on the GPUs of the trainer
    disk, tracker,      \* the checkpoint directory
    saved,              \* previous_saved_paths of the two checkpoint managers
    launches

identity == <<config, launches>>
place    == <<global_steps, epoch, loader>>
batches  == <<batch, inflight>>
models   == <<actor, critic>>
hardware == <<replicas, gpu>>
store    == <<saved, disk, tracker>>
vars     == <<identity, job, todo, place, batches, models, hardware, store>>

Steps == 0 .. MaxSteps

-----------------------------------------------------------------------------
If(condition, calls) == IF condition THEN calls ELSE <<>>

IsLastStep == global_steps >= config.total_steps
ActorTrains == config.critic_warmup <= global_steps
Validates == /\ config.test_freq > 0
             /\ IsLastStep \/ global_steps % config.test_freq = 0

ValidateCallsAsleep == <<"validate">> \o If(config.use_rm, <<"sleep", "reward">>)

ValidateCalls ==
  <<"validate">> \o If(config.use_rm, <<"sleep", "reward", "push">>)

CriticCalls == If(config.use_critic, <<"values", "update_critic">>)

\* the body of the loop of RayPPOTrainer.fit, after "fetch"
ColocatedCalls ==
  <<"generate", "sleep">> \o If(config.use_rm, <<"reward">>) \o <<"log_prob">>
     \o CriticCalls
     \o If(ActorTrains, <<"update_actor", "save", "push">>)
     \o If(Validates, ValidateCalls) \o <<"finish">>

PipelinedCallsStartFirst ==
  <<"await">> \o If(~IsLastStep, <<"start">>) \o <<"push", "log_prob">>
     \o CriticCalls \o If(ActorTrains, <<"update_actor">>)
     \o If(Validates, ValidateCalls) \o <<"save", "finish">>

\* OneStepOffRayTrainer.fit_step
PipelinedCalls ==
  <<"await", "push">> \o If(~IsLastStep, <<"start">>) \o <<"log_prob">>
     \o CriticCalls \o If(ActorTrains, <<"update_actor">>)
     \o If(Validates, ValidateCalls) \o <<"save", "finish">>

At(call) == job = "running" /\ todo # <<>> /\ Head(todo) = call
Rest == Tail(todo)
Then(call) == <<call>> \o Rest      \* the handler goes on with another call

-----------------------------------------------------------------------------
\* init_workers: the replicas are put to sleep, which frees their memory;
\* standalone replicas ignore sleep.
FreshMemory(c) ==
  [todo |-> <<>>, global_steps |-> 0, epoch |-> 0, loader |-> 0,
   batch |-> [prompts |-> 0, weights |-> None], inflight |-> None,
   actor |-> <<>>, critic |-> <<>>,
   replicas |-> [awake |-> c.pipelined, weights |-> <<>>], gpu |-> {},
   saved |-> [actor |-> <<>>, critic |-> <<>>]]

Init ==
  \E c \in Configs : LET m == FreshMemory(c) IN
    /\ config = c /\ job = "down" /\ launches = 0
    /\ todo = m.todo /\ global_steps = m.global_steps /\ epoch = m.epoch
    /\ loader = m.loader /\ batch = m.batch /\ inflight = m.inflight
    /\ actor = m.actor /\ critic = m.critic /\ replicas = m.replicas
    /\ gpu = m.gpu /\ saved = m.saved
    /\ disk = [s \in Steps |-> EmptyFolder] /\ tracker = 0

LoseMemory == LET m == FreshMemory(config) IN
  /\ todo' = m.todo /\ global_steps' = m.global_steps /\ epoch' = m.epoch
  /\ loader' = m.loader /\ batch' = m.batch /\ inflight' = m.inflight
  /\ actor' = m.actor /\ critic' = m.critic /\ replicas' = m.replicas
  /\ gpu' = m.gpu /\ saved' = m.saved

Launch ==
  /\ job = "down" /\ launches < MaxLaunches
  /\ job' = "running" /\ launches' = launches + 1
  /\ todo' = <<"load">>
  /\ UNCHANGED <<place, batches, models, hardware, store, config>>

\* The job dies; only the checkpoint directory survives.
Crash ==
  /\ job = "running" /\ launches < MaxLaunches
  /\ TornWrites \/ ~At("write_tracker")
  /\ job' = "down" /\ LoseMemory
  /\ UNCHANGED <<identity, disk, tracker>>

\* Somebody starts the finished job again.
Relaunch ==
  /\ job = "done" /\ launches < MaxLaunches
  /\ job' = "down" /\ LoseMemory
  /\ UNCHANGED <<identity, disk, tracker>>

-----------------------------------------------------------------------------
\* _load_checkpoint, then the weight push and the validation before training.
BeginTraining ==
  todo' = <<"push">> \o ValidateCalls \o <<"first_step">>

AtEpochBoundary(step) == step % StepsPerEpoch = 0

RestoredPositionLost(step) == 0

RestoredPosition(step) ==
  IF disk[step].data = Missing \/ AtEpochBoundary(step) THEN 0 ELSE disk[step].data

LoadCheckpoint ==
  /\ At("load") /\ tracker # Torn
  /\ LET step == FindLatest(disk, tracker) IN
       \/ /\ step = 0
          /\ BeginTraining
          /\ UNCHANGED <<models, global_steps, loader>>
       \/ /\ step # 0
          /\ Loadable(disk[step].actor)
          /\ config.use_critic => Loadable(disk[step].critic)
          /\ global_steps' = step
          /\ actor' = disk[step].actor
          /\ critic' = IF config.use_critic THEN disk[step].critic ELSE critic
          /\ loader' = RestoredPosition(step)
          /\ BeginTraining
  /\ UNCHANGED <<identity, job, batches, hardware, store, epoch>>

\* int("") of an empty tracker, or a model checkpoint that is not there
LoadFails ==
  /\ At("load")
  /\ \/ tracker = Torn
     \/ LET step == FindLatest(disk, tracker) IN
          /\ tracker # Torn /\ step # 0
          /\ \/ ~Loadable(disk[step].actor)
             \/ config.use_critic /\ ~Loadable(disk[step].critic)
  /\ job' = "failed"
  /\ UNCHANGED <<identity, todo, place, batches, models, hardware, store>>

\* "we start from step 1"; the pipelined trainer starts its first generation
\* and ignores the epoch it resumes in.
FirstStep ==
  /\ At("first_step") /\ global_steps < MaxSteps
  /\ global_steps' = global_steps + 1
  /\ epoch' = IF config.pipelined THEN 0 ELSE global_steps \div StepsPerEpoch
  /\ todo' = IF config.pipelined THEN <<"start", "step">> ELSE <<"fetch">>
  /\ UNCHANGED <<identity, job, batches, models, hardware, store, loader>>

FitStep ==
  /\ At("step")
  /\ todo' = PipelinedCalls
  /\ UNCHANGED <<identity, job, place, batches, models, hardware, store>>

\* The dataloader yields the next batch, or a new pass begins.
LoaderYields ==
  \/ /\ loader < StepsPerEpoch
     /\ loader' = loader + 1 /\ epoch' = epoch
  \/ /\ loader >= StepsPerEpoch /\ epoch + 1 < config.total_epochs
     /\ loader' = 1 /\ epoch' = epoch + 1

OutOfData == \/ loader >= StepsPerEpoch /\ epoch + 1 >= config.total_epochs
             \/ epoch >= config.total_epochs

Fetch ==
  /\ At("fetch") /\ ~OutOfData
  /\ LoaderYields
  /\ batch' = [prompts |-> loader' - 1, weights |-> None]
  /\ todo' = ColocatedCalls
  /\ UNCHANGED <<identity, job, models, hardware, store, global_steps,
                 inflight>>

\* range(current_epoch, total_epochs) is exhausted: fit returns
NoMoreEpochs ==
  /\ At("fetch") /\ OutOfData
  /\ job' = "done"
  /\ UNCHANGED <<identity, todo, place, batches, models, hardware, store>>

Generate ==
  /\ At("generate")
  /\ batch' = [batch EXCEPT !.weights = replicas.weights]
  /\ todo' = Rest
  /\ UNCHANGED <<identity, job, place, models, hardware, store, inflight>>

\* create_task(_async_gen_next_batch): the task takes the next batch, or
\* returns None at the end of the data, and generates in the background.
StartGeneration ==
  /\ At("start")
  /\ IF OutOfData
       THEN inflight' = None /\ UNCHANGED <<loader, epoch>>
       ELSE /\ LoaderYields
            /\ inflight' = [prompts |-> loader' - 1, weights |-> replicas.weights]
  /\ todo' = Rest
  /\ UNCHANGED <<identity, job, models, hardware, store, global_steps,
                 batch>>

AwaitGeneration ==
  /\ At("await") /\ inflight # None
  /\ batch' = inflight /\ inflight' = None
  /\ todo' = Rest
  /\ UNCHANGED <<identity, job, place, models, hardware, store>>

\* unpacking the None of a stopped iterator
AwaitFails ==
  /\ At("await") /\ inflight = None
  /\ job' = "failed"
  /\ UNCHANGED <<identity, todo, place, batches, models, hardware, store>>

SleepReplicasLightly ==
  /\ At("sleep")
  /\ replicas' = [replicas EXCEPT !.awake = config.pipelined]
  /\ gpu' = gpu \ {"rollout_weights"}
  /\ todo' = Rest
  /\ UNCHANGED <<identity, job, place, batches, models, store>>

\* sleep_replicas: weights and KV cache leave the GPUs
SleepReplicas ==
  /\ At("sleep")
  /\ replicas' = [replicas EXCEPT !.awake = config.pipelined]
  /\ gpu' = gpu \ {"rollout_weights", "kv_cache"}
  /\ todo' = Rest
  /\ UNCHANGED <<identity, job, place, batches, models, store>>

Validate ==
  /\ At("validate")
  /\ todo' = Rest
  /\ UNCHANGED <<identity, job, place, batches, models, hardware, store>>

-----------------------------------------------------------------------------
\* update_weights of the colocated workers: the rollout's weight memory, the
\* parameters, the transfer and their offload, then the KV cache.
PushColocated ==
  /\ At("push") /\ ~config.pipelined
  /\ gpu' = gpu \cup {"rollout_weights"}
  /\ todo' = Then("send_params")
  /\ UNCHANGED <<identity, job, place, batches, models, store, replicas>>

SendParams ==
  /\ At("send_params")
  /\ gpu' = gpu \cup {"actor"}
  /\ replicas' = [replicas EXCEPT !.weights = actor]
  /\ todo' = Then("offload_params")
  /\ UNCHANGED <<identity, job, place, batches, models, store>>

OffloadParams ==
  /\ At("offload_params")
  /\ gpu' = gpu \ {"actor"}
  /\ todo' = Then("resume_kv_cache")
  /\ UNCHANGED <<identity, job, place, batches, models, store, replicas>>

ResumeKvCache ==
  /\ At("resume_kv_cache")
  /\ gpu' = gpu \cup {"kv_cache"}
  /\ replicas' = [replicas EXCEPT !.awake = TRUE]
  /\ todo' = Rest
  /\ UNCHANGED <<identity, job, place, batches, models, store>>

\* _fit_update_weights, guarded by critic_warmup; nothing is being generated
PushStandalone ==
  /\ At("push") /\ config.pipelined
  /\ replicas' = [replicas EXCEPT !.weights = IF ActorTrains THEN actor ELSE @]
  /\ todo' = Rest
  /\ UNCHANGED <<identity, job, place, batches, models, store, gpu>>

-----------------------------------------------------------------------------
\* The handlers that compute on the trainer's GPUs load their model, work and
\* offload it again (param_offload and optimizer_offload).
Loads == [reward |-> "reward_model", log_prob |-> "actor", values |-> "critic",
          update_critic |-> "critic", update_actor |-> "actor",
          save_actor |-> "actor", save_critic |-> "critic"]
Computes(call) == At(call) /\ Loads[call] \in gpu

\* ensure_checkpoint_capacity and the folder of the new checkpoint
MakeRoom(model) ==
  LET kept == EnsureCapacity(saved[model], config.keep)
      room == Remove(disk, Dropped(saved[model], kept), model)
  IN  /\ disk' = Write(room, global_steps, model, Partial)
      /\ saved' = [saved EXCEPT ![model] = kept]

\* the files are complete; register_checkpoint
Register(model, content) ==
  LET kept == RegisterCheckpoint(saved[model], global_steps, config.keep)
      all  == Append(saved[model], global_steps)
      room == Remove(disk, Dropped(all, kept), model)
  IN  /\ disk' = Write(room, global_steps, model, content)
      /\ saved' = [saved EXCEPT ![model] = kept]

LoadModel ==
  /\ \E call \in DOMAIN Loads :
       /\ At(call) /\ Loads[call] \notin gpu
       /\ gpu' = gpu \cup {Loads[call]}
       /\ CASE call = "save_actor"  -> MakeRoom("actor")
            [] call = "save_critic" -> MakeRoom("critic")
            [] OTHER -> UNCHANGED <<disk, saved>>
  /\ UNCHANGED <<identity, job, todo, place, batches, models, replicas,
                 tracker>>

OffloadModel(call) ==
  /\ Computes(call)
  /\ gpu' = gpu \ {Loads[call]}
  /\ UNCHANGED <<identity, job, place, batches, replicas, tracker>>

Infer ==
  /\ \E call \in {"reward", "log_prob", "values"} : OffloadModel(call)
  /\ todo' = Rest
  /\ UNCHANGED <<models, disk, saved>>

UpdateCritic ==
  /\ OffloadModel("update_critic")
  /\ critic' = Append(critic, batch.prompts)
  /\ todo' = Rest
  /\ UNCHANGED <<actor, disk, saved>>

UpdateActor ==
  /\ OffloadModel("update_actor")
  /\ actor' = Append(actor, batch.prompts)
  /\ todo' = Rest
  /\ UNCHANGED <<critic, disk, saved>>

-----------------------------------------------------------------------------
SaveDueByFrequency(expiring) ==
  config.save_freq > 0 /\ (global_steps % config.save_freq = 0 \/ expiring)

\* save_freq, the last step, or an instance about to expire
SaveDue(expiring) ==
  /\ config.save_freq > 0
  /\ IsLastStep \/ global_steps % config.save_freq = 0 \/ expiring

Save ==
  /\ At("save")
  /\ \E expiring \in {FALSE, config.may_expire} :
       todo' = IF SaveDue(expiring) THEN Then("save_actor") ELSE Rest
  /\ UNCHANGED <<identity, job, place, batches, models, hardware, store>>

SaveActor ==
  /\ OffloadModel("save_actor")
  /\ Register("actor", actor)
  /\ todo' = Then(IF config.use_critic THEN "save_critic" ELSE "save_data")
  /\ UNCHANGED <<models>>

SaveCritic ==
  /\ OffloadModel("save_critic")
  /\ Register("critic", critic)
  /\ todo' = Then("save_data")
  /\ UNCHANGED <<models>>

SaveData ==
  /\ At("save_data")
  /\ disk' = Write(disk, global_steps, "data", loader)
  /\ todo' = Then("open_tracker")
  /\ UNCHANGED <<identity, job, place, batches, models, hardware, saved,
                 tracker>>

\* open(..., "w") truncates, write fills
OpenTracker ==
  /\ At("open_tracker")
  /\ tracker' = Torn
  /\ todo' = Then("write_tracker")
  /\ UNCHANGED <<identity, job, place, batches, models, hardware, saved,
                 disk>>

WriteTracker ==
  /\ At("write_tracker")
  /\ tracker' = global_steps
  /\ todo' = Rest
  /\ UNCHANGED <<identity, job, place, batches, models, hardware, saved,
                 disk>>

FinishStep ==
  /\ At("finish")
  /\ global_steps' = global_steps + 1
  /\ job' = IF IsLastStep THEN "done" ELSE "running"
  /\ todo' = IF IsLastStep THEN <<>>
             ELSE IF config.pipelined THEN <<"step">> ELSE <<"fetch">>
  /\ UNCHANGED <<identity, batches, models, hardware, store, epoch, loader>>

-----------------------------------------------------------------------------
Driver ==
  \/ LoadCheckpoint \/ LoadFails \/ FirstStep \/ FitStep
  \/ Fetch \/ NoMoreEpochs \/ Generate \/ StartGeneration
  \/ AwaitGeneration \/ AwaitFails \/ SleepReplicas \/ Validate
  \/ PushColocated \/ SendParams \/ OffloadParams \/ ResumeKvCache
  \/ PushStandalone \/ LoadModel \/ Infer \/ UpdateCritic \/ UpdateActor
  \/ Save \/ SaveActor \/ SaveCritic \/ SaveData \/ OpenTracker
  \/ WriteTracker \/ FinishStep

Next == Launch \/ Crash \/ Relaunch \/ Driver

\* The driver is one process that keeps running; a dead job is started again
\* as long as launches are left.
Spec == Init /\ [][Next]_vars /\ WF_vars(Driver) /\ WF_vars(Launch)
-----------------------------------------------------------------------------
Models == {"actor", "critic"}
Batch == [prompts: Nat, weights: Seq(Nat) \cup {None}]
Folder == [actor: Seq(Nat) \cup {Missing, Partial},
           critic: Seq(Nat) \cup {Missing, Partial}, data: Nat \cup {Missing}]
Calls == {"load", "push", "send_params", "offload_params", "resume_kv_cache",
          "validate", "sleep", "reward", "first_step", "start", "step", "fetch",
          "generate", "await", "log_prob", "values", "update_critic",
          "update_actor", "save", "save_actor", "save_critic", "save_data",
          "open_tracker", "write_tracker", "finish"}

TypeOK ==
  /\ config \in Configs
  /\ job \in {"down", "running", "failed", "done"}
  /\ todo \in Seq(Calls)
  /\ {global_steps, epoch, loader, launches} \subseteq Nat
  /\ batch \in Batch /\ inflight \in Batch \cup {None}
  /\ {actor, critic} \subseteq Seq(Nat)
  /\ replicas \in [awake: BOOLEAN, weights: Seq(Nat)]
  /\ gpu \subseteq {"rollout_weights", "kv_cache", "actor", "critic", "reward_model"}
  /\ disk \in [Steps -> Folder] /\ tracker \in Steps \cup {Torn}
  /\ saved \in [Models -> Seq(Steps)]

(* Whenever the driver asks for responses, for training or for validation, *)
(* the replicas are awake: fit relies on the weight push of the step       *)
(* before to wake what it put to sleep (ray_trainer.py:1540, 1777).        *)
AwakeToGenerate ==
  At("generate") \/ At("validate") \/ At("await") => replicas.awake

(* While the rollout's KV cache is on the shared GPUs no trained model and *)
(* no reward model is: sleep, offload and the order inside update_weights  *)
(* (engine_workers.py:667) keep them apart.                                *)
MemoryExclusive ==
  ~config.pipelined /\ "kv_cache" \in gpu
     => gpu \cap {"actor", "critic", "reward_model"} = {}

(* A batch that updates the actor was generated by the weights the actor   *)
(* has at that moment; in the pipelined trainer it is one update older at  *)
(* most, also after a restart.                                             *)
OffPolicyBound ==
  At("update_actor") =>
     /\ Len(actor) <= Len(batch.weights) + (IF config.pipelined THEN 1 ELSE 0)
     /\ batch.weights = SubSeq(actor, 1, Len(batch.weights))

(* What the tracker names can be loaded, at every instant the job may die  *)
(* at: both models are complete and the dataloader's position is there.    *)
(* One checkpoint to keep is not enough for that.                          *)
Recoverable ==
  config.keep # 1 /\ tracker \notin {0, Torn} =>
    LET found == disk[tracker] IN
      /\ Loadable(found.actor) /\ found.data # Missing
      /\ config.use_critic => Loadable(found.critic)

(* ensure_checkpoint_capacity promises to keep the existing checkpoint     *)
(* until the new save completes successfully.                              *)
KeptUntilSaved ==
  tracker \notin {0, Torn} => Loadable(disk[tracker].actor)

(* Crashes and restarts leave no trace in the models: the batches they     *)
(* were trained on are those of an uninterrupted job, in the same order,   *)
(* and each step has trained each model once.  The pipelined trainer does  *)
(* not manage that across a restart.                                       *)
ResumeExact ==
  job = "running" /\ (~config.pipelined \/ launches = 1) =>
    /\ \A i \in DOMAIN critic : critic[i] = (i - 1) % StepsPerEpoch
    /\ At("update_critic") => Len(critic) = global_steps - 1
    /\ config.critic_warmup <= 1 =>
         /\ \A i \in DOMAIN actor : actor[i] = (i - 1) % StepsPerEpoch
         /\ At("update_actor") => Len(actor) = global_steps - 1

(* However often the job dies, as long as it is started again it ends, and *)
(* leaves a checkpoint of its last step that can be resumed or deployed.   *)
FinalModelSaved ==
  config.save_freq > 0 /\ config.keep # 1 /\ ~config.pipelined
    => <>[](/\ job = "done"
            /\ tracker \notin {0, Torn} /\ tracker >= config.total_steps)

(* The same of the pipelined trainer: resume_mode "auto" resumes from the  *)
(* last checkpoint, so that a job started again reaches its last step.     *)
ResumedJobEnds ==
  config.pipelined /\ config.save_freq > 0 => <>(job = "done")
=============================================================================

----------------------------- MODULE FullyAsync -----------------------------
(***************************************************************************)
(* Fully asynchronous training: the rollouter (FullyAsyncRollouter), the   *)
(* message queue it fills, the trainer of                                  *)
(* fully_async_policy/fully_async_trainer.py that drains it, and the task  *)
(* runner of fully_async_main.py that waits for both.                      *)
(***************************************************************************)
EXTENDS FullyAsyncRollouter

CONSTANT TestFreq       \* trainer.test_freq, positive

ASSUME TrainerAssumption == TestFreq \in Nat \ {0}

VARIABLES
    trainer,                \* where FullyAsyncTrainer.fit is
    batch,                  \* queue_samples collected so far
    trained,                \* history: samples of finished training steps
    current_param_version, local_trigger_step,
    rollout_version,        \* version of the weights the rollout servers hold
    driver

trainerVars == <<trainer, batch, trained, current_param_version, local_trigger_step,
                 rollout_version>>
vars == <<rollouterVars, trainerVars, driver>>

-----------------------------------------------------------------------------
\* The weights were sent once before fit ("Param sync before fit"), which
\* reset the staleness of an idle rollouter.
FullyAsyncInit ==
    /\ Init
    /\ trainer = "collect"
    /\ batch = {} /\ trained = {}
    /\ current_param_version = 0 /\ local_trigger_step = 1
    /\ rollout_version = 0
    /\ driver = "waiting"

\* One get_sample of _get_samples_from_queue.  On the end signal the samples
\* collected so far are not trained on.
TrainerGet ==
    /\ trainer = "collect"
    /\ mq # <<>>
    /\ mq' = Tail(mq)
    /\ IF Head(mq) = End
       THEN trainer' = "stopping" /\ UNCHANGED batch
       ELSE /\ batch' = batch \cup {Head(mq)}
            /\ trainer' = IF Cardinality(batch) + 1 >= RequiredSamples THEN "train" ELSE "collect"
    /\ UNCHANGED <<lockVars, countVars, feedVars, processorVars, resetVars, evicted,
                   pending_queue, running, task, main, monitor, budget,
                   trained, current_param_version, local_trigger_step, rollout_version, driver>>

\* if self.local_trigger_step < self.trigger_parameter_sync_step
WindowOpen == local_trigger_step < TriggerSteps

\* The rest of fit_step up to _fit_update_local_step.
TrainerStep ==
    /\ trainer = "train"
    /\ trained' = trained \cup batch
    /\ batch' = {}
    /\ IF WindowOpen
       THEN /\ local_trigger_step' = local_trigger_step + 1
            /\ trainer' = "collect"
            /\ UNCHANGED current_param_version
       ELSE /\ current_param_version' = current_param_version + 1
            /\ local_trigger_step' = 1
            /\ trainer' = "sync"
    /\ UNCHANGED <<rollouterVars, rollout_version, driver>>

\* _fit_update_weights with local_trigger_step = 1: send the weights, then
\* call reset_staleness of the rollouter.
TrainerSync ==
    /\ trainer \in {"sync", "lastSync"}
    /\ rollout_version' = current_param_version
    /\ reset' = "called" /\ Request("reset")
    /\ trainer' = IF trainer = "sync" THEN "resetting" ELSE "lastResetting"
    /\ UNCHANGED <<paused, countVars, feedVars, processorVars, counted, queueVars,
                   pending_queue, running, task, main, monitor, budget,
                   batch, trained, current_param_version, local_trigger_step, driver>>

\* ray.get(reset_staleness.remote()) returns.
TrainerSynced ==
    /\ trainer \in {"resetting", "lastResetting"}
    /\ reset = "returned"
    /\ reset' = "idle"
    /\ trainer' = IF trainer = "resetting" THEN "collect" ELSE "done"
    /\ UNCHANGED <<lockVars, countVars, feedVars, processorVars, counted, queueVars,
                   pending_queue, running, task, main, monitor, budget,
                   batch, trained, current_param_version, local_trigger_step,
                   rollout_version, driver>>

\* The end of fit: one more synchronisation when the version was not
\* validated; it does nothing in the middle of a window of local steps.
TrainerStop ==
    /\ trainer = "stopping"
    /\ trainer' = IF /\ current_param_version % TestFreq # 0 \/ local_trigger_step > 1
                     /\ local_trigger_step = 1
                  THEN "lastSync" ELSE "done"
    /\ UNCHANGED <<rollouterVars, batch, trained, current_param_version, local_trigger_step,
                   rollout_version, driver>>

\* _run_training_loop: both fit() calls returned; the queue is cleared.
DriverReturn ==
    /\ driver = "waiting"
    /\ RolloutFitReturned /\ trainer = "done"
    /\ driver' = "done"
    /\ mq' = <<>>
    /\ UNCHANGED <<lockVars, countVars, feedVars, processorVars, resetVars, evicted,
                   pending_queue, running, task, main, monitor, budget, trainerVars>>

TrainerNext == TrainerGet \/ TrainerStep \/ TrainerSync \/ TrainerSynced \/ TrainerStop

Returned == driver = "done" /\ UNCHANGED vars

Next ==
    \/ RollouterStep /\ UNCHANGED <<trainerVars, driver>>
    \/ TrainerNext
    \/ DriverReturn
    \/ Returned

\* Each coroutine of the event loop and each actor keeps running; a sample's
\* generation ends.  Failures need not happen.
Fairness ==
    /\ WF_vars(FeedStep /\ UNCHANGED <<trainerVars, driver>>)
    /\ WF_vars(ProcessorStep /\ UNCHANGED <<trainerVars, driver>>)
    /\ WF_vars(MainStep /\ UNCHANGED <<trainerVars, driver>>)
    /\ WF_vars(MonitorStep /\ UNCHANGED <<trainerVars, driver>>)
    /\ WF_vars(ResetStep /\ UNCHANGED <<trainerVars, driver>>)
    /\ \A s \in Samples : WF_vars(TaskStep(s) /\ UNCHANGED <<trainerVars, driver>>)
    /\ WF_vars(TrainerNext)
    /\ WF_vars(DriverReturn)

Spec == FullyAsyncInit /\ [][Next]_vars /\ Fairness

-----------------------------------------------------------------------------
\* The values of every variable.
TypeOK ==
    /\ paused \in BOOLEAN /\ running \in BOOLEAN
    /\ staleness_samples \in Nat /\ counted \in Nat /\ budget \in Nat
    /\ active_tasks \subseteq Samples
    /\ pending_queue \in Seq(Samples \cup {End})
    /\ global_steps \in Samples
    /\ total_generated_samples \in Nat /\ dropped_stale_samples \in Nat
    /\ lock \in Seq(Coroutines)
    /\ feed \in {"feeding", "ending", "done", "raised", "cancelled"}
    /\ processor \in {"start", "check", "pausing", "draining", "parking", "parked", "get", "limit",
                      "submit", "submitParked", "finishing", "done", "raised", "cancelled"}
    /\ held \in Samples \cup {End}
    /\ processor \in {"limit", "submit", "submitParked"} => held \in Samples
    /\ task \in [Samples -> {"new", "generating", "stored", "evicting", "done", "failed"}]
    /\ main \in {"waitAny", "waitProcessor", "finally", "finallyRaise", "stopping", "done", "raised"}
    /\ monitor \in {"top", "sleeping", "resuming", "done"}
    /\ reset \in {"idle", "called", "sizing", "returned"}
    /\ mq \in Seq(Samples \cup {End})
    /\ evicted \subseteq Samples \cup {End}
    /\ trainer \in {"collect", "train", "sync", "resetting", "stopping", "lastSync",
                    "lastResetting", "done"}
    /\ batch \subseteq Samples /\ trained \subseteq Samples
    /\ current_param_version \in Nat /\ rollout_version \in Nat
    /\ local_trigger_step \in 1..TriggerSteps
    /\ driver \in {"waiting", "done"}

\* Freshness control: between two resets the rollouter has at most
\* max_required_samples samples in flight or newly started, and one more: the
\* sample the processor holds while a reset recounts is charged to no version.
GenerationBudget == budget <= max_required_samples + 1

\* Why: the inductive invariant behind GenerationBudget.  The tasks started and
\* the sample the processor carries stay one behind staleness_samples and one
\* above the limit; a wait for pending samples begins below the limit; what is
\* in flight was paid for; and while reset_staleness awaits the queue's size,
\* holding the lock, the number of tasks it read covers the ones generating.
Carrying == processor \in {"limit", "submit", "submitParked"}
Charged  == IF Carrying THEN budget + 1 ELSE budget

BudgetInvariant ==
    /\ Charged <= staleness_samples + 1
    /\ Charged <= max_required_samples + 1
    /\ processor = "get" => budget <= max_required_samples
    /\ Cardinality(InFlight) <= budget
    /\ Generating \subseteq active_tasks
    /\ reset = "sizing" => Holds("reset") /\ Cardinality(Generating) <= counted

\* What a reset carries over into the next version is what the freshness
\* control allows beyond the samples of one synchronisation, and one more.
StaleCarryOver ==
    [][trainer = "resetting" /\ reset = "sizing" /\ reset' = "returned"
          => budget' <= max_required_samples + 1 - SamplesPerSync]_vars

\* The sample of the end signal aside, a sample is in one place: waiting,
\* held, being generated, queued, collected, trained on, or lost for a reason.
Places(s) ==
    <<s \in {pending_queue[i] : i \in 1..Len(pending_queue)},
      s = held,
      task[s] \in {"generating", "failed"},
      s \in QueuedSamples,
      s \in batch,
      s \in trained,
      s \in evicted>>

PlaceCount(s) == Cardinality({i \in 1..7 : Places(s)[i]})

SampleConservation ==
    /\ \A i, j \in 1..Len(mq) : i # j => mq[i] # mq[j]
    /\ driver = "waiting" =>
         \A s \in Samples : /\ PlaceCount(s) <= 1
                            /\ s < global_steps => PlaceCount(s) = 1
                            /\ s > global_steps => PlaceCount(s) = 0

\* The processor sleeps on the condition only while the pause lasts: whoever
\* ends a pause wakes it, wherever it was when the flag was cleared.
ParkedOnlyWhilePaused == processor \in {"parked", "submitParked"} => paused

\* When training stops without a failure, every sample was trained on but the
\* evicted ones and a last incomplete batch.
NothingLeftBehind ==
    (trainer = "done" /\ main = "done") =>
        /\ Samples = trained \cup batch \cup (evicted \ {End})
        /\ Cardinality(batch) < RequiredSamples
        /\ Cardinality(trained) =
             RequiredSamples * (current_param_version * TriggerSteps + local_trigger_step - 1)

\* The end signal reaches the trainer: no put pushes it out of the queue, not
\* even those of the tasks left running when the rollouter failed.
EndSignalNeverLost == End \notin evicted

\* The pipeline keeps the contract of FreshnessContract.
Contract == INSTANCE FreshnessContract WITH
    Items     <- Samples,
    Budget    <- max_required_samples + 1,
    in_flight <- InFlight,
    consumed  <- batch \cup trained,
    lost      <- {s \in Samples : task[s] \notin {"new", "generating"}}
                     \ (QueuedSamples \cup batch \cup trained),
    spent     <- budget

ContractSpec == Contract!Spec

\* Whatever fails, the end signal reaches the trainer and it stops; unless
\* something failed the task runner returns.
SomethingFailed == feed = "raised" \/ \E s \in Samples : task[s] = "failed"

TrainingEnds == <>(trainer = "done" /\ (driver = "done" \/ SomethingFailed))

-----------------------------------------------------------------------------
(* What the documentation says and the code does not do. *)

\* README.md, staleness_threshold: between two parameter updates the rollouter
\* generates at most rollout_num = max_required_samples - num_staleness_sample
\* samples.
RolloutNum == budget <= max_required_samples

\* fully_async_rollouter.py, _streaming_generation_main: an early exit of the
\* processor is detected instead of blocking.
FailureReported == (main = "raised") ~> RolloutFitReturned

=============================================================================

--------------------------- MODULE PartialRollout ---------------------------
(***************************************************************************)
(* Generation across weight synchronisations.  Three parties interleave:   *)
(*                                                                         *)
(*   - FullyAsyncLLMServerManager.generate, one call per request, which    *)
(*     sends an interrupted response back until it is complete, through    *)
(*     the load balancer each time;                                        *)
(*   - the vLLM servers (vllm_async_server.py): generate, abort, resume    *)
(*     and set_global_steps are handlers of one event loop per server;     *)
(*   - CheckpointEngineManager.update_weights: abort every server, load    *)
(*     the new weights, tag them with their version, resume every server.  *)
(*                                                                         *)
(* A token is the version of the weights that produced it.                 *)
(***************************************************************************)
EXTENDS LoadBalancer

CONSTANTS
    ResponseLength,     \* rollout.response_length
    PromptSlack,        \* rollout.prompt_length minus the length of the prompt
    MaxVersion,         \* bound: weight synchronisations in a behaviour
    PartialRolloutOn    \* async_training.partial_rollout

ASSUME PartialRolloutAssumption ==
    /\ ResponseLength \in Nat \ {0}
    /\ {PromptSlack, MaxVersion} \subseteq Nat
    /\ PartialRolloutOn \in BOOLEAN

VARIABLES
    call,           \* where the call of each request is
    server,         \* the server that serves it
    tokens,         \* final_output.token_ids, then those of the running attempt
    cap,            \* length the running attempt may reach
    stop,           \* stop_reason of the last attempt
    tag,            \* its extra_fields["global_steps"], max_global_steps at the end
    min_steps,      \* min_global_steps
    original,       \* original_max_tokens
    limit,          \* sampling_params["max_tokens"]: one dict for all calls
    validating,     \* are they made by a validation, which sets max_tokens?
    releasing,      \* release_server calls on their way, per server
    phase,          \* how far the synchronisation is with each server
    version,        \* version of the trainer's weights
    paused, weights, global_steps       \* state of each server

callVars   == <<call, server, tokens, cap, stop, tag, min_steps, original, limit, releasing>>
serverVars == <<phase, version, paused, weights, global_steps>>
vars       == <<balancerVars, callVars, serverVars, validating>>

NoSteps == -1       \* None
Mixed   == -2       \* weights of a server in the middle of a transfer

Lower(a, b) == IF a < b THEN a ELSE b

-----------------------------------------------------------------------------
\* The weights were sent once before training: every server has version 0.
Init ==
    /\ BalancerInit
    /\ call = [r \in Requests |-> "idle"]
    /\ server = [r \in Requests |-> 1]
    /\ tokens = [r \in Requests |-> <<>>]
    /\ cap = [r \in Requests |-> 0]
    /\ stop = [r \in Requests |-> "none"]
    /\ tag = [r \in Requests |-> NoSteps] /\ min_steps = [r \in Requests |-> NoSteps]
    /\ original = [r \in Requests |-> ResponseLength] /\ limit = ResponseLength
    /\ validating \in BOOLEAN
    /\ releasing = [s \in Servers |-> 0]
    /\ phase = [s \in Servers |-> "serving"]
    /\ version = 0
    /\ paused = [s \in Servers |-> FALSE]
    /\ weights = [s \in Servers |-> 0] /\ global_steps = [s \in Servers |-> 0]

-----------------------------------------------------------------------------
(* FullyAsyncLLMServerManager.generate and AsyncLLMServerManager.generate *)

\* original_max_tokens = sampling_params.get(limit_key)
Call(r) ==
    /\ call[r] = "idle"
    /\ call' = [call EXCEPT ![r] = "acquiring"]
    /\ original' = [original EXCEPT ![r] = limit]
    /\ UNCHANGED <<balancerVars, server, tokens, cap, stop, tag, min_steps, limit,
                   releasing, serverVars>>

Acquire(r) ==
    /\ call[r] = "acquiring"
    /\ \E s \in Servers : AcquireServer(r, s) /\ server' = [server EXCEPT ![r] = s]
    /\ call' = [call EXCEPT ![r] = "acquired"]
    /\ UNCHANGED <<tokens, cap, stop, tag, min_steps, original, limit, releasing, serverVars>>

\* What the server makes of sampling_params: max_tokens if it is there, else
\* response_length, capped by what the prompt of this attempt leaves of
\* prompt_length + response_length; never negative.
MaxTokensUncapped(length) == IF validating THEN limit ELSE ResponseLength

MaxTokens(length) ==
    LET asked == IF validating THEN limit
                 ELSE Lower(ResponseLength, PromptSlack + ResponseLength - length)
    IN  IF asked < 0 THEN 0 ELSE asked

\* server.generate.remote(...): sampling_params is copied as it is now.
Send(r) ==
    /\ call[r] = "acquired"
    /\ cap' = [cap EXCEPT ![r] = Len(tokens[r]) + MaxTokens(Len(tokens[r]))]
    /\ call' = [call EXCEPT ![r] = "sent"]
    /\ UNCHANGED <<balancerVars, server, tokens, stop, tag, min_steps, original, limit,
                   releasing, serverVars>>

\* The output reaches the call: merge it, update the limit, release the server
\* without waiting, and go round again after an interruption.
MinOverwritten(r) == tag[r]
MinSteps(r)       == IF min_steps[r] = NoSteps THEN tag[r] ELSE min_steps[r]

RetryNever(r) == FALSE
Retry(r) ==
    /\ stop[r] = "aborted" /\ PartialRolloutOn
    /\ validating => Len(tokens[r]) < original[r]

Merge(r) ==
    /\ call[r] = "finished"
    /\ min_steps' = [min_steps EXCEPT ![r] = MinSteps(r)]
    /\ limit' = IF validating THEN original[r] - Len(tokens[r]) ELSE limit
    /\ releasing' = [releasing EXCEPT ![server[r]] = @ + 1]
    /\ call' = [call EXCEPT ![r] = IF Retry(r) THEN "acquiring" ELSE "returned"]
    /\ UNCHANGED <<balancerVars, server, tokens, cap, stop, tag, original, serverVars>>

Release(s) ==
    /\ releasing[s] > 0
    /\ ReleaseServer(s)
    /\ releasing' = [releasing EXCEPT ![s] = @ - 1]
    /\ UNCHANGED <<call, server, tokens, cap, stop, tag, min_steps, original, limit, serverVars>>

-----------------------------------------------------------------------------
(* vLLMHttpServer: generate, abort_all_requests, resume_generation *)

\* engine.generate: a paused engine keeps the request waiting.
Admit(r) ==
    /\ call[r] = "sent" /\ ~paused[server[r]]
    /\ cap[r] > Len(tokens[r])
    /\ call' = [call EXCEPT ![r] = "running"]
    /\ UNCHANGED <<balancerVars, server, tokens, cap, stop, tag, min_steps, original, limit,
                   releasing, serverVars>>

\* SamplingParams rejects max_tokens = 0: generate raises, the server is
\* released on the way out.
Refuse(r) ==
    /\ call[r] = "sent"
    /\ cap[r] = Len(tokens[r])
    /\ call' = [call EXCEPT ![r] = "raised"]
    /\ releasing' = [releasing EXCEPT ![server[r]] = @ + 1]
    /\ UNCHANGED <<balancerVars, server, tokens, cap, stop, tag, min_steps, original, limit,
                   serverVars>>

\* One more token; the response may end with it and must at its cap.  The
\* output takes the version tag the server has when it is complete.
Generate(r) ==
    LET s == server[r] IN
    /\ call[r] = "running"
    /\ tokens' = [tokens EXCEPT ![r] = Append(@, weights[s])]
    /\ \/ /\ Len(tokens[r]) + 1 < cap[r]
          /\ UNCHANGED <<call, stop, tag>>
       \/ /\ call' = [call EXCEPT ![r] = "finished"]
          /\ stop' = [stop EXCEPT ![r] = "completed"]
          /\ tag' = [tag EXCEPT ![r] = global_steps[s]]
    /\ UNCHANGED <<balancerVars, server, cap, min_steps, original, limit, releasing, serverVars>>

Running(s) == {r \in Requests : call[r] = "running" /\ server[r] = s}

\* abort_all_requests of vLLM 0.12 (older engines do not pause): what runs is
\* returned as it is, what arrives later waits.
AbortWithoutPause(s) == UNCHANGED paused
Pause(s)             == paused' = [paused EXCEPT ![s] = TRUE]

Abort(s) ==
    /\ phase[s] = "aborting"
    /\ phase' = [phase EXCEPT ![s] = "aborted"]
    /\ Pause(s)
    /\ call' = [r \in Requests |-> IF r \in Running(s) THEN "finished" ELSE call[r]]
    /\ stop' = [r \in Requests |-> IF r \in Running(s) THEN "aborted" ELSE stop[r]]
    /\ tag'  = [r \in Requests |-> IF r \in Running(s) THEN global_steps[s] ELSE tag[r]]
    /\ UNCHANGED <<balancerVars, server, tokens, cap, min_steps, original, limit, releasing,
                   version, weights, global_steps>>

-----------------------------------------------------------------------------
(* CheckpointEngineManager.update_weights *)

\* The trainer waits for do_validate, so nothing is synchronised during one.
SyncBegin ==
    /\ ~validating /\ version < MaxVersion
    /\ \A s \in Servers : phase[s] = "serving"
    /\ version' = version + 1
    /\ phase' = [s \in Servers |-> "aborting"]
    /\ UNCHANGED <<balancerVars, callVars, paused, weights, global_steps>>

\* The transfer starts when every replica has aborted.
LoadBegin(s) ==
    /\ phase[s] = "aborted"
    /\ \A t \in Servers : phase[t] # "aborting"
    /\ phase' = [phase EXCEPT ![s] = "loading"]
    /\ weights' = [weights EXCEPT ![s] = Mixed]
    /\ UNCHANGED <<balancerVars, callVars, version, paused, global_steps>>

LoadEnd(s) ==
    /\ phase[s] = "loading"
    /\ phase' = [phase EXCEPT ![s] = "loaded"]
    /\ weights' = [weights EXCEPT ![s] = version]
    /\ UNCHANGED <<balancerVars, callVars, version, paused, global_steps>>

\* clear_kv_cache, then set_global_steps.
TagWeights(s) ==
    /\ phase[s] = "loaded"
    /\ phase' = [phase EXCEPT ![s] = "tagged"]
    /\ global_steps' = [global_steps EXCEPT ![s] = version]
    /\ UNCHANGED <<balancerVars, callVars, version, paused, weights>>

\* Every replica is resumed once all have their weights.
AllUpdated == \A s \in Servers : phase[s] \in {"tagged", "serving"}

ResumeStillPaused(s) ==
    /\ phase[s] = "tagged" /\ AllUpdated
    /\ phase' = [phase EXCEPT ![s] = "serving"]
    /\ UNCHANGED <<balancerVars, callVars, version, paused, weights, global_steps>>

Resume(s) ==
    /\ phase[s] = "tagged" /\ AllUpdated
    /\ phase' = [phase EXCEPT ![s] = "serving"]
    /\ paused' = [paused EXCEPT ![s] = FALSE]
    /\ UNCHANGED <<balancerVars, callVars, version, weights, global_steps>>

-----------------------------------------------------------------------------
CallStep(r)   == Call(r) \/ Acquire(r) \/ Send(r) \/ Merge(r)
EngineStep(r) == Admit(r) \/ Refuse(r) \/ Generate(r)
SyncStep(s)   == Abort(s) \/ LoadBegin(s) \/ LoadEnd(s) \/ TagWeights(s) \/ Resume(s)

\* Every call came back and every bounded synchronisation was made.
Quiescent ==
    /\ \A r \in Requests : call[r] \in {"returned", "raised"}
    /\ \A s \in Servers : releasing[s] = 0 /\ phase[s] = "serving"
    /\ validating \/ version = MaxVersion
    /\ UNCHANGED vars

Next ==
    /\ UNCHANGED validating
    /\ \/ \E r \in Requests : CallStep(r) \/ EngineStep(r)
       \/ \E s \in Servers : Release(s) \/ SyncStep(s)
       \/ SyncBegin
       \/ Quiescent

\* A call that began is carried on by its event loop, a request that runs is
\* generated, and a synchronisation that began is finished.
Fairness ==
    /\ \A r \in Requests : /\ WF_vars(CallStep(r) /\ call[r] # "idle" /\ UNCHANGED validating)
                           /\ WF_vars(EngineStep(r) /\ UNCHANGED validating)
    /\ \A s \in Servers : /\ WF_vars(Release(s) /\ UNCHANGED validating)
                          /\ WF_vars(SyncStep(s) /\ UNCHANGED validating)

Spec == Init /\ [][Next]_vars /\ Fairness

-----------------------------------------------------------------------------
MaxLength == PromptSlack + ResponseLength

CallStates == {"idle", "acquiring", "acquired", "sent", "running", "finished",
               "returned", "raised"}

\* The values of every variable.
TypeOK ==
    /\ inflight \in [Servers -> Nat]
    /\ routes \in Seq([request : Requests, server : Servers])
    /\ call \in [Requests -> CallStates]
    /\ server \in [Requests -> Servers]
    /\ tokens \in [Requests -> Seq(Int)]
    /\ cap \in [Requests -> Nat] /\ (validating \/ \A r \in Requests : cap[r] <= MaxLength)
    /\ stop \in [Requests -> {"none", "completed", "aborted"}]
    /\ tag \in [Requests -> Int] /\ min_steps \in [Requests -> Int]
    /\ original \in [Requests -> Int] /\ limit \in Int
    /\ releasing \in [Servers -> Nat] /\ validating \in BOOLEAN
    /\ phase \in [Servers -> {"serving", "aborting", "aborted", "loading", "loaded", "tagged"}]
    /\ version \in Nat
    /\ paused \in [Servers -> BOOLEAN]
    /\ weights \in [Servers -> Int] /\ global_steps \in [Servers -> Int]

\* The balancer's count of a server is the requests that hold it and the
\* releases still on their way, whatever was interrupted, retried or refused:
\* load balancing never works on stale counts and release_server never raises.
Holding(s) == {r \in Requests : /\ call[r] \in {"acquired", "sent", "running", "finished"}
                                /\ server[r] = s}

InflightExact == \A s \in Servers : inflight[s] = Cardinality(Holding(s)) + releasing[s]

\* The versions reported with a response enclose the version of every token of
\* it, in order, and no token comes from weights in the middle of a transfer.
HonestTags ==
    \A r \in Requests : call[r] = "returned" =>
        /\ \A i \in 1..Len(tokens[r]) : tokens[r][i] \in min_steps[r]..tag[r]
        /\ \A i, j \in 1..Len(tokens[r]) : i < j => tokens[r][i] <= tokens[r][j]

\* Partial rollout hides interruptions: what generate returns is complete.
NotInterrupted == \A r \in Requests : call[r] = "returned" => stop[r] = "completed"

\* Nothing is generated while a server's weights change.
QuietDuringTransfer ==
    \A s \in Servers : Running(s) # {} => phase[s] \in {"serving", "aborting"}

\* All servers that generate have the same weights.
OneVersion ==
    \A s, t \in Servers : Running(s) # {} /\ Running(t) # {} => weights[s] = weights[t]

\* However often it is interrupted, a response fits the context that prompt and
\* response share.  It may be longer than ResponseLength: every attempt is
\* capped anew, and what is too much is cut when the batch is assembled.
FitsContext == ~validating => \A r \in Requests : Len(tokens[r]) <= MaxLength

\* Every call of generate comes back, whatever it is interrupted by, and a
\* training call with a complete response; a call refused its tokens, which only
\* a validation can be, comes back with an error.
CallsReturn ==
    \A r \in Requests :
        (call[r] = "acquiring")
            ~> \/ call[r] = "returned" /\ (validating \/ stop[r] = "completed")
               \/ call[r] = "raised" /\ validating

-----------------------------------------------------------------------------
(* What the documentation says and the code does not do. *)

\* agent_loop.py, generate_sequences: sampling params are overridden for
\* validation, max_tokens with response_length.
ValidationLimit ==
    validating => \A r \in Requests : call[r] = "running" => cap[r] = ResponseLength

=============================================================================

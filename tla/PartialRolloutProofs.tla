------------------------ MODULE PartialRolloutProofs ------------------------
(***************************************************************************)
(* Generation across weight synchronisations, for every set of requests,   *)
(* every number of servers and every order of interruptions: the load      *)
(* balancer's counts are exact, a response never outgrows its context,     *)
(* nothing is generated while weights are transferred, servers that        *)
(* generate have the same weights, and the version tags of a response      *)
(* enclose the versions of its tokens.                                     *)
(***************************************************************************)
EXTENDS PartialRollout, FiniteSetTheorems, TLAPS

-----------------------------------------------------------------------------
(* The counts of the load balancer *)

CountTypes ==
    /\ inflight \in [Servers -> Nat]
    /\ releasing \in [Servers -> Nat]
    /\ call \in [Requests -> CallStates]
    /\ server \in [Requests -> Servers]

CountInvariant == CountTypes /\ InflightExact

HoldingStates == {"acquired", "sent", "running", "finished"}

LEMMA HoldingFinite ==
  ASSUME NEW s
  PROVE  IsFiniteSet(Holding(s)) /\ Cardinality(Holding(s)) \in Nat
<1>1. Holding(s) \subseteq Requests
  BY DEF Holding
<1>2. IsFiniteSet(Holding(s))
  BY <1>1, LoadBalancerAssumption, FS_Subset
<1> QED
  BY <1>2, FS_CardinalityType

\* A step that moves no call in or out of the holding states, and no holder to
\* another server, and touches no count.
LEMMA SameHolders ==
  ASSUME CountInvariant, CountTypes', UNCHANGED <<inflight, releasing>>,
         \A r \in Requests : /\ call'[r] \in HoldingStates <=> call[r] \in HoldingStates
                             /\ call[r] \in HoldingStates => server'[r] = server[r]
  PROVE  InflightExact'
<1>1. ASSUME NEW s \in Servers PROVE Holding(s)' = Holding(s)
  BY DEF Holding, HoldingStates
<1> QED
  BY <1>1 DEF CountInvariant, InflightExact

\* One call leaves the holding states and sends its release.
LEMMA HolderReleases ==
  ASSUME CountInvariant, CountTypes', UNCHANGED <<inflight, server>>,
         NEW r \in Requests,
         call[r] \in HoldingStates, call'[r] \notin HoldingStates,
         \A q \in Requests \ {r} : call'[q] = call[q],
         releasing' = [releasing EXCEPT ![server[r]] = @ + 1]
  PROVE  InflightExact'
<1> SUFFICES ASSUME NEW s \in Servers
             PROVE  inflight'[s] = Cardinality(Holding(s)') + releasing'[s]
  BY DEF InflightExact
<1>0. inflight[s] = Cardinality(Holding(s)) + releasing[s]
  BY DEF CountInvariant, InflightExact
<1>1. CASE s # server[r]
  <2>1. Holding(s)' = Holding(s)
    BY <1>1 DEF Holding
  <2>2. releasing'[s] = releasing[s]
    BY <1>1 DEF CountInvariant, CountTypes
  <2> QED
    BY <1>0, <2>1, <2>2
<1>2. CASE s = server[r]
  <2>1. Holding(s)' = Holding(s) \ {r} /\ r \in Holding(s)
    BY <1>2 DEF Holding, HoldingStates
  <2>2. Cardinality(Holding(s)') = Cardinality(Holding(s)) - 1
    BY <2>1, HoldingFinite, FS_RemoveElement
  <2>3. releasing'[s] = releasing[s] + 1 /\ releasing[s] \in Nat
    BY <1>2 DEF CountInvariant, CountTypes
  <2>4. Cardinality(Holding(s)) \in Nat
    BY HoldingFinite
  <2> QED
    BY <1>0, <2>2, <2>3, <2>4
<1> QED
  BY <1>1, <1>2

LEMMA CountTypesStep == CountInvariant /\ [Next]_vars => CountTypes'
<1> SUFFICES ASSUME CountInvariant, [Next]_vars PROVE CountTypes'
  OBVIOUS
<1> USE DEF CountInvariant, CountTypes, CallStates
<1>1. ASSUME NEW r \in Requests, CallStep(r) PROVE CountTypes'
  <2>1. CASE Call(r)
    BY <2>1 DEF Call, balancerVars
  <2>2. CASE Acquire(r)
    BY <2>2 DEF Acquire, AcquireServer
  <2>3. CASE Send(r)
    BY <2>3 DEF Send, balancerVars
  <2>4. CASE Merge(r)
    BY <2>4 DEF Merge, balancerVars
  <2> QED
    BY <1>1, <2>1, <2>2, <2>3, <2>4 DEF CallStep
<1>2. ASSUME NEW r \in Requests, EngineStep(r) PROVE CountTypes'
  <2>1. CASE Admit(r)
    BY <2>1 DEF Admit, balancerVars
  <2>2. CASE Refuse(r)
    BY <2>2 DEF Refuse, balancerVars
  <2>3. CASE Generate(r)
    BY <2>3 DEF Generate, balancerVars
  <2> QED
    BY <1>2, <2>1, <2>2, <2>3 DEF EngineStep
<1>3. ASSUME NEW s \in Servers, Release(s) PROVE CountTypes'
  BY <1>3 DEF Release, ReleaseServer
<1>4. ASSUME NEW s \in Servers, SyncStep(s) PROVE CountTypes'
  BY <1>4 DEF SyncStep, Abort, LoadBegin, LoadEnd, TagWeights, Resume, balancerVars, callVars
<1>5. CASE SyncBegin
  BY <1>5 DEF SyncBegin, balancerVars, callVars
<1>6. CASE UNCHANGED vars
  BY <1>6 DEF vars, balancerVars, callVars
<1> QED
  BY <1>1, <1>2, <1>3, <1>4, <1>5, <1>6 DEF Next, Quiescent

\* An acquired server counts one more request, the one that now holds it.
LEMMA AcquireCounts ==
  ASSUME CountInvariant, CountTypes', NEW r \in Requests, Acquire(r)
  PROVE  InflightExact'
<1>1. PICK t \in Servers : AcquireServer(r, t) /\ server' = [server EXCEPT ![r] = t]
  BY DEF Acquire
<1> SUFFICES ASSUME NEW s \in Servers
             PROVE  inflight'[s] = Cardinality(Holding(s)') + releasing'[s]
  BY DEF InflightExact
<1>2. /\ call[r] = "acquiring" /\ call' = [call EXCEPT ![r] = "acquired"]
      /\ releasing' = releasing
      /\ inflight' = [inflight EXCEPT ![t] = @ + 1]
  BY <1>1 DEF Acquire, AcquireServer
<1>3. inflight[s] = Cardinality(Holding(s)) + releasing[s]
  BY DEF CountInvariant, InflightExact
<1>4. r \notin Holding(s)
  BY <1>2 DEF Holding
<1>5. CASE s = t
  <2>1. Holding(s)' = Holding(s) \cup {r}
    BY <1>1, <1>2, <1>5 DEF Holding, CountInvariant, CountTypes
  <2>2. Cardinality(Holding(s)') = Cardinality(Holding(s)) + 1
    BY <1>4, <2>1, HoldingFinite, FS_AddElement
  <2>3. inflight'[s] = inflight[s] + 1
    BY <1>2, <1>5 DEF CountInvariant, CountTypes
  <2>4. releasing[s] \in Nat /\ Cardinality(Holding(s)) \in Nat
    BY HoldingFinite DEF CountInvariant, CountTypes
  <2> QED
    BY <1>2, <1>3, <2>2, <2>3, <2>4
<1>6. CASE s # t
  <2>1. Holding(s)' = Holding(s)
    BY <1>1, <1>2, <1>6 DEF Holding, CountInvariant, CountTypes
  <2>2. inflight'[s] = inflight[s]
    BY <1>2, <1>6 DEF CountInvariant, CountTypes
  <2> QED
    BY <1>2, <1>3, <2>1, <2>2
<1> QED
  BY <1>5, <1>6

\* A release that arrives finds its request still counted.
LEMMA ReleaseCounts ==
  ASSUME CountInvariant, CountTypes', NEW t \in Servers, Release(t)
  PROVE  InflightExact'
<1> SUFFICES ASSUME NEW s \in Servers
             PROVE  inflight'[s] = Cardinality(Holding(s)') + releasing'[s]
  BY DEF InflightExact
<1>1. /\ \A u \in Servers : inflight[u] = Cardinality(Holding(u)) + releasing[u]
      /\ \A u \in Servers : inflight[u] \in Nat /\ releasing[u] \in Nat
  BY DEF CountInvariant, CountTypes, InflightExact
<1>2. releasing[t] > 0 /\ Cardinality(Holding(t)) \in Nat
  BY HoldingFinite DEF Release
<1>3. inflight[t] > 0
  BY <1>1, <1>2
<1>4. /\ inflight' = [inflight EXCEPT ![t] = @ - 1]
      /\ releasing' = [releasing EXCEPT ![t] = @ - 1]
  BY <1>1, <1>3 DEF Release, ReleaseServer
<1>5. Holding(s)' = Holding(s) /\ Cardinality(Holding(s)) \in Nat
  BY HoldingFinite DEF Release, Holding
<1> QED
  BY <1>1, <1>4, <1>5 DEF CountInvariant, CountTypes

\* The balancer counts what is on its servers, whatever is interrupted,
\* retried or refused, and release_server never finds its counter at zero.
THEOREM InflightCounts == Spec => []InflightExact
<1>1. Init => CountInvariant
  <2> SUFFICES ASSUME Init PROVE CountInvariant
    OBVIOUS
  <2>1. CountTypes
    BY LoadBalancerAssumption DEF Init, BalancerInit, CountTypes, CallStates, Servers
  <2>2. ASSUME NEW s \in Servers PROVE Holding(s) = {}
    BY DEF Init, Holding
  <2>3. ASSUME NEW s \in Servers PROVE inflight[s] = Cardinality(Holding(s)) + releasing[s]
    <3>1. Cardinality(Holding(s)) = 0
      BY <2>2, FS_EmptySet
    <3> QED
      BY <3>1 DEF Init, BalancerInit
  <2> QED
    BY <2>1, <2>3 DEF CountInvariant, InflightExact
<1>2. CountInvariant /\ [Next]_vars => CountInvariant'
  <2> SUFFICES ASSUME CountInvariant, [Next]_vars PROVE InflightExact'
    BY CountTypesStep DEF CountInvariant
  <2>0. CountTypes'
    BY CountTypesStep
  <2>t. call \in [Requests -> CallStates] /\ server \in [Requests -> Servers]
    BY DEF CountInvariant, CountTypes
  <2>1. ASSUME NEW r \in Requests, Call(r) PROVE InflightExact'
    BY <2>0, <2>t, <2>1, SameHolders DEF Call, balancerVars, HoldingStates
  <2>2. ASSUME NEW r \in Requests, Acquire(r) PROVE InflightExact'
    BY <2>0, <2>2, AcquireCounts
  <2>3. ASSUME NEW r \in Requests, Send(r) \/ Admit(r) PROVE InflightExact'
    BY <2>0, <2>t, <2>3, SameHolders DEF Send, Admit, balancerVars, HoldingStates
  <2>4. ASSUME NEW r \in Requests, Generate(r) PROVE InflightExact'
    BY <2>0, <2>t, <2>4, SameHolders DEF Generate, balancerVars, HoldingStates
  <2>5. ASSUME NEW r \in Requests, Merge(r) PROVE InflightExact'
    BY <2>0, <2>t, <2>5, HolderReleases DEF Merge, balancerVars, HoldingStates
  <2>6. ASSUME NEW r \in Requests, Refuse(r) PROVE InflightExact'
    BY <2>0, <2>t, <2>6, HolderReleases DEF Refuse, balancerVars, HoldingStates
  <2>7. ASSUME NEW s \in Servers, Release(s) PROVE InflightExact'
    BY <2>0, <2>7, ReleaseCounts
  <2>8. ASSUME NEW s \in Servers, Abort(s) PROVE InflightExact'
    BY <2>0, <2>t, <2>8, SameHolders DEF Abort, Running, balancerVars, HoldingStates
  <2>9. ASSUME UNCHANGED <<balancerVars, callVars>> PROVE InflightExact'
    BY <2>0, <2>t, <2>9, SameHolders DEF balancerVars, callVars
  <2>10. ASSUME NEW s \in Servers, SyncStep(s) PROVE InflightExact'
    BY <2>8, <2>9, <2>10 DEF SyncStep, LoadBegin, LoadEnd, TagWeights, Resume
  <2> QED
    BY <2>1, <2>2, <2>3, <2>4, <2>5, <2>6, <2>7, <2>9, <2>10
       DEF Next, CallStep, EngineStep, SyncBegin, Quiescent, vars
<1>3. CountInvariant => InflightExact
  BY DEF CountInvariant
<1> QED
  BY <1>1, <1>2, <1>3, PTL DEF Spec

-----------------------------------------------------------------------------
(* The length of a response *)

\* Why a response fits: every attempt is capped by what is left of the context,
\* and a running attempt is below its cap.
LengthInvariant ==
    /\ call \in [Requests -> CallStates]
    /\ tokens \in [Requests -> Seq(Int)]
    /\ cap \in [Requests -> Int]
    /\ weights \in [Servers -> Int] /\ server \in [Requests -> Servers]
    /\ version \in Int
    /\ limit \in Int /\ original \in [Requests -> Int]
    /\ ~validating =>
         \A r \in Requests : /\ Len(tokens[r]) <= MaxLength
                             /\ call[r] \in {"sent", "running"} => cap[r] <= MaxLength
                             /\ call[r] = "running" => Len(tokens[r]) < cap[r]

\* A response fits the context that prompt and response share, however often it
\* is interrupted and sent again.
THEOREM ResponseFits == Spec => []FitsContext
<1> USE DEF LengthInvariant, CallStates, Mixed
<1>0. ResponseLength \in Nat /\ PromptSlack \in Nat
  BY PartialRolloutAssumption
<1>1. Init => LengthInvariant
  <2> SUFFICES ASSUME Init PROVE LengthInvariant
    OBVIOUS
  <2>1. tokens = [r \in Requests |-> <<>>] /\ call = [r \in Requests |-> "idle"]
    BY DEF Init
  <2>2. \A r \in Requests : Len(tokens[r]) = 0
    BY <2>1
  <2>3. 1 \in Servers
    BY LoadBalancerAssumption DEF Servers
  <2> QED
    BY <1>0, <2>1, <2>2, <2>3 DEF Init, MaxLength
<1>2. LengthInvariant /\ [Next]_vars => LengthInvariant'
  <2> SUFFICES ASSUME LengthInvariant, [Next]_vars PROVE LengthInvariant'
    OBVIOUS
  <2>0. validating' = validating
    BY DEF Next, vars
  <2> USE <2>0
  <2>1. ASSUME NEW r \in Requests, Call(r) PROVE LengthInvariant'
    BY <2>1 DEF Call, serverVars
  <2>2. ASSUME NEW r \in Requests, Acquire(r) PROVE LengthInvariant'
    BY <2>2 DEF Acquire, serverVars
  <2>3. ASSUME NEW r \in Requests, Send(r) PROVE LengthInvariant'
    <3>1. Len(tokens[r]) \in Nat
      OBVIOUS
    <3>2. CASE ~validating
      <4>1. /\ MaxTokens(Len(tokens[r])) \in Int
            /\ Len(tokens[r]) + MaxTokens(Len(tokens[r])) <= MaxLength
        BY <1>0, <3>1, <3>2 DEF MaxTokens, Lower, MaxLength
      <4> QED
        BY <2>3, <3>1, <3>2, <4>1 DEF Send, serverVars
    <3>3. CASE validating
      <4>1. MaxTokens(Len(tokens[r])) \in Int
        BY <3>1, <3>3 DEF MaxTokens
      <4> QED
        BY <2>3, <3>1, <3>3, <4>1 DEF Send, serverVars
    <3> QED
      BY <1>0, <3>2, <3>3
  <2>4. ASSUME NEW r \in Requests, Merge(r) PROVE LengthInvariant'
    BY <2>4 DEF Merge, serverVars
  <2>5. ASSUME NEW r \in Requests, Admit(r) PROVE LengthInvariant'
    BY <2>5 DEF Admit, serverVars
  <2>6. ASSUME NEW r \in Requests, Refuse(r) PROVE LengthInvariant'
    BY <2>6 DEF Refuse, serverVars
  <2>7. ASSUME NEW r \in Requests, Generate(r) PROVE LengthInvariant'
    <3>1. /\ call[r] = "running" /\ UNCHANGED <<cap, server, weights, version>>
          /\ tokens' = [tokens EXCEPT ![r] = Append(@, weights[server[r]])]
          /\ \/ Len(tokens[r]) + 1 < cap[r] /\ UNCHANGED call
             \/ call' = [call EXCEPT ![r] = "finished"]
      BY <2>7 DEF Generate, serverVars
    <3>2. weights[server[r]] \in Int /\ tokens[r] \in Seq(Int) /\ cap[r] \in Int
      OBVIOUS
    <3>3. /\ tokens'[r] \in Seq(Int) /\ Len(tokens'[r]) = Len(tokens[r]) + 1
          /\ Len(tokens[r]) \in Nat
          /\ \A q \in Requests \ {r} : tokens'[q] = tokens[q]
      BY <3>1, <3>2
    <3>4. tokens' \in [Requests -> Seq(Int)] /\ call' \in [Requests -> CallStates]
      <4>1. Append(tokens[r], weights[server[r]]) \in Seq(Int)
        BY <3>2
      <4>2. tokens' \in [Requests -> Seq(Int)]
        BY <3>1, <4>1
      <4>3. call' \in [Requests -> CallStates]
        BY <3>1
      <4> QED
        BY <4>2, <4>3
    <3>5. /\ \A q \in Requests \ {r} : call'[q] = call[q]
          /\ call'[r] = "finished" \/ (call'[r] = "running" /\ Len(tokens[r]) + 1 < cap[r])
      BY <3>1
    <3>6. MaxLength \in Int
      BY <1>0 DEF MaxLength
    <3>7. ASSUME ~validating, NEW q \in Requests
          PROVE  /\ Len(tokens'[q]) <= MaxLength
                 /\ call'[q] \in {"sent", "running"} => cap'[q] <= MaxLength
                 /\ call'[q] = "running" => Len(tokens'[q]) < cap'[q]
      <4>1. CASE q = r
        BY <3>1, <3>2, <3>3, <3>5, <3>6, <3>7, <4>1
      <4>2. CASE q # r
        BY <3>1, <3>3, <3>5, <3>7, <4>2
      <4> QED
        BY <4>1, <4>2
    <3>8. /\ weights' \in [Servers -> Int] /\ server' \in [Requests -> Servers]
          /\ cap' \in [Requests -> Int] /\ version' \in Int
          /\ limit' \in Int /\ original' \in [Requests -> Int]
      BY <2>7 DEF Generate, serverVars
    <3> QED
      BY <3>4, <3>7, <3>8
  <2>8. ASSUME NEW s \in Servers, Abort(s) PROVE LengthInvariant'
    BY <2>8 DEF Abort
  <2>9. ASSUME UNCHANGED callVars, weights' \in [Servers -> Int], version' \in Int
        PROVE  LengthInvariant'
    BY <2>9 DEF callVars
  <2>10. ASSUME NEW s \in Servers, SyncStep(s) PROVE LengthInvariant'
    BY <2>8, <2>9, <2>10 DEF SyncStep, LoadBegin, LoadEnd, TagWeights, Resume
  <2>11. ASSUME NEW s \in Servers, Release(s) PROVE LengthInvariant'
    BY <2>11 DEF Release, serverVars
  <2>12. CASE SyncBegin
    BY <2>9, <2>12 DEF SyncBegin
  <2>13. CASE UNCHANGED vars
    BY <2>9, <2>13 DEF vars, serverVars
  <2> QED
    BY <2>1, <2>2, <2>3, <2>4, <2>5, <2>6, <2>7, <2>10, <2>11, <2>12, <2>13
       DEF Next, CallStep, EngineStep, Quiescent
<1>3. LengthInvariant => FitsContext
  BY DEF FitsContext
<1> QED
  BY <1>1, <1>2, <1>3, PTL DEF Spec

-----------------------------------------------------------------------------
(* Versions of the weights *)

Phases == {"serving", "aborting", "aborted", "loading", "loaded", "tagged"}

SyncTypes ==
    /\ call \in [Requests -> CallStates]
    /\ server \in [Requests -> Servers]
    /\ phase \in [Servers -> Phases]
    /\ paused \in [Servers -> BOOLEAN]
    /\ version \in Nat
    /\ weights \in [Servers -> Int] /\ global_steps \in [Servers -> Int]

\* What a server holds in each phase of a synchronisation.
ServerStates ==
    \A s \in Servers :
        /\ phase[s] \notin {"serving", "aborting"} => paused[s]
        /\ phase[s] # "serving" => version > 0
        /\ phase[s] \in {"serving", "loaded", "tagged"} => weights[s] = version
        /\ phase[s] \in {"aborting", "aborted"} => weights[s] = version - 1
        /\ phase[s] \in {"serving", "tagged"} => global_steps[s] = version
        /\ phase[s] \notin {"serving", "tagged"} => global_steps[s] = version - 1

\* A server is resumed only after all of them have the new weights.
Barrier ==
    \A s, t \in Servers : phase[s] = "serving" => phase[t] \in {"serving", "tagged"}

RunsQuietly ==
    \A r \in Requests : call[r] = "running" => phase[server[r]] \in {"serving", "aborting"}

SyncInvariant == SyncTypes /\ ServerStates /\ Barrier /\ RunsQuietly

LEMMA SyncInit == Init => SyncInvariant
<1> SUFFICES ASSUME Init PROVE SyncInvariant
  OBVIOUS
<1>1. 1 \in Servers
  BY LoadBalancerAssumption DEF Servers
<1> QED
  BY <1>1 DEF Init, SyncInvariant, SyncTypes, ServerStates, Barrier, RunsQuietly, Phases, CallStates

\* A step of a call that lets no request run leaves the synchronisation alone.
LEMMA SyncUntouched ==
  ASSUME SyncInvariant, UNCHANGED serverVars,
         call' \in [Requests -> CallStates], server' \in [Requests -> Servers],
         \A r \in Requests : call'[r] = "running" =>
             /\ server'[r] = server[r]
             /\ call[r] = "running" \/ ~paused[server[r]]
  PROVE  SyncInvariant'
<1>1. SyncTypes' /\ ServerStates' /\ Barrier'
  BY DEF SyncInvariant, SyncTypes, ServerStates, Barrier, serverVars
<1>2. RunsQuietly'
  <2> SUFFICES ASSUME NEW r \in Requests, call'[r] = "running"
               PROVE  phase[server[r]] \in {"serving", "aborting"}
    BY DEF RunsQuietly, serverVars
  <2> QED
    BY DEF SyncInvariant, SyncTypes, ServerStates, RunsQuietly
<1> QED
  BY <1>1, <1>2 DEF SyncInvariant

LEMMA SyncStepKeeps == SyncInvariant /\ [Next]_vars => SyncInvariant'
<1> SUFFICES ASSUME SyncInvariant, [Next]_vars PROVE SyncInvariant'
  OBVIOUS
<1>t. SyncTypes
  BY DEF SyncInvariant
<1>1. ASSUME NEW r \in Requests, CallStep(r) PROVE SyncInvariant'
  <2> USE <1>t DEF SyncTypes, CallStates
  <2>1. CASE Call(r)
    BY <2>1, SyncUntouched DEF Call
  <2>2. CASE Acquire(r)
    BY <2>2, SyncUntouched DEF Acquire
  <2>3. CASE Send(r)
    BY <2>3, SyncUntouched DEF Send
  <2>4. CASE Merge(r)
    BY <2>4, SyncUntouched DEF Merge
  <2> QED
    BY <1>1, <2>1, <2>2, <2>3, <2>4 DEF CallStep
<1>2. ASSUME NEW r \in Requests, EngineStep(r) PROVE SyncInvariant'
  <2> USE <1>t DEF SyncTypes, CallStates
  <2>1. CASE Admit(r)
    BY <2>1, SyncUntouched DEF Admit
  <2>2. CASE Refuse(r)
    BY <2>2, SyncUntouched DEF Refuse
  <2>3. CASE Generate(r)
    BY <2>3, SyncUntouched DEF Generate
  <2> QED
    BY <1>2, <2>1, <2>2, <2>3 DEF EngineStep
<1>3. ASSUME NEW s \in Servers, Release(s) PROVE SyncInvariant'
  BY <1>t, <1>3, SyncUntouched DEF Release, SyncTypes
<1>4. ASSUME NEW s \in Servers, SyncStep(s) PROVE SyncInvariant'
  <2> USE DEF SyncInvariant, SyncTypes, ServerStates, Barrier, RunsQuietly, Phases
  <2>1. CASE Abort(s)
    <3>1. call' \in [Requests -> CallStates]
      BY <2>1 DEF Abort, CallStates
    <3>2. SyncTypes'
      BY <2>1, <3>1 DEF Abort, Pause
    <3>3. ServerStates' /\ Barrier'
      BY <2>1 DEF Abort, Pause
    <3>4. RunsQuietly'
      BY <2>1 DEF Abort, Running
    <3> QED
      BY <3>2, <3>3, <3>4
  <2>2. CASE LoadBegin(s)
    <3>1. SyncTypes' /\ ServerStates' /\ Barrier'
      BY <2>2 DEF LoadBegin, callVars, Mixed
    <3>2. RunsQuietly'
      BY <2>2 DEF LoadBegin, callVars
    <3> QED
      BY <3>1, <3>2
  <2>3. CASE LoadEnd(s)
    BY <2>3 DEF LoadEnd, callVars
  <2>4. CASE TagWeights(s)
    BY <2>4 DEF TagWeights, callVars
  <2>5. CASE Resume(s)
    BY <2>5 DEF Resume, AllUpdated, callVars
  <2> QED
    BY <1>4, <2>1, <2>2, <2>3, <2>4, <2>5 DEF SyncStep
<1>5. CASE SyncBegin
  BY <1>5 DEF SyncBegin, callVars, SyncInvariant, SyncTypes, ServerStates, Barrier, RunsQuietly, Phases
<1>6. CASE UNCHANGED vars
  BY <1>6, <1>t, SyncUntouched DEF vars, callVars, SyncTypes
<1> QED
  BY <1>1, <1>2, <1>3, <1>4, <1>5, <1>6 DEF Next, Quiescent

LEMMA SyncSafe == Spec => []SyncInvariant
  BY SyncInit, SyncStepKeeps, PTL DEF Spec

-----------------------------------------------------------------------------
\* No request runs on a server whose weights are being replaced: an engine is
\* paused from its abort until all servers have their weights.
THEOREM TransferQuiet == Spec => []QuietDuringTransfer
<1>1. SyncInvariant => QuietDuringTransfer
  BY DEF SyncInvariant, RunsQuietly, QuietDuringTransfer, Running
<1> QED
  BY <1>1, SyncSafe, PTL

\* Two servers that generate at the same time have the same weights.
THEOREM VersionsAgree == Spec => []OneVersion
<1>1. SyncInvariant => OneVersion
  <2> SUFFICES ASSUME SyncInvariant, NEW s \in Servers, NEW t \in Servers,
                      Running(s) # {}, Running(t) # {}
               PROVE  weights[s] = weights[t]
    BY DEF OneVersion
  <2>1. phase[s] \in {"serving", "aborting"} /\ phase[t] \in {"serving", "aborting"}
    BY DEF SyncInvariant, RunsQuietly, Running
  <2> QED
    BY <2>1 DEF SyncInvariant, ServerStates, Barrier
<1> QED
  BY <1>1, SyncSafe, PTL

-----------------------------------------------------------------------------
(* The version tags of a response. *)

\* The version that requests are served with: the new one as soon as one server
\* has been resumed.
Served == IF \E s \in Servers : phase[s] = "serving" THEN version ELSE version - 1

Between(t, low, high) == \A i \in 1..Len(t) : low <= t[i] /\ t[i] <= high
Sorted(t) == \A i, j \in 1..Len(t) : i < j => t[i] <= t[j]

\* What is known of the tokens and the tags of a request; as long as no attempt
\* of it has been merged, all its tokens come from one version.
Tagged(r) ==
    /\ Sorted(tokens[r]) /\ Between(tokens[r], 0, Served)
    /\ min_steps[r] # NoSteps =>
           0 <= min_steps[r] /\ min_steps[r] <= Served /\ Between(tokens[r], min_steps[r], Served)
    /\ call[r] \in {"idle", "acquiring", "acquired", "sent"} /\ min_steps[r] = NoSteps =>
           tokens[r] = <<>>
    /\ call[r] = "running" /\ min_steps[r] = NoSteps => Between(tokens[r], Served, Served)
    /\ call[r] = "finished" =>
           /\ 0 <= tag[r] /\ tag[r] <= Served /\ Between(tokens[r], 0, tag[r])
           /\ min_steps[r] = NoSteps => Between(tokens[r], tag[r], tag[r])
    /\ call[r] = "returned" => Between(tokens[r], min_steps[r], tag[r])

TagTypes ==
    /\ tokens \in [Requests -> Seq(Int)]
    /\ tag \in [Requests -> Int] /\ min_steps \in [Requests -> Int]
    /\ stop \in [Requests -> {"none", "completed", "aborted"}]

TagInvariant == SyncInvariant /\ TagTypes /\ \A r \in Requests : Tagged(r)

LEMMA ServedType ==
  ASSUME SyncInvariant
  PROVE  Served \in Nat
<1>1. 1 \in Servers
  BY LoadBalancerAssumption DEF Servers
<1>2. phase[1] # "serving" => version > 0
  BY <1>1 DEF SyncInvariant, ServerStates
<1> QED
  BY <1>1, <1>2 DEF Served, SyncInvariant, SyncTypes

\* What runs, runs with the served version and would be tagged with it.
LEMMA RunsServed ==
  ASSUME SyncInvariant, NEW r \in Requests, call[r] = "running"
  PROVE  weights[server[r]] = Served /\ global_steps[server[r]] = Served
<1> DEFINE s == server[r]
<1>1. s \in Servers /\ phase[s] \in {"serving", "aborting"}
  BY DEF SyncInvariant, SyncTypes, RunsQuietly
<1>2. CASE phase[s] = "serving"
  BY <1>1, <1>2 DEF Served, SyncInvariant, ServerStates
<1>3. CASE phase[s] = "aborting"
  <2>1. \A t \in Servers : phase[t] # "serving"
    BY <1>1, <1>3 DEF SyncInvariant, Barrier
  <2> QED
    BY <1>1, <1>3, <2>1 DEF Served, SyncInvariant, ServerStates
<1> QED
  BY <1>1, <1>2, <1>3

\* The served version never falls, and stays while anything runs.
LEMMA ServedGrows ==
  ASSUME SyncInvariant,
         SyncBegin \/ \E s \in Servers : LoadBegin(s) \/ LoadEnd(s) \/ TagWeights(s) \/ Resume(s)
  PROVE  /\ Served' >= Served
         /\ \A r \in Requests : call[r] = "running" => Served' = Served
<1> USE DEF SyncInvariant, SyncTypes, Served
<1>1. 1 \in Servers
  BY LoadBalancerAssumption DEF Servers
<1>2. CASE SyncBegin
  BY <1>1, <1>2 DEF SyncBegin
<1>3. CASE \E s \in Servers : LoadBegin(s) \/ LoadEnd(s) \/ TagWeights(s)
  <2> PICK s \in Servers : LoadBegin(s) \/ LoadEnd(s) \/ TagWeights(s)
    BY <1>3
  <2>1. \A t \in Servers : (phase'[t] = "serving") <=> (phase[t] = "serving")
    BY DEF LoadBegin, LoadEnd, TagWeights
  <2>2. version' = version
    BY DEF LoadBegin, LoadEnd, TagWeights
  <2>3. Served' = Served
    BY <2>1, <2>2
  <2> QED
    BY <2>3
<1>4. CASE \E s \in Servers : Resume(s)
  <2> PICK s \in Servers : Resume(s)
    BY <1>4
  <2>1. version' = version /\ Served' = version
    BY DEF Resume
  <2>2. ASSUME NEW r \in Requests, call[r] = "running" PROVE Served = version
    <3>1. server[r] \in Servers /\ phase[server[r]] \in {"serving", "aborting"}
      BY <2>2 DEF RunsQuietly
    <3>2. phase[server[r]] = "serving"
      BY <3>1 DEF Resume, AllUpdated
    <3> QED
      BY <3>1, <3>2
  <2> QED
    BY <2>1, <2>2
<1> QED
  BY <1>2, <1>3, <1>4

LEMMA BetweenWider ==
  ASSUME NEW t \in Seq(Int), NEW low \in Int, NEW high \in Int, Between(t, low, high),
         NEW lower \in Int, NEW higher \in Int, lower <= low, high <= higher
  PROVE  Between(t, lower, higher)
<1>1. \A i \in 1..Len(t) : t[i] \in Int
  OBVIOUS
<1> QED
  BY <1>1 DEF Between

LEMMA AppendSorted ==
  ASSUME NEW t \in Seq(Int), NEW v \in Int, Sorted(t), Between(t, 0, v)
  PROVE  Sorted(Append(t, v))
<1> DEFINE u == Append(t, v)
<1>1. /\ Len(u) = Len(t) + 1 /\ u[Len(u)] = v
      /\ \A i \in 1..Len(t) : u[i] = t[i] /\ t[i] <= v
  BY DEF Between
<1> HIDE DEF u
<1> SUFFICES ASSUME NEW i \in 1..Len(u), NEW j \in 1..Len(u), i < j
             PROVE  u[i] <= u[j]
  BY DEF Sorted, u
<1>2. Len(t) \in Nat /\ i \in 1..Len(t)
  BY <1>1
<1>3. CASE j \in 1..Len(t)
  <2>1. t[i] <= t[j]
    BY <1>2, <1>3 DEF Sorted
  <2> QED
    BY <2>1, <1>1, <1>2, <1>3
<1>4. CASE j = Len(u)
  <2>1. u[j] = v
    BY <1>1, <1>4
  <2>2. u[i] <= v
    BY <1>1, <1>2
  <2> QED
    BY <2>1, <2>2
<1> QED
  BY <1>1, <1>2, <1>3, <1>4

LEMMA AppendBetween ==
  ASSUME NEW t \in Seq(Int), NEW v \in Int, NEW low \in Int, NEW high \in Int,
         Between(t, low, high), low <= v, v <= high
  PROVE  Between(Append(t, v), low, high)
  BY DEF Between

\* A request that a step leaves alone keeps its facts.
LEMMA TaggedKept ==
  ASSUME TagTypes, NEW r \in Requests, Tagged(r), Served \in Int, Served' \in Int,
         tokens'[r] = tokens[r], min_steps'[r] = min_steps[r],
         call'[r] = call[r], tag'[r] = tag[r],
         Served' >= Served, call[r] = "running" => Served' = Served
  PROVE  Tagged(r)'
<1> DEFINE t == tokens[r]
<1>1. t \in Seq(Int) /\ min_steps[r] \in Int /\ tag[r] \in Int
  BY DEF TagTypes
<1>2. Between(t, 0, Served) => Between(t, 0, Served')
  BY <1>1, BetweenWider
<1>3. Between(t, min_steps[r], Served) => Between(t, min_steps[r], Served')
  BY <1>1, BetweenWider
<1> QED
  BY <1>1, <1>2, <1>3 DEF Tagged

LEMMA TagInit == Init => TagInvariant
<1> SUFFICES ASSUME Init PROVE TagInvariant
  OBVIOUS
<1>1. SyncInvariant
  BY SyncInit
<1>2. TagTypes
  BY DEF Init, TagTypes, NoSteps
<1>3. ASSUME NEW r \in Requests PROVE Tagged(r)
  <2>1. tokens[r] = <<>> /\ Sorted(tokens[r]) /\ Between(tokens[r], 0, Served)
    BY DEF Init, Sorted, Between
  <2>2. call[r] = "idle" /\ min_steps[r] = NoSteps
    BY DEF Init
  <2> QED
    BY <2>1, <2>2 DEF Tagged
<1> QED
  BY <1>1, <1>2, <1>3 DEF TagInvariant

\* A step of a call or an engine, the abort included, serves the same version,
\* and concerns the facts of one request.
LEMMA OneRequest ==
  ASSUME TagInvariant, SyncInvariant', NEW r \in Requests, TagTypes', Served' = Served,
         \A q \in Requests \ {r} : /\ call'[q] = call[q] /\ tokens'[q] = tokens[q]
                                   /\ tag'[q] = tag[q] /\ min_steps'[q] = min_steps[q],
         Tagged(r)'
  PROVE  TagInvariant'
<1>1. Served \in Int /\ Served' \in Int
  BY ServedType DEF TagInvariant
<1>2. ASSUME NEW q \in Requests \ {r} PROVE Tagged(q)'
  BY <1>1, <1>2, TaggedKept DEF TagInvariant
<1> QED
  BY <1>2 DEF TagInvariant

\* A call that goes on without new tokens and tags.
LEMMA CallMoves ==
  ASSUME TagInvariant, SyncInvariant', NEW r \in Requests, Served' = Served,
         UNCHANGED <<tokens, stop, tag, min_steps>>,
         NEW state \in CallStates, call' = [call EXCEPT ![r] = state],
         \/ state = "raised"
         \/ /\ call[r] \in {"idle", "acquiring", "acquired", "sent"}
            /\ state \in {"acquiring", "acquired", "sent", "running"}
  PROVE  TagInvariant'
<1>1. TagTypes' /\ call \in [Requests -> CallStates] /\ Served' \in Int
  <2>1. TagTypes'
    BY DEF TagInvariant, TagTypes
  <2>2. Served' \in Int
    BY ServedType DEF TagInvariant
  <2> QED
    BY <2>1, <2>2 DEF TagInvariant, SyncInvariant, SyncTypes
<1>2. Between(<<>>, Served, Served)
  BY DEF Between
<1>3. Tagged(r)'
  BY <1>1, <1>2 DEF Tagged, TagInvariant
<1> QED
  BY <1>1, <1>3, OneRequest

\* A merged response is enclosed by its tag and its oldest one.
LEMMA TagInvariantMerge ==
  ASSUME TagInvariant, SyncInvariant', NEW r \in Requests, Served' = Served, Merge(r)
  PROVE  TagInvariant'
<1> DEFINE t == tokens[r]
           low == MinSteps(r)
<1>1. /\ TagTypes /\ t \in Seq(Int) /\ tag[r] \in Int /\ min_steps[r] \in Int
      /\ Served \in Int /\ call \in [Requests -> CallStates] /\ Tagged(r)
  BY ServedType DEF TagInvariant, TagTypes, SyncInvariant, SyncTypes
<1>2. /\ call[r] = "finished" /\ call'[r] \in {"acquiring", "returned"} /\ min_steps'[r] = low
      /\ UNCHANGED <<tokens, stop, tag>> /\ min_steps' = [min_steps EXCEPT ![r] = low]
      /\ \A q \in Requests \ {r} : call'[q] = call[q]
  BY <1>1 DEF Merge, TagTypes
<1>3. /\ 0 <= tag[r] /\ tag[r] <= Served /\ Between(t, 0, tag[r])
      /\ min_steps[r] = NoSteps => Between(t, tag[r], tag[r])
  BY <1>1, <1>2 DEF Tagged
<1>4. low \in Int /\ 0 <= low /\ low <= Served /\ low # NoSteps
  BY <1>1, <1>3 DEF MinSteps, Tagged, NoSteps
<1>5. Between(t, low, Served) /\ Between(t, low, tag[r])
  <2>1. CASE min_steps[r] = NoSteps
    BY <1>1, <1>3, <2>1, BetweenWider DEF MinSteps
  <2>2. CASE min_steps[r] # NoSteps
    <3>1. Between(t, low, Served)
      BY <1>1, <2>2 DEF MinSteps, Tagged
    <3> QED
      BY <1>3, <3>1 DEF Between
  <2> QED
    BY <2>1, <2>2
<1>6. TagTypes'
  BY <1>1, <1>2, <1>4 DEF TagTypes
<1>7. Tagged(r)'
  BY <1>1, <1>2, <1>4, <1>5 DEF Tagged
<1> QED
  BY <1>1, <1>2, <1>6, <1>7, OneRequest DEF TagTypes

LEMMA TagInvariantGenerate ==
  ASSUME TagInvariant, SyncInvariant', NEW r \in Requests, Served' = Served, Generate(r)
  PROVE  TagInvariant'
<1> DEFINE t == tokens[r]
           u == Append(t, Served)
<1>1. /\ TagTypes /\ t \in Seq(Int) /\ min_steps[r] \in Int /\ call[r] = "running"
      /\ Served \in Nat /\ call \in [Requests -> CallStates] /\ Tagged(r)
  BY ServedType DEF TagInvariant, TagTypes, SyncInvariant, SyncTypes, Generate
<1>2. /\ tokens' = [tokens EXCEPT ![r] = u] /\ UNCHANGED min_steps
      /\ \/ UNCHANGED <<call, stop, tag>>
         \/ /\ call' = [call EXCEPT ![r] = "finished"]
            /\ stop' = [stop EXCEPT ![r] = "completed"] /\ tag' = [tag EXCEPT ![r] = Served]
  BY <1>1, RunsServed DEF TagInvariant, Generate
<1>3. /\ Sorted(u) /\ Between(u, 0, Served)
      /\ min_steps[r] # NoSteps => Between(u, min_steps[r], Served)
      /\ min_steps[r] = NoSteps => Between(u, Served, Served)
  BY <1>1, AppendSorted, AppendBetween DEF Tagged
<1> HIDE DEF u
<1>4. u \in Seq(Int)
  BY <1>1 DEF u
<1>5. TagTypes' /\ tokens'[r] = u
  <2>1. tokens' \in [Requests -> Seq(Int)] /\ tokens'[r] = u
    BY <1>1, <1>2, <1>4 DEF TagTypes
  <2>2. min_steps' \in [Requests -> Int] /\ tag' \in [Requests -> Int]
    BY <1>1, <1>2 DEF TagTypes
  <2>3. stop' \in [Requests -> {"none", "completed", "aborted"}]
    BY <1>1, <1>2 DEF TagTypes
  <2> QED
    BY <2>1, <2>2, <2>3 DEF TagTypes
<1>6. Tagged(r)'
  <2>1. CASE UNCHANGED <<call, stop, tag>>
    BY <1>1, <1>2, <1>3, <1>5, <2>1 DEF Tagged
  <2>2. CASE call' = [call EXCEPT ![r] = "finished"] /\ tag' = [tag EXCEPT ![r] = Served]
    <3>1. call'[r] = "finished" /\ tag'[r] = Served
      BY <1>1, <2>2 DEF TagTypes
    <3> QED
      BY <1>1, <1>2, <1>3, <1>5, <3>1 DEF Tagged
  <2> QED
    BY <1>2, <2>1, <2>2
<1>7. \A q \in Requests \ {r} : /\ call'[q] = call[q] /\ tokens'[q] = tokens[q]
                                /\ tag'[q] = tag[q] /\ min_steps'[q] = min_steps[q]
  BY <1>1, <1>2 DEF TagTypes
<1> QED
  BY <1>5, <1>6, <1>7, OneRequest

\* Interrupted responses are tagged like complete ones.
LEMMA TagInvariantAbort ==
  ASSUME TagInvariant, SyncInvariant', NEW s \in Servers, Served' = Served, Abort(s)
  PROVE  TagInvariant'
<1>1. /\ TagTypes /\ Served \in Nat /\ Served' \in Int
      /\ call \in [Requests -> CallStates] /\ server \in [Requests -> Servers]
  BY ServedType DEF TagInvariant, SyncInvariant, SyncTypes
<1>2. TagTypes'
  <2>1. global_steps[s] \in Int
    BY DEF TagInvariant, SyncInvariant, SyncTypes
  <2> QED
    BY <1>1, <2>1 DEF Abort, TagTypes
<1>3. ASSUME NEW r \in Requests PROVE Tagged(r)'
  <2>1. Tagged(r) /\ tokens'[r] = tokens[r] /\ min_steps'[r] = min_steps[r]
    BY DEF Abort, TagInvariant
  <2>2. CASE r \in Running(s)
    <3>1. call[r] = "running" /\ server[r] = s
      BY <2>2 DEF Running
    <3>2. global_steps[s] = Served
      BY <3>1, RunsServed DEF TagInvariant
    <3>3. call'[r] = "finished" /\ tag'[r] = Served
      BY <2>2, <3>2 DEF Abort
    <3> QED
      BY <1>1, <2>1, <3>1, <3>3 DEF Tagged
  <2>3. CASE r \notin Running(s)
    <3>1. call'[r] = call[r] /\ tag'[r] = tag[r]
      BY <2>3 DEF Abort
    <3> QED
      BY <1>1, <2>1, <3>1, TaggedKept
  <2> QED
    BY <2>2, <2>3
<1> QED
  BY <1>2, <1>3 DEF TagInvariant

LEMMA TagStepKeeps == TagInvariant /\ [Next]_vars => TagInvariant'
<1> SUFFICES ASSUME TagInvariant, [Next]_vars PROVE TagInvariant'
  OBVIOUS
<1>i. SyncInvariant /\ SyncInvariant'
  BY SyncStepKeeps DEF TagInvariant
<1>s. ASSUME UNCHANGED <<phase, version>> PROVE Served' = Served
  BY <1>s DEF Served
<1>m. ASSUME UNCHANGED callVars, Served' >= Served,
             \A r \in Requests : call[r] = "running" => Served' = Served
      PROVE  TagInvariant'
  <2>1. Served \in Int /\ Served' \in Int
    BY <1>i DEF Served, SyncInvariant, SyncTypes
  <2>2. ASSUME NEW r \in Requests PROVE Tagged(r)'
    BY <1>m, <2>1, TaggedKept DEF TagInvariant, callVars
  <2>3. TagTypes'
    BY <1>m DEF TagInvariant, TagTypes, callVars
  <2> QED
    BY <1>i, <2>2, <2>3 DEF TagInvariant
<1>1. ASSUME NEW r \in Requests, CallStep(r) PROVE TagInvariant'
  <2>0. Served' = Served
    BY <1>1, <1>s DEF CallStep, Call, Acquire, Send, Merge, serverVars
  <2>1. CASE Call(r)
    BY <1>i, <2>0, <2>1, CallMoves DEF Call, CallStates
  <2>2. CASE Acquire(r)
    BY <1>i, <2>0, <2>2, CallMoves DEF Acquire, CallStates
  <2>3. CASE Send(r)
    BY <1>i, <2>0, <2>3, CallMoves DEF Send, CallStates
  <2>4. CASE Merge(r)
    BY <1>i, <2>0, <2>4, TagInvariantMerge
  <2> QED
    BY <1>1, <2>1, <2>2, <2>3, <2>4 DEF CallStep
<1>2. ASSUME NEW r \in Requests, EngineStep(r) PROVE TagInvariant'
  <2>0. Served' = Served
    BY <1>2, <1>s DEF EngineStep, Admit, Refuse, Generate, serverVars
  <2>1. CASE Admit(r)
    BY <1>i, <2>0, <2>1, CallMoves DEF Admit, CallStates
  <2>2. CASE Refuse(r)
    BY <1>i, <2>0, <2>2, CallMoves DEF Refuse, CallStates
  <2>3. CASE Generate(r)
    BY <1>i, <2>0, <2>3, TagInvariantGenerate
  <2> QED
    BY <1>2, <2>1, <2>2, <2>3 DEF EngineStep
<1>3. ASSUME NEW s \in Servers, Release(s) PROVE TagInvariant'
  <2>1. UNCHANGED <<call, tokens, stop, tag, min_steps>> /\ Served' = Served
    BY <1>3, <1>s DEF Release, serverVars
  <2>2. TagTypes' /\ Served \in Int /\ Served' \in Int
    BY <1>i, <2>1, ServedType DEF TagInvariant, TagTypes
  <2>3. ASSUME NEW r \in Requests PROVE Tagged(r)'
    BY <2>1, <2>2, TaggedKept DEF TagInvariant
  <2> QED
    BY <1>i, <2>2, <2>3 DEF TagInvariant
<1>4. ASSUME NEW s \in Servers, SyncStep(s) PROVE TagInvariant'
  <2>1. CASE Abort(s)
    <3>1. ASSUME NEW t \in Servers PROVE (phase'[t] = "serving") <=> (phase[t] = "serving")
      BY <1>i, <2>1 DEF Abort, SyncInvariant, SyncTypes
    <3>2. Served' = Served
      BY <2>1, <3>1 DEF Abort, Served
    <3> QED
      BY <1>i, <2>1, <3>2, TagInvariantAbort
  <2>2. CASE LoadBegin(s) \/ LoadEnd(s) \/ TagWeights(s) \/ Resume(s)
    <3>1. UNCHANGED callVars
      BY <2>2 DEF LoadBegin, LoadEnd, TagWeights, Resume
    <3> QED
      BY <1>i, <1>m, <2>2, <3>1, ServedGrows
  <2> QED
    BY <1>4, <2>1, <2>2 DEF SyncStep
<1>5. CASE SyncBegin
  <2>1. UNCHANGED callVars
    BY <1>5 DEF SyncBegin
  <2> QED
    BY <1>i, <1>m, <1>5, <2>1, ServedGrows
<1>6. CASE UNCHANGED vars
  <2>1. UNCHANGED callVars /\ UNCHANGED <<phase, version>>
    BY <1>6 DEF vars, serverVars
  <2>2. Served' = Served /\ Served \in Nat
    BY <1>i, <1>s, <2>1, ServedType
  <2> QED
    BY <1>m, <2>1, <2>2
<1> QED
  BY <1>1, <1>2, <1>3, <1>4, <1>5, <1>6 DEF Next, Quiescent

\* The versions reported with a returned response enclose the versions of its
\* tokens, which come in order, whatever interrupted it and how often.
THEOREM TagsEnclose == Spec => []HonestTags
<1>1. TagInvariant => HonestTags
  <2> SUFFICES ASSUME TagInvariant, NEW r \in Requests, call[r] = "returned"
               PROVE  /\ \A i \in 1..Len(tokens[r]) : tokens[r][i] \in min_steps[r]..tag[r]
                      /\ \A i, j \in 1..Len(tokens[r]) : i < j => tokens[r][i] <= tokens[r][j]
    BY DEF HonestTags
  <2>1. tokens[r] \in Seq(Int) /\ min_steps[r] \in Int /\ tag[r] \in Int
    BY DEF TagInvariant, TagTypes
  <2>2. Between(tokens[r], min_steps[r], tag[r]) /\ Sorted(tokens[r])
    BY DEF TagInvariant, Tagged
  <2>3. \A i \in 1..Len(tokens[r]) : tokens[r][i] \in Int
    BY <2>1
  <2> QED
    BY <2>1, <2>2, <2>3 DEF Between, Sorted
<1> QED
  BY <1>1, TagInit, TagStepKeeps, PTL DEF Spec

=============================================================================

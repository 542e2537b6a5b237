--------------------------- MODULE TrainingProofs ---------------------------
(***************************************************************************)
(* The training loop.  First the checkpoints: the one a training job would *)
(* restart from can be loaded at every instant, whatever the               *)
(* configuration, as long as at least two checkpoints are kept.  Then the  *)
(* order of the driver's calls, with a header of its own below.            *)
(*                                                                         *)
(* The argument: a handler saves at most once per step, and once it starts *)
(* saving the tracker still names an earlier step.  That step's folders    *)
(* are the last the two managers remember, so making room, which always    *)
(* leaves one folder, does not touch them; and because room was made       *)
(* before the files are written, registering the new checkpoint removes    *)
(* nothing.  When the tracker moves, all three parts of the new folder     *)
(* have been written.                                                      *)
(***************************************************************************)
EXTENDS TrainingLoop, SequenceTheorems, TLAPS

SaveChain == {"save_actor", "save_critic", "save_data", "open_tracker", "write_tracker"}
OnlyNext  == SaveChain \cup {"load"}         \* calls that never wait behind another
Openers   == {"save", "fetch", "step"}     \* calls a save can follow from

(* no save can come out of the calls of s; at most one can *)
Idle(s) == \A i \in DOMAIN s : s[i] \notin OnlyNext \cup Openers
OneSave(s) ==
  \A i \in DOMAIN s :
    /\ s[i] \notin OnlyNext
    /\ \A j \in DOMAIN s : i # j => ~(s[i] \in Openers /\ s[j] \in Openers)

OneSaveAhead ==
  todo # <<>> => /\ OneSave(Rest)
                 /\ Head(todo) \in SaveChain \cup Openers => Idle(Rest)

TrainerParts == {"actor", "critic", "reward_model"}

(* a model is on the GPUs only during the call that loaded it *)
LoadedByCall ==
  /\ job = "down" => gpu = {}
  /\ job = "running" =>
       \A part \in gpu \cap TrainerParts :
          \/ \E call \in DOMAIN Loads : At(call) /\ Loads[call] = part
          \/ At("offload_params") /\ part = "actor"

StepInRange == job \in {"down", "running"} => global_steps \in Steps

Named == tracker \notin {0, Torn}
InUse == IF config.use_critic THEN {"actor", "critic"} ELSE {"actor"}
Complete(step) == /\ Loadable(disk[step].actor) /\ disk[step].data # Missing
                  /\ config.use_critic => Loadable(disk[step].critic)

DataSaved == At("open_tracker") \/ At("write_tracker")
CriticSaved == At("save_data") \/ DataSaved
ActorSaved == At("save_critic") \/ CriticSaved
Registered(model) == IF model = "actor" THEN ActorSaved ELSE CriticSaved
SaveOf(model) == IF model = "actor" THEN "save_actor" ELSE "save_critic"

PartsWritten ==
  /\ ActorSaved => Loadable(disk[global_steps].actor)
  /\ CriticSaved /\ config.use_critic => Loadable(disk[global_steps].critic)
  /\ DataSaved => disk[global_steps].data # Missing

TrackerBehind ==
  job = "running" /\ Named /\ ~At("load") =>
    /\ tracker <= global_steps
    /\ ~Idle(todo) => tracker < global_steps

(* what a checkpoint manager remembers: steps of this launch, by age, of   *)
(* which only the newest can be the one the tracker names                  *)
Rotation(model) == LET s == saved[model] IN
  /\ \A i, j \in 1 .. Len(s) : i < j => s[i] < s[j]
  /\ job = "down" \/ At("load") => s = <<>>
  /\ job = "running" =>
       /\ \A i \in 1 .. Len(s) : s[i] <= global_steps
       /\ ~Idle(todo) /\ ~Registered(model) =>
             \A i \in 1 .. Len(s) : s[i] < global_steps
  /\ Named /\ ~Registered(model) => \A i \in 1 .. Len(s) : i < Len(s) => s[i] # tracker
  /\ Registered(model) => s # <<>> /\ s[Len(s)] = global_steps
  /\ At(SaveOf(model)) /\ model \in gpu /\ config.keep > 1 => Len(s) < config.keep

SafeStore ==
  config.keep # 1 =>
    /\ Named => Complete(tracker)
    /\ PartsWritten
    /\ TrackerBehind
    /\ \A model \in InUse : Rotation(model)

-----------------------------------------------------------------------------
\* What the next call and the calls after it may be.

LEMMA IdleConcat ==
  ASSUME NEW s \in Seq(Calls), NEW t \in Seq(Calls), Idle(s), Idle(t)
  PROVE  s \o t \in Seq(Calls) /\ Idle(s \o t)
<1> DEFINE u == s \o t
<1>1. /\ u \in Seq(Calls)
      /\ \A i \in DOMAIN u : u[i] = IF i <= Len(s) THEN s[i] ELSE t[i - Len(s)]
      /\ DOMAIN u = 1 .. (Len(s) + Len(t))
  BY ConcatProperties, LenProperties
<1> HIDE DEF u
<1>2. DOMAIN s = 1 .. Len(s) /\ DOMAIN t = 1 .. Len(t) /\ Len(s) \in Nat /\ Len(t) \in Nat
  BY LenProperties
<1>3. ASSUME NEW i \in DOMAIN u PROVE u[i] \notin OnlyNext \cup Openers
  <2>1. CASE i <= Len(s)
    BY <1>1, <1>2, <2>1 DEF Idle
  <2>2. CASE i > Len(s)
    <3>1. i - Len(s) \in DOMAIN t
      BY <1>1, <1>2, <2>2
    <3> QED BY <1>1, <1>2, <2>2, <3>1 DEF Idle
  <2> QED BY <2>1, <2>2, <1>1, <1>2
<1> QED
  BY <1>1, <1>3 DEF Idle, u

LEMMA OneSaveConcat ==
  ASSUME NEW s \in Seq(Calls), NEW t \in Seq(Calls),
         (OneSave(s) /\ Idle(t)) \/ (Idle(s) /\ OneSave(t))
  PROVE  s \o t \in Seq(Calls) /\ OneSave(s \o t)
<1> DEFINE u == s \o t
<1>1. /\ u \in Seq(Calls)
      /\ \A i \in DOMAIN u : u[i] = IF i <= Len(s) THEN s[i] ELSE t[i - Len(s)]
      /\ DOMAIN u = 1 .. (Len(s) + Len(t))
  BY ConcatProperties, LenProperties
<1> HIDE DEF u
<1>2. DOMAIN s = 1 .. Len(s) /\ DOMAIN t = 1 .. Len(t) /\ Len(s) \in Nat /\ Len(t) \in Nat
  BY LenProperties
<1>3. ASSUME NEW i \in DOMAIN u
      PROVE  \/ i <= Len(s) /\ i \in DOMAIN s /\ u[i] = s[i]
             \/ i > Len(s) /\ i - Len(s) \in DOMAIN t /\ u[i] = t[i - Len(s)]
  BY <1>1, <1>2
<1>4. ASSUME NEW i \in DOMAIN u PROVE u[i] \notin OnlyNext
  BY <1>3 DEF OneSave, Idle
<1>5. ASSUME NEW i \in DOMAIN u, NEW j \in DOMAIN u, i # j, u[i] \in Openers, u[j] \in Openers
      PROVE  FALSE
  <2>1. i \in Nat /\ j \in Nat
    BY <1>1, <1>2
  <2>2. CASE i <= Len(s) /\ j <= Len(s)
    BY <1>2, <1>3, <1>5, <2>1, <2>2 DEF OneSave, Idle
  <2>3. CASE i > Len(s) /\ j > Len(s)
    BY <1>2, <1>3, <1>5, <2>1, <2>3 DEF OneSave, Idle
  <2>4. CASE (i <= Len(s) /\ j > Len(s)) \/ (j <= Len(s) /\ i > Len(s))
    BY <1>2, <1>3, <1>5, <2>1, <2>4 DEF Idle
  <2> QED BY <1>2, <2>1, <2>2, <2>3, <2>4
<1> QED
  BY <1>1, <1>4, <1>5 DEF OneSave, u

\* The calls of a plan are made in order.
LEMMA PlanHead ==
  ASSUME NEW s \in Seq(Calls), s # <<>>, OneSave(s)
  PROVE  /\ OneSave(Tail(s)) /\ Head(s) \in Calls \ OnlyNext
         /\ Head(s) \in Openers => Idle(Tail(s))
<1> DEFINE more == Tail(s)
<1>1. /\ more \in Seq(Calls) /\ Len(more) = Len(s) - 1
      /\ \A i \in 1 .. Len(more) : more[i] = s[i + 1]
      /\ DOMAIN more = 1 .. Len(more) /\ DOMAIN s = 1 .. Len(s)
      /\ Head(s) = s[1] /\ Len(s) \in Nat /\ Len(s) # 0
  BY HeadTailProperties, LenProperties, EmptySeq
<1> HIDE DEF more
<1>2. \A i \in DOMAIN more : i + 1 \in DOMAIN s /\ i + 1 # 1
  BY <1>1
<1>3. 1 \in DOMAIN s /\ s[1] \in Calls
  BY <1>1
<1>4. OneSave(more)
  BY <1>1, <1>2 DEF OneSave
<1>5. Head(s) \in Openers => Idle(more)
  BY <1>1, <1>2, <1>3 DEF OneSave, Idle
<1> QED BY <1>1, <1>3, <1>4, <1>5 DEF more, OneSave

LEMMA NewPlan ==
  ASSUME NEW s \in Seq(Calls), OneSave(s), todo' = s
  PROVE  /\ todo' \in Seq(Calls) /\ OneSaveAhead'
         /\ todo' # <<>> => Head(todo') \in Calls \ OnlyNext
BY PlanHead DEF OneSaveAhead, Rest, OnlyNext

\* The handler is done with a call.
LEMMA Pop ==
  ASSUME todo \in Seq(Calls), todo # <<>>, OneSaveAhead, todo' = Rest
  PROVE  /\ todo' \in Seq(Calls) /\ OneSaveAhead'
         /\ Head(todo) \in SaveChain \cup Openers => Idle(todo')
         /\ ~Idle(todo') => ~Idle(todo)
         /\ todo' # <<>> => Head(todo') \in Calls \ OnlyNext
<1>1. /\ Rest \in Seq(Calls) /\ Len(Rest) = Len(todo) - 1
      /\ \A i \in 1 .. Len(Rest) : Rest[i] = todo[i + 1]
      /\ Len(todo) \in Nat
      /\ DOMAIN Rest = 1 .. Len(Rest) /\ DOMAIN todo = 1 .. Len(todo)
  BY HeadTailProperties, LenProperties DEF Rest
<1>2. ~Idle(Rest) => ~Idle(todo)
  BY <1>1 DEF Idle
<1> QED
  BY <1>1, <1>2, NewPlan DEF OneSaveAhead

\* The handler goes on with another call.
LEMMA Replace ==
  ASSUME todo \in Seq(Calls), todo # <<>>, OneSaveAhead,
         NEW call \in Calls, todo' = Then(call),
         call \in SaveChain => Head(todo) \in SaveChain \cup Openers,
         call \notin Openers \cup {"load"}
  PROVE  /\ todo' \in Seq(Calls) /\ OneSaveAhead'
         /\ todo' # <<>> /\ Head(todo') = call
         /\ ~Idle(todo') => ~Idle(todo)
<1>1. /\ Rest \in Seq(Calls) /\ Len(Rest) = Len(todo) - 1
      /\ \A i \in 1 .. Len(Rest) : Rest[i] = todo[i + 1]
      /\ Head(todo) = todo[1]
      /\ Len(todo) \in Nat /\ Len(todo) # 0
      /\ DOMAIN Rest = 1 .. Len(Rest) /\ DOMAIN todo = 1 .. Len(todo)
  BY HeadTailProperties, LenProperties, EmptySeq DEF Rest
<1>2. /\ <<call>> \o Rest \in Seq(Calls) /\ <<call>> \o Rest # <<>>
      /\ Head(<<call>> \o Rest) = call /\ Tail(<<call>> \o Rest) = Rest
  BY <1>1
<1>3. DOMAIN (<<call>> \o Rest) = 1 .. Len(todo)
      /\ \A i \in 2 .. Len(todo) : (<<call>> \o Rest)[i] = todo[i]
      /\ (<<call>> \o Rest)[1] = call
  BY <1>1
<1>4. todo' = <<call>> \o Rest
  BY DEF Then
<1>5. OneSaveAhead'
  BY <1>2, <1>4 DEF OneSaveAhead, Rest
<1>6. ~Idle(<<call>> \o Rest) => ~Idle(todo)
  <2> DEFINE u == <<call>> \o Rest
  <2> SUFFICES ASSUME NEW i \in DOMAIN u, u[i] \in OnlyNext \cup Openers
               PROVE  \E j \in DOMAIN todo : todo[j] \in OnlyNext \cup Openers
    BY DEF Idle
  <2>1. CASE i = 1
    <3>1. Head(todo) \in SaveChain \cup Openers /\ 1 \in DOMAIN todo
      BY <1>1, <1>3, <2>1 DEF OnlyNext
    <3> QED BY <1>1, <3>1 DEF OnlyNext
  <2>2. CASE i # 1
    <3>1. i \in 2 .. Len(todo)
      BY <1>1, <1>3, <2>2
    <3>2. i \in DOMAIN todo /\ todo[i] = u[i]
      BY <1>1, <1>3, <3>1
    <3> QED BY <3>2
  <2> QED BY <2>1, <2>2
<1> QED BY <1>2, <1>4, <1>5, <1>6

LEMMA ShortPlans ==
  /\ \A call \in Calls \ (OnlyNext \cup Openers) : <<call>> \in Seq(Calls) /\ Idle(<<call>>)
  /\ \A call \in Openers : <<call>> \in Seq(Calls) /\ OneSave(<<call>>)
  /\ <<>> \in Seq(Calls) /\ Idle(<<>>) /\ OneSave(<<>>)
BY DEF Calls, Idle, OneSave, SaveChain, OnlyNext, Openers

LEMMA IdleIsOneSave ==
  ASSUME NEW s \in Seq(Calls), Idle(s)
  PROVE  OneSave(s)
BY DEF Idle, OneSave

LEMMA ValidatePlan == ValidateCalls \in Seq(Calls) /\ Idle(ValidateCalls)
<1>1. /\ <<"validate">> \in Seq(Calls) /\ Idle(<<"validate">>)
      /\ <<"sleep", "reward", "push">> \in Seq(Calls) /\ Idle(<<"sleep", "reward", "push">>)
  BY DEF Calls, Idle, SaveChain, OnlyNext, Openers
<1>2. If(config.use_rm, <<"sleep", "reward", "push">>) \in Seq(Calls)
      /\ Idle(If(config.use_rm, <<"sleep", "reward", "push">>))
  BY <1>1, ShortPlans DEF If
<1> QED BY <1>1, <1>2, IdleConcat DEF ValidateCalls

LEMMA CriticPlan == CriticCalls \in Seq(Calls) /\ Idle(CriticCalls)
<1>1. <<"values", "update_critic">> \in Seq(Calls) /\ Idle(<<"values", "update_critic">>)
  BY DEF Calls, Idle, SaveChain, OnlyNext, Openers
<1> QED BY <1>1, ShortPlans DEF If, CriticCalls

\* An optional part of a plan.
LEMMA OptionalPlan ==
  ASSUME NEW s \in Seq(Calls), NEW condition
  PROVE  /\ If(condition, s) \in Seq(Calls)
         /\ Idle(s) => Idle(If(condition, s))
         /\ OneSave(s) => OneSave(If(condition, s))
BY ShortPlans DEF If

LEMMA ColocatedPlan == ColocatedCalls \in Seq(Calls) /\ OneSave(ColocatedCalls)
<1> DEFINE a == <<"generate", "sleep">>
           b == a \o If(config.use_rm, <<"reward">>)
           c == b \o <<"log_prob">>
           d == c \o CriticCalls
           e == d \o If(ActorTrains, <<"update_actor", "save", "push">>)
           f == e \o If(Validates, ValidateCalls)
<1>1. a \in Seq(Calls) /\ Idle(a)
  BY DEF Calls, Idle, SaveChain, OnlyNext, Openers
<1>2. /\ <<"reward">> \in Seq(Calls) /\ Idle(<<"reward">>)
      /\ <<"log_prob">> \in Seq(Calls) /\ Idle(<<"log_prob">>)
      /\ <<"finish">> \in Seq(Calls) /\ Idle(<<"finish">>)
  BY DEF Calls, Idle, SaveChain, OnlyNext, Openers
<1>3. /\ <<"update_actor", "save", "push">> \in Seq(Calls)
      /\ OneSave(<<"update_actor", "save", "push">>)
  BY DEF Calls, OneSave, SaveChain, OnlyNext, Openers
<1> HIDE DEF a
<1>4. b \in Seq(Calls) /\ Idle(b)
  BY <1>1, <1>2, OptionalPlan, IdleConcat
<1> HIDE DEF b
<1>5. c \in Seq(Calls) /\ Idle(c)
  BY <1>2, <1>4, IdleConcat
<1> HIDE DEF c
<1>6. d \in Seq(Calls) /\ Idle(d)
  BY <1>5, CriticPlan, IdleConcat
<1> HIDE DEF d
<1>7. e \in Seq(Calls) /\ OneSave(e)
  BY <1>3, <1>6, OptionalPlan, OneSaveConcat
<1> HIDE DEF e
<1>8. f \in Seq(Calls) /\ OneSave(f)
  BY <1>7, ValidatePlan, OptionalPlan, OneSaveConcat
<1> HIDE DEF f
<1>9. f \o <<"finish">> \in Seq(Calls) /\ OneSave(f \o <<"finish">>)
  BY <1>2, <1>8, OneSaveConcat
<1> QED BY <1>9 DEF ColocatedCalls, a, b, c, d, e, f

LEMMA PipelinedPlan == PipelinedCalls \in Seq(Calls) /\ OneSave(PipelinedCalls)
<1> DEFINE a == <<"await", "push">>
           b == a \o If(~IsLastStep, <<"start">>)
           c == b \o <<"log_prob">>
           d == c \o CriticCalls
           e == d \o If(ActorTrains, <<"update_actor">>)
           f == e \o If(Validates, ValidateCalls)
<1>1. a \in Seq(Calls) /\ Idle(a)
  BY DEF Calls, Idle, SaveChain, OnlyNext, Openers
<1>2. /\ <<"start">> \in Seq(Calls) /\ Idle(<<"start">>)
      /\ <<"log_prob">> \in Seq(Calls) /\ Idle(<<"log_prob">>)
      /\ <<"update_actor">> \in Seq(Calls) /\ Idle(<<"update_actor">>)
  BY DEF Calls, Idle, SaveChain, OnlyNext, Openers
<1>3. <<"save", "finish">> \in Seq(Calls) /\ OneSave(<<"save", "finish">>)
  BY DEF Calls, OneSave, SaveChain, OnlyNext, Openers
<1> HIDE DEF a
<1>4. b \in Seq(Calls) /\ Idle(b)
  BY <1>1, <1>2, OptionalPlan, IdleConcat
<1> HIDE DEF b
<1>5. c \in Seq(Calls) /\ Idle(c)
  BY <1>2, <1>4, IdleConcat
<1> HIDE DEF c
<1>6. d \in Seq(Calls) /\ Idle(d)
  BY <1>5, CriticPlan, IdleConcat
<1> HIDE DEF d
<1>7. e \in Seq(Calls) /\ Idle(e)
  BY <1>2, <1>6, OptionalPlan, IdleConcat
<1> HIDE DEF e
<1>8. f \in Seq(Calls) /\ Idle(f)
  BY <1>7, ValidatePlan, OptionalPlan, IdleConcat
<1> HIDE DEF f
<1>9. f \o <<"save", "finish">> \in Seq(Calls) /\ OneSave(f \o <<"save", "finish">>)
  BY <1>3, <1>8, OneSaveConcat
<1> QED BY <1>9 DEF PipelinedCalls, a, b, c, d, e, f

LEMMA BeginPlan ==
  ASSUME BeginTraining
  PROVE  /\ todo' \in Seq(Calls) /\ OneSaveAhead' /\ Idle(todo')
         /\ todo' # <<>> => Head(todo') \in Calls \ OnlyNext
<1> DEFINE a == <<"push">> \o ValidateCalls
<1>1. /\ <<"push">> \in Seq(Calls) /\ Idle(<<"push">>)
      /\ <<"first_step">> \in Seq(Calls) /\ Idle(<<"first_step">>)
  BY DEF Calls, Idle, SaveChain, OnlyNext, Openers
<1>2. a \in Seq(Calls) /\ Idle(a)
  BY <1>1, ValidatePlan, IdleConcat
<1> HIDE DEF a
<1>3. a \o <<"first_step">> \in Seq(Calls) /\ Idle(a \o <<"first_step">>)
  BY <1>1, <1>2, IdleConcat
<1>4. todo' = a \o <<"first_step">>
  BY DEF BeginTraining, a
<1> QED BY <1>3, <1>4, NewPlan, IdleIsOneSave

-----------------------------------------------------------------------------
\* The checkpoint directory and the rotation.

LEMMA DiskTypes ==
  ASSUME NEW d \in [Steps -> Folder], NEW part \in {"actor", "critic"},
         NEW steps, NEW step,
         NEW content \in Seq(Nat) \cup {Missing, Partial}
  PROVE  /\ Remove(d, steps, part) \in [Steps -> Folder]
         /\ Write(d, step, part, content) \in [Steps -> Folder]
BY DEF Folder, Remove, Write

\* What rotation leaves is the newest end of the list, never empty before
\* the new checkpoint is written.
LEMMA CapacityEnsured ==
  ASSUME NEW s \in Seq(Steps), NEW keep \in Nat
  PROVE  LET kept == EnsureCapacity(s, keep) IN
         /\ kept \in Seq(Steps) /\ Len(kept) <= Len(s)
         /\ \A i \in 1 .. Len(kept) : kept[i] = s[i + (Len(s) - Len(kept))]
         /\ keep > 1 /\ Len(s) > 0 => Len(kept) > 0
         /\ keep > 1 => Len(kept) < keep
         /\ keep <= 1 => kept = s
<1>0. Len(s) \in Nat /\ \A i \in 1 .. Len(s) : s[i] \in Steps
  BY LenProperties
<1>1. CASE keep > 1 /\ Len(s) >= keep
  <2> DEFINE m == (Len(s) - (keep - 1)) + 1
  <2>1. EnsureCapacity(s, keep) = SubSeq(s, m, Len(s))
    BY <1>1 DEF EnsureCapacity, KeepNewest
  <2>2. m \in Nat /\ m >= 1 /\ m <= Len(s) /\ (Len(s) - m) + 1 = keep - 1
    BY <1>0, <1>1
  <2> HIDE DEF m
  <2>3. \A i \in m .. Len(s) : s[i] \in Steps
    BY <1>0, <2>2
  <2>4. /\ SubSeq(s, m, Len(s)) \in Seq(Steps)
        /\ Len(SubSeq(s, m, Len(s))) = keep - 1
        /\ \A i \in 1 .. keep - 1 : SubSeq(s, m, Len(s))[i] = s[(m + i) - 1]
    BY <1>0, <2>2, <2>3, SubSeqProperties
  <2>5. \A i \in 1 .. keep - 1 : (m + i) - 1 = i + (Len(s) - (keep - 1))
    BY <1>0, <1>1 DEF m
  <2> QED BY <1>0, <1>1, <2>1, <2>4, <2>5
<1>2. CASE ~(keep > 1 /\ Len(s) >= keep)
  <2>1. EnsureCapacity(s, keep) = s
    BY <1>2 DEF EnsureCapacity
  <2> QED BY <1>0, <1>2, <2>1
<1> QED BY <1>1, <1>2

LEMMA CheckpointRegistered ==
  ASSUME NEW s \in Seq(Steps), NEW step \in Steps, NEW keep \in Nat
  PROVE  /\ RegisterCheckpoint(s, step, keep) \in Seq(Steps)
         /\ keep = 0 \/ Len(s) < keep
              => RegisterCheckpoint(s, step, keep) = Append(s, step)
<1> DEFINE all == Append(s, step)
<1>1. all \in Seq(Steps) /\ Len(all) = Len(s) + 1 /\ Len(s) \in Nat
  BY AppendProperties, LenProperties
<1> HIDE DEF all
<1>2. CASE keep > 0 /\ Len(all) > keep
  <2> DEFINE m == (Len(all) - keep) + 1
  <2>1. m \in Nat /\ m >= 1 /\ \A i \in m .. Len(all) : all[i] \in Steps
    BY <1>1, <1>2
  <2>2. SubSeq(all, m, Len(all)) \in Seq(Steps)
    BY <1>1, <2>1, SubSeqProperties
  <2>3. RegisterCheckpoint(s, step, keep) = SubSeq(all, m, Len(all))
    BY <1>2 DEF RegisterCheckpoint, KeepNewest, all
  <2> QED BY <1>1, <1>2, <2>2, <2>3
<1>3. CASE ~(keep > 0 /\ Len(all) > keep)
  BY <1>1, <1>3 DEF RegisterCheckpoint, all
<1> QED BY <1>2, <1>3

-----------------------------------------------------------------------------
\* Types, the plan of the driver and the range of the steps.

TypeInv == TypeOK /\ OneSaveAhead /\ StepInRange

LEMMA ConfigType ==
  ASSUME config \in Configs
  PROVE  config \in ConfigFields /\ config.total_steps <= MaxSteps
BY TrainingAssumption DEF ConfigFields

LEMMA DivNat ==
  ASSUME NEW a \in Nat, NEW b \in Nat, b > 0 PROVE a \div b \in Nat
<1> DEFINE q == a \div b
           r == a % b
<1>1. q \in Int /\ r \in Int /\ r < b /\ a = (b * q) + r
  BY SMT
<1> HIDE DEF q, r
<1>2. ASSUME q < 0 PROVE FALSE
  <2>1. b * q <= b * (-1)
    BY <1>1, <1>2
  <2> QED BY <1>1, <2>1
<1> QED BY <1>1, <1>2 DEF q

LEMMA FreshTypes ==
  ASSUME NEW c \in ConfigFields
  PROVE  /\ [awake |-> c.pipelined, weights |-> <<>>] \in [awake: BOOLEAN, weights: Seq(Nat)]
         /\ [actor |-> <<>>, critic |-> <<>>] \in [Models -> Seq(Steps)]
         /\ [prompts |-> 0, weights |-> None] \in Batch
<1>1. c.pipelined \in BOOLEAN
  BY DEF ConfigFields
<1>2. /\ DOMAIN [actor |-> <<>>, critic |-> <<>>] = Models
      /\ \A m \in Models : [actor |-> <<>>, critic |-> <<>>][m] = <<>>
  BY DEF Models
<1>3. [actor |-> <<>>, critic |-> <<>>] = [m \in Models |-> <<>>]
  BY DEF Models
<1>4. [m \in Models |-> <<>>] \in [Models -> Seq(Steps)]
  OBVIOUS
<1>5. <<>> \in Seq(Nat)
  OBVIOUS
<1>6. [prompts |-> 0, weights |-> None] \in Batch
  BY DEF Batch
<1>7. [awake |-> c.pipelined, weights |-> <<>>] \in [awake: BOOLEAN, weights: Seq(Nat)]
  BY <1>1, <1>5
<1> QED BY <1>3, <1>4, <1>6, <1>7

LEMMA InitTypes == Init => TypeInv
<1> SUFFICES ASSUME Init PROVE TypeInv
  OBVIOUS
<1>1. /\ config \in ConfigFields /\ config \in Configs
      /\ job = "down" /\ launches = 0 /\ todo = <<>>
      /\ global_steps = 0 /\ epoch = 0 /\ loader = 0
      /\ batch = [prompts |-> 0, weights |-> None] /\ inflight = None
      /\ actor = <<>> /\ critic = <<>> /\ gpu = {}
      /\ replicas = [awake |-> config.pipelined, weights |-> <<>>]
      /\ saved = [actor |-> <<>>, critic |-> <<>>]
      /\ disk = [s \in Steps |-> EmptyFolder] /\ tracker = 0
  BY TrainingAssumption DEF Init, FreshMemory
<1>2. disk \in [Steps -> Folder] /\ 0 \in Steps
  BY <1>1, TrainingAssumption DEF EmptyFolder, Folder, Steps
<1>3. todo \in Seq(Calls) /\ OneSaveAhead
  BY <1>1, ShortPlans DEF OneSaveAhead
<1> QED
  BY <1>1, <1>2, <1>3, FreshTypes DEF TypeInv, TypeOK, StepInRange

LEMMA FirstPlans ==
  /\ <<"fetch">> \in Seq(Calls) /\ OneSave(<<"fetch">>)
  /\ <<"start", "step">> \in Seq(Calls) /\ OneSave(<<"start", "step">>)
BY DEF Calls, OneSave, SaveChain, OnlyNext, Openers

LEMMA NextTypes == TypeInv /\ [Next]_vars => TypeInv'
<1> SUFFICES ASSUME TypeInv, [Next]_vars PROVE TypeInv'
  OBVIOUS
<1> USE DEF TypeInv, TypeOK, StepInRange
<1>0. config \in ConfigFields /\ config.total_steps <= MaxSteps
  BY ConfigType
<1>a. CASE UNCHANGED vars
  BY <1>a DEF vars, identity, place, batches, models, hardware, store,
       OneSaveAhead, Rest
<1>b. CASE Launch
  <2>1. <<"load">> \in Seq(Calls)
    BY DEF Calls
  <2>2. OneSaveAhead' /\ todo' \in Seq(Calls)
    BY <1>b, <2>1, ShortPlans DEF Launch, OneSaveAhead, Rest, SaveChain, Openers
  <2> QED BY <1>b, <2>2 DEF Launch, At, identity, place, batches, models,
       hardware, store
<1>c. CASE Crash \/ Relaunch
  <2>1. OneSaveAhead' /\ todo' \in Seq(Calls)
    BY <1>c, ShortPlans, NewPlan DEF Crash, Relaunch, LoseMemory, FreshMemory
  <2>2. /\ config' = config /\ job' = "down" /\ launches' = launches
        /\ global_steps' = 0 /\ epoch' = 0 /\ loader' = 0
        /\ batch' = [prompts |-> 0, weights |-> None] /\ inflight' = None
        /\ actor' = <<>> /\ critic' = <<>> /\ gpu' = {}
        /\ replicas' = [awake |-> config.pipelined, weights |-> <<>>]
        /\ saved' = [actor |-> <<>>, critic |-> <<>>]
        /\ disk' = disk /\ tracker' = tracker
    BY <1>c DEF Crash, Relaunch, LoseMemory, FreshMemory, identity
  <2>3. 0 \in Steps
    BY TrainingAssumption DEF Steps
  <2> QED BY <1>0, <2>1, <2>2, <2>3, FreshTypes
<1>1. CASE LoadCheckpoint
  <2>1. todo' \in Seq(Calls) /\ OneSaveAhead'
    BY <1>1, BeginPlan DEF LoadCheckpoint
  <2>2. /\ global_steps' \in Steps /\ loader' \in Nat
        /\ actor' \in Seq(Nat) /\ critic' \in Seq(Nat)
    <3> DEFINE step == FindLatest(disk, tracker)
    <3>1. step \in Steps
      BY <1>1, TrainingAssumption DEF LoadCheckpoint, FindLatest, Steps
    <3>2. disk[step] \in Folder
      BY <3>1
    <3> HIDE DEF step
    <3>3. CASE step = 0 /\ UNCHANGED <<models, global_steps, loader>>
      BY <1>1, <3>3 DEF LoadCheckpoint, At, models
    <3>4. CASE /\ Loadable(disk[step].actor)
               /\ config.use_critic => Loadable(disk[step].critic)
               /\ global_steps' = step /\ actor' = disk[step].actor
               /\ critic' = IF config.use_critic THEN disk[step].critic ELSE critic
               /\ loader' = RestoredPosition(step)
      BY <3>1, <3>2, <3>4 DEF Loadable, Folder, RestoredPosition
    <3> QED BY <1>1, <3>3, <3>4 DEF LoadCheckpoint, step
  <2> QED BY <1>1, <2>1, <2>2 DEF LoadCheckpoint, Steps, identity, batches, hardware, store
<1>2. CASE LoadFails \/ NoMoreEpochs \/ AwaitFails
  <2>1. todo' \in Seq(Calls) /\ OneSaveAhead'
    BY <1>2, TRUE DEF LoadFails, NoMoreEpochs, AwaitFails, OneSaveAhead, Rest
  <2> QED BY <1>2, <2>1 DEF LoadFails, NoMoreEpochs, AwaitFails, At, identity,
       place, batches, models, hardware, store
<1>3. CASE FirstStep
  <2>1. todo' \in Seq(Calls) /\ OneSaveAhead'
    BY <1>3, FirstPlans, NewPlan DEF FirstStep
  <2>2. epoch' \in Nat /\ global_steps' \in Steps
    <3>1. global_steps \in Nat /\ global_steps \div StepsPerEpoch \in Nat
      <4>1. StepsPerEpoch \in Nat /\ StepsPerEpoch > 0 /\ global_steps \in Nat
        BY TrainingAssumption
      <4> QED BY <4>1, DivNat
    <3>2. epoch' \in Nat
      BY <1>3, <3>1 DEF FirstStep
    <3>3. global_steps' \in Steps
      BY <1>3, <3>1, TrainingAssumption DEF FirstStep, Steps
    <3> QED BY <3>2, <3>3
  <2> QED BY <1>3, <2>1, <2>2 DEF FirstStep, Steps, At,
       identity, place, batches, models, hardware, store
<1>4. CASE FitStep
  <2>1. todo' \in Seq(Calls) /\ OneSaveAhead'
    BY <1>4, PipelinedPlan, NewPlan DEF FitStep
  <2> QED BY <1>4, <2>1 DEF FitStep, At, identity, place, batches, models,
       hardware, store
<1>5. CASE Fetch
  <2>1. todo' \in Seq(Calls) /\ OneSaveAhead'
    BY <1>5, ColocatedPlan, NewPlan DEF Fetch
  <2>2. loader' \in Nat /\ loader' >= 1 /\ epoch' \in Nat
    BY <1>5, TrainingAssumption DEF Fetch, LoaderYields
  <2>3. batch' \in Batch
    BY <1>5, <2>2 DEF Fetch, Batch
  <2> QED BY <1>5, <2>1, <2>2, <2>3 DEF Fetch, At, identity, place, batches, models, hardware, store
<1>6. CASE Generate
  <2>1. todo' \in Seq(Calls) /\ OneSaveAhead'
    BY <1>6, Pop DEF Generate, At
  <2> QED BY <1>6, <2>1 DEF Generate, Batch, At, identity, place, batches, models,
       hardware, store
<1>7. CASE StartGeneration
  <2>1. todo' \in Seq(Calls) /\ OneSaveAhead'
    BY <1>7, Pop DEF StartGeneration, At
  <2>2. CASE OutOfData
    BY <1>7, <2>1, <2>2 DEF StartGeneration, identity, place, batches, models, hardware, store
  <2>3. CASE ~OutOfData
    <3>1. loader' \in Nat /\ loader' >= 1 /\ epoch' \in Nat
      <4>1. LoaderYields /\ loader \in Nat /\ epoch \in Nat
        BY <1>7, <2>3 DEF StartGeneration
      <4> QED BY <4>1 DEF LoaderYields
    <3>2. inflight' \in Batch
      BY <1>7, <2>3, <3>1 DEF StartGeneration, Batch
    <3> QED BY <1>7, <2>1, <3>1, <3>2 DEF StartGeneration, identity, place, batches, models, hardware, store
  <2> QED BY <2>2, <2>3
<1>8. CASE AwaitGeneration
  <2>1. todo' \in Seq(Calls) /\ OneSaveAhead'
    BY <1>8, Pop DEF AwaitGeneration, At
  <2> QED BY <1>8, <2>1 DEF AwaitGeneration, Batch, At, identity, place, batches,
       models, hardware, store
<1>9. CASE SleepReplicas
  <2>1. todo' \in Seq(Calls) /\ OneSaveAhead'
    BY <1>9, Pop DEF SleepReplicas, At
  <2> QED BY <1>9, <2>1, <1>0 DEF SleepReplicas, ConfigFields, At, identity,
       place, batches, models, hardware, store
<1>10. CASE Validate
  <2>1. todo' \in Seq(Calls) /\ OneSaveAhead'
    BY <1>10, Pop DEF Validate, At
  <2> QED BY <1>10, <2>1 DEF Validate, At, identity, place, batches, models,
       hardware, store
<1>11. CASE PushColocated
  <2>1. todo' \in Seq(Calls) /\ OneSaveAhead'
    BY <1>11, Replace DEF PushColocated, At, Calls, SaveChain, OnlyNext, Openers
  <2> QED BY <1>11, <2>1 DEF PushColocated, At, identity, place, batches, models,
       hardware, store
<1>12. CASE SendParams
  <2>1. todo' \in Seq(Calls) /\ OneSaveAhead'
    BY <1>12, Replace DEF SendParams, At, Calls, SaveChain, OnlyNext, Openers
  <2> QED BY <1>12, <2>1 DEF SendParams, At, identity, place, batches, models,
       hardware, store
<1>13. CASE OffloadParams
  <2>1. todo' \in Seq(Calls) /\ OneSaveAhead'
    BY <1>13, Replace DEF OffloadParams, At, Calls, SaveChain, OnlyNext, Openers
  <2> QED BY <1>13, <2>1 DEF OffloadParams, At, identity, place, batches, models,
       hardware, store
<1>14. CASE ResumeKvCache
  <2>1. todo' \in Seq(Calls) /\ OneSaveAhead'
    BY <1>14, Pop DEF ResumeKvCache, At
  <2> QED BY <1>14, <2>1 DEF ResumeKvCache, At, identity, place, batches, models,
       hardware, store
<1>15. CASE PushStandalone
  <2>1. todo' \in Seq(Calls) /\ OneSaveAhead'
    BY <1>15, Pop DEF PushStandalone, At
  <2> QED BY <1>15, <2>1 DEF PushStandalone, At, identity, place, batches, models,
       hardware, store
<1>16. CASE Infer
  <2>1. todo' \in Seq(Calls) /\ OneSaveAhead'
    BY <1>16, Pop DEF Infer, OffloadModel, Computes, At
  <2> QED BY <1>16, <2>1 DEF Infer, OffloadModel, Computes, Loads, At, identity,
       place, batches, models, hardware, store
<1>17. CASE UpdateCritic
  <2>1. todo' \in Seq(Calls) /\ OneSaveAhead'
    BY <1>17, Pop DEF UpdateCritic, OffloadModel, Computes, At
  <2> QED BY <1>17, <2>1 DEF UpdateCritic, OffloadModel, Computes, Loads, Batch,
       At, identity, place, batches, models, hardware, store
<1>18. CASE UpdateActor
  <2>1. todo' \in Seq(Calls) /\ OneSaveAhead'
    BY <1>18, Pop DEF UpdateActor, OffloadModel, Computes, At
  <2> QED BY <1>18, <2>1 DEF UpdateActor, OffloadModel, Computes, Loads, Batch,
       At, identity, place, batches, models, hardware, store
<1>19. CASE Save
  <2>1. todo' \in Seq(Calls) /\ OneSaveAhead'
    BY <1>19, Pop, Replace DEF Save, At, Calls, SaveChain, OnlyNext, Openers
  <2> QED BY <1>19, <2>1 DEF Save, At, identity, place, batches, models, hardware,
       store
<1>20. CASE SaveData
  <2>1. todo' \in Seq(Calls) /\ OneSaveAhead'
    BY <1>20, Replace DEF SaveData, At, Calls, SaveChain, OnlyNext, Openers
  <2> QED BY <1>20, <2>1 DEF SaveData, Write, Folder, At, identity, place,
       batches, models, hardware, store
<1>21. CASE OpenTracker
  <2>1. todo' \in Seq(Calls) /\ OneSaveAhead'
    BY <1>21, Replace DEF OpenTracker, At, Calls, SaveChain, OnlyNext, Openers
  <2> QED BY <1>21, <2>1 DEF OpenTracker, At, identity, place, batches, models,
       hardware, store
<1>22. CASE WriteTracker
  <2>1. todo' \in Seq(Calls) /\ OneSaveAhead'
    BY <1>22, Pop DEF WriteTracker, At
  <2> QED BY <1>22, <2>1 DEF WriteTracker, At, identity, place, batches, models,
       hardware, store
<1>23. CASE FinishStep
  <2>1. todo' \in Seq(Calls) /\ OneSaveAhead'
    BY <1>23, ShortPlans, NewPlan, IdleIsOneSave DEF FinishStep, Openers
  <2>2. global_steps' \in Nat /\ (~IsLastStep => global_steps' \in Steps)
    <3>1. /\ global_steps' = global_steps + 1 /\ global_steps \in Nat
          /\ config.total_steps \in Nat /\ config.total_steps <= MaxSteps /\ MaxSteps \in Nat
      BY <1>0, <1>23, TrainingAssumption DEF FinishStep, ConfigFields
    <3> QED BY <3>1 DEF IsLastStep, Steps
  <2>3. job' \in {"running", "done"} /\ (job' = "running" => ~IsLastStep)
    BY <1>23 DEF FinishStep
  <2> QED BY <1>23, <2>1, <2>2, <2>3 DEF FinishStep, identity, batches, models, hardware, store
<1>24. CASE SaveActor
  <2>1. todo' \in Seq(Calls) /\ OneSaveAhead'
    BY <1>24, Replace DEF SaveActor, OffloadModel, Computes, At, Calls, SaveChain, OnlyNext,
         Openers
  <2>2. disk' \in [Steps -> Folder]
    BY <1>24, DiskTypes DEF SaveActor, Register
  <2>3. global_steps \in Steps /\ "actor" \in Models /\ config.keep \in Nat
    BY <1>0, <1>24 DEF SaveActor, OffloadModel, Computes, At, Models, ConfigFields
  <2>4. saved' \in [Models -> Seq(Steps)]
    BY <1>24, <2>3, CheckpointRegistered DEF SaveActor, Register
  <2> QED BY <1>24, <2>1, <2>2, <2>4 DEF SaveActor, OffloadModel, Computes, Loads,
       At, identity, place, batches, models, hardware, store
<1>25. CASE SaveCritic
  <2>1. todo' \in Seq(Calls) /\ OneSaveAhead'
    BY <1>25, Replace DEF SaveCritic, OffloadModel, Computes, At, Calls,
         SaveChain, OnlyNext, Openers
  <2>2. disk' \in [Steps -> Folder]
    BY <1>25, DiskTypes DEF SaveCritic, Register
  <2>3. global_steps \in Steps /\ "critic" \in Models /\ config.keep \in Nat
    BY <1>0, <1>25 DEF SaveCritic, OffloadModel, Computes, At, Models, ConfigFields
  <2>4. saved' \in [Models -> Seq(Steps)]
    BY <1>25, <2>3, CheckpointRegistered DEF SaveCritic, Register
  <2> QED BY <1>25, <2>1, <2>2, <2>4 DEF SaveCritic, OffloadModel, Computes,
       Loads, At, identity, place, batches, models, hardware, store
<1>26. CASE LoadModel
  <2>1. PICK call \in DOMAIN Loads :
          /\ At(call) /\ gpu' = gpu \cup {Loads[call]}
          /\ CASE call = "save_actor"  -> MakeRoom("actor")
               [] call = "save_critic" -> MakeRoom("critic")
               [] OTHER -> UNCHANGED <<disk, saved>>
    BY <1>26 DEF LoadModel
  <2>2. ASSUME NEW m \in Models, MakeRoom(m)
        PROVE  disk' \in [Steps -> Folder] /\ saved' \in [Models -> Seq(Steps)]
    <3>1. m \in {"actor", "critic"} /\ config.keep \in Nat
      BY <1>0 DEF Models, ConfigFields
    <3>2. EnsureCapacity(saved[m], config.keep) \in Seq(Steps)
      BY <3>1, CapacityEnsured
    <3> QED BY <2>2, <3>1, <3>2, DiskTypes DEF MakeRoom
  <2>3. disk' \in [Steps -> Folder] /\ saved' \in [Models -> Seq(Steps)]
    BY <2>1, <2>2 DEF Models
  <2>4. gpu' \subseteq {"rollout_weights", "kv_cache", "actor", "critic", "reward_model"}
    BY <2>1 DEF Loads
  <2> QED BY <1>26, <2>3, <2>4 DEF LoadModel, OneSaveAhead, Rest, At, identity,
       place, batches, models, hardware, store
<1> QED
  BY <1>a, <1>b, <1>c, <1>1, <1>2, <1>3, <1>4, <1>5, <1>6, <1>7, <1>8, <1>9,
       <1>10, <1>11, <1>12, <1>13, <1>14, <1>15, <1>16, <1>17, <1>18, <1>19,
       <1>20, <1>21, <1>22, <1>23, <1>24, <1>25, <1>26 DEF Next, Driver

\* Every variable keeps its type, for every configuration.
THEOREM TypeCorrect == Spec => []TypeOK
<1>1. TypeInv => TypeOK
  BY DEF TypeInv
<1> QED
  BY <1>1, InitTypes, NextTypes, PTL DEF Spec

-----------------------------------------------------------------------------
\* What is loaded on the GPUs of the trainer.

LEMMA NothingLoaded ==
  ASSUME LoadedByCall, NEW call, At(call), call \notin DOMAIN Loads, call # "offload_params"
  PROVE  gpu \cap TrainerParts = {}
BY DEF LoadedByCall, At

LEMMA OnlyItsModel ==
  ASSUME LoadedByCall, NEW call \in DOMAIN Loads, At(call)
  PROVE  gpu \cap TrainerParts \subseteq {Loads[call]}
BY DEF LoadedByCall, At, Loads

LEMMA NextLoaded == TypeInv /\ LoadedByCall /\ [Next]_vars => LoadedByCall'
<1> SUFFICES ASSUME TypeInv, LoadedByCall, [Next]_vars PROVE LoadedByCall'
  OBVIOUS
<1>0. ASSUME gpu' \cap TrainerParts = {}, job' # "down" PROVE LoadedByCall'
  BY <1>0 DEF LoadedByCall
<1>1. CASE UNCHANGED vars
  BY <1>1 DEF vars, identity, hardware, LoadedByCall, At
<1>2. CASE Launch
  BY <1>0, <1>2 DEF Launch, LoadedByCall, hardware
<1>3. CASE Crash \/ Relaunch
  BY <1>3 DEF Crash, Relaunch, LoseMemory, FreshMemory, LoadedByCall
<1>4. ASSUME NEW call, At(call), call \notin DOMAIN Loads, call # "offload_params",
             gpu' \subseteq gpu \cup {"rollout_weights", "kv_cache"}, job' # "down"
      PROVE  LoadedByCall'
  <2>1. gpu' \cap TrainerParts = {}
    BY <1>4, NothingLoaded DEF TrainerParts
  <2> QED BY <1>0, <1>4, <2>1
<1>5. CASE LoadCheckpoint \/ LoadFails
  BY <1>5, <1>4 DEF LoadCheckpoint, LoadFails, Loads, hardware, At
<1>6. CASE FirstStep \/ FitStep \/ Fetch \/ NoMoreEpochs
  BY <1>6, <1>4 DEF FirstStep, FitStep, Fetch, NoMoreEpochs, Loads, hardware, At
<1>7. CASE Generate \/ StartGeneration \/ AwaitGeneration \/ AwaitFails
  BY <1>7, <1>4 DEF Generate, StartGeneration, AwaitGeneration, AwaitFails, Loads, hardware, At
<1>8. CASE SleepReplicas \/ Validate \/ PushColocated \/ ResumeKvCache \/ PushStandalone
  BY <1>8, <1>4 DEF SleepReplicas, Validate, PushColocated, ResumeKvCache, PushStandalone,
                    Loads, hardware, At
<1>9. CASE Save \/ SaveData \/ OpenTracker \/ WriteTracker \/ FinishStep
  BY <1>9, <1>4 DEF Save, SaveData, OpenTracker, WriteTracker, FinishStep, Loads, hardware, At
<1>10. CASE SendParams
  <2>1. gpu \cap TrainerParts = {}
    BY <1>10, NothingLoaded DEF SendParams, Loads
  <2>2. job' = "running" /\ todo' # <<>> /\ Head(todo') = "offload_params"
    BY <1>10, Replace DEF SendParams, TypeInv, TypeOK, At, Calls, SaveChain, OnlyNext, Openers
  <2> QED BY <1>10, <2>1, <2>2 DEF SendParams, LoadedByCall, TrainerParts, At
<1>11. CASE OffloadParams
  <2>1. gpu \cap TrainerParts \subseteq {"actor"}
    BY <1>11 DEF OffloadParams, LoadedByCall, At, Loads
  <2> QED BY <1>0, <1>11, <2>1 DEF OffloadParams, At
<1>12. ASSUME NEW call \in DOMAIN Loads, OffloadModel(call) PROVE LoadedByCall'
  <2>1. gpu' \cap TrainerParts = {}
    BY <1>12, OnlyItsModel DEF OffloadModel, Computes
  <2> QED BY <1>0, <1>12, <2>1 DEF OffloadModel, Computes, At
<1>13. CASE Infer \/ UpdateCritic \/ UpdateActor \/ SaveActor \/ SaveCritic
  BY <1>12, <1>13 DEF Infer, UpdateCritic, UpdateActor, SaveActor, SaveCritic, Loads
<1>14. CASE LoadModel
  <2>1. PICK call \in DOMAIN Loads : At(call) /\ gpu' = gpu \cup {Loads[call]}
    BY <1>14 DEF LoadModel
  <2>2. At(call)' /\ job' = "running"
    BY <1>14, <2>1 DEF LoadModel, At
  <2>3. gpu' \cap TrainerParts \subseteq {Loads[call]}
    BY <2>1, OnlyItsModel
  <2> QED BY <2>1, <2>2, <2>3 DEF LoadedByCall
<1> QED
  BY <1>1, <1>2, <1>3, <1>5, <1>6, <1>7, <1>8, <1>9, <1>10, <1>11, <1>13, <1>14
     DEF Next, Driver

-----------------------------------------------------------------------------
\* The checkpoint directory, call by call; two checkpoints or none are kept.

StoreInv == TypeInv /\ LoadedByCall /\ SafeStore

LEMMA OneCall ==
  ASSUME NEW c, NEW d, At(c), At(d) PROVE c = d
BY DEF At

LEMMA StepSeq ==
  ASSUME NEW s \in Seq(Steps)
  PROVE  Len(s) \in Nat /\ \A i \in 1 .. Len(s) : s[i] \in Steps /\ s[i] \in Nat
<1>1. Len(s) \in Nat /\ \A i \in 1 .. Len(s) : s[i] \in Steps
  BY LenProperties, ElementOfSeq
<1>2. Steps \subseteq Nat
  BY DEF Steps
<1> QED BY <1>1, <1>2

\* A call outside the saving handler leaves the directory alone.
LEMMA QuietCall ==
  ASSUME StoreInv, UNCHANGED <<config, store>>, job = "running",
         ~At("load") \/ job' = "failed",
         \A c \in SaveChain : ~At(c),
         \A c \in SaveChain \ {"save_actor"} : ~At(c)',
         At("save_actor")' => "actor" \notin gpu',
         ~At("load")', job' # "down",
         job' = "running" =>
            \/ global_steps' = global_steps /\ (~Idle(todo') => ~Idle(todo))
            \/ global_steps' = global_steps + 1
  PROVE  SafeStore'
<1> SUFFICES ASSUME config.keep # 1
             PROVE  (/\ Named => Complete(tracker)
                     /\ PartsWritten
                     /\ TrackerBehind
                     /\ \A model \in InUse : Rotation(model))'
  BY DEF SafeStore, store
<1>0. /\ Named => Complete(tracker)
      /\ TrackerBehind
      /\ \A model \in InUse : Rotation(model)
      /\ saved' = saved /\ disk' = disk /\ tracker' = tracker /\ config' = config
  BY DEF StoreInv, SafeStore, store
<1>1. (Named => Complete(tracker))'
  BY <1>0 DEF Named, Complete
<1>2. ~ActorSaved' /\ ~CriticSaved' /\ ~DataSaved'
  BY DEF ActorSaved, CriticSaved, DataSaved, SaveChain
<1>3. PartsWritten'
  BY <1>2 DEF PartsWritten
<1>4. global_steps \in Nat /\ (Named => tracker \in Nat)
  BY DEF StoreInv, TypeInv, TypeOK, Named, Steps
<1>5. TrackerBehind'
  BY <1>0, <1>4 DEF TrackerBehind, Named
<1>6. ASSUME NEW model \in InUse PROVE Rotation(model)'
  <2>1. model \in Models /\ saved[model] \in Seq(Steps)
    BY DEF InUse, Models, StoreInv, TypeInv, TypeOK
  <2>2. Len(saved[model]) \in Nat /\ \A i \in 1 .. Len(saved[model]) : saved[model][i] \in Nat
    BY <2>1, StepSeq
  <2>3. ~Registered(model) /\ ~Registered(model)'
    BY <1>2 DEF Registered, ActorSaved, CriticSaved, DataSaved, SaveChain
  <2>4. ~(At(SaveOf(model)) /\ model \in gpu)'
    BY DEF SaveOf, SaveChain, InUse
  <2>5. Rotation(model)
    BY <1>0
  <2> QED BY <1>0, <1>4, <2>2, <2>3, <2>4, <2>5 DEF Rotation, Named
<1> QED BY <1>1, <1>3, <1>5, <1>6 DEF InUse, store

\* The first half of a save: old checkpoints go, the new folder is begun.
LEMMA RoomMade ==
  ASSUME StoreInv, NEW model \in Models, At(SaveOf(model)),
         MakeRoom(model), UNCHANGED <<config, job, todo, global_steps, tracker>>
  PROVE  SafeStore'
<1> SUFFICES ASSUME config.keep # 1
             PROVE  (/\ Named => Complete(tracker)
                     /\ PartsWritten
                     /\ TrackerBehind
                     /\ \A m \in InUse : Rotation(m))'
  BY DEF SafeStore
<1> DEFINE s == saved[model]
           kept == EnsureCapacity(s, config.keep)
           gone == Dropped(s, kept)
<1>1. /\ Named => Complete(tracker)
      /\ PartsWritten /\ TrackerBehind
      /\ \A m \in InUse : Rotation(m)
  BY DEF StoreInv, SafeStore
<1>2. config.keep \in Nat /\ s \in Seq(Steps) /\ global_steps \in Nat
      /\ global_steps \in Steps /\ disk \in [Steps -> Folder]
  BY ConfigType DEF StoreInv, TypeInv, TypeOK, StepInRange, ConfigFields, At
<1>3. /\ kept \in Seq(Steps) /\ Len(kept) <= Len(s)
      /\ \A i \in 1 .. Len(kept) : kept[i] = s[i + (Len(s) - Len(kept))]
      /\ config.keep > 1 /\ Len(s) > 0 => Len(kept) > 0
      /\ config.keep > 1 => Len(kept) < config.keep
      /\ config.keep <= 1 => kept = s
      /\ Len(s) \in Nat /\ Len(kept) \in Nat
      /\ \A i \in 1 .. Len(s) : s[i] \in Nat
  <2>1. /\ kept \in Seq(Steps) /\ Len(kept) <= Len(s)
        /\ \A i \in 1 .. Len(kept) : kept[i] = s[i + (Len(s) - Len(kept))]
        /\ config.keep > 1 /\ Len(s) > 0 => Len(kept) > 0
        /\ config.keep > 1 => Len(kept) < config.keep
        /\ config.keep <= 1 => kept = s
    BY <1>2, CapacityEnsured
  <2> QED BY <1>2, <2>1, StepSeq
<1>4. /\ disk' = Write(Remove(disk, gone, model), global_steps, model, Partial)
      /\ saved' = [saved EXCEPT ![model] = kept]
  BY DEF MakeRoom
<1>5. saved'[model] = kept /\ \A m \in Models \ {model} : saved'[m] = saved[m]
  BY <1>4 DEF StoreInv, TypeInv, TypeOK
<1> HIDE DEF kept
<1>6. todo # <<>> /\ Head(todo) \in SaveChain /\ job = "running" /\ ~At("load") /\ ~Idle(todo)
  <2>1. todo \in Seq(Calls) /\ todo # <<>> /\ Head(todo) \in SaveChain
    BY DEF At, SaveOf, SaveChain, Models, StoreInv, TypeInv, TypeOK
  <2>2. 1 \in DOMAIN todo /\ todo[1] = Head(todo)
    BY <2>1
  <2> QED BY <2>1, <2>2 DEF At, SaveOf, Idle, SaveChain, OnlyNext
<1>7. Named => tracker \in Nat /\ tracker \in Steps /\ tracker < global_steps
  BY <1>1, <1>6 DEF TrackerBehind, StoreInv, TypeInv, TypeOK, Named, Steps
<1>8. ~Registered(model) /\ (model \in InUse => Rotation(model))
  BY <1>1 DEF At, SaveOf, Registered, ActorSaved, CriticSaved, DataSaved, Models
<1>9. Named /\ model \in InUse => tracker \notin gone
  <2> SUFFICES ASSUME Named, model \in InUse, NEW i \in 1 .. Len(s) - Len(kept)
               PROVE  s[i] # tracker
    BY DEF Dropped
  <2>1. Len(s) > 0 /\ i \in 1 .. Len(s) /\ i < Len(s)
    BY <1>2, <1>3
  <2> QED BY <1>8, <2>1 DEF Rotation
<1> HIDE DEF gone
<1>10. /\ disk' \in [Steps -> Folder]
       /\ \A t \in Steps : \A p \in {"actor", "critic", "data"} :
            p # model \/ (t \notin gone /\ t # global_steps) => disk'[t][p] = disk[t][p]
  <2> DEFINE room == Remove(disk, gone, model)
  <2>1. model \in {"actor", "critic"}
    BY DEF Models
  <2>2. room \in [Steps -> Folder] /\ disk' \in [Steps -> Folder]
    BY <1>2, <1>4, <2>1, DiskTypes
  <2>3. \A t \in Steps : \A p \in {"actor", "critic", "data"} :
           p # model \/ t \notin gone => room[t][p] = disk[t][p]
    BY <1>2, <2>1 DEF Remove, Folder
  <2> HIDE DEF room
  <2>4. \A t \in Steps : \A p \in {"actor", "critic", "data"} :
           p # model \/ t # global_steps => disk'[t][p] = room[t][p]
    BY <1>2, <1>4, <2>1, <2>2 DEF Write, Folder, room
  <2> QED BY <2>2, <2>3, <2>4
<1>11. (Named => Complete(tracker))'
  <2> SUFFICES ASSUME Named PROVE Complete(tracker)'
    BY DEF Named
  <2>1. tracker \in Steps /\ tracker # global_steps /\ Complete(tracker)
    BY <1>1, <1>2, <1>7
  <2>2. disk'[tracker].data = disk[tracker].data
    BY <1>10, <2>1 DEF Models
  <2>3. "actor" \in InUse /\ (config.use_critic => "critic" \in InUse)
    BY DEF InUse
  <2>4. disk'[tracker].actor = disk[tracker].actor
    BY <1>9, <1>10, <2>1, <2>3
  <2>5. config.use_critic => disk'[tracker].critic = disk[tracker].critic
    BY <1>9, <1>10, <2>1, <2>3
  <2> QED BY <2>1, <2>2, <2>4, <2>5 DEF Complete
<1>12. PartsWritten'
  <2>1. model = "actor" => ~ActorSaved'
    BY DEF At, SaveOf, ActorSaved, CriticSaved, DataSaved
  <2>2. ~CriticSaved' /\ ~DataSaved'
    BY DEF At, SaveOf, CriticSaved, DataSaved, Models
  <2>3. model = "critic" => ActorSaved /\ disk'[global_steps].actor = disk[global_steps].actor
    BY <1>2, <1>10 DEF At, SaveOf, ActorSaved
  <2> QED BY <1>1, <2>1, <2>2, <2>3 DEF PartsWritten, Models
<1>13. TrackerBehind'
  BY <1>1 DEF TrackerBehind, Named, At
<1>14. ASSUME NEW m \in InUse PROVE Rotation(m)'
  <2>1. CASE m = model
    <3>1. Rotation(m) /\ ~Registered(m)' /\ ~Registered(m)
      BY <1>1, <1>8, <2>1 DEF Registered, ActorSaved, CriticSaved, DataSaved, At
    <3>2. \A i \in 1 .. Len(kept) : /\ i + (Len(s) - Len(kept)) \in 1 .. Len(s)
                                    /\ kept[i] = s[i + (Len(s) - Len(kept))]
      BY <1>3
    <3> DEFINE lost == Len(s) - Len(kept)
    <3>a. lost \in Nat /\ Len(kept) + lost = Len(s)
      BY <1>3
    <3>b. ASSUME NEW i \in 1 .. Len(kept)
          PROVE  i + lost \in 1 .. Len(s) /\ kept[i] = s[i + lost] /\ i + lost \in Nat
      BY <1>3, <3>2, <3>a
    <3> HIDE DEF lost
    <3>3. ASSUME NEW i \in 1 .. Len(kept), NEW j \in 1 .. Len(kept), i < j
          PROVE  kept[i] < kept[j]
      <4>1. i + lost < j + lost
        BY <3>a, <3>3
      <4> QED BY <2>1, <3>1, <3>b, <4>1 DEF Rotation
    <3>4. \A i \in 1 .. Len(kept) : kept[i] < global_steps
      BY <1>6, <2>1, <3>1, <3>b DEF Rotation
    <3>5. ASSUME Named, NEW i \in 1 .. Len(kept), i < Len(kept)
          PROVE  kept[i] # tracker
      <4>1. i + lost < Len(s)
        BY <1>3, <3>a, <3>5
      <4> QED BY <2>1, <3>1, <3>5, <3>b, <4>1 DEF Rotation
    <3>6. \A i \in 1 .. Len(kept) : kept[i] <= global_steps
      BY <1>6, <2>1, <3>1, <3>b DEF Rotation
    <3>7. job' = "running" /\ ~At("load")'
      BY <1>6 DEF At
    <3> QED BY <1>3, <1>5, <2>1, <3>1, <3>3, <3>4, <3>5, <3>6, <3>7 DEF Rotation, Named
  <2>2. CASE m # model
    <3>1. m \in Models /\ saved'[m] = saved[m] /\ Rotation(m)
      BY <1>1, <1>5, <2>2 DEF InUse, Models
    <3>2. ~At(SaveOf(m)) /\ ~At(SaveOf(m))'
      BY <2>2, <3>1 DEF At, SaveOf, Models
    <3>3. Registered(m)' <=> Registered(m)
      BY DEF Registered, ActorSaved, CriticSaved, DataSaved, At
    <3>4. (job' = job) /\ (At("load")' <=> At("load")) /\ todo' = todo
      BY DEF At
    <3> QED BY <3>1, <3>2, <3>3, <3>4 DEF Rotation, Named
  <2> QED BY <2>1, <2>2
<1> QED BY <1>11, <1>12, <1>13, <1>14 DEF InUse

\* In the middle of a save the tracker names an earlier step.
LEMMA TrackerEarlier ==
  ASSUME StoreInv, config.keep # 1, NEW call \in SaveChain, At(call)
  PROVE  /\ todo \in Seq(Calls) /\ todo # <<>> /\ ~Idle(todo)
         /\ job = "running" /\ ~At("load")
         /\ global_steps \in Nat /\ global_steps \in Steps
         /\ Named => tracker \in Steps /\ tracker \in Nat /\ tracker < global_steps
<1>1. todo \in Seq(Calls) /\ todo # <<>> /\ Head(todo) \in SaveChain /\ job = "running"
      /\ ~At("load")
  BY DEF At, SaveChain, StoreInv, TypeInv, TypeOK
<1>2. 1 \in DOMAIN todo /\ todo[1] = Head(todo)
  BY <1>1
<1>3. ~Idle(todo)
  BY <1>1, <1>2 DEF Idle, OnlyNext
<1>4. TrackerBehind
  BY DEF StoreInv, SafeStore
<1> QED
  BY <1>1, <1>3, <1>4 DEF TrackerBehind, Named, Steps, StoreInv, TypeInv, TypeOK, StepInRange

\* The second half: the files are complete and the checkpoint is registered,
\* which removes nothing because room was made before.
LEMMA SaveRegistered ==
  ASSUME StoreInv, NEW model \in Models, At(SaveOf(model)), model \in gpu,
         NEW content \in Seq(Nat), Register(model, content),
         NEW next \in {"save_critic", "save_data"}, todo' = Then(next),
         next = "save_critic" <=> (model = "actor" /\ config.use_critic),
         gpu' = gpu \ {model}, UNCHANGED <<config, job, global_steps, tracker>>
  PROVE  SafeStore'
<1> SUFFICES ASSUME config.keep # 1
             PROVE  (/\ Named => Complete(tracker)
                     /\ PartsWritten
                     /\ TrackerBehind
                     /\ \A m \in InUse : Rotation(m))'
  BY DEF SafeStore
<1> DEFINE s == saved[model]
           all == Append(s, global_steps)
<1>1. /\ Named => Complete(tracker)
      /\ PartsWritten /\ TrackerBehind
      /\ \A m \in InUse : Rotation(m)
  BY DEF StoreInv, SafeStore
<1>2. SaveOf(model) \in SaveChain
  BY DEF SaveOf, SaveChain, Models
<1>3. /\ todo \in Seq(Calls) /\ todo # <<>> /\ ~Idle(todo)
      /\ job = "running" /\ ~At("load")
      /\ global_steps \in Nat /\ global_steps \in Steps
      /\ Named => tracker \in Steps /\ tracker \in Nat /\ tracker < global_steps
  BY <1>2, TrackerEarlier
<1>4. /\ config.keep \in Nat /\ s \in Seq(Steps) /\ disk \in [Steps -> Folder]
      /\ saved \in [Models -> Seq(Steps)]
  BY ConfigType DEF StoreInv, TypeInv, TypeOK, ConfigFields
<1>5. todo' # <<>> /\ Head(todo') = next
  BY <1>3, Replace DEF StoreInv, TypeInv, At, SaveOf, Models, Calls, SaveChain, OnlyNext, Openers
<1>6. /\ all \in Seq(Steps) /\ Len(all) = Len(s) + 1
      /\ \A i \in 1 .. Len(s) : all[i] = s[i]
      /\ all[Len(s) + 1] = global_steps
      /\ Len(s) \in Nat /\ \A i \in 1 .. Len(s) : s[i] \in Nat
  BY <1>3, <1>4, AppendProperties, StepSeq
<1> HIDE DEF all
<1>7. ~Registered(model)
  BY DEF At, SaveOf, Registered, ActorSaved, CriticSaved, DataSaved, Models
<1>8. model \in InUse => Rotation(model) /\ RegisterCheckpoint(s, global_steps, config.keep) = all
  <2>1. model \in InUse => Rotation(model)
    BY <1>1
  <2>2. model \in InUse => config.keep = 0 \/ Len(s) < config.keep
    <3>1. model \in InUse /\ config.keep > 1 => Len(s) < config.keep
      BY <2>1 DEF Rotation
    <3> HIDE DEF s
    <3> QED BY <1>4, <3>1
  <2> QED BY <1>3, <1>4, <2>1, <2>2, CheckpointRegistered DEF all
<1>9. /\ disk' \in [Steps -> Folder]
      /\ disk'[global_steps][model] = content
      /\ \A t \in Steps : \A p \in {"actor", "critic", "data"} :
           p # model \/ (model \in InUse /\ t # global_steps) => disk'[t][p] = disk[t][p]
  <2> DEFINE kept == RegisterCheckpoint(s, global_steps, config.keep)
             gone == Dropped(all, kept)
             room == Remove(disk, gone, model)
  <2>1. model \in {"actor", "critic"}
    BY DEF Models
  <2>2. disk' = Write(room, global_steps, model, content)
    BY DEF Register, all
  <2>3. room \in [Steps -> Folder] /\ disk' \in [Steps -> Folder]
    BY <1>4, <2>1, <2>2, DiskTypes
  <2>4. model \in InUse => gone = {}
    <3>1. Len(all) - Len(all) = 0
      BY <1>6
    <3>2. Dropped(all, all) = {}
      BY <3>1 DEF Dropped
    <3> QED BY <1>8, <3>2
  <2>5. \A t \in Steps : \A p \in {"actor", "critic", "data"} :
           p # model \/ model \in InUse => room[t][p] = disk[t][p]
    BY <1>4, <2>1, <2>4 DEF Remove, Folder
  <2> HIDE DEF room
  <2>6. \A t \in Steps : \A p \in {"actor", "critic", "data"} :
           p # model \/ t # global_steps => disk'[t][p] = room[t][p]
    BY <2>1, <2>2, <2>3 DEF Write, Folder
  <2>7. disk'[global_steps][model] = content
    BY <1>3, <2>1, <2>2, <2>3 DEF Write, Folder
  <2> QED BY <2>3, <2>5, <2>6, <2>7
<1>10. "actor" \in InUse /\ (config.use_critic => "critic" \in InUse)
  BY DEF InUse
<1>11. (Named => Complete(tracker))'
  <2> SUFFICES ASSUME Named PROVE Complete(tracker)'
    BY DEF Named
  <2>1. tracker \in Steps /\ tracker # global_steps /\ Complete(tracker)
    BY <1>1, <1>3
  <2>2. /\ disk'[tracker].data = disk[tracker].data
        /\ disk'[tracker].actor = disk[tracker].actor
        /\ config.use_critic => disk'[tracker].critic = disk[tracker].critic
    BY <1>9, <1>10, <2>1 DEF Models
  <2> QED BY <2>1, <2>2 DEF Complete
<1>12. Loadable(content)
  BY MarkAssumption DEF Loadable
<1>13. PartsWritten'
  <2>1. ~DataSaved'
    BY <1>5 DEF DataSaved, At
  <2>2. Loadable(disk'[global_steps].actor)
    <3>1. CASE model = "actor"
      BY <1>9, <1>12, <3>1
    <3>2. CASE model = "critic"
      <4>1. Loadable(disk[global_steps].actor)
        BY <1>1, <3>2 DEF PartsWritten, ActorSaved, SaveOf
      <4> QED BY <1>3, <1>9, <3>2, <4>1
    <3> QED BY <3>1, <3>2 DEF Models
  <2>3. CriticSaved' /\ config.use_critic => Loadable(disk'[global_steps].critic)
    BY <1>5, <1>9, <1>12 DEF CriticSaved, DataSaved, At, Models
  <2> QED BY <2>1, <2>2, <2>3 DEF PartsWritten
<1>14. TrackerBehind'
  BY <1>3 DEF TrackerBehind, Named
<1>15. ASSUME NEW m \in InUse PROVE Rotation(m)'
  <2>0. job' = "running" /\ ~At("load")' /\ m \in Models
    BY <1>3, <1>5 DEF At, InUse, Models
  <2>1. CASE m = model
    <3>1. saved'[m] = all
      BY <1>4, <1>8, <2>0, <2>1 DEF Register
    <3>2. Rotation(m)
      BY <1>1
    <3>3. \A i \in 1 .. Len(s) : s[i] < global_steps
      BY <1>3, <1>7, <2>1, <3>2 DEF Rotation
    <3>4. ASSUME NEW i \in 1 .. Len(all), NEW j \in 1 .. Len(all), i < j
          PROVE  all[i] < all[j]
      <4>1. i \in 1 .. Len(s)
        BY <1>6, <3>4
      <4>2. CASE j \in 1 .. Len(s)
        BY <1>6, <2>1, <3>2, <3>4, <4>1, <4>2 DEF Rotation
      <4>3. CASE j = Len(s) + 1
        BY <1>6, <3>3, <4>1, <4>3
      <4> QED BY <1>6, <4>2, <4>3
    <3>5. \A i \in 1 .. Len(all) : all[i] <= global_steps
      <4>1. \A i \in 1 .. Len(all) : i \in 1 .. Len(s) \/ i = Len(s) + 1
        BY <1>6
      <4>2. \A i \in 1 .. Len(s) : s[i] <= global_steps
        BY <1>3, <3>2, <2>1 DEF Rotation
      <4> QED BY <1>3, <1>6, <4>1, <4>2
    <3>6. Registered(m)' /\ all # <<>> /\ all[Len(all)] = global_steps
      BY <1>3, <1>5, <1>6, <2>1 DEF Registered, ActorSaved, CriticSaved, DataSaved, At, Models
    <3>7. ~At(SaveOf(m))'
      BY <1>5, <2>1 DEF At, SaveOf, Models
    <3> QED BY <2>0, <3>1, <3>4, <3>5, <3>6, <3>7 DEF Rotation, Named
  <2>2. CASE m # model
    <3>1. saved'[m] = saved[m] /\ Rotation(m)
      BY <1>1, <1>4, <2>0, <2>2 DEF Register
    <3>2. ~(At(SaveOf(m)) /\ m \in gpu)'
      <4>1. gpu \cap TrainerParts \subseteq {model}
        <5>1. SaveOf(model) \in DOMAIN Loads /\ Loads[SaveOf(model)] = model
          BY DEF SaveOf, Loads, Models
        <5> QED BY <5>1, OnlyItsModel DEF StoreInv
      <4> QED BY <2>0, <2>2, <4>1 DEF TrainerParts, Models
    <3>3. Registered(m)' <=> Registered(m)
      BY <1>3, <1>5, <2>0, <2>2
         DEF Registered, ActorSaved, CriticSaved, DataSaved, At, Models, SaveOf, InUse
    <3> QED BY <1>3, <2>0, <3>1, <3>2, <3>3 DEF Rotation, Named
  <2> QED BY <2>1, <2>2
<1> QED BY <1>11, <1>13, <1>14, <1>15 DEF InUse

\* No checkpoint has been saved in this launch.
LEMMA NothingSaved ==
  ASSUME StoreInv, UNCHANGED <<config, disk, tracker>>,
         saved' = [actor |-> <<>>, critic |-> <<>>],
         \A c \in SaveChain : ~At(c)',
         config.keep # 1 => TrackerBehind'
  PROVE  SafeStore'
<1> SUFFICES ASSUME config.keep # 1
             PROVE  (/\ Named => Complete(tracker)
                     /\ PartsWritten
                     /\ TrackerBehind
                     /\ \A model \in InUse : Rotation(model))'
  BY DEF SafeStore
<1>1. Named => Complete(tracker)
  BY DEF StoreInv, SafeStore
<1>2. ~ActorSaved' /\ ~CriticSaved' /\ ~DataSaved'
  BY DEF ActorSaved, CriticSaved, DataSaved, SaveChain
<1>3. (Named => Complete(tracker))' /\ PartsWritten'
  BY <1>1, <1>2 DEF Named, Complete, PartsWritten
<1>4. ASSUME NEW model \in InUse PROVE Rotation(model)'
  <2>1. saved'[model] = <<>> /\ Len(saved'[model]) = 0 /\ model \in {"actor", "critic"}
    BY DEF InUse
  <2>2. ~Registered(model)' /\ ~At(SaveOf(model))'
    BY <1>2, <2>1 DEF Registered, SaveOf, SaveChain
  <2> QED BY <2>1, <2>2 DEF Rotation
<1> QED BY <1>3, <1>4 DEF InUse

\* The job resumes from the step the tracker names.
LEMMA Resumed ==
  ASSUME StoreInv, LoadCheckpoint
  PROVE  SafeStore'
<1>1. todo' \in Seq(Calls) /\ Idle(todo') /\ (todo' # <<>> => Head(todo') \in Calls \ OnlyNext)
  BY BeginPlan DEF LoadCheckpoint
<1>2. \A c \in SaveChain : ~At(c)'
  BY <1>1 DEF At, OnlyNext
<1>3. config' = config /\ disk' = disk /\ tracker' = tracker /\ saved' = saved
  BY DEF LoadCheckpoint, identity, store
<1> SUFFICES ASSUME config.keep # 1
             PROVE  (/\ Named => Complete(tracker)
                     /\ PartsWritten
                     /\ TrackerBehind
                     /\ \A model \in InUse : Rotation(model))'
  BY <1>3 DEF SafeStore
<1>4. /\ Named => Complete(tracker)
      /\ \A model \in InUse : Rotation(model)
  BY DEF StoreInv, SafeStore
<1>5. ~ActorSaved' /\ ~CriticSaved' /\ ~DataSaved'
  BY <1>2 DEF ActorSaved, CriticSaved, DataSaved, SaveChain
<1>6. (Named => Complete(tracker))' /\ PartsWritten'
  BY <1>3, <1>4, <1>5 DEF Named, Complete, PartsWritten
<1>7. ASSUME Named PROVE global_steps' = tracker /\ tracker \in Nat
  <2>1. disk[tracker].data # Missing /\ tracker # 0 /\ tracker \in Nat
    BY <1>4, <1>7 DEF Complete, Named, StoreInv, TypeInv, TypeOK, Steps
  <2>2. disk[tracker] # EmptyFolder
    BY <2>1 DEF EmptyFolder
  <2>3. FindLatest(disk, tracker) = tracker
    BY <2>1, <2>2 DEF FindLatest
  <2> QED BY <2>1, <2>3 DEF LoadCheckpoint
<1>8. TrackerBehind'
  BY <1>1, <1>3, <1>7 DEF TrackerBehind, Named
<1>9. ASSUME NEW model \in InUse PROVE Rotation(model)'
  <2>1. saved[model] = <<>> /\ Len(saved[model]) = 0 /\ model \in {"actor", "critic"}
    BY <1>4 DEF Rotation, LoadCheckpoint, InUse
  <2>2. ~Registered(model)' /\ ~At(SaveOf(model))'
    BY <1>2, <1>5, <2>1 DEF Registered, SaveOf, SaveChain
  <2> QED BY <1>3, <2>1, <2>2 DEF Rotation
<1> QED BY <1>3, <1>6, <1>8, <1>9 DEF InUse

\* The dataloader's position, and the tracker before it is written.
LEMMA PositionSaved ==
  ASSUME StoreInv, SaveData \/ OpenTracker
  PROVE  SafeStore'
<1> SUFFICES ASSUME config.keep # 1
             PROVE  (/\ Named => Complete(tracker)
                     /\ PartsWritten
                     /\ TrackerBehind
                     /\ \A model \in InUse : Rotation(model))'
  BY DEF SafeStore, SaveData, OpenTracker, identity
<1> DEFINE before == IF SaveData THEN "save_data" ELSE "open_tracker"
           next   == IF SaveData THEN "open_tracker" ELSE "write_tracker"
<1>1. /\ Named => Complete(tracker)
      /\ PartsWritten /\ TrackerBehind
      /\ \A m \in InUse : Rotation(m)
  BY DEF StoreInv, SafeStore
<1>2. At(before) /\ before \in SaveChain /\ todo' = Then(next)
      /\ UNCHANGED <<config, job, global_steps, saved>>
  BY DEF SaveData, OpenTracker, SaveChain, identity, place
<1>3. /\ todo \in Seq(Calls) /\ todo # <<>> /\ ~Idle(todo)
      /\ job = "running" /\ ~At("load")
      /\ global_steps \in Nat /\ global_steps \in Steps
      /\ Named => tracker \in Steps /\ tracker \in Nat /\ tracker < global_steps
  BY <1>2, TrackerEarlier
<1>4. todo' # <<>> /\ Head(todo') = next
  BY <1>2, <1>3, Replace
     DEF StoreInv, TypeInv, At, Calls, SaveChain, OnlyNext, Openers
<1>5. /\ disk' = IF SaveData THEN Write(disk, global_steps, "data", loader) ELSE disk
      /\ tracker' = IF SaveData THEN tracker ELSE Torn
  BY DEF SaveData, OpenTracker, At
<1>6. /\ disk \in [Steps -> Folder] /\ loader \in Nat
      /\ \A t \in Steps :
           /\ disk'[t].actor = disk[t].actor /\ disk'[t].critic = disk[t].critic
           /\ t # global_steps => disk'[t].data = disk[t].data
      /\ disk'[global_steps].data = IF SaveData THEN loader ELSE disk[global_steps].data
  <2>1. disk \in [Steps -> Folder] /\ loader \in Nat
    BY DEF StoreInv, TypeInv, TypeOK
  <2> QED BY <1>3, <1>5, <2>1 DEF Write, Folder
<1>7. (Named => Complete(tracker))'
  <2> SUFFICES ASSUME Named, tracker' = tracker PROVE Complete(tracker)'
    BY <1>5 DEF Named
  <2> QED BY <1>1, <1>2, <1>3, <1>6 DEF Complete
<1>8. PartsWritten'
  <2>1. CriticSaved /\ ActorSaved /\ (DataSaved \/ SaveData)
    BY <1>2 DEF CriticSaved, ActorSaved, DataSaved
  <2>2. disk'[global_steps].data # Missing
    BY <1>1, <1>6, <2>1, MarkAssumption DEF PartsWritten
  <2> QED BY <1>1, <1>2, <1>3, <1>6, <2>1, <2>2 DEF PartsWritten
<1>9. TrackerBehind'
  BY <1>2, <1>3, <1>5 DEF TrackerBehind, Named
<1>10. ASSUME NEW m \in InUse PROVE Rotation(m)'
  <2>1. m \in {"actor", "critic"} /\ Rotation(m)
    BY <1>1 DEF InUse
  <2>2. Registered(m) /\ Registered(m)'
    BY <1>2, <1>3, <1>4, <2>1
       DEF Registered, ActorSaved, CriticSaved, DataSaved, At
  <2>3. ~At(SaveOf(m))' /\ ~At("load")' /\ job' = "running"
    BY <1>2, <1>3, <1>4, <2>1 DEF At, SaveOf
  <2> QED BY <1>2, <1>3, <2>1, <2>2, <2>3 DEF Rotation
<1> QED BY <1>2, <1>7, <1>8, <1>9, <1>10 DEF InUse

\* The tracker moves to the new checkpoint, all of whose parts are written.
LEMMA TrackerMoves ==
  ASSUME StoreInv, WriteTracker
  PROVE  SafeStore'
<1> SUFFICES ASSUME config.keep # 1
             PROVE  (/\ Named => Complete(tracker)
                     /\ PartsWritten
                     /\ TrackerBehind
                     /\ \A model \in InUse : Rotation(model))'
  BY DEF SafeStore, WriteTracker, identity
<1>1. PartsWritten /\ \A m \in InUse : Rotation(m)
  BY DEF StoreInv, SafeStore
<1>2. At("write_tracker") /\ tracker' = global_steps /\ todo' = Rest
      /\ UNCHANGED <<config, job, global_steps, saved, disk, gpu>>
  BY DEF WriteTracker, identity, place, hardware
<1>3. /\ todo \in Seq(Calls) /\ todo # <<>> /\ job = "running"
      /\ global_steps \in Nat
  BY <1>2, TrackerEarlier DEF SaveChain
<1>4. Idle(todo') /\ todo' \in Seq(Calls)
      /\ (todo' # <<>> => Head(todo') \in Calls \ OnlyNext)
  BY <1>2, <1>3, Pop DEF StoreInv, TypeInv, At, SaveChain
<1>5. \A c \in OnlyNext : ~At(c)'
  BY <1>4 DEF At
<1>6. ~ActorSaved' /\ ~CriticSaved' /\ ~DataSaved' /\ PartsWritten'
  BY <1>5 DEF ActorSaved, CriticSaved, DataSaved, PartsWritten, OnlyNext, SaveChain
<1>7. (Named => Complete(tracker))'
  BY <1>1, <1>2 DEF Named, Complete, PartsWritten, ActorSaved, CriticSaved, DataSaved
<1>8. TrackerBehind'
  BY <1>2, <1>3, <1>4 DEF TrackerBehind
<1>9. ASSUME NEW m \in InUse PROVE Rotation(m)'
  <2>1. m \in {"actor", "critic"} /\ m \in Models
    BY DEF InUse, Models
  <2>2. Registered(m) /\ ~Registered(m)'
    BY <1>2, <1>6, <2>1 DEF Registered, ActorSaved, CriticSaved, DataSaved
  <2>3. ~At(SaveOf(m))' /\ ~At("load")' /\ job' = "running"
    BY <1>2, <1>3, <1>5, <2>1 DEF SaveOf, OnlyNext, SaveChain
  <2> DEFINE s == saved[m]
  <2>4. Len(s) \in Nat /\ \A i \in 1 .. Len(s) : s[i] \in Nat
    BY <2>1, StepSeq DEF StoreInv, TypeInv, TypeOK
  <2>5. /\ \A i, j \in 1 .. Len(s) : i < j => s[i] < s[j]
        /\ \A i \in 1 .. Len(s) : s[i] <= global_steps
        /\ s # <<>> /\ s[Len(s)] = global_steps
    BY <1>1, <1>3, <2>2 DEF Rotation
  <2>6. \A i \in 1 .. Len(s) : i < Len(s) => s[i] # global_steps
    <3> SUFFICES ASSUME NEW i \in 1 .. Len(s), i < Len(s) PROVE s[i] # global_steps
      OBVIOUS
    <3>1. Len(s) \in 1 .. Len(s)
      BY <2>4
    <3>2. s[i] < s[Len(s)]
      BY <2>5, <3>1
    <3> QED BY <1>3, <2>4, <2>5, <3>2
  <2> HIDE DEF s
  <2>7. saved'[m] = s
    BY <1>2 DEF s
  <2> QED BY <1>2, <1>4, <2>2, <2>3, <2>5, <2>6, <2>7 DEF Rotation
<1> QED BY <1>2, <1>6, <1>7, <1>8, <1>9 DEF InUse
-----------------------------------------------------------------------------
LEMMA CallTypes ==
  ASSUME StoreInv, NEW call, At(call)
  PROVE  /\ todo \in Seq(Calls) /\ todo # <<>> /\ OneSaveAhead /\ Head(todo) = call
         /\ job = "running" /\ \A d : At(d) => d = call
         /\ (call \in OnlyNext \cup Openers => ~Idle(todo))
<1>1. todo \in Seq(Calls) /\ todo # <<>> /\ OneSaveAhead /\ Head(todo) = call /\ job = "running"
  BY DEF StoreInv, TypeInv, TypeOK, At
<1>2. 1 \in DOMAIN todo /\ todo[1] = Head(todo)
  BY <1>1
<1> QED BY <1>1, <1>2, OneCall DEF Idle

\* A call outside the saving handler that is done, or goes on with another.
LEMMA CallReturns ==
  ASSUME StoreInv, NEW call, At(call), call \notin OnlyNext, todo' = Rest,
         UNCHANGED <<config, store, job, global_steps>>
  PROVE  SafeStore'
<1>1. /\ todo' # <<>> => Head(todo') \in Calls \ OnlyNext
      /\ ~Idle(todo') => ~Idle(todo)
  BY CallTypes, Pop
<1> QED BY <1>1, CallTypes, QuietCall DEF At, OnlyNext, SaveChain

LEMMA CallContinues ==
  ASSUME StoreInv, NEW call, At(call), call \notin OnlyNext,
         NEW next \in Calls \ (OnlyNext \cup Openers), todo' = Then(next),
         UNCHANGED <<config, store, job, global_steps>>
  PROVE  SafeStore'
<1>1. todo' # <<>> /\ Head(todo') = next /\ (~Idle(todo') => ~Idle(todo))
  BY CallTypes, Replace DEF OnlyNext
<1> QED BY <1>1, CallTypes, QuietCall DEF At, OnlyNext, SaveChain

\* The handler of a step plans its calls.
LEMMA CallPlans ==
  ASSUME StoreInv, NEW call, At(call), call \notin OnlyNext,
         NEW plan \in Seq(Calls), OneSave(plan), todo' = plan, call \in Openers \/ Idle(plan),
         UNCHANGED <<config, store, job, global_steps>>
  PROVE  SafeStore'
<1>1. todo' # <<>> => Head(todo') \in Calls \ OnlyNext
  BY NewPlan
<1> QED BY <1>1, CallTypes, QuietCall DEF At, OnlyNext, SaveChain

LEMMA NextStore == StoreInv /\ [Next]_vars => SafeStore'
<1> SUFFICES ASSUME StoreInv, [Next]_vars PROVE SafeStore'
  OBVIOUS
<1> USE DEF identity, place, batches, models, hardware
<1>1. CASE UNCHANGED vars
  BY <1>1 DEF vars, StoreInv, SafeStore, store, Named, Complete, PartsWritten, ActorSaved,
              CriticSaved, DataSaved, At, TrackerBehind, Rotation, Registered, InUse
<1>2. CASE Launch
  <2>1. config.keep # 1 => \A m \in InUse : saved[m] = <<>>
    BY <1>2 DEF Launch, StoreInv, SafeStore, Rotation
  <2>2. At("load")' /\ \A c : At(c)' => c = "load"
    BY <1>2 DEF Launch, At
  <2> SUFFICES ASSUME config.keep # 1
               PROVE  (/\ Named => Complete(tracker)
                       /\ PartsWritten
                       /\ TrackerBehind
                       /\ \A model \in InUse : Rotation(model))'
    BY <1>2 DEF Launch, SafeStore
  <2>3. ~ActorSaved' /\ ~CriticSaved' /\ ~DataSaved' /\ \A m : ~Registered(m)'
    BY <2>2 DEF ActorSaved, CriticSaved, DataSaved, Registered
  <2>4. (Named => Complete(tracker))' /\ PartsWritten' /\ TrackerBehind'
    BY <1>2, <2>2, <2>3 DEF Launch, store, StoreInv, SafeStore, Named, Complete, PartsWritten,
                            TrackerBehind
  <2>5. ASSUME NEW m \in InUse PROVE Rotation(m)'
    <3>1. saved'[m] = <<>> /\ Len(saved'[m]) = 0
      BY <1>2, <2>1 DEF Launch, store
    <3>2. ~At(SaveOf(m))'
      BY <2>2 DEF SaveOf
    <3> QED BY <2>3, <3>1, <3>2 DEF Rotation
  <2> QED BY <1>2, <2>4, <2>5 DEF Launch, InUse
<1>3. CASE Crash \/ Relaunch
  <2>1. /\ UNCHANGED <<config, disk, tracker>> /\ job' = "down"
        /\ saved' = [actor |-> <<>>, critic |-> <<>>]
    BY <1>3 DEF Crash, Relaunch, LoseMemory, FreshMemory
  <2> QED BY <2>1, NothingSaved DEF At, TrackerBehind
<1>4. CASE LoadCheckpoint
  BY <1>4, Resumed
<1>5. CASE LoadFails \/ NoMoreEpochs \/ AwaitFails
  <2>1. PICK call \in {"load", "fetch", "await"} :
          At(call) /\ (call = "load" => job' = "failed")
    BY <1>5 DEF LoadFails, NoMoreEpochs, AwaitFails
  <2>2. /\ UNCHANGED <<config, store, global_steps, todo>>
        /\ job' \in {"failed", "done"}
    BY <1>5 DEF LoadFails, NoMoreEpochs, AwaitFails
  <2> QED BY <2>1, <2>2, CallTypes, QuietCall DEF At, SaveChain
<1>6. CASE FirstStep \/ FinishStep
  <2>1. PICK call \in {"first_step", "finish"} : At(call)
    BY <1>6 DEF FirstStep, FinishStep
  <2>2. /\ UNCHANGED <<config, store>> /\ global_steps' = global_steps + 1
        /\ job' # "down"
        /\ todo' \in {<<>>, <<"start", "step">>, <<"step">>, <<"fetch">>}
    BY <1>6, <2>1 DEF FirstStep, FinishStep, At
  <2>3. todo' # <<>> => Head(todo') \in {"start", "step", "fetch"}
    BY <2>2
  <2> QED BY <2>1, <2>2, <2>3, CallTypes, QuietCall DEF At, SaveChain
<1>7. CASE FitStep
  BY <1>7, PipelinedPlan, CallPlans DEF FitStep, OnlyNext, SaveChain, Openers
<1>8. CASE Fetch
  BY <1>8, ColocatedPlan, CallPlans DEF Fetch, OnlyNext, SaveChain, Openers
<1>9. CASE Generate \/ StartGeneration \/ AwaitGeneration
  BY <1>9, CallReturns DEF Generate, StartGeneration, AwaitGeneration, OnlyNext, SaveChain
<1>10. CASE SleepReplicas \/ Validate \/ ResumeKvCache \/ PushStandalone
  BY <1>10, CallReturns DEF SleepReplicas, Validate, ResumeKvCache, PushStandalone,
                            OnlyNext, SaveChain
<1>11. CASE Infer \/ UpdateCritic \/ UpdateActor
  <2>1. PICK call \in {"reward", "log_prob", "values", "update_critic", "update_actor"} :
          OffloadModel(call) /\ todo' = Rest /\ UNCHANGED <<disk, saved>>
    BY <1>11 DEF Infer, UpdateCritic, UpdateActor
  <2>2. At(call) /\ UNCHANGED <<config, store, job, global_steps>>
    BY <2>1 DEF OffloadModel, Computes, store
  <2> QED BY <2>1, <2>2, CallReturns DEF OnlyNext, SaveChain
<1>12. CASE PushColocated \/ SendParams \/ OffloadParams
  <2>1. PICK call \in {"push", "send_params", "offload_params"},
             next \in {"send_params", "offload_params", "resume_kv_cache"} :
          At(call) /\ todo' = Then(next)
    BY <1>12 DEF PushColocated, SendParams, OffloadParams
  <2>2. UNCHANGED <<config, store, job, global_steps>>
    BY <1>12 DEF PushColocated, SendParams, OffloadParams
  <2>3. next \in Calls \ (OnlyNext \cup Openers) /\ call \notin OnlyNext
    BY DEF Calls, OnlyNext, SaveChain, Openers
  <2> QED BY <2>1, <2>2, <2>3, CallContinues
<1>13. CASE Save
  <2>1. At("save") /\ UNCHANGED <<config, store, job, global_steps, gpu>>
        /\ (todo' = Rest \/ todo' = Then("save_actor"))
    BY <1>13 DEF Save
  <2>2. CASE todo' = Rest
    BY <2>1, <2>2, CallReturns DEF OnlyNext, SaveChain
  <2>3. CASE todo' = Then("save_actor")
    <3>1. todo' # <<>> /\ Head(todo') = "save_actor" /\ (~Idle(todo') => ~Idle(todo))
      BY <2>1, <2>3, CallTypes, Replace DEF Calls, SaveChain, Openers
    <3>2. "actor" \notin gpu'
      BY <2>1, NothingLoaded DEF StoreInv, Loads, TrainerParts
    <3> QED BY <2>1, <3>1, <3>2, CallTypes, QuietCall DEF At, SaveChain
  <2> QED BY <2>1, <2>2, <2>3
<1>14. CASE SaveActor \/ SaveCritic
  <2>1. CASE SaveActor
    <3>1. /\ At("save_actor") /\ "actor" \in gpu /\ gpu' = gpu \ {"actor"}
          /\ Register("actor", actor)
          /\ todo' = Then(IF config.use_critic THEN "save_critic" ELSE "save_data")
          /\ UNCHANGED <<config, job, global_steps, tracker>>
      BY <2>1 DEF SaveActor, OffloadModel, Computes, Loads
    <3>2. actor \in Seq(Nat) /\ "actor" \in Models /\ SaveOf("actor") = "save_actor"
      BY DEF StoreInv, TypeInv, TypeOK, Models, SaveOf
    <3>3. CASE config.use_critic
      BY <3>1, <3>2, <3>3, SaveRegistered
    <3>4. CASE ~config.use_critic
      BY <3>1, <3>2, <3>4, SaveRegistered
    <3> QED BY <3>3, <3>4
  <2>2. CASE SaveCritic
    <3>1. /\ At("save_critic") /\ "critic" \in gpu /\ gpu' = gpu \ {"critic"}
          /\ Register("critic", critic) /\ todo' = Then("save_data")
          /\ UNCHANGED <<config, job, global_steps, tracker>>
      BY <2>2 DEF SaveCritic, OffloadModel, Computes, Loads
    <3>2. critic \in Seq(Nat) /\ "critic" \in Models /\ SaveOf("critic") = "save_critic"
      BY DEF StoreInv, TypeInv, TypeOK, Models, SaveOf
    <3> QED BY <3>1, <3>2, SaveRegistered
  <2> QED BY <1>14, <2>1, <2>2
<1>15. CASE SaveData \/ OpenTracker
  BY <1>15, PositionSaved
<1>16. CASE WriteTracker
  BY <1>16, TrackerMoves
<1>17. CASE LoadModel
  <2>1. PICK call \in DOMAIN Loads :
          /\ At(call)
          /\ CASE call = "save_actor"  -> MakeRoom("actor")
               [] call = "save_critic" -> MakeRoom("critic")
               [] OTHER -> UNCHANGED <<disk, saved>>
    BY <1>17 DEF LoadModel
  <2>2. UNCHANGED <<config, job, todo, global_steps, tracker>>
    BY <1>17 DEF LoadModel
  <2>3. CASE call \notin SaveChain
    <3>1. UNCHANGED <<disk, saved>>
      BY <2>1, <2>3 DEF SaveChain
    <3>2. call # "load"
      BY DEF Loads
    <3> QED BY <2>1, <2>2, <2>3, <3>1, <3>2, CallTypes, QuietCall DEF At, store, SaveChain
  <2>4. CASE call = "save_actor"
    BY <2>1, <2>2, <2>4, RoomMade DEF SaveOf, Models
  <2>5. CASE call = "save_critic"
    BY <2>1, <2>2, <2>5, RoomMade DEF SaveOf, Models
  <2> QED BY <2>3, <2>4, <2>5 DEF Loads, SaveChain
<1> QED
  BY <1>1, <1>2, <1>3, <1>4, <1>5, <1>6, <1>7, <1>8, <1>9, <1>10, <1>11, <1>12, <1>13,
     <1>14, <1>15, <1>16, <1>17 DEF Next, Driver

LEMMA InitStore == Init => LoadedByCall /\ SafeStore
<1> SUFFICES ASSUME Init PROVE LoadedByCall /\ SafeStore
  OBVIOUS
<1>1. /\ job = "down" /\ gpu = {} /\ tracker = 0
      /\ saved = [actor |-> <<>>, critic |-> <<>>]
  BY DEF Init, FreshMemory
<1>2. \A c : ~At(c)
  BY <1>1 DEF At
<1>3. ASSUME NEW m \in InUse PROVE Rotation(m)
  <2>1. saved[m] = <<>> /\ Len(saved[m]) = 0
    BY <1>1 DEF InUse
  <2> QED BY <1>1, <1>2, <2>1 DEF Rotation, Registered, ActorSaved, CriticSaved, DataSaved
<1> QED BY <1>1, <1>2, <1>3 DEF LoadedByCall, SafeStore, Named, PartsWritten, ActorSaved,
                                CriticSaved, DataSaved, TrackerBehind

\* Whenever the job dies, in any configuration that keeps more than one
\* checkpoint, what the tracker names can be loaded.
THEOREM CheckpointRecoverable == Spec => []Recoverable
<1>1. Init => StoreInv
  BY InitTypes, InitStore DEF StoreInv
<1>2. StoreInv /\ [Next]_vars => StoreInv'
  BY NextTypes, NextLoaded, NextStore DEF StoreInv
<1>3. StoreInv => Recoverable
  BY DEF StoreInv, SafeStore, Named, Complete, Recoverable
<1> QED BY <1>1, <1>2, <1>3, PTL DEF Spec

-----------------------------------------------------------------------------
(***************************************************************************)
(* The order of the driver's calls, for every configuration of both        *)
(* trainers, and what follows from it: the KV cache and the trainer's      *)
(* models take turns on the GPUs, the replicas are awake when they are     *)
(* asked for responses, a batch is never further behind the actor than its *)
(* trainer allows, and a job that was killed and resumed has trained its   *)
(* models as an uninterrupted one.                                         *)
(*                                                                         *)
(* The argument is about todo, the calls a handler still has to make:      *)
(* which call lies between, or before, which others.  A call that is made  *)
(* takes the head of the sequence away, and may put a few in its place;    *)
(* the lemmas below say once what that preserves.                          *)
(***************************************************************************)

\* The order of the calls a handler still has to make: between a call of
\* "off" and a later one of "use" there is one of "on"; there is one of "on"
\* before the first of "use"; after every one of "off" there is one of "on".
Separated(s, use, off, on) ==
  \A i, k \in DOMAIN s : k < i /\ s[i] \in use /\ s[k] \in off
     => \E j \in DOMAIN s : k < j /\ j < i /\ s[j] \in on
Preceded(s, use, on) ==
  \A i \in DOMAIN s : s[i] \in use => \E j \in DOMAIN s : j < i /\ s[j] \in on
Settled(s, off, on) ==
  \A k \in DOMAIN s : s[k] \in off => \E j \in DOMAIN s : k < j /\ s[j] \in on
Without(s, calls) == \A i \in DOMAIN s : s[i] \notin calls

LEMMA TailShape ==
  ASSUME NEW s \in Seq(Calls), s # <<>>
  PROVE  /\ Tail(s) \in Seq(Calls) /\ Len(s) \in Nat /\ Len(s) >= 1
         /\ DOMAIN s = 1 .. Len(s) /\ DOMAIN Tail(s) = 1 .. Len(s) - 1
         /\ \A i \in 1 .. Len(s) - 1 : Tail(s)[i] = s[i + 1]
         /\ Head(s) = s[1] /\ s[1] \in Calls
<1>1. /\ Tail(s) \in Seq(Calls) /\ Len(Tail(s)) = Len(s) - 1
      /\ \A i \in 1 .. Len(Tail(s)) : Tail(s)[i] = s[i + 1]
      /\ DOMAIN Tail(s) = 1 .. Len(Tail(s)) /\ DOMAIN s = 1 .. Len(s)
      /\ Head(s) = s[1] /\ Len(s) \in Nat /\ Len(s) # 0
  BY HeadTailProperties, LenProperties, EmptySeq
<1> QED BY <1>1

LEMMA ConcatShape ==
  ASSUME NEW s \in Seq(Calls), NEW t \in Seq(Calls)
  PROVE  /\ s \o t \in Seq(Calls) /\ Len(s) \in Nat /\ Len(t) \in Nat
         /\ DOMAIN s = 1 .. Len(s) /\ DOMAIN t = 1 .. Len(t)
         /\ DOMAIN (s \o t) = 1 .. (Len(s) + Len(t))
         /\ \A i \in 1 .. Len(s) : (s \o t)[i] = s[i]
         /\ \A i \in 1 .. Len(t) : (s \o t)[Len(s) + i] = t[i]
<1> DEFINE u == s \o t
<1>1. /\ u \in Seq(Calls)
      /\ \A i \in DOMAIN u : u[i] = IF i <= Len(s) THEN s[i] ELSE t[i - Len(s)]
      /\ DOMAIN u = 1 .. (Len(s) + Len(t))
  BY ConcatProperties, LenProperties
<1>2. DOMAIN s = 1 .. Len(s) /\ DOMAIN t = 1 .. Len(t) /\ Len(s) \in Nat /\ Len(t) \in Nat
  BY LenProperties
<1> HIDE DEF u
<1>3. \A i \in 1 .. Len(s) : u[i] = s[i]
  BY <1>1, <1>2
<1>4. \A i \in 1 .. Len(t) : u[Len(s) + i] = t[i]
  <2> SUFFICES ASSUME NEW i \in 1 .. Len(t) PROVE u[Len(s) + i] = t[i]
    OBVIOUS
  <2>1. Len(s) + i \in DOMAIN u /\ ~(Len(s) + i <= Len(s)) /\ (Len(s) + i) - Len(s) = i
    BY <1>1, <1>2
  <2> QED BY <1>1, <2>1
<1> QED BY <1>1, <1>2, <1>3, <1>4 DEF u

\* The first call is made.
LEMMA TailOrder ==
  ASSUME NEW s \in Seq(Calls), s # <<>>, NEW use, NEW off, NEW on
  PROVE  /\ Separated(s, use, off, on) => Separated(Tail(s), use, off, on)
         /\ Separated(s, use, off, on) /\ Head(s) \in off => Preceded(Tail(s), use, on)
         /\ Preceded(s, use, on) => /\ Head(s) \notin use
                                    /\ Head(s) \notin on => Preceded(Tail(s), use, on)
         /\ Without(s, use) => Without(Tail(s), use)
<1> DEFINE t == Tail(s)
<1>1. /\ Len(s) \in Nat /\ Len(s) >= 1
      /\ DOMAIN s = 1 .. Len(s) /\ DOMAIN t = 1 .. Len(s) - 1
      /\ \A i \in 1 .. Len(s) - 1 : t[i] = s[i + 1]
      /\ Head(s) = s[1]
  BY TailShape
<1> HIDE DEF t
<1>2. \A i \in DOMAIN t : i \in Nat /\ i + 1 \in DOMAIN s /\ t[i] = s[i + 1]
  BY <1>1
<1>3. \A j \in DOMAIN s : j \in Nat /\ (j # 1 => j - 1 \in DOMAIN t /\ t[j - 1] = s[j])
  BY <1>1
<1>4. ASSUME Separated(s, use, off, on) PROVE Separated(t, use, off, on)
  <2> SUFFICES ASSUME NEW i \in DOMAIN t, NEW k \in DOMAIN t, k < i, t[i] \in use, t[k] \in off
               PROVE  \E j \in DOMAIN t : k < j /\ j < i /\ t[j] \in on
    BY DEF Separated
  <2>1. PICK j \in DOMAIN s : k + 1 < j /\ j < i + 1 /\ s[j] \in on
    BY <1>2, <1>4 DEF Separated
  <2>2. j - 1 \in DOMAIN t /\ t[j - 1] \in on /\ k < j - 1 /\ j - 1 < i
    BY <1>2, <1>3, <2>1
  <2> QED BY <2>2
<1>5. ASSUME Separated(s, use, off, on), Head(s) \in off PROVE Preceded(t, use, on)
  <2> SUFFICES ASSUME NEW i \in DOMAIN t, t[i] \in use
               PROVE  \E j \in DOMAIN t : j < i /\ t[j] \in on
    BY DEF Preceded
  <2>0. 1 \in DOMAIN s /\ i >= 1 /\ 1 < i + 1
    BY <1>1, <1>2
  <2>1. PICK j \in DOMAIN s : 1 < j /\ j < i + 1 /\ s[j] \in on
    BY <1>1, <1>2, <1>5, <2>0 DEF Separated
  <2>2. j - 1 \in DOMAIN t /\ t[j - 1] \in on /\ j - 1 < i
    BY <1>2, <1>3, <2>1
  <2> QED BY <2>2
<1>6. ASSUME Preceded(s, use, on), Head(s) \notin on PROVE Preceded(t, use, on)
  <2> SUFFICES ASSUME NEW i \in DOMAIN t, t[i] \in use
               PROVE  \E j \in DOMAIN t : j < i /\ t[j] \in on
    BY DEF Preceded
  <2>1. PICK j \in DOMAIN s : j < i + 1 /\ s[j] \in on
    BY <1>2, <1>6 DEF Preceded
  <2>2. j - 1 \in DOMAIN t /\ t[j - 1] \in on /\ j - 1 < i
    BY <1>1, <1>2, <1>3, <1>6, <2>1
  <2> QED BY <2>2
<1>7. ASSUME Preceded(s, use, on) PROVE Head(s) \notin use
  BY <1>1, <1>7 DEF Preceded
<1>8. Without(s, use) => Without(t, use)
  BY <1>2 DEF Without
<1> QED BY <1>4, <1>5, <1>6, <1>7, <1>8 DEF t

\* Calls are put before others.
LEMMA ConcatOrder ==
  ASSUME NEW s \in Seq(Calls), NEW t \in Seq(Calls), NEW use, NEW off, NEW on
  PROVE  /\ /\ Separated(s, use, off, on) /\ Separated(t, use, off, on)
            /\ Preceded(t, use, on) \/ Settled(s, off, on)
            => Separated(s \o t, use, off, on)
         /\ Preceded(s, use, on) /\ (Preceded(t, use, on) \/ ~Without(s, on))
            => Preceded(s \o t, use, on)
         /\ Settled(t, off, on) /\ (Settled(s, off, on) \/ ~Without(t, on))
            => Settled(s \o t, off, on)
         /\ Without(s, use) /\ Without(t, use) => Without(s \o t, use)
         /\ ~Without(s, use) \/ ~Without(t, use) => ~Without(s \o t, use)
<1> DEFINE u == s \o t
<1>1. /\ Len(s) \in Nat /\ Len(t) \in Nat
      /\ DOMAIN s = 1 .. Len(s) /\ DOMAIN t = 1 .. Len(t)
      /\ DOMAIN u = 1 .. (Len(s) + Len(t))
      /\ \A i \in 1 .. Len(s) : u[i] = s[i]
      /\ \A i \in 1 .. Len(t) : u[Len(s) + i] = t[i]
  BY ConcatShape
<1> HIDE DEF u
<1>2. \A i \in DOMAIN s : i \in Nat /\ i <= Len(s) /\ i \in DOMAIN u /\ u[i] = s[i]
  BY <1>1
<1>3. \A i \in DOMAIN t : i \in Nat /\ i >= 1 /\ Len(s) + i \in DOMAIN u /\ u[Len(s) + i] = t[i]
  BY <1>1
<1>4. ASSUME NEW i \in DOMAIN u
      PROVE  \/ i \in DOMAIN s /\ u[i] = s[i] /\ i <= Len(s)
             \/ /\ i - Len(s) \in DOMAIN t /\ i - Len(s) >= 1 /\ i > Len(s)
                /\ i \in Nat /\ u[i] = t[i - Len(s)]
  <2>1. CASE i <= Len(s)
    BY <1>1, <2>1
  <2>2. CASE i > Len(s)
    <3>1. i - Len(s) \in 1 .. Len(t) /\ Len(s) + (i - Len(s)) = i /\ i \in Nat
      BY <1>1, <2>2
    <3> QED BY <1>1, <2>2, <3>1
  <2> QED BY <1>1, <2>1, <2>2
<1>5. ASSUME Separated(s, use, off, on), Separated(t, use, off, on),
             Preceded(t, use, on) \/ Settled(s, off, on)
      PROVE  Separated(u, use, off, on)
  <2> SUFFICES ASSUME NEW i \in DOMAIN u, NEW k \in DOMAIN u, k < i, u[i] \in use, u[k] \in off
               PROVE  \E j \in DOMAIN u : k < j /\ j < i /\ u[j] \in on
    BY DEF Separated
  <2>1. CASE i <= Len(s)
    <3>1. i \in DOMAIN s /\ k \in DOMAIN s /\ u[i] = s[i] /\ u[k] = s[k]
      BY <1>1, <1>4, <2>1
    <3>2. PICK j \in DOMAIN s : k < j /\ j < i /\ s[j] \in on
      BY <1>5, <3>1 DEF Separated
    <3> QED BY <1>2, <3>2
  <2>2. CASE k > Len(s)
    <3>1. i - Len(s) \in DOMAIN t /\ k - Len(s) \in DOMAIN t /\ i \in Nat /\ k \in Nat
          /\ u[i] = t[i - Len(s)] /\ u[k] = t[k - Len(s)]
      BY <1>1, <1>4, <2>2
    <3>2. PICK j \in DOMAIN t : k - Len(s) < j /\ j < i - Len(s) /\ t[j] \in on
      BY <1>1, <1>5, <3>1 DEF Separated
    <3>3. Len(s) + j \in DOMAIN u /\ u[Len(s) + j] \in on /\ k < Len(s) + j /\ Len(s) + j < i
      BY <1>1, <1>3, <3>1, <3>2
    <3> QED BY <3>3
  <2>3. CASE i > Len(s) /\ k <= Len(s)
    <3>1. i - Len(s) \in DOMAIN t /\ k \in DOMAIN s /\ i \in Nat
          /\ u[i] = t[i - Len(s)] /\ u[k] = s[k]
      BY <1>1, <1>4, <2>3
    <3>2. CASE Preceded(t, use, on)
      <4>1. PICK j \in DOMAIN t : j < i - Len(s) /\ t[j] \in on
        BY <3>1, <3>2 DEF Preceded
      <4>2. Len(s) + j \in DOMAIN u /\ u[Len(s) + j] \in on /\ k < Len(s) + j /\ Len(s) + j < i
        BY <1>1, <1>2, <1>3, <3>1, <4>1
      <4> QED BY <4>2
    <3>3. CASE Settled(s, off, on)
      <4>1. PICK j \in DOMAIN s : k < j /\ s[j] \in on
        BY <3>1, <3>3 DEF Settled
      <4>2. j \in DOMAIN u /\ u[j] \in on /\ j < i
        BY <1>1, <1>2, <2>3, <3>1, <4>1
      <4> QED BY <4>1, <4>2
    <3> QED BY <1>5, <3>2, <3>3
  <2>4. i \in Nat /\ k \in Nat
    BY <1>1
  <2> QED BY <1>1, <2>1, <2>2, <2>3, <2>4
<1>6. ASSUME Preceded(s, use, on), Preceded(t, use, on) \/ ~Without(s, on)
      PROVE  Preceded(u, use, on)
  <2> SUFFICES ASSUME NEW i \in DOMAIN u, u[i] \in use
               PROVE  \E j \in DOMAIN u : j < i /\ u[j] \in on
    BY DEF Preceded
  <2>1. CASE i \in DOMAIN s /\ u[i] = s[i]
    BY <1>2, <1>6, <2>1 DEF Preceded
  <2>2. CASE /\ i - Len(s) \in DOMAIN t /\ i > Len(s)
             /\ i \in Nat /\ u[i] = t[i - Len(s)]
    <3>1. CASE Preceded(t, use, on)
      <4>1. PICK j \in DOMAIN t : j < i - Len(s) /\ t[j] \in on
        BY <2>2, <3>1 DEF Preceded
      <4>2. Len(s) + j \in DOMAIN u /\ u[Len(s) + j] \in on /\ Len(s) + j < i
        BY <1>1, <1>3, <2>2, <4>1
      <4> QED BY <4>2
    <3>2. CASE ~Without(s, on)
      <4>1. PICK j \in DOMAIN s : s[j] \in on
        BY <3>2 DEF Without
      <4>2. j < i
        BY <1>1, <1>2, <2>2
      <4> QED BY <1>2, <4>1, <4>2
    <3> QED BY <1>6, <3>1, <3>2
  <2> QED BY <1>4, <2>1, <2>2
<1>7. ASSUME Settled(t, off, on), Settled(s, off, on) \/ ~Without(t, on)
      PROVE  Settled(u, off, on)
  <2> SUFFICES ASSUME NEW k \in DOMAIN u, u[k] \in off
               PROVE  \E j \in DOMAIN u : k < j /\ u[j] \in on
    BY DEF Settled
  <2>1. CASE k \in DOMAIN s /\ u[k] = s[k]
    <3>1. CASE Settled(s, off, on)
      BY <1>2, <2>1, <3>1 DEF Settled
    <3>2. CASE ~Without(t, on)
      <4>1. PICK j \in DOMAIN t : t[j] \in on
        BY <3>2 DEF Without
      <4>2. k < Len(s) + j
        BY <1>1, <1>2, <1>3, <2>1
      <4> QED BY <1>3, <4>1, <4>2
    <3> QED BY <1>7, <3>1, <3>2
  <2>2. CASE k - Len(s) \in DOMAIN t /\ k \in Nat /\ u[k] = t[k - Len(s)]
    <3>1. PICK j \in DOMAIN t : k - Len(s) < j /\ t[j] \in on
      BY <1>7, <2>2 DEF Settled
    <3>2. k < Len(s) + j
      BY <1>1, <1>3, <2>2, <3>1
    <3> QED BY <1>3, <3>1, <3>2
  <2> QED BY <1>4, <2>1, <2>2
<1>8. Without(s, use) /\ Without(t, use) => Without(u, use)
  BY <1>4 DEF Without
<1>9. ~Without(s, use) \/ ~Without(t, use) => ~Without(u, use)
  BY <1>2, <1>3 DEF Without
<1> QED BY <1>5, <1>6, <1>7, <1>8, <1>9 DEF u

LEMMA SingleOrder ==
  ASSUME NEW call \in Calls, NEW use, NEW off, NEW on
  PROVE  /\ <<call>> \in Seq(Calls)
         /\ Separated(<<call>>, use, off, on)
         /\ Preceded(<<call>>, use, on) <=> call \notin use
         /\ Settled(<<call>>, off, on) <=> call \notin off
         /\ Without(<<call>>, use) <=> call \notin use
<1>1. <<call>> \in Seq(Calls) /\ DOMAIN <<call>> = {1} /\ <<call>>[1] = call
  OBVIOUS
<1> DEFINE s == <<call>>
<1> HIDE DEF s
<1>2. s \in Seq(Calls) /\ DOMAIN s = {1} /\ s[1] = call
  BY <1>1 DEF s
<1>3. /\ Separated(s, use, off, on)
      /\ Preceded(s, use, on) <=> call \notin use
      /\ Settled(s, off, on) <=> call \notin off
      /\ Without(s, use) <=> call \notin use
  BY <1>2 DEF Separated, Preceded, Settled, Without
<1> QED BY <1>2, <1>3 DEF s

\* Nothing is left to do, or a part of the plan is left out.
LEMMA EmptyOrder ==
  ASSUME NEW use, NEW off, NEW on
  PROVE  /\ <<>> \in Seq(Calls)
         /\ Separated(<<>>, use, off, on) /\ Preceded(<<>>, use, on)
         /\ Settled(<<>>, off, on) /\ Without(<<>>, use)
BY DEF Separated, Preceded, Settled, Without

LEMMA OptionalOrder ==
  ASSUME NEW s \in Seq(Calls), NEW condition \in BOOLEAN, NEW use, NEW off, NEW on
  PROVE  /\ If(condition, s) \in Seq(Calls)
         /\ Separated(s, use, off, on) => Separated(If(condition, s), use, off, on)
         /\ Preceded(s, use, on) => Preceded(If(condition, s), use, on)
         /\ Settled(s, off, on) => Settled(If(condition, s), off, on)
         /\ Without(s, use) \/ ~condition => Without(If(condition, s), use)
         /\ condition /\ ~Without(s, use) => ~Without(If(condition, s), use)
BY EmptyOrder DEF If

LEMMA PairOrder ==
  ASSUME NEW first \in Calls, NEW second \in Calls, NEW use, NEW off, NEW on
  PROVE  LET s == <<first, second>> IN
         /\ s \in Seq(Calls)
         /\ first \notin off \/ second \notin use => Separated(s, use, off, on)
         /\ first \notin use /\ (first \in on \/ second \notin use) => Preceded(s, use, on)
         /\ (first \notin off \/ second \in on) /\ second \notin off => Settled(s, off, on)
         /\ Without(s, use) <=> first \notin use /\ second \notin use
<1> DEFINE s == <<first, second>>
<1>1. /\ s \in Seq(Calls) /\ DOMAIN s = {1, 2}
      /\ s[1] = first /\ s[2] = second
  OBVIOUS
<1> HIDE DEF s
<1>2. first \notin off \/ second \notin use => Separated(s, use, off, on)
  BY <1>1 DEF Separated
<1>3. first \notin use /\ (first \in on \/ second \notin use) => Preceded(s, use, on)
  BY <1>1 DEF Preceded
<1>4. (first \notin off \/ second \in on) /\ second \notin off => Settled(s, off, on)
  BY <1>1 DEF Settled
<1>5. Without(s, use) <=> first \notin use /\ second \notin use
  BY <1>1 DEF Without
<1> QED BY <1>1, <1>2, <1>3, <1>4, <1>5 DEF s

LEMMA TripleOrder ==
  ASSUME NEW first \in Calls, NEW second \in Calls, NEW third \in Calls,
         NEW use, NEW off, NEW on
  PROVE  LET s == <<first, second, third>> IN
         /\ s \in Seq(Calls)
         /\ /\ first \notin off \/ (second \notin use /\ (second \in on \/ third \notin use))
            /\ second \notin off \/ third \notin use
            => Separated(s, use, off, on)
         /\ first \notin use /\ (first \in on \/ (second \notin use /\ (second \in on \/ third \notin use)))
            => Preceded(s, use, on)
         /\ third \notin off /\ (third \in on \/ (first \notin off /\ second \notin off))
            => Settled(s, off, on)
         /\ Without(s, use) <=> first \notin use /\ second \notin use /\ third \notin use
<1> DEFINE s == <<first, second, third>>
<1>1. /\ s \in Seq(Calls) /\ DOMAIN s = {1, 2, 3}
      /\ s[1] = first /\ s[2] = second /\ s[3] = third
  OBVIOUS
<1> HIDE DEF s
<1>2. /\ first \notin off \/ (second \notin use /\ (second \in on \/ third \notin use))
      /\ second \notin off \/ third \notin use
      => Separated(s, use, off, on)
  BY <1>1 DEF Separated
<1>3. first \notin use /\ (first \in on \/ (second \notin use /\ (second \in on \/ third \notin use)))
      => Preceded(s, use, on)
  BY <1>1 DEF Preceded
<1>4. third \notin off /\ (third \in on \/ (first \notin off /\ second \notin off))
      => Settled(s, off, on)
  BY <1>1 DEF Settled
<1>5. Without(s, use) <=> first \notin use /\ second \notin use /\ third \notin use
  BY <1>1 DEF Without
<1> QED BY <1>1, <1>2, <1>3, <1>4, <1>5 DEF s

\* Calls that are not in a plan cannot be out of order in it.
LEMMA WithoutOrder ==
  ASSUME NEW s \in Seq(Calls), NEW calls, Without(s, calls), NEW some \in SUBSET calls,
         NEW use, NEW off, NEW on
  PROVE  /\ Without(s, some)
         /\ Separated(s, some, off, on) /\ Separated(s, use, some, on)
         /\ Preceded(s, some, on) /\ Settled(s, some, on)
BY DEF Without, Separated, Preceded, Settled

-----------------------------------------------------------------------------
\* Calls that wake the replicas and fill the shared GPUs, calls that load a
\* model of the trainer or go on with one that does, calls that use the
\* replicas or come before one that does.
Waking    == {"push", "send_params", "offload_params", "resume_kv_cache"}
Computing == DOMAIN Loads \cup {"save", "push", "send_params", "offload_params"}
Serving   == {"generate", "validate", "fetch", "first_step", "finish"}

\* Calls before which the replicas must have the trainer's weights, and the
\* calls that send them; the call that hands over a generated batch.
Generating == {"generate", "start", "fetch", "first_step"}
                \cup IF config.pipelined THEN {} ELSE {"finish"}
Sending    == {"push", "send_params"}
Receiving  == IF config.pipelined THEN {"await"} ELSE {"generate"}

\* Calls that train the models, each once per step, and those that save them.
TrainsCritic == {"update_critic", "fetch", "step"}
TrainsActor  == {"update_actor", "fetch", "step"}
Saving       == {"save", "save_actor", "save_critic", "save_data"}
Closing      == {"finish", "first_step"}       \* the last call of a plan

ConfigTypes == /\ config.use_rm \in BOOLEAN /\ config.use_critic \in BOOLEAN
               /\ config.pipelined \in BOOLEAN
               /\ config.critic_warmup \in Nat /\ config.total_steps \in Nat
               /\ config.save_freq \in Nat /\ config.test_freq \in Nat /\ config.keep \in Nat
               /\ config.pipelined => ~config.use_rm

LEMMA ValidateOrder ==
  ASSUME config.use_rm \in BOOLEAN
  PROVE  /\ ValidateCalls \in Seq(Calls)
         /\ Separated(ValidateCalls, Computing, Waking, {"sleep"})
         /\ Preceded(ValidateCalls, Computing, {"sleep"})
         /\ Separated(ValidateCalls, Serving, {"sleep"}, Waking)
         /\ Settled(ValidateCalls, {"sleep"}, Waking)
         /\ Without(ValidateCalls, Calls \ {"validate", "sleep", "reward", "push"})
         /\ ~config.use_rm => Without(ValidateCalls, Calls \ {"validate"})
<1> DEFINE a == <<"validate">>
           b == <<"sleep", "reward", "push">>
           c == If(config.use_rm, b)
<1>1. {"validate", "sleep", "reward", "push"} \subseteq Calls
  BY DEF Calls
<1>2. /\ Separated(a, Computing, Waking, {"sleep"}) /\ Preceded(a, Computing, {"sleep"})
      /\ Separated(a, Serving, {"sleep"}, Waking) /\ Settled(a, {"sleep"}, Waking)
      /\ Without(a, Calls \ {"validate"})
      /\ Without(a, Calls \ {"validate", "sleep", "reward", "push"})
  BY <1>1, SingleOrder DEF Computing, Waking, Serving, Loads
<1>3. /\ Separated(b, Computing, Waking, {"sleep"}) /\ Preceded(b, Computing, {"sleep"})
      /\ Separated(b, Serving, {"sleep"}, Waking) /\ Settled(b, {"sleep"}, Waking)
      /\ Without(b, Calls \ {"validate", "sleep", "reward", "push"})
      /\ Preceded(b, Serving, Waking)
  <2>1. /\ "sleep" \notin Computing /\ "push" \in Waking /\ "sleep" \notin Waking
        /\ "reward" \notin Waking
    BY DEF Computing, Waking, Loads
  <2>2. {"sleep", "reward", "push"} \cap Serving = {}
    BY DEF Serving
  <2>3. /\ Separated(b, Computing, Waking, {"sleep"}) /\ Preceded(b, Computing, {"sleep"})
        /\ Separated(b, Serving, {"sleep"}, Waking) /\ Preceded(b, Serving, Waking)
    BY <1>1, <2>1, <2>2, TripleOrder
  <2>4. Settled(b, {"sleep"}, Waking)
    BY <1>1, <2>1, TripleOrder
  <2>5. Without(b, Calls \ {"validate", "sleep", "reward", "push"})
    BY <1>1, TripleOrder
  <2> QED BY <2>3, <2>4, <2>5
<1>4. a \in Seq(Calls) /\ b \in Seq(Calls) /\ ValidateCalls = a \o c
  BY <1>1, SingleOrder, TripleOrder DEF ValidateCalls
<1> HIDE DEF a, b
<1>5. /\ c \in Seq(Calls)
      /\ Separated(c, Computing, Waking, {"sleep"}) /\ Preceded(c, Computing, {"sleep"})
      /\ Separated(c, Serving, {"sleep"}, Waking) /\ Settled(c, {"sleep"}, Waking)
      /\ Without(c, Calls \ {"validate", "sleep", "reward", "push"})
      /\ Preceded(c, Serving, Waking)
      /\ ~config.use_rm => Without(c, Calls \ {"validate"})
  BY <1>3, <1>4, OptionalOrder
<1> HIDE DEF c
<1> QED BY <1>2, <1>4, <1>5, ConcatOrder, ConcatShape

LEMMA CriticOrder ==
  ASSUME config.use_critic \in BOOLEAN
  PROVE  /\ CriticCalls \in Seq(Calls)
         /\ Without(CriticCalls, Calls \ {"values", "update_critic"})
         /\ Separated(CriticCalls, TrainsCritic, TrainsCritic, {})
         /\ Without(CriticCalls, {"update_critic"}) <=> ~config.use_critic
<1> DEFINE a == <<"values", "update_critic">>
<1>1. {"values", "update_critic"} \subseteq Calls
  BY DEF Calls
<1>2. /\ a \in Seq(Calls) /\ CriticCalls = If(config.use_critic, a)
      /\ Without(a, Calls \ {"values", "update_critic"})
      /\ Separated(a, TrainsCritic, TrainsCritic, {})
      /\ ~Without(a, {"update_critic"})
  <2>1. CriticCalls = If(config.use_critic, a)
    BY DEF CriticCalls
  <2>2. /\ a \in Seq(Calls)
        /\ Without(a, Calls \ {"values", "update_critic"})
        /\ ~Without(a, {"update_critic"})
    BY <1>1, PairOrder
  <2>3. Separated(a, TrainsCritic, TrainsCritic, {})
    BY <1>1, PairOrder DEF TrainsCritic
  <2> QED BY <2>1, <2>2, <2>3
<1> HIDE DEF a
<1> QED BY <1>2, OptionalOrder

LEMMA WithoutConcat ==
  ASSUME NEW s \in Seq(Calls), NEW t \in Seq(Calls), NEW calls
  PROVE  Without(s \o t, calls) <=> Without(s, calls) /\ Without(t, calls)
BY ConcatOrder

LEMMA SeparatedConcat ==
  ASSUME NEW s \in Seq(Calls), NEW t \in Seq(Calls), NEW use, NEW off, NEW on,
         Separated(s, use, off, on), Separated(t, use, off, on),
         Preceded(t, use, on) \/ Settled(s, off, on)
  PROVE  Separated(s \o t, use, off, on)
BY ConcatOrder

LEMMA PrecededConcat ==
  ASSUME NEW s \in Seq(Calls), NEW t \in Seq(Calls), NEW use, NEW on,
         Preceded(s, use, on), Preceded(t, use, on) \/ ~Without(s, on)
  PROVE  Preceded(s \o t, use, on)
BY ConcatOrder

LEMMA SettledConcat ==
  ASSUME NEW s \in Seq(Calls), NEW t \in Seq(Calls), NEW off, NEW on,
         Settled(t, off, on), Settled(s, off, on) \/ ~Without(t, on)
  PROVE  Settled(s \o t, off, on)
BY ConcatOrder

\* The plan of a step of RayPPOTrainer: the part that trains the critic, the
\* part that trains the actor, the validation and the end of the step.
EarlyCalls == {"generate", "sleep", "reward", "log_prob", "values", "update_critic"}
ActorPart  == <<"update_actor", "save", "push">>
ActorCalls == If(ActorTrains, ActorPart)
CriticPart == <<"generate", "sleep">> \o If(config.use_rm, <<"reward">>) \o <<"log_prob">>
                \o CriticCalls
TestCalls  == If(Validates, ValidateCalls)

LEMMA CriticPartOrder ==
  ASSUME ConfigTypes
  PROVE  /\ CriticPart \in Seq(Calls)
         /\ Without(CriticPart, Calls \ EarlyCalls)
         /\ Preceded(CriticPart, Computing, {"sleep"})
         /\ Separated(CriticPart, Serving, {"sleep"}, Waking)
         /\ Separated(CriticPart, TrainsCritic, TrainsCritic, {})
         /\ ~Without(CriticPart, {"generate"}) /\ ~Without(CriticPart, {"sleep"})
         /\ Without(CriticPart, {"update_critic"}) <=> ~config.use_critic
<1> DEFINE p == <<"generate", "sleep">>
           q == <<"reward">>
           r == <<"log_prob">>
           o == If(config.use_rm, q)
           b == p \o o
           c == b \o r
           others == Calls \ EarlyCalls
<1>1. /\ {"generate", "sleep", "reward", "log_prob"} \subseteq Calls
      /\ {"generate", "sleep", "reward", "log_prob"} \cap others = {}
  BY DEF Calls, EarlyCalls
<1>2. /\ p \in Seq(Calls) /\ Without(p, others)
      /\ ~Without(p, {"sleep"}) /\ ~Without(p, {"generate"}) /\ Without(p, {"update_critic"})
      /\ Without(p, TrainsCritic)
      /\ Preceded(p, Computing, {"sleep"}) /\ Separated(p, Serving, {"sleep"}, Waking)
  <2>1. "generate" \in Calls /\ "sleep" \in Calls /\ "generate" \notin others /\ "sleep" \notin others
    BY <1>1
  <2>2. "sleep" \notin Serving /\ "sleep" \notin Computing /\ "generate" \notin Computing
    BY DEF Computing, Serving, Loads
  <2>3. "generate" \notin TrainsCritic /\ "sleep" \notin TrainsCritic
    BY DEF TrainsCritic
  <2> HIDE DEF others
  <2>4. /\ p \in Seq(Calls) /\ Without(p, others)
        /\ ~Without(p, {"sleep"}) /\ ~Without(p, {"generate"}) /\ Without(p, {"update_critic"})
    BY <2>1, PairOrder
  <2>5. Without(p, TrainsCritic)
    BY <2>1, <2>3, PairOrder
  <2>6. Preceded(p, Computing, {"sleep"})
    BY <2>1, <2>2, PairOrder
  <2>7. Separated(p, Serving, {"sleep"}, Waking)
    BY <2>1, <2>2, PairOrder
  <2> QED
    BY <2>4, <2>5, <2>6, <2>7
<1>3. /\ q \in Seq(Calls) /\ Without(q, others) /\ Without(q, {"update_critic"})
      /\ Without(q, TrainsCritic) /\ Without(q, Serving)
  BY <1>1, SingleOrder DEF Serving, TrainsCritic
<1>4. /\ r \in Seq(Calls) /\ Without(r, others) /\ Without(r, {"update_critic"})
      /\ Without(r, TrainsCritic) /\ Without(r, Serving)
  BY <1>1, SingleOrder DEF Serving, TrainsCritic
<1>5. /\ CriticCalls \in Seq(Calls) /\ Without(CriticCalls, others) /\ Without(CriticCalls, Serving)
      /\ Separated(CriticCalls, TrainsCritic, TrainsCritic, {})
      /\ Without(CriticCalls, {"update_critic"}) <=> ~config.use_critic
  <2>1. others \subseteq Calls \ {"values", "update_critic"} /\ Serving \subseteq Calls \ {"values", "update_critic"}
    BY DEF EarlyCalls, Serving, Calls
  <2> QED BY <2>1, CriticOrder, WithoutOrder DEF ConfigTypes
<1>6. CriticPart = c \o CriticCalls
  BY DEF CriticPart
<1> HIDE DEF p, q, r, others
<1>7. /\ o \in Seq(Calls) /\ Without(o, others) /\ Without(o, {"update_critic"})
      /\ Without(o, TrainsCritic) /\ Without(o, Serving)
  BY <1>3, OptionalOrder DEF ConfigTypes
<1>8. b = p \o o /\ c = b \o r
  OBVIOUS
<1> HIDE DEF o, b, c
<1>9. b \in Seq(Calls) /\ c \in Seq(Calls) /\ CriticPart \in Seq(Calls)
  BY <1>2, <1>4, <1>5, <1>6, <1>7, <1>8, ConcatShape
<1>10. /\ Without(CriticPart, others) /\ Without(c, TrainsCritic)
       /\ ~Without(b, {"sleep"}) /\ ~Without(c, {"sleep"})
       /\ ~Without(CriticPart, {"generate"}) /\ ~Without(CriticPart, {"sleep"})
       /\ Without(CriticPart, {"update_critic"}) <=> ~config.use_critic
  <2>1. \A calls : Without(b, calls) <=> Without(p, calls) /\ Without(o, calls)
    BY <1>2, <1>7, <1>8, WithoutConcat
  <2>2. \A calls : Without(c, calls) <=> Without(b, calls) /\ Without(r, calls)
    BY <1>4, <1>8, <1>9, WithoutConcat
  <2>3. \A calls : Without(CriticPart, calls) <=> Without(c, calls) /\ Without(CriticCalls, calls)
    BY <1>5, <1>6, <1>9, WithoutConcat
  <2> QED BY <1>2, <1>4, <1>5, <1>7, <2>1, <2>2, <2>3
<1>11. Preceded(CriticPart, Computing, {"sleep"})
  BY <1>2, <1>4, <1>5, <1>6, <1>7, <1>8, <1>9, <1>10, PrecededConcat
<1>12. ASSUME NEW s \in Seq(Calls), Without(s, Serving)
       PROVE  Preceded(s, Serving, Waking) /\ Separated(s, Serving, {"sleep"}, Waking)
  BY <1>12 DEF Without, Preceded, Separated
<1>13. Separated(CriticPart, Serving, {"sleep"}, Waking)
  BY <1>2, <1>4, <1>5, <1>6, <1>7, <1>8, <1>9, <1>12, SeparatedConcat
<1>14. Separated(c, TrainsCritic, TrainsCritic, {}) /\ Settled(c, TrainsCritic, {})
  BY <1>10 DEF Without, Settled, Separated
<1>15. Separated(CriticPart, TrainsCritic, TrainsCritic, {})
  BY <1>5, <1>6, <1>9, <1>14, SeparatedConcat
<1> QED BY <1>9, <1>10, <1>11, <1>13, <1>15 DEF others

LEMMA ActorCallsOrder ==
  ASSUME ConfigTypes
  PROVE  /\ ActorCalls \in Seq(Calls)
         /\ Without(ActorCalls, Calls \ {"update_actor", "save", "push"})
         /\ Without(ActorCalls, {"update_actor"}) <=> ~ActorTrains
         /\ Separated(ActorCalls, Computing, Waking, {"sleep"})
         /\ Separated(ActorCalls, Generating, {"update_actor"}, Sending)
         /\ Settled(ActorCalls, {"update_actor"}, Sending)
         /\ Separated(ActorCalls, {"update_actor"}, {"update_actor"}, Receiving)
         /\ Separated(ActorCalls, TrainsActor, TrainsActor, {})
         /\ Separated(ActorCalls, TrainsCritic \cup TrainsActor, Saving, {})
         /\ ActorTrains => ~Without(ActorCalls, Waking)
<1>1. {"update_actor", "save", "push"} \subseteq Calls /\ ActorTrains \in BOOLEAN
  BY DEF Calls, ActorTrains
<1>2. /\ ActorPart \in Seq(Calls)
      /\ Without(ActorPart, Calls \ {"update_actor", "save", "push"})
      /\ ~Without(ActorPart, {"update_actor"}) /\ ~Without(ActorPart, Waking)
  BY <1>1, TripleOrder DEF ActorPart, Waking
<1>3. /\ Separated(ActorPart, Computing, Waking, {"sleep"})
      /\ Separated(ActorPart, Generating, {"update_actor"}, Sending)
      /\ Settled(ActorPart, {"update_actor"}, Sending)
  BY <1>1, TripleOrder DEF ActorPart, Computing, Waking, Generating, Sending
<1>4. /\ Separated(ActorPart, {"update_actor"}, {"update_actor"}, Receiving)
      /\ Separated(ActorPart, TrainsActor, TrainsActor, {})
      /\ Separated(ActorPart, TrainsCritic \cup TrainsActor, Saving, {})
  BY <1>1, TripleOrder DEF ActorPart, TrainsActor, TrainsCritic, Saving
<1> QED BY <1>1, <1>2, <1>3, <1>4, OptionalOrder DEF ActorCalls

LEMMA TestCallsOrder ==
  ASSUME ConfigTypes
  PROVE  /\ TestCalls \in Seq(Calls)
         /\ Separated(TestCalls, Computing, Waking, {"sleep"})
         /\ Preceded(TestCalls, Computing, {"sleep"})
         /\ Separated(TestCalls, Serving, {"sleep"}, Waking)
         /\ Settled(TestCalls, {"sleep"}, Waking)
         /\ Without(TestCalls, Calls \ {"validate", "sleep", "reward", "push"})
         /\ ~config.use_rm => Without(TestCalls, Calls \ {"validate"})
<1>1. Validates \in BOOLEAN
  BY DEF Validates
<1> QED BY <1>1, ValidateOrder, OptionalOrder DEF TestCalls, ConfigTypes

\* The plan of a step of RayPPOTrainer.
LEMMA ColocatedOrder ==
  ASSUME ConfigTypes, ~config.pipelined
  PROVE  /\ ColocatedCalls \in Seq(Calls)
         /\ Separated(ColocatedCalls, Computing, Waking, {"sleep"})
         /\ Preceded(ColocatedCalls, Computing, {"sleep"})
         /\ ActorTrains => Separated(ColocatedCalls, Serving, {"sleep"}, Waking)
         /\ Separated(ColocatedCalls, Generating, {"update_actor"}, Sending)
         /\ Separated(ColocatedCalls, {"update_actor"}, {"update_actor"}, Receiving)
         /\ Preceded(ColocatedCalls, {"update_actor"}, Receiving)
         /\ Separated(ColocatedCalls, TrainsCritic, TrainsCritic, {})
         /\ Separated(ColocatedCalls, TrainsActor, TrainsActor, {})
         /\ Separated(ColocatedCalls, TrainsCritic \cup TrainsActor, Saving, {})
         /\ Separated(ColocatedCalls, Calls, Closing, {})
         /\ Without(ColocatedCalls, {"load", "first_step", "fetch", "step", "start", "await"})
         /\ Without(ColocatedCalls, {"update_critic"}) <=> ~config.use_critic
         /\ Without(ColocatedCalls, {"update_actor"}) <=> ~ActorTrains
<1> DEFINE d == CriticPart
           e == d \o ActorCalls
           f == e \o TestCalls
           z == <<"finish">>
           C == ColocatedCalls
           actors == {"update_actor", "save", "push"}
           tests  == {"validate", "sleep", "reward", "push"}
<1>1. C = f \o z /\ f = e \o TestCalls /\ e = d \o ActorCalls
  BY DEF ColocatedCalls, CriticPart, ActorCalls, ActorPart, TestCalls
<1>2. /\ z \in Seq(Calls) /\ Without(z, Calls \ {"finish"})
      /\ \A use, off, on : Separated(z, use, off, on) /\ ("finish" \notin use => Preceded(z, use, on))
  BY SingleOrder DEF Calls
<1> HIDE DEF C, d, e, f, z
<1>3. d \in Seq(Calls) /\ ActorCalls \in Seq(Calls) /\ TestCalls \in Seq(Calls)
  BY CriticPartOrder, ActorCallsOrder, TestCallsOrder DEF d
<1>4. e \in Seq(Calls) /\ f \in Seq(Calls) /\ C \in Seq(Calls)
  BY <1>1, <1>2, <1>3, ConcatShape
<1>5. /\ Without(d, Calls \ EarlyCalls) /\ Without(ActorCalls, Calls \ actors)
      /\ Without(TestCalls, Calls \ tests) /\ Without(z, Calls \ {"finish"})
  BY <1>2, CriticPartOrder, ActorCallsOrder, TestCallsOrder DEF d
<1>6. Separated(C, Computing, Waking, {"sleep"})
  <2>1. Separated(d, Computing, Waking, {"sleep"}) /\ Settled(d, Waking, {"sleep"})
    <3>1. Waking \subseteq Calls \ EarlyCalls
      BY DEF Waking, Calls, EarlyCalls
    <3> QED BY <1>3, <1>5, <3>1, WithoutOrder
  <2>2. Separated(e, Computing, Waking, {"sleep"})
    BY <1>1, <1>3, <2>1, ActorCallsOrder, SeparatedConcat
  <2>3. Separated(f, Computing, Waking, {"sleep"})
    BY <1>1, <1>3, <1>4, <2>2, TestCallsOrder, SeparatedConcat
  <2>4. "finish" \notin Computing
    BY DEF Computing, Loads
  <2> QED BY <1>1, <1>2, <1>4, <2>3, <2>4, SeparatedConcat
<1>7. Preceded(C, Computing, {"sleep"})
  <2>1. Preceded(d, Computing, {"sleep"})
    BY CriticPartOrder DEF d
  <2>2. ~Without(d, {"sleep"})
    BY CriticPartOrder DEF d
  <2>3. Preceded(e, Computing, {"sleep"}) /\ ~Without(e, {"sleep"})
    BY <1>1, <1>3, <2>1, <2>2, PrecededConcat, WithoutConcat
  <2>4. Preceded(f, Computing, {"sleep"}) /\ ~Without(f, {"sleep"})
    BY <1>1, <1>3, <1>4, <2>3, PrecededConcat, WithoutConcat
  <2> QED BY <1>1, <1>2, <1>4, <2>4, PrecededConcat
<1>8. ASSUME ActorTrains PROVE Separated(C, Serving, {"sleep"}, Waking)
  <2>1. Separated(d, Serving, {"sleep"}, Waking)
    BY CriticPartOrder DEF d
  <2>2. Serving \subseteq Calls \ actors /\ {"sleep"} \subseteq Calls \ actors
    BY DEF Serving, Calls
  <2>3. /\ Separated(ActorCalls, Serving, {"sleep"}, Waking) /\ Preceded(ActorCalls, Serving, Waking)
        /\ Settled(ActorCalls, {"sleep"}, Waking) /\ ~Without(ActorCalls, Waking)
    BY <1>3, <1>5, <1>8, <2>2, WithoutOrder, ActorCallsOrder
  <2>4. Separated(e, Serving, {"sleep"}, Waking) /\ Settled(e, {"sleep"}, Waking)
    BY <1>1, <1>3, <2>1, <2>3, SeparatedConcat, SettledConcat
  <2>5. Separated(f, Serving, {"sleep"}, Waking)
    BY <1>1, <1>3, <1>4, <2>4, TestCallsOrder, SeparatedConcat
  <2>6. Settled(f, {"sleep"}, Waking)
    BY <1>1, <1>3, <1>4, <2>4, TestCallsOrder, SettledConcat
  <2> QED BY <1>1, <1>2, <1>4, <2>5, <2>6, SeparatedConcat
<1>9. ASSUME NEW use \in SUBSET {"generate", "start", "fetch", "first_step", "finish",
                                 "update_actor"}, NEW on,
             Separated(ActorCalls, use, {"update_actor"}, on),
             "finish" \notin use \/ Settled(ActorCalls, {"update_actor"}, on)
      PROVE  Separated(C, use, {"update_actor"}, on)
  <2>1. Separated(d, use, {"update_actor"}, on) /\ Settled(d, {"update_actor"}, on)
    <3>1. {"update_actor"} \subseteq Calls \ EarlyCalls
      BY DEF Calls, EarlyCalls
    <3> QED BY <1>3, <1>5, <3>1, WithoutOrder
  <2>2. Separated(e, use, {"update_actor"}, on)
    BY <1>1, <1>3, <1>9, <2>1, SeparatedConcat
  <2>3. use \subseteq Calls \ tests /\ {"update_actor"} \subseteq Calls \ tests
    BY DEF Calls
  <2>4. /\ Separated(TestCalls, use, {"update_actor"}, on) /\ Preceded(TestCalls, use, on)
        /\ Settled(TestCalls, {"update_actor"}, on)
    BY <1>3, <1>5, <2>3, WithoutOrder
  <2>5. Separated(f, use, {"update_actor"}, on)
    BY <1>1, <1>3, <1>4, <2>2, <2>4, SeparatedConcat
  <2>6. CASE "finish" \notin use
    BY <1>1, <1>2, <1>4, <2>5, <2>6, SeparatedConcat
  <2>7. CASE Settled(ActorCalls, {"update_actor"}, on)
    <3>1. Settled(e, {"update_actor"}, on)
      BY <1>1, <1>3, <2>1, <2>7, SettledConcat
    <3>2. Settled(f, {"update_actor"}, on)
      BY <1>1, <1>3, <1>4, <2>4, <3>1, SettledConcat
    <3> QED BY <1>1, <1>2, <1>4, <2>5, <3>2, SeparatedConcat
  <2> QED BY <1>9, <2>6, <2>7
<1>10. Separated(C, Generating, {"update_actor"}, Sending)
  <2>1. Generating \subseteq {"generate", "start", "fetch", "first_step", "finish", "update_actor"}
    BY DEF Generating
  <2> QED BY <1>9, <2>1, ActorCallsOrder
<1>11. Separated(C, {"update_actor"}, {"update_actor"}, Receiving)
  BY <1>9, ActorCallsOrder
<1>12. Preceded(C, {"update_actor"}, Receiving)
  <2>1. Receiving = {"generate"}
    BY DEF Receiving
  <2>2. Preceded(d, {"update_actor"}, {"generate"}) /\ ~Without(d, {"generate"})
    <3>1. {"update_actor"} \subseteq Calls \ EarlyCalls
      BY DEF Calls, EarlyCalls
    <3>2. Preceded(d, {"update_actor"}, {"generate"})
      BY <1>3, <1>5, <3>1, WithoutOrder
    <3>3. ~Without(d, {"generate"})
      BY CriticPartOrder DEF d
    <3> QED BY <3>2, <3>3
  <2>3. Preceded(e, {"update_actor"}, {"generate"}) /\ ~Without(e, {"generate"})
    BY <1>1, <1>3, <2>2, PrecededConcat, WithoutConcat
  <2>4. Preceded(f, {"update_actor"}, {"generate"}) /\ ~Without(f, {"generate"})
    BY <1>1, <1>3, <1>4, <2>3, PrecededConcat, WithoutConcat
  <2> QED BY <1>1, <1>2, <1>4, <2>1, <2>4, PrecededConcat
<1>13. ASSUME NEW use \in SUBSET (TrainsCritic \cup TrainsActor), NEW off,
              Separated(d, use, off, {}), Separated(ActorCalls, use, off, {}),
              Settled(d, off, {}) \/ use \subseteq TrainsCritic
       PROVE  Separated(C, use, off, {})
  <2>1. use \subseteq Calls \ tests /\ use \subseteq Calls \ {"finish"}
        /\ (use \subseteq TrainsCritic => use \subseteq Calls \ actors)
    BY <1>13 DEF Calls, TrainsCritic, TrainsActor
  <2>2. /\ Separated(TestCalls, use, off, {}) /\ Preceded(TestCalls, use, {})
        /\ Preceded(z, use, {})
        /\ use \subseteq TrainsCritic => Preceded(ActorCalls, use, {})
    BY <1>2, <1>3, <1>5, <2>1, WithoutOrder
  <2>3. Separated(e, use, off, {})
    BY <1>1, <1>3, <1>13, <2>2, SeparatedConcat
  <2>4. Separated(f, use, off, {})
    BY <1>1, <1>3, <1>4, <2>2, <2>3, SeparatedConcat
  <2> QED BY <1>1, <1>2, <1>4, <2>2, <2>4, SeparatedConcat
<1>14. Separated(C, TrainsCritic, TrainsCritic, {})
  <2>1. TrainsCritic \subseteq Calls \ actors
    BY DEF Calls, TrainsCritic
  <2> QED BY <1>3, <1>5, <1>13, <2>1, WithoutOrder, CriticPartOrder DEF d
<1>15. Separated(C, TrainsActor, TrainsActor, {})
  <2>1. TrainsActor \subseteq Calls \ EarlyCalls
    BY DEF Calls, TrainsActor, EarlyCalls
  <2>2. Separated(d, TrainsActor, TrainsActor, {}) /\ Settled(d, TrainsActor, {})
    BY <1>3, <1>5, <2>1, WithoutOrder
  <2> QED BY <1>13, <2>2, ActorCallsOrder
<1>16. Separated(C, TrainsCritic \cup TrainsActor, Saving, {})
  <2>1. Saving \subseteq Calls \ EarlyCalls
    BY DEF Calls, Saving, EarlyCalls
  <2>2. Separated(d, TrainsCritic \cup TrainsActor, Saving, {}) /\ Settled(d, Saving, {})
    BY <1>3, <1>5, <2>1, WithoutOrder
  <2> QED BY <1>13, <2>2, ActorCallsOrder
<1>17. ASSUME NEW calls \in SUBSET (Calls \ (tests \cup {"finish"}))
       PROVE  Without(C, calls) <=> Without(d, calls) /\ Without(ActorCalls, calls)
  <2>1. Without(TestCalls, calls) /\ Without(z, calls)
    BY <1>5, <1>17 DEF Without
  <2> QED BY <1>1, <1>2, <1>3, <1>4, <2>1, WithoutConcat
<1>18. Without(C, {"load", "first_step", "fetch", "step", "start", "await"})
  <2> DEFINE calls == {"load", "first_step", "fetch", "step", "start", "await"}
  <2>1. calls \subseteq Calls \ EarlyCalls /\ calls \subseteq Calls \ actors
        /\ calls \subseteq Calls \ (tests \cup {"finish"})
    BY DEF Calls, EarlyCalls
  <2> HIDE DEF calls
  <2>2. Without(d, calls) /\ Without(ActorCalls, calls)
    BY <1>5, <2>1 DEF Without
  <2>3. Without(C, calls)
    BY <1>17, <2>1, <2>2
  <2> QED BY <2>3 DEF calls
<1>19. Without(C, {"update_critic"}) <=> ~config.use_critic
  <2>1. {"update_critic"} \subseteq Calls \ (tests \cup {"finish"})
        /\ {"update_critic"} \subseteq Calls \ actors
    BY DEF Calls
  <2>2. Without(ActorCalls, {"update_critic"})
    BY <1>5, <2>1 DEF Without
  <2> QED BY <1>17, <2>1, <2>2, CriticPartOrder DEF d
<1>20. Without(C, {"update_actor"}) <=> ~ActorTrains
  <2>1. {"update_actor"} \subseteq Calls \ (tests \cup {"finish"})
        /\ {"update_actor"} \subseteq Calls \ EarlyCalls
    BY DEF Calls, EarlyCalls
  <2>2. Without(d, {"update_actor"})
    BY <1>5, <2>1 DEF Without
  <2> QED BY <1>17, <2>1, <2>2, ActorCallsOrder
<1>21. Separated(C, Calls, Closing, {})
  <2>1. Without(f, Closing)
    <3>1. /\ Closing \subseteq Calls \ EarlyCalls /\ Closing \subseteq Calls \ actors
          /\ Closing \subseteq Calls \ tests
      BY DEF Closing, Calls, EarlyCalls
    <3>2. Without(d, Closing) /\ Without(ActorCalls, Closing) /\ Without(TestCalls, Closing)
      BY <1>3, <1>5, <3>1, WithoutOrder
    <3> QED BY <1>1, <1>3, <1>4, <3>2, WithoutConcat
  <2>2. Separated(f, Calls, Closing, {}) /\ Settled(f, Closing, {})
    BY <1>4, <2>1, WithoutOrder
  <2> QED BY <1>1, <1>2, <1>4, <2>2, SeparatedConcat
<1> QED
  BY <1>4, <1>6, <1>7, <1>8, <1>10, <1>11, <1>12, <1>14, <1>15, <1>16, <1>18, <1>19, <1>20, <1>21
     DEF C

\* The plan of OneStepOffRayTrainer.fit_step.
StepTrains == {"update_critic", "update_actor"} \cup Saving
StartPart  == <<"await", "push">> \o If(~IsLastStep, <<"start">>) \o <<"log_prob">> \o CriticCalls
StartCalls == {"await", "push", "start", "log_prob", "values", "update_critic"}
UpdateCalls == If(ActorTrains, <<"update_actor">>)

LEMMA StartPartOrder ==
  ASSUME ConfigTypes
  PROVE  /\ StartPart \in Seq(Calls)
         /\ Without(StartPart, Calls \ StartCalls)
         /\ ~Without(StartPart, {"await"}) /\ ~Without(StartPart, {"push"})
         /\ Preceded(StartPart, StepTrains \cup {"start"}, {"await"})
         /\ Preceded(StartPart, {"start"}, Sending)
         /\ Separated(StartPart, {"start"}, {"start"}, {})
         /\ Separated(StartPart, {"await"}, {"start"}, {})
         /\ Separated(StartPart, TrainsCritic, TrainsCritic, {})
         /\ Without(StartPart, {"update_critic"}) <=> ~config.use_critic
<1> DEFINE p == <<"await", "push">>
           q == <<"start">>
           r == <<"log_prob">>
           o == If(~IsLastStep, q)
           b == p \o o
           c == b \o r
           others == Calls \ StartCalls
           trains == StepTrains \cup {"start"}
<1>0. o = q \/ o = <<>>
  BY DEF If
<1>1. /\ {"await", "push", "start", "log_prob"} \subseteq Calls
      /\ {"await", "push", "start", "log_prob"} \cap others = {}
  BY DEF Calls, StartCalls
<1>2. /\ p \in Seq(Calls) /\ Without(p, others)
      /\ ~Without(p, {"await"}) /\ ~Without(p, {"push"}) /\ ~Without(p, Sending)
      /\ Without(p, {"update_critic"}) /\ Without(p, TrainsCritic)
      /\ Without(p, {"start"})
      /\ Preceded(p, trains, {"await"}) /\ Preceded(p, {"start"}, Sending)
  <2>1. /\ p \in Seq(Calls) /\ Without(p, others)
        /\ ~Without(p, {"await"}) /\ ~Without(p, {"push"})
        /\ Without(p, {"update_critic"}) /\ Without(p, {"start"})
    BY <1>1, PairOrder
  <2>2. ~Without(p, Sending) /\ Without(p, TrainsCritic)
    BY <1>1, PairOrder DEF Sending, TrainsCritic
  <2>3. "await" \notin trains /\ {"await", "push"} \cap {"start"} = {}
    BY DEF StepTrains, Saving
  <2>4. Preceded(p, trains, {"await"}) /\ Preceded(p, {"start"}, Sending)
    BY <1>1, <2>3, PairOrder
  <2> QED BY <2>1, <2>2, <2>4
<1>3. /\ q \in Seq(Calls) /\ Without(q, others) /\ Without(q, {"update_critic"})
      /\ Without(q, TrainsCritic) /\ Separated(q, {"start"}, {"start"}, {})
  BY <1>1, SingleOrder DEF TrainsCritic
<1>4. /\ r \in Seq(Calls) /\ Without(r, others) /\ Without(r, {"update_critic"})
      /\ Without(r, TrainsCritic) /\ Without(r, {"start"})
  BY <1>1, SingleOrder DEF TrainsCritic
<1>5. /\ CriticCalls \in Seq(Calls) /\ Without(CriticCalls, others) /\ Without(CriticCalls, {"start"})
      /\ Separated(CriticCalls, TrainsCritic, TrainsCritic, {})
      /\ Without(CriticCalls, {"update_critic"}) <=> ~config.use_critic
  <2>1. others \subseteq Calls \ {"values", "update_critic"} /\ {"start"} \subseteq Calls \ {"values", "update_critic"}
    BY DEF StartCalls, Calls
  <2> QED BY <2>1, CriticOrder, WithoutOrder DEF ConfigTypes
<1>6. StartPart = c \o CriticCalls
  BY DEF StartPart
<1> HIDE DEF p, q, r, others
<1>7. /\ o \in Seq(Calls) /\ Without(o, others) /\ Without(o, {"update_critic"})
      /\ Without(o, TrainsCritic) /\ Separated(o, {"start"}, {"start"}, {})
  BY <1>0, <1>3, EmptyOrder
<1>8. b = p \o o /\ c = b \o r
  OBVIOUS
<1> HIDE DEF o, b, c, trains
<1>9. b \in Seq(Calls) /\ c \in Seq(Calls) /\ StartPart \in Seq(Calls)
  BY <1>2, <1>4, <1>5, <1>6, <1>7, <1>8, ConcatShape
<1>10. /\ Without(StartPart, others) /\ Without(c, TrainsCritic)
       /\ ~Without(b, {"await"}) /\ ~Without(c, {"await"}) /\ ~Without(StartPart, {"await"})
       /\ ~Without(b, Sending) /\ ~Without(c, Sending) /\ ~Without(StartPart, {"push"})
       /\ Without(StartPart, {"update_critic"}) <=> ~config.use_critic
  <2>1. /\ Without(b, others) /\ Without(b, TrainsCritic) /\ Without(b, {"update_critic"})
        /\ ~Without(b, {"await"}) /\ ~Without(b, Sending) /\ ~Without(b, {"push"})
    BY <1>2, <1>7, <1>8, <1>9, WithoutConcat
  <2>2. /\ Without(c, others) /\ Without(c, TrainsCritic) /\ Without(c, {"update_critic"})
        /\ ~Without(c, {"await"}) /\ ~Without(c, Sending) /\ ~Without(c, {"push"})
    BY <1>4, <1>8, <1>9, <2>1, WithoutConcat
  <2> QED BY <1>5, <1>6, <1>9, <2>1, <2>2, WithoutConcat
<1>11. Preceded(StartPart, trains, {"await"})
  BY <1>2, <1>4, <1>5, <1>6, <1>7, <1>8, <1>9, <1>10, PrecededConcat
<1>12. Preceded(StartPart, {"start"}, Sending)
  BY <1>2, <1>4, <1>5, <1>6, <1>7, <1>8, <1>9, <1>10, PrecededConcat
<1>13. ASSUME NEW s \in Seq(Calls), Without(s, {"start"})
       PROVE  /\ Preceded(s, {"start"}, {}) /\ Separated(s, {"start"}, {"start"}, {})
              /\ Settled(s, {"start"}, {})
  BY <1>13 DEF Without, Preceded, Separated, Settled
<1>14. Separated(StartPart, {"start"}, {"start"}, {})
  BY <1>2, <1>4, <1>5, <1>6, <1>7, <1>8, <1>9, <1>13, SeparatedConcat
<1>15. Separated(c, TrainsCritic, TrainsCritic, {}) /\ Settled(c, TrainsCritic, {})
  BY <1>10 DEF Without, Settled, Separated
<1>16. Separated(StartPart, TrainsCritic, TrainsCritic, {})
  BY <1>5, <1>6, <1>9, <1>15, SeparatedConcat
<1>17. ASSUME NEW s \in Seq(Calls), Without(s, {"await"})
       PROVE  Preceded(s, {"await"}, {}) /\ Separated(s, {"await"}, {"start"}, {})
  BY <1>17 DEF Without, Preceded, Separated
<1>18. Without(o, {"await"}) /\ Without(r, {"await"}) /\ Without(CriticCalls, {"await"})
  <2>1. Without(q, {"await"}) /\ Without(r, {"await"})
    BY SingleOrder DEF q, r, Calls
  <2>2. {"await"} \subseteq Calls \ {"values", "update_critic"}
    BY DEF Calls
  <2>3. Without(CriticCalls, {"await"})
    BY <1>5, <2>2, CriticOrder, WithoutOrder DEF ConfigTypes
  <2>4. o = q \/ o = <<>>
    BY DEF o, If
  <2> QED BY <2>1, <2>3, <2>4, EmptyOrder
<1>19. Separated(StartPart, {"await"}, {"start"}, {})
  <2>1. Separated(p, {"await"}, {"start"}, {}) /\ Settled(p, {"start"}, {})
    BY <1>2 DEF Without, Separated, Settled
  <2>2. Separated(b, {"await"}, {"start"}, {})
    BY <1>2, <1>7, <1>8, <1>17, <1>18, <2>1, SeparatedConcat
  <2>3. Separated(c, {"await"}, {"start"}, {})
    BY <1>4, <1>8, <1>9, <1>17, <1>18, <2>2, SeparatedConcat
  <2> QED BY <1>5, <1>6, <1>9, <1>17, <1>18, <2>3, SeparatedConcat
<1> QED BY <1>9, <1>10, <1>11, <1>12, <1>14, <1>16, <1>19 DEF others, trains

LEMMA UpdateCallsOrder ==
  /\ UpdateCalls \in Seq(Calls)
  /\ Without(UpdateCalls, Calls \ {"update_actor"})
  /\ Without(UpdateCalls, {"update_actor"}) <=> ~ActorTrains
  /\ \A use, off, on : Separated(UpdateCalls, use, off, on)
<1>1. "update_actor" \in Calls /\ ActorTrains \in BOOLEAN
  BY DEF Calls, ActorTrains
<1> DEFINE p == <<"update_actor">>
<1>2. /\ p \in Seq(Calls) /\ Without(p, Calls \ {"update_actor"}) /\ ~Without(p, {"update_actor"})
      /\ \A use, off, on : Separated(p, use, off, on)
  BY <1>1, SingleOrder
<1> HIDE DEF p
<1>3. UpdateCalls = If(ActorTrains, p)
  BY DEF UpdateCalls, p
<1> QED BY <1>1, <1>2, <1>3, OptionalOrder

LEMMA PipelinedOrder ==
  ASSUME ConfigTypes, config.pipelined
  PROVE  /\ PipelinedCalls \in Seq(Calls)
         /\ Separated(PipelinedCalls, Generating, {"update_actor"}, Sending)
         /\ Preceded(PipelinedCalls, Generating, Sending)
         /\ Separated(PipelinedCalls, {"update_actor"}, {"update_actor"}, Receiving)
         /\ Preceded(PipelinedCalls, StepTrains \cup {"start"}, {"await"})
         /\ Separated(PipelinedCalls, {"start"}, {"start"}, {})
         /\ Separated(PipelinedCalls, TrainsCritic, TrainsCritic, {})
         /\ Separated(PipelinedCalls, TrainsActor, TrainsActor, {})
         /\ Separated(PipelinedCalls, TrainsCritic \cup TrainsActor, Saving, {})
         /\ Separated(PipelinedCalls, Calls, Closing, {})
         /\ Separated(PipelinedCalls, {"await"}, {"start"}, {})
         /\ Without(PipelinedCalls, {"load", "first_step", "fetch", "step", "generate"})
         /\ Without(PipelinedCalls, {"update_critic"}) <=> ~config.use_critic
         /\ Without(PipelinedCalls, {"update_actor"}) <=> ~ActorTrains
         /\ ~Without(PipelinedCalls, {"await"})
<1> DEFINE d == StartPart
           e == d \o UpdateCalls
           f == e \o TestCalls
           z == <<"save", "finish">>
           P == PipelinedCalls
           ending == {"save", "finish"}
<1>1. P = f \o z /\ f = e \o TestCalls /\ e = d \o UpdateCalls
  BY DEF PipelinedCalls, StartPart, UpdateCalls, TestCalls
<1>2. z \in Seq(Calls) /\ Without(z, Calls \ ending) /\ Separated(z, Calls, Closing, {})
  <2>1. {"save", "finish"} \subseteq Calls /\ "save" \notin Closing
    BY DEF Calls, Closing
  <2> QED BY <2>1, PairOrder
<1> HIDE DEF P, d, e, f, z
<1>3. d \in Seq(Calls) /\ UpdateCalls \in Seq(Calls) /\ TestCalls \in Seq(Calls)
  BY StartPartOrder, UpdateCallsOrder, TestCallsOrder DEF d
<1>4. e \in Seq(Calls) /\ f \in Seq(Calls) /\ P \in Seq(Calls)
  BY <1>1, <1>2, <1>3, ConcatShape
<1>5. /\ Without(d, Calls \ StartCalls) /\ Without(UpdateCalls, Calls \ {"update_actor"})
      /\ Without(TestCalls, Calls \ {"validate"})
      /\ ~Without(d, {"await"}) /\ ~Without(e, {"await"}) /\ ~Without(f, {"await"})
  <2>1. Without(d, Calls \ StartCalls) /\ ~Without(d, {"await"})
    BY StartPartOrder DEF d
  <2>2. Without(UpdateCalls, Calls \ {"update_actor"}) /\ Without(TestCalls, Calls \ {"validate"})
    BY UpdateCallsOrder, TestCallsOrder DEF ConfigTypes
  <2>3. ~Without(e, {"await"})
    BY <1>1, <1>3, <2>1, WithoutConcat
  <2> QED BY <1>1, <1>3, <1>4, <2>1, <2>2, <2>3, WithoutConcat
<1>6. ASSUME NEW use \in SUBSET {"generate", "start", "fetch", "first_step", "update_actor"},
             NEW on, "start" \notin use \/ "update_actor" \notin use
      PROVE  Separated(P, use, {"update_actor"}, on)
  <2>1. Separated(d, use, {"update_actor"}, on) /\ Settled(d, {"update_actor"}, on)
    <3>1. {"update_actor"} \subseteq Calls \ StartCalls
      BY DEF Calls, StartCalls
    <3>2. Without(d, Calls \ StartCalls)
      BY <1>5
    <3> QED BY <1>3, <3>1, <3>2, WithoutOrder
  <2>2. Separated(e, use, {"update_actor"}, on)
    BY <1>1, <1>3, <2>1, UpdateCallsOrder, SeparatedConcat
  <2>3. use \subseteq Calls \ {"validate"} /\ use \subseteq Calls \ ending
    BY DEF Calls
  <2>4. /\ Separated(TestCalls, use, {"update_actor"}, on) /\ Preceded(TestCalls, use, on)
        /\ Separated(z, use, {"update_actor"}, on) /\ Preceded(z, use, on)
    BY <1>2, <1>3, <1>5, <2>3, WithoutOrder
  <2>5. Separated(f, use, {"update_actor"}, on)
    BY <1>1, <1>3, <1>4, <2>2, <2>4, SeparatedConcat
  <2> QED BY <1>1, <1>2, <1>4, <2>4, <2>5, SeparatedConcat
<1>7. /\ Separated(P, Generating, {"update_actor"}, Sending)
      /\ Separated(P, {"update_actor"}, {"update_actor"}, Receiving)
  <2>1. Generating \subseteq {"generate", "start", "fetch", "first_step", "update_actor"}
        /\ "update_actor" \notin Generating
    BY DEF Generating
  <2> QED BY <1>6, <2>1
<1>8. ASSUME NEW use \in SUBSET (Calls \ {"validate"}), NEW on,
             Preceded(d, use, on),
             ~Without(d, on) \/ use \cap {"update_actor", "save", "finish"} = {}
      PROVE  Preceded(P, use, on)
  <2>1. Preceded(TestCalls, use, on)
    BY <1>3, <1>5, WithoutOrder
  <2>2. CASE ~Without(d, on)
    <3>1. Preceded(e, use, on) /\ ~Without(e, on)
      BY <1>1, <1>3, <1>8, <2>2, PrecededConcat, WithoutConcat
    <3>2. Preceded(f, use, on) /\ ~Without(f, on)
      BY <1>1, <1>3, <1>4, <3>1, PrecededConcat, WithoutConcat
    <3> QED BY <1>1, <1>2, <1>4, <3>2, PrecededConcat
  <2>3. CASE use \cap {"update_actor", "save", "finish"} = {}
    <3>1. use \subseteq Calls \ {"update_actor"} /\ use \subseteq Calls \ ending
      BY <2>3
    <3>2. Preceded(UpdateCalls, use, on) /\ Preceded(z, use, on)
      BY <1>2, <1>3, <1>5, <3>1, WithoutOrder
    <3>3. Preceded(e, use, on)
      BY <1>1, <1>3, <1>8, <3>2, PrecededConcat
    <3>4. Preceded(f, use, on)
      BY <1>1, <1>3, <1>4, <2>1, <3>3, PrecededConcat
    <3> QED BY <1>1, <1>2, <1>4, <3>2, <3>4, PrecededConcat
  <2> QED BY <1>8, <2>2, <2>3
<1>9. Preceded(P, StepTrains \cup {"start"}, {"await"})
  <2>1. StepTrains \cup {"start"} \subseteq Calls \ {"validate"}
    BY DEF StepTrains, Saving, Calls
  <2> QED BY <1>5, <1>8, <2>1, StartPartOrder DEF d
<1>10. Preceded(P, Generating, Sending)
  <2>1. Preceded(d, Generating, Sending)
    <3>1. Without(d, Generating \ {"start"})
      <4>1. Generating \ {"start"} \subseteq Calls \ StartCalls
        BY DEF Generating, Calls, StartCalls
      <4> QED BY <1>3, <1>5, <4>1, WithoutOrder
    <3>2. Preceded(d, {"start"}, Sending)
      BY StartPartOrder DEF d
    <3> QED BY <3>1, <3>2 DEF Without, Preceded
  <2>2. Generating \subseteq Calls \ {"validate"}
        /\ Generating \cap {"update_actor", "save", "finish"} = {}
    BY DEF Generating, Calls
  <2> QED BY <1>8, <2>1, <2>2
<1>11. ASSUME NEW use \in SUBSET (TrainsCritic \cup TrainsActor \cup {"start", "await"}), NEW off,
              Separated(d, use, off, {}),
              Settled(d, off, {}) \/ use \subseteq TrainsCritic \cup {"start", "await"}
       PROVE  Separated(P, use, off, {})
  <2>1. use \subseteq Calls \ {"validate"} /\ use \subseteq Calls \ ending
        /\ (use \subseteq TrainsCritic \cup {"start", "await"}
              => use \subseteq Calls \ {"update_actor"})
    BY <1>11 DEF Calls, TrainsCritic, TrainsActor
  <2>2. /\ Separated(TestCalls, use, off, {}) /\ Preceded(TestCalls, use, {})
        /\ Separated(z, use, off, {}) /\ Preceded(z, use, {})
        /\ use \subseteq TrainsCritic \cup {"start", "await"} => Preceded(UpdateCalls, use, {})
    BY <1>2, <1>3, <1>5, <2>1, WithoutOrder
  <2>3. Separated(e, use, off, {})
    BY <1>1, <1>3, <1>11, <2>2, UpdateCallsOrder, SeparatedConcat
  <2>4. Separated(f, use, off, {})
    BY <1>1, <1>3, <1>4, <2>2, <2>3, SeparatedConcat
  <2> QED BY <1>1, <1>2, <1>4, <2>2, <2>4, SeparatedConcat
<1>12. /\ Separated(P, {"start"}, {"start"}, {}) /\ Separated(P, TrainsCritic, TrainsCritic, {})
       /\ Separated(P, {"await"}, {"start"}, {})
  <2>1. /\ Separated(d, {"start"}, {"start"}, {}) /\ Separated(d, TrainsCritic, TrainsCritic, {})
        /\ Separated(d, {"await"}, {"start"}, {})
    BY StartPartOrder DEF d
  <2> QED BY <1>11, <2>1
<1>13. Separated(P, TrainsActor, TrainsActor, {})
  <2>1. TrainsActor \subseteq Calls \ StartCalls
    BY DEF Calls, TrainsActor, StartCalls
  <2>2. Separated(d, TrainsActor, TrainsActor, {}) /\ Settled(d, TrainsActor, {})
    BY <1>3, <1>5, <2>1, WithoutOrder
  <2> QED BY <1>11, <2>2
<1>14. Separated(P, TrainsCritic \cup TrainsActor, Saving, {})
  <2>1. Saving \subseteq Calls \ StartCalls
    BY DEF Calls, Saving, StartCalls
  <2>2. Separated(d, TrainsCritic \cup TrainsActor, Saving, {}) /\ Settled(d, Saving, {})
    BY <1>3, <1>5, <2>1, WithoutOrder
  <2> QED BY <1>11, <2>2
<1>15. ASSUME NEW calls \in SUBSET (Calls \ {"validate", "save", "finish"})
       PROVE  Without(P, calls) <=> Without(d, calls) /\ Without(UpdateCalls, calls)
  <2>1. Without(TestCalls, calls) /\ Without(z, calls)
    BY <1>2, <1>5, <1>15 DEF Without
  <2> QED BY <1>1, <1>2, <1>3, <1>4, <2>1, WithoutConcat
<1>16. Without(P, {"load", "first_step", "fetch", "step", "generate"})
  <2> DEFINE calls == {"load", "first_step", "fetch", "step", "generate"}
  <2>1. calls \subseteq Calls \ StartCalls /\ calls \subseteq Calls \ {"update_actor"}
        /\ calls \subseteq Calls \ {"validate", "save", "finish"}
    BY DEF Calls, StartCalls
  <2> HIDE DEF calls
  <2>2. Without(d, calls) /\ Without(UpdateCalls, calls)
    BY <1>5, <2>1 DEF Without
  <2>3. Without(P, calls)
    BY <1>15, <2>1, <2>2
  <2> QED BY <2>3 DEF calls
<1>17. Without(P, {"update_critic"}) <=> ~config.use_critic
  <2>1. {"update_critic"} \subseteq Calls \ {"validate", "save", "finish"}
        /\ {"update_critic"} \subseteq Calls \ {"update_actor"}
    BY DEF Calls
  <2>2. Without(UpdateCalls, {"update_critic"})
    BY <1>5, <2>1 DEF Without
  <2> QED BY <1>15, <2>1, <2>2, StartPartOrder DEF d
<1>18. Without(P, {"update_actor"}) <=> ~ActorTrains
  <2>1. {"update_actor"} \subseteq Calls \ {"validate", "save", "finish"}
        /\ {"update_actor"} \subseteq Calls \ StartCalls
    BY DEF Calls, StartCalls
  <2>2. Without(d, {"update_actor"})
    BY <1>5, <2>1 DEF Without
  <2> QED BY <1>15, <2>1, <2>2, UpdateCallsOrder
<1>19. ~Without(P, {"await"})
  BY <1>1, <1>2, <1>4, <1>5, WithoutConcat
<1>20. Separated(P, Calls, Closing, {})
  <2>1. Without(f, Closing)
    <3>1. /\ Closing \subseteq Calls \ StartCalls /\ Closing \subseteq Calls \ {"update_actor"}
          /\ Closing \subseteq Calls \ {"validate"}
      BY DEF Closing, Calls, StartCalls
    <3>2. Without(d, Closing) /\ Without(UpdateCalls, Closing) /\ Without(TestCalls, Closing)
      BY <1>3, <1>5, <3>1, WithoutOrder
    <3> QED BY <1>1, <1>3, <1>4, <3>2, WithoutConcat
  <2>2. Separated(f, Calls, Closing, {}) /\ Settled(f, Closing, {})
    BY <1>4, <2>1, WithoutOrder
  <2> QED BY <1>1, <1>2, <1>4, <2>2, SeparatedConcat
<1> QED
  BY <1>4, <1>7, <1>9, <1>10, <1>12, <1>13, <1>14, <1>16, <1>17, <1>18, <1>19, <1>20 DEF P

\* The push and the validation before the first step.
BeginCalls == <<"push">> \o ValidateCalls \o <<"first_step">>
BeginSet   == {"push", "validate", "sleep", "reward", "first_step"}

LEMMA BeginOrder ==
  ASSUME ConfigTypes
  PROVE  /\ BeginCalls \in Seq(Calls)
         /\ Separated(BeginCalls, Computing, Waking, {"sleep"})
         /\ Separated(BeginCalls, Serving, {"sleep"}, Waking)
         /\ Preceded(BeginCalls, Serving, Waking)
         /\ Preceded(BeginCalls, Generating, Sending)
         /\ Separated(BeginCalls, Calls, Closing, {})
         /\ Without(BeginCalls, Calls \ BeginSet)
         /\ ~Without(BeginCalls, {"first_step"})
<1> DEFINE a == <<"push">>
           b == a \o ValidateCalls
           z == <<"first_step">>
<1>1. BeginCalls = b \o z /\ b = a \o ValidateCalls
  BY DEF BeginCalls
<1>2. /\ a \in Seq(Calls) /\ z \in Seq(Calls)
      /\ Without(a, Calls \ BeginSet) /\ Without(z, Calls \ BeginSet)
      /\ ~Without(z, {"first_step"}) /\ ~Without(a, Waking) /\ ~Without(a, Sending)
      /\ Preceded(a, Serving, Waking) /\ Preceded(a, Generating, Sending)
      /\ Settled(a, {"sleep"}, Waking) /\ Preceded(z, Computing, {"sleep"})
      /\ \A use, off, on : Separated(a, use, off, on) /\ Separated(z, use, off, on)
  <2>1. {"push", "first_step"} \subseteq Calls
    BY DEF Calls
  <2>2. "push" \notin Serving /\ "push" \notin Generating /\ "push" \in Waking /\ "push" \in Sending
        /\ "first_step" \notin Computing
    BY DEF Serving, Generating, Waking, Sending, Computing, Loads
  <2>3. "push" \in BeginSet /\ "first_step" \in BeginSet
    BY DEF BeginSet
  <2> QED BY <2>1, <2>2, <2>3, SingleOrder
<1> HIDE DEF a, b, z
<1>3. ValidateCalls \in Seq(Calls) /\ Without(ValidateCalls, Calls \ BeginSet)
  <2>1. Calls \ BeginSet \subseteq Calls \ {"validate", "sleep", "reward", "push"}
    BY DEF BeginSet
  <2> QED BY <2>1, ValidateOrder, WithoutOrder DEF ConfigTypes
<1>4. b \in Seq(Calls) /\ BeginCalls \in Seq(Calls)
  BY <1>1, <1>2, <1>3, ConcatShape
<1>5. /\ Without(BeginCalls, Calls \ BeginSet) /\ ~Without(BeginCalls, {"first_step"})
      /\ ~Without(b, Waking) /\ ~Without(b, Sending)
  BY <1>1, <1>2, <1>3, <1>4, WithoutConcat
<1>6. Separated(BeginCalls, Computing, Waking, {"sleep"})
  <2>1. Separated(b, Computing, Waking, {"sleep"})
    BY <1>1, <1>2, <1>3, ValidateOrder, SeparatedConcat DEF ConfigTypes
  <2> QED BY <1>1, <1>2, <1>4, <2>1, SeparatedConcat
<1>7. Separated(BeginCalls, Serving, {"sleep"}, Waking)
  <2>1. Separated(b, Serving, {"sleep"}, Waking) /\ Settled(b, {"sleep"}, Waking)
    BY <1>1, <1>2, <1>3, ValidateOrder, SeparatedConcat, SettledConcat DEF ConfigTypes
  <2> QED BY <1>1, <1>2, <1>4, <2>1, SeparatedConcat
<1>8. Preceded(BeginCalls, Serving, Waking)
  <2>1. Preceded(b, Serving, Waking)
    BY <1>1, <1>2, <1>3, PrecededConcat
  <2> QED BY <1>1, <1>2, <1>4, <1>5, <2>1, PrecededConcat
<1>9. Preceded(BeginCalls, Generating, Sending)
  <2>1. Preceded(b, Generating, Sending)
    BY <1>1, <1>2, <1>3, PrecededConcat
  <2> QED BY <1>1, <1>2, <1>4, <1>5, <2>1, PrecededConcat
<1>10. Separated(BeginCalls, Calls, Closing, {})
  <2>1. Without(b, Closing)
    <3>1. Without(a, Closing)
      BY SingleOrder DEF a, Calls, Closing
    <3>2. Closing \subseteq Calls \ {"validate", "sleep", "reward", "push"}
      BY DEF Closing, Calls
    <3>3. Without(ValidateCalls, Closing)
      BY <1>3, <3>2, ValidateOrder, WithoutOrder DEF ConfigTypes
    <3> QED BY <1>1, <1>2, <1>3, <3>1, <3>3, WithoutConcat
  <2>2. Separated(b, Calls, Closing, {}) /\ Settled(b, Closing, {})
    BY <1>4, <2>1, WithoutOrder
  <2> QED BY <1>1, <1>2, <1>4, <2>2, SeparatedConcat
<1> QED BY <1>4, <1>5, <1>6, <1>7, <1>8, <1>9, <1>10

-----------------------------------------------------------------------------
\* How the calls ahead change in a step.
Continuations ==
  {<<"push", "send_params">>, <<"send_params", "offload_params">>,
   <<"offload_params", "resume_kv_cache">>, <<"save", "save_actor">>,
   <<"save_actor", "save_critic">>, <<"save_actor", "save_data">>,
   <<"save_critic", "save_data">>, <<"save_data", "open_tracker">>,
   <<"open_tracker", "write_tracker">>}

Moves ==
  \/ todo' = todo
  \/ job = "running" /\ todo # <<>> /\ todo' = Rest
  \/ \E p \in Continuations : At(p[1]) /\ todo' = Then(p[2])
  \/ At("fetch") /\ todo' = ColocatedCalls
  \/ At("step") /\ todo' = PipelinedCalls
  \/ At("load") /\ todo' = BeginCalls
  \/ (Crash \/ Relaunch \/ At("finish")) /\ todo' = <<>>
  \/ job = "down" /\ todo' = <<"load">>
  \/ /\ At("first_step") \/ At("finish")
     /\ global_steps' = global_steps + 1
     /\ todo' = IF ~config.pipelined THEN <<"fetch">>
                ELSE IF At("first_step") THEN <<"start", "step">> ELSE <<"step">>

LEMMA NextMoves == [Next]_vars => Moves
<1> SUFFICES ASSUME [Next]_vars PROVE Moves
  OBVIOUS
<1>1. CASE UNCHANGED vars \/ LoadFails \/ NoMoreEpochs \/ AwaitFails \/ LoadModel
  BY <1>1 DEF vars, LoadFails, NoMoreEpochs, AwaitFails, LoadModel, Moves
<1>2. CASE Launch \/ Crash \/ Relaunch \/ FirstStep \/ FinishStep
  BY <1>2 DEF Launch, Crash, Relaunch, LoseMemory, FreshMemory, FirstStep, FinishStep, At, Moves
<1>3. CASE LoadCheckpoint
  BY <1>3 DEF LoadCheckpoint, BeginTraining, BeginCalls, Moves
<1>4. CASE FitStep \/ Fetch
  BY <1>4 DEF FitStep, Fetch, Moves
<1>5. CASE Generate \/ StartGeneration \/ AwaitGeneration \/ SleepReplicas \/ Validate
           \/ ResumeKvCache \/ PushStandalone \/ WriteTracker
  BY <1>5 DEF Generate, StartGeneration, AwaitGeneration, SleepReplicas, Validate,
              ResumeKvCache, PushStandalone, WriteTracker, At, Moves
<1>6. CASE Infer \/ UpdateCritic \/ UpdateActor
  BY <1>6 DEF Infer, UpdateCritic, UpdateActor, OffloadModel, Computes, At, Moves
<1>7. CASE PushColocated
  <2>1. <<"push", "send_params">> \in Continuations
    BY DEF Continuations
  <2> QED BY <1>7, <2>1 DEF PushColocated, Moves
<1>8. CASE SendParams
  <2>1. <<"send_params", "offload_params">> \in Continuations
    BY DEF Continuations
  <2> QED BY <1>8, <2>1 DEF SendParams, Moves
<1>9. CASE OffloadParams
  <2>1. <<"offload_params", "resume_kv_cache">> \in Continuations
    BY DEF Continuations
  <2> QED BY <1>9, <2>1 DEF OffloadParams, Moves
<1>10. CASE Save
  <2>1. <<"save", "save_actor">> \in Continuations
    BY DEF Continuations
  <2> QED BY <1>10, <2>1 DEF Save, At, Moves
<1>11. CASE SaveActor
  <2>1. <<"save_actor", "save_critic">> \in Continuations
        /\ <<"save_actor", "save_data">> \in Continuations
    BY DEF Continuations
  <2> QED BY <1>11, <2>1 DEF SaveActor, OffloadModel, Computes, Moves
<1>12. CASE SaveCritic
  <2>1. <<"save_critic", "save_data">> \in Continuations
    BY DEF Continuations
  <2> QED BY <1>12, <2>1 DEF SaveCritic, OffloadModel, Computes, Moves
<1>13. CASE SaveData
  <2>1. <<"save_data", "open_tracker">> \in Continuations
    BY DEF Continuations
  <2> QED BY <1>13, <2>1 DEF SaveData, Moves
<1>14. CASE OpenTracker
  <2>1. <<"open_tracker", "write_tracker">> \in Continuations
    BY DEF Continuations
  <2> QED BY <1>14, <2>1 DEF OpenTracker, Moves
<1> QED BY <1>1, <1>2, <1>3, <1>4, <1>5, <1>6, <1>7, <1>8, <1>9, <1>10, <1>11, <1>12, <1>13,
           <1>14 DEF Next, Driver

LEMMA ContinuationCalls ==
  ASSUME NEW p \in Continuations
  PROVE  p[1] \in Calls /\ p[2] \in Calls
BY DEF Continuations, Calls

LEMMA StartPlan ==
  ASSUME NEW use, NEW off, NEW on
  PROVE  /\ <<"start", "step">> \in Seq(Calls)
         /\ "start" \notin off \/ "step" \notin use => Separated(<<"start", "step">>, use, off, on)
         /\ "start" \notin use /\ "step" \notin use => Preceded(<<"start", "step">>, use, on)
         /\ Without(<<"start", "step">>, use) <=> "start" \notin use /\ "step" \notin use
<1>1. "start" \in Calls /\ "step" \in Calls
  BY DEF Calls
<1> QED BY <1>1, PairOrder

LEMMA OneCallPlans ==
  ASSUME NEW call \in {"load", "fetch", "step"}, NEW use, NEW off, NEW on
  PROVE  /\ <<call>> \in Seq(Calls)
         /\ Separated(<<call>>, use, off, on)
         /\ Preceded(<<call>>, use, on) <=> call \notin use
         /\ Without(<<call>>, use) <=> call \notin use
<1>1. call \in Calls
  BY DEF Calls
<1> QED BY <1>1, SingleOrder

\* The handler goes on with another call.
LEMMA ThenOrder ==
  ASSUME todo \in Seq(Calls), todo # <<>>, NEW call \in Calls, NEW use, NEW off, NEW on
  PROVE  /\ Separated(todo, use, off, on) /\ (call \in off => Head(todo) \in off)
            => Separated(Then(call), use, off, on)
         /\ call \notin use /\ (call \in on \/ Preceded(Rest, use, on))
            => Preceded(Then(call), use, on)
         /\ call \notin use /\ Without(todo, use) => Without(Then(call), use)
<1> DEFINE s == <<call>>
<1>1. Then(call) = s \o Rest /\ Rest \in Seq(Calls)
  BY TailShape DEF Then, Rest
<1>2. /\ s \in Seq(Calls) /\ Separated(s, use, off, on)
      /\ Preceded(s, use, on) <=> call \notin use
      /\ Settled(s, off, on) <=> call \notin off
      /\ Without(s, use) <=> call \notin use
      /\ Without(s, on) <=> call \notin on
  BY SingleOrder
<1> HIDE DEF s
<1>3. /\ Separated(todo, use, off, on) => Separated(Rest, use, off, on)
      /\ Separated(todo, use, off, on) /\ Head(todo) \in off => Preceded(Rest, use, on)
      /\ Without(todo, use) => Without(Rest, use)
  BY TailOrder DEF Rest
<1>4. Separated(todo, use, off, on) /\ (call \in off => Head(todo) \in off)
        => Separated(Then(call), use, off, on)
  BY <1>1, <1>2, <1>3, SeparatedConcat
<1>5. call \notin use /\ (call \in on \/ Preceded(Rest, use, on)) => Preceded(Then(call), use, on)
  BY <1>1, <1>2, PrecededConcat
<1>6. call \notin use /\ Without(todo, use) => Without(Then(call), use)
  BY <1>1, <1>2, <1>3, WithoutConcat
<1> QED BY <1>4, <1>5, <1>6

LEMMA SeparatedKept ==
  ASSUME todo \in Seq(Calls), Moves, NEW use, NEW off, NEW on,
         Separated(todo, use, off, on),
         \A p \in Continuations : p[2] \in off => p[1] \in off,
         At("fetch") => Separated(ColocatedCalls, use, off, on),
         At("step") => Separated(PipelinedCalls, use, off, on),
         At("load") => Separated(BeginCalls, use, off, on),
         "start" \notin off \/ "step" \notin use
  PROVE  Separated(todo', use, off, on)
<1>1. CASE todo' = todo
  BY <1>1
<1>2. CASE todo # <<>> /\ todo' = Rest
  BY <1>2, TailOrder DEF Rest
<1>3. CASE \E p \in Continuations : At(p[1]) /\ todo' = Then(p[2])
  <2>1. PICK p \in Continuations : At(p[1]) /\ todo' = Then(p[2])
    BY <1>3
  <2>2. p[2] \in Calls /\ todo # <<>> /\ Head(todo) = p[1] /\ (p[2] \in off => p[1] \in off)
    BY <2>1, ContinuationCalls DEF At
  <2> QED BY <2>1, <2>2, ThenOrder
<1>4. CASE \/ At("fetch") /\ todo' = ColocatedCalls
           \/ At("step") /\ todo' = PipelinedCalls
           \/ At("load") /\ todo' = BeginCalls
  BY <1>4
<1>5. CASE todo' \in {<<>>, <<"load">>, <<"fetch">>, <<"step">>, <<"start", "step">>}
  BY <1>5, EmptyOrder, OneCallPlans, StartPlan
<1> QED BY <1>1, <1>2, <1>3, <1>4, <1>5 DEF Moves

LEMMA PrecededKept ==
  ASSUME todo \in Seq(Calls), Moves, NEW use, NEW on,
         Preceded(todo, use, on),
         \A call \in on : At(call) /\ todo' = Rest => todo' = todo,
         \A p \in Continuations :
            /\ p[2] \in use => p[1] \in use
            /\ At(p[1]) /\ p[1] \in on /\ todo' = Then(p[2]) => p[2] \in on,
         At("fetch") => Preceded(ColocatedCalls, use, on),
         At("step") => Preceded(PipelinedCalls, use, on),
         At("load") => Preceded(BeginCalls, use, on),
         "load" \notin use,
         At("first_step") \/ At("finish") => Preceded(todo', use, on)
  PROVE  Preceded(todo', use, on)
<1>1. CASE todo' = todo
  BY <1>1
<1>2. CASE job = "running" /\ todo # <<>> /\ todo' = Rest /\ todo' # todo
  <2>1. Head(todo) \notin on
    BY <1>2 DEF At
  <2> QED BY <1>2, <2>1, TailOrder DEF Rest
<1>3. CASE \E p \in Continuations : At(p[1]) /\ todo' = Then(p[2])
  <2>1. PICK p \in Continuations : At(p[1]) /\ todo' = Then(p[2])
    BY <1>3
  <2>2. /\ p[2] \in Calls /\ todo # <<>> /\ Head(todo) = p[1]
        /\ p[2] \in use => p[1] \in use
        /\ p[1] \in on => p[2] \in on
    BY <2>1, ContinuationCalls DEF At
  <2>3. p[1] \notin use /\ (p[1] \notin on => Preceded(Rest, use, on))
    BY <2>2, TailOrder DEF Rest
  <2> QED BY <2>1, <2>2, <2>3, ThenOrder
<1>4. CASE \/ At("fetch") /\ todo' = ColocatedCalls
           \/ At("step") /\ todo' = PipelinedCalls
           \/ At("load") /\ todo' = BeginCalls
  BY <1>4
<1>5. CASE todo' \in {<<>>, <<"load">>}
  BY <1>5 DEF Preceded
<1> QED BY <1>1, <1>2, <1>3, <1>4, <1>5 DEF Moves

LEMMA WithoutKept ==
  ASSUME todo \in Seq(Calls), Moves, NEW calls,
         Without(todo, calls),
         \A p \in Continuations : p[2] \in calls => p[1] \in calls,
         At("fetch") => Without(ColocatedCalls, calls),
         At("step") => Without(PipelinedCalls, calls),
         At("load") => Without(BeginCalls, calls),
         "load" \notin calls,
         At("first_step") \/ At("finish") => Without(todo', calls)
  PROVE  Without(todo', calls)
<1>1. ASSUME NEW s PROVE Preceded(s, calls, {}) <=> Without(s, calls)
  BY DEF Preceded, Without
<1>2. /\ Preceded(todo, calls, {})
      /\ At("fetch") => Preceded(ColocatedCalls, calls, {})
      /\ At("step") => Preceded(PipelinedCalls, calls, {})
      /\ At("load") => Preceded(BeginCalls, calls, {})
      /\ At("first_step") \/ At("finish") => Preceded(todo', calls, {})
  BY <1>1
<1>3. Preceded(todo', calls, {})
  BY <1>2, PrecededKept
<1> QED BY <1>1, <1>3

-----------------------------------------------------------------------------
\* Which action a call is, and what each variable can be changed by.
Dies == Crash \/ Relaunch

LEMMA ActionCall ==
  /\ LoadCheckpoint \/ LoadFails => At("load")
  /\ FirstStep => At("first_step")
  /\ FitStep => At("step")
  /\ Fetch \/ NoMoreEpochs => At("fetch")
  /\ Generate => At("generate")
  /\ StartGeneration => At("start")
  /\ AwaitGeneration \/ AwaitFails => At("await")
  /\ SleepReplicas => At("sleep")
  /\ Validate => At("validate")
  /\ PushColocated \/ PushStandalone => At("push")
  /\ SendParams => At("send_params")
  /\ OffloadParams => At("offload_params")
  /\ ResumeKvCache => At("resume_kv_cache")
  /\ UpdateCritic => At("update_critic")
  /\ UpdateActor => At("update_actor")
  /\ Infer => \E call \in {"reward", "log_prob", "values"} : At(call)
  /\ LoadModel => UNCHANGED todo /\ \E call \in DOMAIN Loads : At(call)
  /\ Save => At("save")
  /\ SaveActor => At("save_actor")
  /\ SaveCritic => At("save_critic")
  /\ SaveData => At("save_data")
  /\ OpenTracker => At("open_tracker")
  /\ WriteTracker => At("write_tracker")
  /\ FinishStep => At("finish")
<1>1. /\ LoadCheckpoint \/ LoadFails => At("load")
      /\ FirstStep => At("first_step")
      /\ FitStep => At("step")
      /\ Fetch \/ NoMoreEpochs => At("fetch")
      /\ Generate => At("generate")
      /\ StartGeneration => At("start")
      /\ AwaitGeneration \/ AwaitFails => At("await")
      /\ SleepReplicas => At("sleep")
      /\ Validate => At("validate")
  BY DEF LoadCheckpoint, LoadFails, FirstStep, FitStep, Fetch, NoMoreEpochs, Generate,
         StartGeneration, AwaitGeneration, AwaitFails, SleepReplicas, Validate
<1>2. /\ PushColocated \/ PushStandalone => At("push")
      /\ SendParams => At("send_params")
      /\ OffloadParams => At("offload_params")
      /\ ResumeKvCache => At("resume_kv_cache")
      /\ Save => At("save")
      /\ SaveData => At("save_data")
      /\ OpenTracker => At("open_tracker")
      /\ WriteTracker => At("write_tracker")
      /\ FinishStep => At("finish")
  BY DEF PushColocated, PushStandalone, SendParams, OffloadParams, ResumeKvCache, Save,
         SaveData, OpenTracker, WriteTracker, FinishStep
<1>3. /\ UpdateCritic => At("update_critic")
      /\ UpdateActor => At("update_actor")
      /\ Infer => \E call \in {"reward", "log_prob", "values"} : At(call)
      /\ SaveActor => At("save_actor")
      /\ SaveCritic => At("save_critic")
  BY DEF UpdateCritic, UpdateActor, Infer, SaveActor, SaveCritic, OffloadModel, Computes
<1>4. LoadModel => UNCHANGED todo /\ \E call \in DOMAIN Loads : At(call)
  BY DEF LoadModel
<1> QED BY <1>1, <1>2, <1>3, <1>4

LEMMA ActionOf ==
  ASSUME [Next]_vars, ~Dies, todo' # todo
  PROVE  /\ At("sleep") => SleepReplicas
         /\ At("resume_kv_cache") => ResumeKvCache
         /\ At("push") => PushColocated \/ PushStandalone
         /\ At("send_params") => SendParams
         /\ At("offload_params") => OffloadParams
         /\ At("await") => AwaitGeneration
         /\ At("generate") => Generate
         /\ At("start") => StartGeneration
         /\ At("update_actor") => UpdateActor
         /\ At("update_critic") => UpdateCritic
         /\ At("load") => LoadCheckpoint
         /\ At("fetch") => Fetch
         /\ At("step") => FitStep
         /\ At("finish") => FinishStep
         /\ At("first_step") => FirstStep
<1>1. \A c, d : At(c) /\ At(d) => c = d
  BY DEF At
<1>2. ~LoadModel /\ ~LoadFails /\ ~NoMoreEpochs /\ ~AwaitFails /\ ~UNCHANGED vars
  BY DEF LoadModel, LoadFails, NoMoreEpochs, AwaitFails, vars
<1>3. Driver \/ Launch
  BY <1>2 DEF Next, Dies
<1>4. Launch => \A c : ~At(c)
  BY DEF Launch, At
<1> QED BY <1>1, <1>2, <1>3, <1>4, ActionCall DEF Driver

LEMMA ConfigKnown == TypeInv => ConfigTypes
<1> SUFFICES ASSUME TypeInv PROVE ConfigTypes
  OBVIOUS
<1>1. config \in Configs /\ config \in ConfigFields
  BY ConfigType DEF TypeInv, TypeOK
<1> QED BY <1>1, TrainingAssumption DEF ConfigTypes, ConfigFields

LEMMA Survives ==
  ASSUME [Next]_vars
  PROVE  /\ config' = config
         /\ Dies => job' = "down" /\ todo' = <<>> /\ gpu' = {} /\ inflight' = None
                    /\ actor' = <<>> /\ critic' = <<>> /\ loader' = 0 /\ global_steps' = 0
                    /\ replicas' = [awake |-> config.pipelined, weights |-> <<>>]
                    /\ batch' = [prompts |-> 0, weights |-> None]
                    /\ disk' = disk /\ tracker' = tracker /\ launches' = launches
<1>1. Dies => job' = "down" /\ todo' = <<>> /\ gpu' = {} /\ inflight' = None
              /\ actor' = <<>> /\ critic' = <<>> /\ loader' = 0 /\ global_steps' = 0
              /\ replicas' = [awake |-> config.pipelined, weights |-> <<>>]
              /\ batch' = [prompts |-> 0, weights |-> None]
              /\ disk' = disk /\ tracker' = tracker /\ launches' = launches
  BY DEF Dies, Crash, Relaunch, LoseMemory, FreshMemory, identity
<1>2. config' = config
  <2> USE DEF identity
  <2>1. CASE UNCHANGED vars
    BY <2>1 DEF vars
  <2>2. CASE Launch \/ Crash \/ Relaunch
    BY <2>2 DEF Launch, Crash, Relaunch
  <2>3. CASE LoadCheckpoint \/ LoadFails \/ FirstStep \/ FitStep \/ Fetch \/ NoMoreEpochs
             \/ Generate \/ StartGeneration \/ AwaitGeneration \/ AwaitFails \/ SleepReplicas
             \/ Validate
    BY <2>3 DEF LoadCheckpoint, LoadFails, FirstStep, FitStep, Fetch, NoMoreEpochs, Generate,
         StartGeneration, AwaitGeneration, AwaitFails, SleepReplicas, Validate
  <2>4. CASE PushColocated \/ PushStandalone \/ SendParams \/ OffloadParams \/ ResumeKvCache
             \/ Save \/ SaveData \/ OpenTracker \/ WriteTracker \/ FinishStep \/ LoadModel
    BY <2>4 DEF PushColocated, PushStandalone, SendParams, OffloadParams, ResumeKvCache, Save,
         SaveData, OpenTracker, WriteTracker, FinishStep, LoadModel
  <2>5. CASE UpdateCritic \/ UpdateActor \/ Infer \/ SaveActor \/ SaveCritic
    BY <2>5 DEF UpdateCritic, UpdateActor, Infer, SaveActor, SaveCritic, OffloadModel
  <2> QED BY <2>1, <2>2, <2>3, <2>4, <2>5 DEF Next, Driver
<1> QED BY <1>1, <1>2

LEMMA ReplicasKept ==
  ASSUME TypeInv, [Next]_vars, ~Dies
  PROVE  /\ ~SleepReplicas /\ ~ResumeKvCache =>
              /\ replicas'.awake = replicas.awake
              /\ "kv_cache" \in gpu' <=> "kv_cache" \in gpu
         /\ ~SendParams /\ ~PushStandalone => replicas'.weights = replicas.weights
<1>0. replicas \in [awake: BOOLEAN, weights: Seq(Nat)]
  BY DEF TypeInv, TypeOK
<1> USE DEF hardware
<1>1. CASE UNCHANGED vars
  BY <1>1 DEF vars
<1>2. CASE Launch
  BY <1>2 DEF Launch
<1>3. CASE LoadCheckpoint \/ LoadFails \/ FirstStep \/ FitStep \/ Fetch \/ NoMoreEpochs
           \/ Generate \/ StartGeneration \/ AwaitGeneration \/ AwaitFails \/ Validate
  BY <1>3 DEF LoadCheckpoint, LoadFails, FirstStep, FitStep, Fetch, NoMoreEpochs, Generate,
       StartGeneration, AwaitGeneration, AwaitFails, Validate
<1>4. CASE SleepReplicas \/ ResumeKvCache
  BY <1>0, <1>4 DEF SleepReplicas, ResumeKvCache, SendParams, PushStandalone
<1>5. CASE SendParams \/ PushStandalone
  BY <1>0, <1>5 DEF SendParams, PushStandalone
<1>6. CASE PushColocated \/ OffloadParams \/ Save \/ SaveData \/ OpenTracker \/ WriteTracker
           \/ FinishStep
  BY <1>6 DEF PushColocated, OffloadParams, Save, SaveData, OpenTracker, WriteTracker, FinishStep
<1>7. CASE LoadModel
  BY <1>7 DEF LoadModel, Loads
<1>8. CASE UpdateCritic \/ UpdateActor \/ Infer \/ SaveActor \/ SaveCritic
  BY <1>8 DEF UpdateCritic, UpdateActor, Infer, SaveActor, SaveCritic, OffloadModel, Loads
<1> QED BY <1>1, <1>2, <1>3, <1>4, <1>5, <1>6, <1>7, <1>8 DEF Next, Driver, Dies

LEMMA BatchesKept ==
  ASSUME [Next]_vars, ~Dies
  PROVE  /\ ~Fetch /\ ~Generate /\ ~AwaitGeneration => batch' = batch
         /\ ~StartGeneration /\ ~AwaitGeneration => inflight' = inflight
         /\ ~LoadCheckpoint /\ ~UpdateActor => actor' = actor
         /\ ~LoadCheckpoint /\ ~UpdateCritic => critic' = critic
         /\ ~LoadCheckpoint /\ ~FirstStep /\ ~FinishStep => global_steps' = global_steps
         /\ ~LoadCheckpoint /\ ~Fetch /\ ~StartGeneration => loader' = loader
<1> USE DEF batches, models, place
<1>1. CASE UNCHANGED vars
  BY <1>1 DEF vars
<1>2. CASE Launch
  BY <1>2 DEF Launch
<1>3. CASE LoadCheckpoint \/ LoadFails \/ FirstStep \/ FitStep \/ Fetch \/ NoMoreEpochs
           \/ Generate \/ StartGeneration \/ AwaitGeneration \/ AwaitFails \/ Validate
  BY <1>3 DEF LoadCheckpoint, LoadFails, FirstStep, FitStep, Fetch, NoMoreEpochs, Generate,
       StartGeneration, AwaitGeneration, AwaitFails, Validate
<1>4. CASE SleepReplicas \/ ResumeKvCache \/ SendParams \/ PushStandalone
           \/ PushColocated \/ OffloadParams \/ Save \/ SaveData \/ OpenTracker \/ WriteTracker
           \/ FinishStep \/ LoadModel
  BY <1>4 DEF SleepReplicas, ResumeKvCache, SendParams, PushStandalone, PushColocated,
       OffloadParams, Save, SaveData, OpenTracker, WriteTracker, FinishStep, LoadModel
<1>5. CASE UpdateCritic \/ UpdateActor \/ Infer \/ SaveActor \/ SaveCritic
  BY <1>5 DEF UpdateCritic, UpdateActor, Infer, SaveActor, SaveCritic, OffloadModel
<1> QED BY <1>1, <1>2, <1>3, <1>4, <1>5 DEF Next, Driver, Dies

-----------------------------------------------------------------------------
\* Each trainer makes its own calls only, and none of a step before the first.
OwnCalls ==
  /\ ~config.pipelined => Without(todo, {"start", "step", "await"}) /\ inflight = None
  /\ config.pipelined => Without(todo, {"fetch", "generate"})
  /\ global_steps = 0 => Without(todo, {"fetch", "step"})

LEMMA HeadWithout ==
  ASSUME todo \in Seq(Calls), NEW calls, Without(todo, calls)
  PROVE  \A call \in calls : ~At(call)
<1> SUFFICES ASSUME NEW call \in calls, At(call) PROVE FALSE
  OBVIOUS
<1>1. todo # <<>> /\ Head(todo) = call
  BY DEF At
<1> QED BY <1>1, TailShape DEF Without

LEMMA PrecededHead ==
  ASSUME todo \in Seq(Calls), NEW use, NEW on, Preceded(todo, use, on)
  PROVE  \A call \in use : ~At(call)
<1> SUFFICES ASSUME NEW call \in use, At(call) PROVE FALSE
  OBVIOUS
<1>1. todo # <<>> /\ Head(todo) = call
  BY DEF At
<1>2. 1 \in DOMAIN todo /\ todo[1] = call /\ DOMAIN todo = 1 .. Len(todo) /\ Len(todo) \in Nat
  BY <1>1, TailShape
<1>3. PICK j \in DOMAIN todo : j < 1
  BY <1>2 DEF Preceded
<1> QED BY <1>2, <1>3

LEMMA ContinuationRange ==
  ASSUME NEW p \in Continuations
  PROVE  p[2] \in Calls \ ({"load", "first_step", "finish", "save"} \cup Openers
                           \cup {"start", "await", "generate", "update_actor", "update_critic",
                                 "validate", "push", "sleep"})
BY DEF Continuations, Calls, Openers

LEMMA StepPlan ==
  ASSUME [Next]_vars, At("first_step") \/ At("finish")
  PROVE  \/ todo' = todo \/ todo' = <<>>
         \/ /\ todo' = IF ~config.pipelined THEN <<"fetch">>
                       ELSE IF At("first_step") THEN <<"start", "step">> ELSE <<"step">>
            /\ global_steps' = global_steps + 1
            /\ FirstStep \/ FinishStep
<1>1. CASE Dies
  BY <1>1, Survives
<1>2. CASE ~Dies /\ todo' # todo
  <2>1. (At("first_step") => FirstStep) /\ (At("finish") => FinishStep)
    BY <1>2, ActionOf
  <2> QED BY <2>1 DEF FirstStep, FinishStep, At
<1> QED BY <1>1, <1>2

LEMMA NextOwnCalls ==
  ASSUME TypeInv, OwnCalls, [Next]_vars
  PROVE  OwnCalls'
<1>0. todo \in Seq(Calls) /\ ConfigTypes /\ config' = config /\ global_steps \in Nat
  BY ConfigKnown, Survives DEF TypeInv, TypeOK
<1>1. Moves
  BY NextMoves
<1>2. ASSUME ~config.pipelined
      PROVE  Without(todo', {"start", "step", "await"}) /\ inflight' = None
  <2>1. Without(todo, {"start", "step", "await"}) /\ inflight = None
    BY <1>2 DEF OwnCalls
  <2>2. ~At("start") /\ ~At("step") /\ ~At("await")
    BY <1>0, <2>1, HeadWithout
  <2>3. At("first_step") \/ At("finish") => Without(todo', {"start", "step", "await"})
    BY <1>2, <2>1, StepPlan DEF Without
  <2>4. /\ At("fetch") => Without(ColocatedCalls, {"start", "step", "await"})
        /\ At("load") => Without(BeginCalls, {"start", "step", "await"})
    BY <1>0, <1>2, ColocatedOrder, BeginOrder DEF Without, BeginSet, Calls
  <2>5. \A p \in Continuations : p[2] \notin {"start", "step", "await"}
    BY ContinuationRange DEF Openers
  <2>6. Without(todo', {"start", "step", "await"})
    BY <1>0, <1>1, <2>1, <2>2, <2>3, <2>4, <2>5, WithoutKept
  <2>7. inflight' = None
    BY <2>1, <2>2, BatchesKept, Survives, ActionCall
  <2> QED BY <2>6, <2>7
<1>3. ASSUME config.pipelined PROVE Without(todo', {"fetch", "generate"})
  <2>1. Without(todo, {"fetch", "generate"})
    BY <1>3 DEF OwnCalls
  <2>2. ~At("fetch") /\ ~At("generate")
    BY <1>0, <2>1, HeadWithout
  <2>3. At("first_step") \/ At("finish") => Without(todo', {"fetch", "generate"})
    BY <1>3, <2>1, StepPlan DEF Without
  <2>4. /\ At("step") => Without(PipelinedCalls, {"fetch", "generate"})
        /\ At("load") => Without(BeginCalls, {"fetch", "generate"})
    BY <1>0, <1>3, PipelinedOrder, BeginOrder DEF Without, BeginSet, Calls
  <2>5. \A p \in Continuations : p[2] \notin {"fetch", "generate"}
    BY ContinuationRange DEF Openers
  <2> QED BY <1>0, <1>1, <2>1, <2>2, <2>3, <2>4, <2>5, WithoutKept
<1>4. ASSUME global_steps' = 0 PROVE Without(todo', {"fetch", "step"})
  <2>1. CASE Dies
    BY <2>1, Survives DEF Without
  <2>2. CASE ~Dies
    <3>1. global_steps = 0 \/ LoadCheckpoint
      BY <1>0, <1>4, <2>2, BatchesKept DEF FirstStep, FinishStep
    <3>2. CASE LoadCheckpoint
      <4>1. todo' = BeginCalls
        BY <3>2 DEF LoadCheckpoint, BeginTraining, BeginCalls
      <4> QED BY <1>0, <4>1, BeginOrder DEF Without, BeginSet, Calls
    <3>3. CASE global_steps = 0
      <4>1. Without(todo, {"fetch", "step"})
        BY <3>3 DEF OwnCalls
      <4>2. ~At("fetch") /\ ~At("step")
        BY <1>0, <4>1, HeadWithout
      <4>3. At("first_step") \/ At("finish") => Without(todo', {"fetch", "step"})
        BY <1>4, <3>3, <4>1, StepPlan DEF Without
      <4>4. At("load") => Without(BeginCalls, {"fetch", "step"})
        BY <1>0, BeginOrder DEF Without, BeginSet, Calls
      <4>5. \A p \in Continuations : p[2] \notin {"fetch", "step"}
        BY ContinuationRange DEF Openers
      <4> QED BY <1>0, <1>1, <4>1, <4>2, <4>3, <4>4, <4>5, WithoutKept
    <3> QED BY <3>1, <3>2, <3>3
  <2> QED BY <2>1, <2>2
<1> QED BY <1>0, <1>2, <1>3, <1>4 DEF OwnCalls

-----------------------------------------------------------------------------
\* The shared GPUs of the colocated trainer: a call that loads a model comes
\* after a sleep whenever the KV cache is there.
MemoryPlan ==
  /\ job # "running" => gpu \cap TrainerParts = {}
  /\ job = "down" \/ At("load") => "kv_cache" \notin gpu
  /\ ~config.pipelined =>
       /\ Separated(todo, Computing, Waking, {"sleep"})
       /\ "kv_cache" \in gpu => Preceded(todo, Computing, {"sleep"})

LEMMA NextIdle ==
  ASSUME TypeInv, LoadedByCall, MemoryPlan, [Next]_vars, job' # "running"
  PROVE  gpu' \cap TrainerParts = {}
<1>1. CASE Dies
  BY <1>1, Survives
<1>2. CASE UNCHANGED vars
  BY <1>2 DEF vars, identity, hardware, MemoryPlan
<1>3. CASE LoadFails \/ NoMoreEpochs \/ AwaitFails \/ FinishStep
  <2>1. PICK call \in {"load", "fetch", "await", "finish"} : At(call)
    BY <1>3, ActionCall
  <2>2. gpu \cap TrainerParts = {}
    BY <2>1, NothingLoaded DEF Loads
  <2> QED BY <1>3, <2>2 DEF LoadFails, NoMoreEpochs, AwaitFails, FinishStep, hardware
<1>4. CASE Launch
  BY <1>4 DEF Launch
<1>5. CASE Driver
  <2>1. CASE LoadCheckpoint \/ FirstStep \/ FitStep \/ Fetch \/ Generate \/ StartGeneration
             \/ AwaitGeneration \/ SleepReplicas \/ Validate
    BY <2>1 DEF LoadCheckpoint, FirstStep, FitStep, Fetch, Generate, StartGeneration,
         AwaitGeneration, SleepReplicas, Validate, At
  <2>2. CASE PushColocated \/ PushStandalone \/ SendParams \/ OffloadParams \/ ResumeKvCache
             \/ Save \/ SaveData \/ OpenTracker \/ WriteTracker \/ LoadModel
    BY <2>2 DEF PushColocated, PushStandalone, SendParams, OffloadParams, ResumeKvCache, Save,
         SaveData, OpenTracker, WriteTracker, LoadModel, At
  <2>3. CASE UpdateCritic \/ UpdateActor \/ Infer \/ SaveActor \/ SaveCritic
    BY <2>3 DEF UpdateCritic, UpdateActor, Infer, SaveActor, SaveCritic, OffloadModel,
         Computes, At
  <2> QED BY <1>3, <1>5, <2>1, <2>2, <2>3 DEF Driver
<1> QED BY <1>1, <1>2, <1>3, <1>4, <1>5 DEF Next, Dies

LEMMA LoadOnlyFirst ==
  ASSUME TypeInv, [Next]_vars, ~Dies, job' = "down" \/ At("load")'
  PROVE  job = "down" \/ At("load")
<1>0. todo \in Seq(Calls) /\ OneSaveAhead /\ "load" \in OnlyNext
  BY DEF TypeInv, TypeOK, OnlyNext
<1>1. CASE UNCHANGED vars \/ Launch
  BY <1>1 DEF vars, identity, At, Launch
<1>2. ASSUME Driver PROVE job = "running" /\ job' # "down"
  <2>1. CASE LoadCheckpoint \/ FirstStep \/ FitStep \/ Fetch \/ Generate \/ StartGeneration
             \/ AwaitGeneration \/ SleepReplicas \/ Validate \/ FinishStep
             \/ LoadFails \/ NoMoreEpochs \/ AwaitFails
    BY <2>1 DEF LoadCheckpoint, FirstStep, FitStep, Fetch, Generate, StartGeneration, FinishStep,
         AwaitGeneration, SleepReplicas, Validate, LoadFails, NoMoreEpochs, AwaitFails, At
  <2>2. CASE PushColocated \/ PushStandalone \/ SendParams \/ OffloadParams \/ ResumeKvCache
             \/ Save \/ SaveData \/ OpenTracker \/ WriteTracker \/ LoadModel
    BY <2>2 DEF PushColocated, PushStandalone, SendParams, OffloadParams, ResumeKvCache, Save,
         SaveData, OpenTracker, WriteTracker, LoadModel, At
  <2>3. CASE UpdateCritic \/ UpdateActor \/ Infer \/ SaveActor \/ SaveCritic
    BY <2>3 DEF UpdateCritic, UpdateActor, Infer, SaveActor, SaveCritic, OffloadModel,
         Computes, At
  <2> QED BY <1>2, <2>1, <2>2, <2>3 DEF Driver
<1>3. ASSUME Driver, At("load")' PROVE At("load")
  <2>1. todo' # <<>> /\ Head(todo') = "load" /\ Moves /\ ConfigTypes
    BY <1>3, NextMoves, ConfigKnown DEF At
  <2>2. ASSUME NEW s \in Seq(Calls), Without(s, {"load"}), s # <<>> PROVE Head(s) # "load"
    BY <2>2, TailShape DEF Without
  <2>3. CASE todo' = todo
    BY <1>2, <1>3, <2>1, <2>3 DEF At
  <2>4. CASE todo # <<>> /\ todo' = Rest
    <3>1. Rest \in Seq(Calls) /\ Without(Rest, {"load"})
      BY <1>0, <2>4, TailShape DEF OneSaveAhead, OneSave, Without, Rest
    <3> QED BY <2>1, <2>2, <2>4, <3>1
  <2>5. CASE \E p \in Continuations : At(p[1]) /\ todo' = Then(p[2])
    <3>1. PICK p \in Continuations : At(p[1]) /\ todo' = Then(p[2])
      BY <2>5
    <3>2. p[2] # "load" /\ p[2] \in Calls /\ Rest \in Seq(Calls)
      BY <1>0, <3>1, ContinuationRange, TailShape DEF At, Rest
    <3> QED BY <2>1, <3>1, <3>2 DEF Then
  <2>6. CASE \/ At("fetch") /\ todo' = ColocatedCalls
             \/ At("step") /\ todo' = PipelinedCalls
    <3>1. OneSave(todo') /\ todo' \in Seq(Calls)
      BY <2>6, ColocatedPlan, PipelinedPlan
    <3> QED BY <1>0, <2>1, <2>2, <3>1 DEF OneSave, Without
  <2>7. CASE /\ At("first_step") \/ At("finish")
             /\ todo' = IF ~config.pipelined THEN <<"fetch">>
                        ELSE IF At("first_step") THEN <<"start", "step">> ELSE <<"step">>
    <3>1. \/ todo' = <<"fetch">> /\ Head(todo') = "fetch"
          \/ todo' = <<"step">> /\ Head(todo') = "step"
          \/ todo' = <<"start", "step">> /\ Head(todo') = "start"
      BY <2>7
    <3> QED BY <2>1, <3>1
  <2>8. todo' # <<>> /\ job = "running" /\ job # "down"
    BY <1>2, <1>3, <2>1
  <2>9. \/ todo' = todo
        \/ todo # <<>> /\ todo' = Rest
        \/ \E p \in Continuations : At(p[1]) /\ todo' = Then(p[2])
        \/ At("fetch") /\ todo' = ColocatedCalls
        \/ At("step") /\ todo' = PipelinedCalls
        \/ At("load")
        \/ /\ At("first_step") \/ At("finish")
           /\ todo' = IF ~config.pipelined THEN <<"fetch">>
                      ELSE IF At("first_step") THEN <<"start", "step">> ELSE <<"step">>
    BY <2>1, <2>8 DEF Moves
  <2> QED BY <2>3, <2>4, <2>5, <2>6, <2>7, <2>9
<1> QED BY <1>1, <1>2, <1>3 DEF Next, Dies

LEMMA NextMemory ==
  ASSUME TypeInv, OwnCalls, LoadedByCall, MemoryPlan, [Next]_vars
  PROVE  MemoryPlan'
<1>0. todo \in Seq(Calls) /\ ConfigTypes /\ config' = config
  BY ConfigKnown, Survives DEF TypeInv, TypeOK
<1>1. Moves
  BY NextMoves
<1>2. ASSUME job' = "down" \/ At("load")' PROVE "kv_cache" \notin gpu'
  <2>1. CASE Dies
    BY <2>1, Survives
  <2>2. CASE ~Dies
    <3>1. job = "down" \/ At("load")
      BY <1>2, <2>2, LoadOnlyFirst
    <3>2. ~SleepReplicas /\ ~ResumeKvCache
      BY <3>1 DEF SleepReplicas, ResumeKvCache, At
    <3> QED BY <2>2, <3>1, <3>2, ReplicasKept DEF MemoryPlan
  <2> QED BY <2>1, <2>2
<1>3. ASSUME ~config.pipelined
      PROVE  /\ Separated(todo', Computing, Waking, {"sleep"})
             /\ "kv_cache" \in gpu' => Preceded(todo', Computing, {"sleep"})
  <2>1. /\ Separated(todo, Computing, Waking, {"sleep"})
        /\ "kv_cache" \in gpu => Preceded(todo, Computing, {"sleep"})
    BY <1>3 DEF MemoryPlan
  <2>2. ~At("step") /\ ~At("start")
    BY <1>0, <1>3, HeadWithout DEF OwnCalls
  <2>3. \A p \in Continuations : /\ p[2] \in Waking => p[1] \in Waking
                                 /\ p[2] \in Computing => p[1] \in Computing
                                 /\ p[1] # "sleep"
    BY DEF Continuations, Waking, Computing, Loads
  <2>4. Separated(todo', Computing, Waking, {"sleep"})
    BY <1>0, <1>1, <1>3, <2>1, <2>2, <2>3, SeparatedKept, ColocatedOrder, BeginOrder
       DEF Waking
  <2>5. ASSUME "kv_cache" \in gpu' PROVE Preceded(todo', Computing, {"sleep"})
    <3>1. ~Dies
      BY <2>5, Survives
    <3>2. ~SleepReplicas
      BY <2>5 DEF SleepReplicas
    <3>3. CASE ResumeKvCache
      <4>1. todo # <<>> /\ Head(todo) \in Waking /\ todo' = Rest
        BY <3>3 DEF ResumeKvCache, At, Waking
      <4> QED BY <1>0, <2>1, <4>1, TailOrder DEF Rest
    <3>4. CASE ~ResumeKvCache
      <4>1. Preceded(todo, Computing, {"sleep"})
        BY <2>1, <2>5, <3>1, <3>2, <3>4, ReplicasKept
      <4>2. At("sleep") => todo' = todo
        BY <3>1, <3>2, ActionOf
      <4>3. At("first_step") \/ At("finish") => Preceded(todo', Computing, {"sleep"})
        <5>1. "fetch" \notin Computing
          BY DEF Computing, Loads
        <5> QED BY <1>3, <4>1, <5>1, StepPlan, OneCallPlans, EmptyOrder
      <4>4. At("fetch") => Preceded(ColocatedCalls, Computing, {"sleep"})
        BY <1>0, <1>3, ColocatedOrder
      <4>5. ~At("load")
        BY <2>5, <3>1, <3>2, <3>4, ReplicasKept DEF MemoryPlan
      <4>6. "load" \notin Computing
        BY DEF Computing, Loads
      <4> QED BY <1>0, <1>1, <2>2, <2>3, <4>1, <4>2, <4>3, <4>4, <4>5, <4>6, PrecededKept
    <3> QED BY <3>3, <3>4
  <2> QED BY <2>4, <2>5
<1> QED BY <1>0, <1>2, <1>3, NextIdle DEF MemoryPlan

LEMMA InitOrder ==
  ASSUME Init
  PROVE  /\ todo = <<>> /\ job = "down" /\ gpu = {} /\ inflight = None /\ launches = 0
         /\ actor = <<>> /\ critic = <<>> /\ loader = 0 /\ global_steps = 0
         /\ replicas = [awake |-> config.pipelined, weights |-> <<>>]
         /\ batch = [prompts |-> 0, weights |-> None]
         /\ disk = [s \in Steps |-> EmptyFolder] /\ tracker = 0
         /\ \A c : ~At(c)
         /\ \A use, off, on : /\ Separated(todo, use, off, on) /\ Preceded(todo, use, on)
                              /\ Without(todo, use)
<1>1. /\ todo = <<>> /\ job = "down" /\ gpu = {} /\ inflight = None /\ launches = 0
      /\ actor = <<>> /\ critic = <<>> /\ loader = 0 /\ global_steps = 0
      /\ replicas = [awake |-> config.pipelined, weights |-> <<>>]
      /\ batch = [prompts |-> 0, weights |-> None]
      /\ disk = [s \in Steps |-> EmptyFolder] /\ tracker = 0
  BY DEF Init, FreshMemory
<1> QED BY <1>1, EmptyOrder DEF At

LoopInv == TypeInv /\ LoadedByCall /\ OwnCalls /\ MemoryPlan

LEMMA LoopInvariant == Spec => []LoopInv
<1>1. Init => LoopInv
  BY InitTypes, InitStore, InitOrder DEF LoopInv, OwnCalls, MemoryPlan
<1>2. LoopInv /\ [Next]_vars => LoopInv'
  BY NextTypes, NextLoaded, NextOwnCalls, NextMemory DEF LoopInv
<1> QED BY <1>1, <1>2, PTL DEF Spec

\* The KV cache and a model of the trainer never share the GPUs, in any
\* configuration of the colocated trainer, wherever the job dies.
THEOREM GpuShared == Spec => []MemoryExclusive
<1>1. LoopInv => MemoryExclusive
  <2> SUFFICES ASSUME LoopInv, ~config.pipelined, "kv_cache" \in gpu
               PROVE  gpu \cap TrainerParts = {}
    BY DEF MemoryExclusive, TrainerParts
  <2>1. CASE job # "running"
    BY <2>1 DEF LoopInv, MemoryPlan
  <2>2. CASE job = "running"
    <3>1. todo \in Seq(Calls) /\ Preceded(todo, Computing, {"sleep"})
      BY DEF LoopInv, MemoryPlan, TypeInv, TypeOK
    <3>2. \A call \in Computing : ~At(call)
      BY <3>1, PrecededHead
    <3> QED BY <2>2, <3>2 DEF LoopInv, LoadedByCall, Computing
  <2> QED BY <2>1, <2>2
<1> QED BY <1>1, LoopInvariant, PTL

-----------------------------------------------------------------------------
\* The replicas of the colocated trainer: a call that uses them comes after a
\* push whenever they sleep.  A trainer that skips the push of its first steps
\* (critic_warmup > 1) breaks this: see MCCriticWarmup.cfg.
NoWarmup == \A c \in Configs : ~c.pipelined => c.critic_warmup <= 1

AwakePlan ==
  /\ config.pipelined => replicas.awake
  /\ ~config.pipelined =>
       /\ Separated(todo, Serving, {"sleep"}, Waking)
       /\ ~replicas.awake => Preceded(todo, Serving, Waking)

LEMMA ThenLonger ==
  ASSUME todo \in Seq(Calls), todo # <<>>, NEW call \in Calls
  PROVE  Then(call) # Rest
<1> DEFINE s == <<call>>
<1>1. Then(call) = s \o Rest /\ Rest \in Seq(Calls) /\ s \in Seq(Calls) /\ DOMAIN s = {1}
  BY TailShape DEF Then, Rest
<1> HIDE DEF s
<1>2. /\ DOMAIN Then(call) = 1 .. (Len(s) + Len(Rest)) /\ DOMAIN Rest = 1 .. Len(Rest)
      /\ Len(s) \in Nat /\ Len(Rest) \in Nat /\ DOMAIN s = 1 .. Len(s)
  BY <1>1, ConcatShape
<1>3. Len(s) # 0
  BY <1>1, <1>2
<1>4. Len(s) + Len(Rest) \in DOMAIN Then(call) /\ Len(s) + Len(Rest) \notin DOMAIN Rest
  BY <1>2, <1>3
<1> QED BY <1>4

LEMMA NextAwake ==
  ASSUME NoWarmup, TypeInv, OwnCalls, AwakePlan, [Next]_vars
  PROVE  AwakePlan'
<1>0. /\ todo \in Seq(Calls) /\ ConfigTypes /\ config' = config /\ config \in Configs
      /\ global_steps \in Nat /\ replicas \in [awake: BOOLEAN, weights: Seq(Nat)]
  BY ConfigKnown, Survives DEF TypeInv, TypeOK
<1>1. Moves
  BY NextMoves
<1>2. ASSUME config.pipelined PROVE replicas'.awake
  <2>1. CASE Dies
    BY <1>2, <2>1, Survives
  <2>2. CASE SleepReplicas \/ ResumeKvCache
    BY <1>0, <1>2, <2>2 DEF SleepReplicas, ResumeKvCache
  <2>3. CASE ~Dies /\ ~SleepReplicas /\ ~ResumeKvCache
    BY <1>2, <2>3, ReplicasKept DEF AwakePlan
  <2> QED BY <2>1, <2>2, <2>3
<1>3. ASSUME ~config.pipelined
      PROVE  /\ Separated(todo', Serving, {"sleep"}, Waking)
             /\ ~replicas'.awake => Preceded(todo', Serving, Waking)
  <2>1. /\ Separated(todo, Serving, {"sleep"}, Waking)
        /\ ~replicas.awake => Preceded(todo, Serving, Waking)
    BY <1>3 DEF AwakePlan
  <2>2. ~At("step") /\ ~At("start")
    BY <1>0, <1>3, HeadWithout DEF OwnCalls
  <2>3. At("fetch") => ActorTrains
    <3>1. At("fetch") => global_steps # 0
      BY <1>0, HeadWithout DEF OwnCalls
    <3> QED BY <1>0, <1>3, <3>1 DEF NoWarmup, ActorTrains, ConfigTypes
  <2>4. \A p \in Continuations : /\ p[2] \notin Serving /\ p[2] # "sleep"
                                 /\ p[1] \in Waking => p[2] \in Waking
    BY DEF Continuations, Waking, Serving
  <2>5. Separated(todo', Serving, {"sleep"}, Waking)
    BY <1>0, <1>1, <1>3, <2>1, <2>2, <2>3, <2>4, SeparatedKept, ColocatedOrder, BeginOrder
  <2>6. ASSUME ~replicas'.awake PROVE Preceded(todo', Serving, Waking)
    <3>1. CASE Dies
      BY <3>1, Survives, EmptyOrder
    <3>2. CASE SleepReplicas
      <4>1. todo # <<>> /\ Head(todo) \in {"sleep"} /\ todo' = Rest
        BY <3>2 DEF SleepReplicas, At
      <4> QED BY <1>0, <2>1, <4>1, TailOrder DEF Rest
    <3>3. ~ResumeKvCache
      BY <1>0, <2>6 DEF ResumeKvCache
    <3>4. CASE ~Dies /\ ~SleepReplicas
      <4>1. Preceded(todo, Serving, Waking)
        BY <2>1, <2>6, <3>3, <3>4, ReplicasKept
      <4>2. ASSUME NEW call \in Waking, At(call), todo' = Rest PROVE todo' = todo
        <5>1. CASE todo' # todo
          <6>1. ~PushStandalone
            BY <1>3 DEF PushStandalone
          <6>2. PushColocated \/ SendParams \/ OffloadParams
            BY <3>3, <3>4, <4>2, <5>1, <6>1, ActionOf DEF Waking
          <6>3. \E c \in {"send_params", "offload_params", "resume_kv_cache"} : todo' = Then(c)
            BY <6>2 DEF PushColocated, SendParams, OffloadParams
          <6>4. todo # <<>> /\ {"send_params", "offload_params", "resume_kv_cache"} \subseteq Calls
            BY <4>2 DEF At, Calls
          <6> QED BY <1>0, <4>2, <6>3, <6>4, ThenLonger
        <5> QED BY <5>1
      <4>3. ~At("fetch") /\ ~At("first_step") /\ ~At("finish")
        BY <1>0, <4>1, PrecededHead DEF Serving
      <4>4. "load" \notin Serving
        BY DEF Serving
      <4> QED BY <1>0, <1>1, <2>2, <2>4, <4>1, <4>2, <4>3, <4>4, PrecededKept, BeginOrder
    <3> QED BY <3>1, <3>2, <3>4
  <2> QED BY <2>5, <2>6
<1> QED BY <1>0, <1>2, <1>3 DEF AwakePlan

\* Without a warm-up of the critic, the replicas are awake whenever the driver
\* asks them for responses: every sleep is followed by a push before that.
THEOREM ReplicasAwake == ASSUME NoWarmup PROVE Spec => []AwakeToGenerate
<1>1. Init => AwakePlan
  BY InitOrder DEF AwakePlan
<1>2. LoopInv /\ AwakePlan /\ [Next]_vars => AwakePlan'
  BY NextAwake DEF LoopInv
<1>3. LoopInv /\ AwakePlan => AwakeToGenerate
  <2> SUFFICES ASSUME LoopInv, AwakePlan, At("generate") \/ At("validate") \/ At("await")
               PROVE  replicas.awake
    BY DEF AwakeToGenerate
  <2>1. CASE config.pipelined
    BY <2>1 DEF AwakePlan
  <2>2. CASE ~config.pipelined
    <3>1. todo \in Seq(Calls)
      BY DEF LoopInv, TypeInv, TypeOK
    <3>2. ~At("await")
      BY <2>2, <3>1, HeadWithout DEF LoopInv, OwnCalls
    <3>3. Preceded(todo, Serving, Waking) => ~At("generate") /\ ~At("validate")
      BY <3>1, PrecededHead DEF Serving
    <3> QED BY <2>2, <3>2, <3>3 DEF AwakePlan
  <2> QED BY <2>1, <2>2
<1> QED BY <1>1, <1>2, <1>3, LoopInvariant, PTL DEF Spec

-----------------------------------------------------------------------------
\* A save writes what the models and the dataloader are; nothing else does.
LEMMA DiskKept ==
  ASSUME TypeInv, [Next]_vars, NEW s \in Steps
  PROVE  /\ \/ disk'[s].actor \in {disk[s].actor, Missing, Partial}
            \/ SaveActor /\ s = global_steps /\ disk'[s].actor = actor
         /\ \/ disk'[s].critic \in {disk[s].critic, Missing, Partial}
            \/ SaveCritic /\ s = global_steps /\ disk'[s].critic = critic
         /\ \/ disk'[s].data = disk[s].data
            \/ SaveData /\ s = global_steps /\ disk'[s].data = loader
<1> DEFINE Ok(d) == /\ d \in [Steps -> Folder]
                    /\ d[s].actor \in {disk[s].actor, Missing, Partial}
                    /\ d[s].critic \in {disk[s].critic, Missing, Partial}
                    /\ d[s].data = disk[s].data
<1>0. disk \in [Steps -> Folder] /\ Ok(disk)
  BY DEF TypeInv, TypeOK
<1>1. ASSUME NEW steps, NEW part \in {"actor", "critic"} PROVE Ok(Remove(disk, steps, part))
  <2>1. Remove(disk, steps, part)[s] =
          IF s \in steps THEN [disk[s] EXCEPT ![part] = Missing] ELSE disk[s]
    BY <1>0 DEF Remove
  <2>2. Remove(disk, steps, part) \in [Steps -> Folder]
    BY <1>0, DiskTypes
  <2>3. disk[s] \in Folder
    BY <1>0
  <2> QED BY <2>1, <2>2, <2>3 DEF Folder
<1>2. ASSUME NEW d, Ok(d), NEW part \in {"actor", "critic"}, NEW content,
             disk' = Write(d, global_steps, part, content)
      PROVE  /\ disk'[s].data = disk[s].data
             /\ \/ disk'[s].actor \in {disk[s].actor, Missing, Partial}
                \/ part = "actor" /\ s = global_steps /\ disk'[s].actor = content
             /\ \/ disk'[s].critic \in {disk[s].critic, Missing, Partial}
                \/ part = "critic" /\ s = global_steps /\ disk'[s].critic = content
  <2>1. DOMAIN d = Steps /\ d[s] \in Folder
    BY <1>2
  <2>2. disk'[s] = IF s = global_steps THEN [d[s] EXCEPT ![part] = content] ELSE d[s]
    BY <1>2, <2>1 DEF Write
  <2> QED BY <1>2, <2>1, <2>2 DEF Folder
<1> HIDE DEF Ok
<1>3. CASE LoadModel
  <2>1. disk' = disk \/ MakeRoom("actor") \/ MakeRoom("critic")
    BY <1>3 DEF LoadModel, Loads
  <2>2. ASSUME NEW part \in {"actor", "critic"}, MakeRoom(part)
        PROVE  \E d : Ok(d) /\ disk' = Write(d, global_steps, part, Partial)
    BY <1>1, <2>2 DEF MakeRoom
  <2>3. CASE disk' = disk
    BY <2>3
  <2>4. CASE MakeRoom("actor")
    BY <1>2, <2>2, <2>4
  <2>5. CASE MakeRoom("critic")
    BY <1>2, <2>2, <2>5
  <2> QED BY <2>1, <2>3, <2>4, <2>5
<1>4. CASE SaveActor
  <2>1. PICK d : Ok(d) /\ disk' = Write(d, global_steps, "actor", actor)
    BY <1>1, <1>4 DEF SaveActor, Register
  <2> QED BY <1>2, <1>4, <2>1
<1>5. CASE SaveCritic
  <2>1. PICK d : Ok(d) /\ disk' = Write(d, global_steps, "critic", critic)
    BY <1>1, <1>5 DEF SaveCritic, Register
  <2> QED BY <1>2, <1>5, <2>1
<1>6. CASE SaveData
  <2>1. disk[s] \in Folder
    BY <1>0
  <2>2. disk'[s] = IF s = global_steps THEN [disk[s] EXCEPT !["data"] = loader] ELSE disk[s]
    BY <1>0, <1>6 DEF SaveData, Write
  <2> QED BY <1>6, <2>1, <2>2 DEF Folder
<1>7. CASE UNCHANGED vars \/ Launch \/ Dies
  BY <1>7, Survives DEF vars, store, Launch
<1>8. CASE LoadCheckpoint \/ LoadFails \/ FirstStep \/ FitStep \/ Fetch \/ NoMoreEpochs
           \/ Generate \/ StartGeneration \/ AwaitGeneration \/ AwaitFails \/ SleepReplicas
           \/ Validate \/ FinishStep
  BY <1>8 DEF LoadCheckpoint, LoadFails, FirstStep, FitStep, Fetch, NoMoreEpochs, Generate,
       StartGeneration, AwaitGeneration, AwaitFails, SleepReplicas, Validate, FinishStep, store
<1>9. CASE PushColocated \/ PushStandalone \/ SendParams \/ OffloadParams \/ ResumeKvCache
           \/ Save \/ OpenTracker \/ WriteTracker \/ Infer \/ UpdateCritic \/ UpdateActor
  BY <1>9 DEF PushColocated, PushStandalone, SendParams, OffloadParams, ResumeKvCache, Save,
       OpenTracker, WriteTracker, Infer, UpdateCritic, UpdateActor, store
<1> QED BY <1>3, <1>4, <1>5, <1>6, <1>7, <1>8, <1>9 DEF Next, Driver, Dies

\* The steps a job counts only grow while it lives, except by loading.
LEMMA StepsGrow ==
  ASSUME TypeInv, [Next]_vars, ~Dies, ~LoadCheckpoint
  PROVE  /\ global_steps' \in {global_steps, global_steps + 1}
         /\ ActorTrains => ActorTrains'
<1>1. global_steps' \in {global_steps, global_steps + 1}
  BY BatchesKept DEF FirstStep, FinishStep
<1>2. global_steps \in Nat /\ ConfigTypes /\ config' = config
  BY ConfigKnown, Survives DEF TypeInv, TypeOK
<1> QED BY <1>1, <1>2 DEF ActorTrains, ConfigTypes

-----------------------------------------------------------------------------
\* How far the weights a batch was generated with are behind the actor: the
\* batch received has at most Lag updates missing, and the actor is trained on
\* it once.
Prefix(s, t) == Len(s) <= Len(t) /\ \A i \in 1 .. Len(s) : s[i] = t[i]
Lag == IF config.pipelined THEN 1 ELSE 0
Follows(weights) ==
  weights \in Seq(Nat) /\ Prefix(weights, actor) /\ Len(actor) <= Len(weights) + Lag

LEMMA PrefixFacts ==
  ASSUME NEW s \in Seq(Nat), NEW t \in Seq(Nat), Prefix(s, t)
  PROVE  /\ s = SubSeq(t, 1, Len(s))
         /\ \A n \in Nat : Prefix(s, Append(t, n))
         /\ t = <<>> => s = <<>>
<1>1. /\ Len(s) \in Nat /\ Len(t) \in Nat /\ DOMAIN s = 1 .. Len(s) /\ Len(s) <= Len(t)
      /\ \A i \in 1 .. Len(s) : s[i] = t[i]
  BY LenProperties DEF Prefix
<1>2. s = SubSeq(t, 1, Len(s))
  <2> DEFINE u == SubSeq(t, 1, Len(s))
  <2>1. u \in Seq(Nat) /\ Len(u) = Len(s) /\ \A i \in 1 .. Len(s) : u[i] = t[i]
    BY <1>1
  <2> HIDE DEF u
  <2>2. u = s
    BY <1>1, <2>1, SeqEqual
  <2> QED BY <2>2 DEF u
<1>3. ASSUME NEW n \in Nat PROVE Prefix(s, Append(t, n))
  <2>1. Len(Append(t, n)) = Len(t) + 1 /\ \A i \in 1 .. Len(t) : Append(t, n)[i] = t[i]
    OBVIOUS
  <2> QED BY <1>1, <2>1 DEF Prefix
<1>4. t = <<>> => s = <<>>
  BY <1>1
<1> QED BY <1>2, <1>3, <1>4

LEMMA PrefixEnds ==
  ASSUME NEW s \in Seq(Nat)
  PROVE  Prefix(s, s) /\ Prefix(<<>>, s)
BY LenProperties DEF Prefix

\* The actor a job holds or finds on the disk was trained after the warm-up.
Warm ==
  /\ job = "down" \/ At("load") => actor = <<>> /\ inflight = None
  /\ actor # <<>> => config.critic_warmup <= global_steps
  /\ \A s \in Steps : Loadable(disk[s].actor) /\ disk[s].actor # <<>>
                        => config.critic_warmup <= s
  /\ ~ActorTrains => Without(todo, {"update_actor"})

\* The rollout weights: the actor's, whenever a generation may begin.
PushPlan ==
  /\ Prefix(replicas.weights, actor)
  /\ Separated(todo, Generating, {"update_actor"}, Sending)
  /\ replicas.weights # actor => Preceded(todo, Generating, Sending)

\* The batch: a fresh one is received before the actor is trained again.
BatchPlan ==
  /\ Separated(todo, {"update_actor"}, {"update_actor"}, Receiving)
  /\ ~Follows(batch.weights) => Preceded(todo, {"update_actor"}, Receiving)
  /\ inflight # None =>
       /\ Follows(inflight.weights)
       /\ Len(actor) > Len(inflight.weights) => Preceded(todo, {"update_actor"}, Receiving)

LEMMA SequenceTypes ==
  ASSUME TypeInv
  PROVE  /\ actor \in Seq(Nat) /\ critic \in Seq(Nat) /\ replicas.weights \in Seq(Nat)
         /\ todo \in Seq(Calls) /\ global_steps \in Nat /\ batch.prompts \in Nat
         /\ inflight # None => inflight \in Batch
         /\ Len(actor) \in Nat /\ Len(critic) \in Nat
         /\ disk \in [Steps -> Folder] /\ loader \in Nat
BY LenProperties DEF TypeInv, TypeOK, Batch

LEMMA NotLoading ==
  ASSUME ConfigTypes
  PROVE  BeginCalls # <<>> /\ Head(BeginCalls) # "load"
<1>1. BeginCalls \in Seq(Calls) /\ ~Without(BeginCalls, {"first_step"})
      /\ Without(BeginCalls, Calls \ BeginSet)
  BY BeginOrder
<1>2. BeginCalls # <<>>
  BY <1>1, EmptyOrder
<1>3. "load" \in Calls \ BeginSet
  BY DEF Calls, BeginSet
<1> QED BY <1>1, <1>2, <1>3, TailShape DEF Without

LEMMA UpdatePlans ==
  ASSUME TypeInv, OwnCalls
  PROVE  /\ Without(BeginCalls, {"update_actor"})
         /\ At("fetch") \/ At("step") => (config.pipelined <=> At("step"))
         /\ At("fetch") => Without(ColocatedCalls, {"update_actor"}) <=> ~ActorTrains
         /\ At("step") => Without(PipelinedCalls, {"update_actor"}) <=> ~ActorTrains
<1>1. ConfigTypes /\ todo \in Seq(Calls)
  BY ConfigKnown, SequenceTypes
<1>2. {"update_actor"} \subseteq Calls \ BeginSet
  BY DEF Calls, BeginSet
<1>3. Without(BeginCalls, {"update_actor"})
  BY <1>1, <1>2, BeginOrder, WithoutOrder
<1>4. (At("fetch") => ~config.pipelined) /\ (At("step") => config.pipelined)
  BY <1>1, HeadWithout DEF OwnCalls
<1>5. ~(At("fetch") /\ At("step"))
  BY DEF At
<1> QED BY <1>1, <1>3, <1>4, <1>5, ColocatedOrder, PipelinedOrder

LEMMA NextWarm ==
  ASSUME TypeInv, OwnCalls, Warm, [Next]_vars
  PROVE  Warm'
<1>0. /\ ConfigTypes /\ config' = config /\ todo \in Seq(Calls) /\ global_steps \in Nat
      /\ Moves
  BY ConfigKnown, Survives, SequenceTypes, NextMoves
<1>1. CASE Dies
  <2>1. disk' = disk /\ actor' = <<>> /\ inflight' = None /\ todo' = <<>>
    BY <1>1, Survives
  <2> QED BY <1>0, <2>1, EmptyOrder DEF Warm
<1>2. ASSUME ~Dies, job' = "down" \/ At("load")' PROVE actor' = <<>> /\ inflight' = None
  <2>1. job = "down" \/ At("load")
    BY <1>2, LoadOnlyFirst
  <2>2. ~StartGeneration /\ ~AwaitGeneration /\ ~UpdateActor
    BY <2>1, ActionCall DEF At
  <2>3. ~LoadCheckpoint
    <3>1. LoadCheckpoint => todo' = BeginCalls /\ job' = "running"
      BY DEF LoadCheckpoint, BeginTraining, BeginCalls, At
    <3> QED BY <1>0, <1>2, <3>1, NotLoading DEF At
  <2> QED BY <1>2, <2>1, <2>2, <2>3, BatchesKept DEF Warm
<1>3. ASSUME ~Dies, actor' # <<>> PROVE config.critic_warmup <= global_steps'
  <2>1. CASE LoadCheckpoint
    <3>1. actor = <<>>
      BY <2>1, ActionCall DEF Warm
    <3>2. PICK step : /\ step = FindLatest(disk, tracker) /\ step # 0
                      /\ Loadable(disk[step].actor)
                      /\ global_steps' = step /\ actor' = disk[step].actor /\ tracker # Torn
      BY <1>3, <2>1, <3>1 DEF LoadCheckpoint, models
    <3>3. step \in Steps
      BY <3>2 DEF FindLatest, TypeInv, TypeOK
    <3> QED BY <1>3, <3>2, <3>3 DEF Warm
  <2>2. CASE UpdateActor
    <3>1. ActorTrains /\ global_steps' = global_steps
      BY <1>0, <2>2, ActionCall, HeadWithout DEF Warm, UpdateActor, OffloadModel, place
    <3> QED BY <3>1 DEF ActorTrains
  <2>3. CASE ~LoadCheckpoint /\ ~UpdateActor
    <3>1. config.critic_warmup <= global_steps
      BY <1>3, <2>3, BatchesKept DEF Warm
    <3>2. global_steps' \in {global_steps, global_steps + 1}
      BY <1>3, <2>3, StepsGrow
    <3> QED BY <1>0, <3>1, <3>2 DEF ConfigTypes
  <2> QED BY <2>1, <2>2, <2>3
<1>4. ASSUME NEW s \in Steps, Loadable(disk'[s].actor), disk'[s].actor # <<>>
      PROVE  config.critic_warmup <= s
  <2>1. CASE disk'[s].actor = disk[s].actor
    BY <1>4, <2>1 DEF Warm
  <2>2. CASE SaveActor /\ s = global_steps /\ disk'[s].actor = actor
    BY <1>4, <2>2 DEF Warm
  <2> QED BY <1>4, <2>1, <2>2, DiskKept DEF Loadable
<1>5. ASSUME ~Dies, ~ActorTrains' PROVE Without(todo', {"update_actor"})
  <2>1. CASE LoadCheckpoint
    <3>1. todo' = BeginCalls
      BY <2>1 DEF LoadCheckpoint, BeginTraining, BeginCalls
    <3> QED BY <3>1, UpdatePlans
  <2>2. CASE ~LoadCheckpoint
    <3>1. ~ActorTrains /\ Without(todo, {"update_actor"})
      BY <1>5, <2>2, StepsGrow DEF Warm
    <3>2. At("first_step") \/ At("finish") => Without(todo', {"update_actor"})
      BY <3>1, StepPlan DEF Without
    <3>3. \A p \in Continuations : p[2] # "update_actor"
      BY ContinuationRange
    <3> QED BY <1>0, <3>1, <3>2, <3>3, UpdatePlans, WithoutKept
  <2> QED BY <2>1, <2>2
<1> QED BY <1>0, <1>1, <1>2, <1>3, <1>4, <1>5 DEF Warm

LEMMA WeightsSent ==
  ASSUME TypeInv, Warm, PushPlan, SendParams \/ PushStandalone
  PROVE  replicas'.weights = actor /\ actor' = actor
<1>1. actor' = actor
  BY DEF SendParams, PushStandalone, models
<1>2. replicas \in [awake: BOOLEAN, weights: Seq(Nat)]
  BY DEF TypeInv, TypeOK
<1>3. CASE SendParams
  BY <1>1, <1>2, <1>3 DEF SendParams
<1>4. CASE PushStandalone /\ ActorTrains
  BY <1>1, <1>2, <1>4 DEF PushStandalone
<1>5. CASE PushStandalone /\ ~ActorTrains
  <2>1. actor = <<>>
    BY <1>5 DEF Warm, ActorTrains
  <2>2. replicas.weights = <<>>
    BY <2>1, SequenceTypes, PrefixFacts DEF PushPlan
  <2> QED BY <1>1, <1>2, <1>5, <2>1, <2>2 DEF PushStandalone
<1> QED BY <1>3, <1>4, <1>5

LEMMA UpdateGrows ==
  ASSUME TypeInv, UpdateActor
  PROVE  /\ actor' = Append(actor, batch.prompts) /\ Len(actor') = Len(actor) + 1
         /\ todo # <<>> /\ Head(todo) \in {"update_actor"} /\ todo' = Rest
         /\ ~LoadCheckpoint /\ ~Generate /\ ~Fetch /\ ~AwaitGeneration /\ ~StartGeneration
         /\ ~SendParams /\ ~PushStandalone /\ ~Dies
         /\ job' = "running"
<1>1. At("update_actor")
  BY ActionCall
<1>2. /\ ~LoadCheckpoint /\ ~Generate /\ ~Fetch /\ ~AwaitGeneration /\ ~StartGeneration
      /\ ~SendParams /\ ~PushStandalone
  BY <1>1, ActionCall DEF At
<1>3. actor' = Append(actor, batch.prompts) /\ todo' = Rest /\ job' = "running"
  BY <1>1 DEF UpdateActor, OffloadModel, At
<1>4. Len(actor') = Len(actor) + 1
  BY <1>3, SequenceTypes
<1> QED BY <1>1, <1>2, <1>3, <1>4, Survives DEF At, Dies, Crash, Relaunch

LEMMA NextPush ==
  ASSUME TypeInv, OwnCalls, Warm, PushPlan, [Next]_vars
  PROVE  PushPlan'
<1>0. /\ ConfigTypes /\ config' = config /\ todo \in Seq(Calls) /\ Moves
      /\ actor \in Seq(Nat) /\ replicas.weights \in Seq(Nat) /\ batch.prompts \in Nat
  BY ConfigKnown, Survives, SequenceTypes, NextMoves
<1>1. ASSUME Dies
      PROVE  /\ Prefix(replicas'.weights, actor') /\ replicas'.weights = actor'
             /\ Separated(todo', Generating, {"update_actor"}, Sending)
  <2>1. replicas'.weights = <<>> /\ actor' = <<>> /\ todo' = <<>>
    BY <1>1, Survives
  <2>2. Separated(<<>>, Generating, {"update_actor"}, Sending)
    BY EmptyOrder
  <2>3. Prefix(<<>>, <<>>)
    BY DEF Prefix
  <2> QED BY <2>1, <2>2, <2>3
<1>2. ASSUME ~Dies PROVE Prefix(replicas'.weights, actor')
  <2>1. CASE SendParams \/ PushStandalone
    BY <1>0, <2>1, WeightsSent, PrefixEnds
  <2>2. CASE ~SendParams /\ ~PushStandalone
    <3>1. replicas'.weights = replicas.weights
      BY <1>2, <2>2, ReplicasKept
    <3>2. CASE LoadCheckpoint
      <4>1. replicas.weights = <<>>
        BY <1>0, <3>2, ActionCall, PrefixFacts DEF Warm, PushPlan
      <4>2. LoadCheckpoint => actor' \in Seq(Nat)
        BY NextTypes DEF TypeInv, TypeOK
      <4> QED BY <3>1, <3>2, <4>1, <4>2, PrefixEnds
    <3>3. CASE UpdateActor
      <4>1. Prefix(replicas.weights, Append(actor, batch.prompts))
        BY <1>0, PrefixFacts DEF PushPlan
      <4> QED BY <3>1, <3>3, <4>1, UpdateGrows
    <3>4. CASE ~LoadCheckpoint /\ ~UpdateActor
      BY <1>2, <3>1, <3>4, BatchesKept DEF PushPlan
    <3> QED BY <3>2, <3>3, <3>4
  <2> QED BY <2>1, <2>2
<1>3. Separated(todo', Generating, {"update_actor"}, Sending)
  <2>1. \A p \in Continuations : p[2] # "update_actor"
    BY ContinuationRange
  <2>2. Separated(BeginCalls, Generating, {"update_actor"}, Sending)
    BY <1>0, UpdatePlans, BeginOrder, WithoutOrder
  <2>3. At("fetch") => Separated(ColocatedCalls, Generating, {"update_actor"}, Sending)
    BY <1>0, UpdatePlans, ColocatedOrder DEF At
  <2>4. At("step") => Separated(PipelinedCalls, Generating, {"update_actor"}, Sending)
    BY <1>0, UpdatePlans, PipelinedOrder
  <2> QED BY <1>0, <2>1, <2>2, <2>3, <2>4, SeparatedKept DEF PushPlan
<1>4. ASSUME ~Dies, replicas'.weights # actor' PROVE Preceded(todo', Generating, Sending)
  <2>1. ~SendParams /\ ~PushStandalone
    BY <1>4, WeightsSent
  <2>2. CASE UpdateActor
    <3>1. todo # <<>> /\ Head(todo) \in {"update_actor"} /\ todo' = Tail(todo)
      BY <2>2, UpdateGrows DEF Rest
    <3>2. Separated(todo, Generating, {"update_actor"}, Sending)
      BY DEF PushPlan
    <3> QED BY <1>0, <3>1, <3>2, TailOrder
  <2>3. CASE LoadCheckpoint
    <3>1. todo' = BeginCalls
      BY <2>3 DEF LoadCheckpoint, BeginTraining, BeginCalls
    <3> QED BY <1>0, <3>1, BeginOrder
  <2>4. CASE ~UpdateActor /\ ~LoadCheckpoint
    <3>1. Preceded(todo, Generating, Sending)
      BY <1>4, <2>1, <2>4, ReplicasKept, BatchesKept DEF PushPlan
    <3>2. ASSUME NEW call \in Sending, At(call), todo' = Rest PROVE todo' = todo
      <4>1. CASE todo' # todo
        <5>1. PushColocated
          BY <1>4, <2>1, <3>2, <4>1, ActionOf DEF Sending
        <5>2. todo' = Then("send_params") /\ "send_params" \in Calls /\ todo # <<>>
          BY <5>1 DEF PushColocated, Calls, At
        <5> QED BY <1>0, <3>2, <5>2, ThenLonger
      <4> QED BY <4>1
    <3>3. ASSUME NEW p \in Continuations
          PROVE  /\ p[2] \notin Generating
                 /\ At(p[1]) /\ p[1] \in Sending /\ todo' = Then(p[2]) => p[2] \in Sending
      <4>1. p[2] \notin Generating
        BY ContinuationRange DEF Generating, Openers
      <4>2. CASE p[1] = "send_params" /\ At("send_params") /\ todo' = Then(p[2])
        <5>1. Head(todo') = p[2] /\ p[2] = "offload_params"
          <6>1. p[2] \in Calls /\ Rest \in Seq(Calls)
            BY <1>0, <4>2, ContinuationCalls, TailShape DEF At, Rest
          <6> QED BY <4>2, <6>1 DEF Then, Continuations
        <5>2. todo' # todo
          BY <4>2, <5>1 DEF At
        <5> QED BY <1>4, <2>1, <4>2, <5>2, ActionOf
      <4>3. p[1] \in Sending => p[1] = "send_params" \/ p[2] = "send_params"
        BY DEF Continuations, Sending
      <4> QED BY <4>1, <4>2, <4>3 DEF Sending
    <3>4. ~At("fetch") /\ ~At("first_step") /\ ~(At("finish") /\ ~config.pipelined)
      BY <1>0, <3>1, PrecededHead DEF Generating
    <3>5. At("finish") => Preceded(todo', Generating, Sending)
      <4>1. At("finish") => todo' \in {todo, <<>>, <<"step">>}
        BY <3>4, StepPlan DEF At
      <4>2. "step" \notin Generating
        BY DEF Generating
      <4> QED BY <3>1, <4>1, <4>2, OneCallPlans, EmptyOrder
    <3>6. "load" \notin Generating
      BY DEF Generating
    <3> QED BY <1>0, <3>1, <3>2, <3>3, <3>4, <3>5, <3>6, PrecededKept, UpdatePlans,
               PipelinedOrder, BeginOrder
  <2> QED BY <2>2, <2>3, <2>4
<1>5. Generating' = Generating
  BY <1>0 DEF Generating
<1> QED BY <1>1, <1>2, <1>3, <1>4, <1>5 DEF PushPlan

LEMMA NextBatch ==
  ASSUME TypeInv, OwnCalls, Warm, PushPlan, BatchPlan, [Next]_vars
  PROVE  BatchPlan'
<1> DEFINE Updates == {"update_actor"}
           Fits(w, a) == w \in Seq(Nat) /\ Prefix(w, a) /\ Len(a) <= Len(w) + Lag
<1>0. /\ ConfigTypes /\ config' = config /\ todo \in Seq(Calls) /\ Moves
      /\ actor \in Seq(Nat) /\ Len(actor) \in Nat /\ batch.prompts \in Nat
      /\ replicas.weights \in Seq(Nat)
      /\ Receiving' = Receiving /\ Lag' = Lag /\ Lag \in {0, 1}
  <2>1. config' = config
    BY Survives
  <2> QED BY <2>1, ConfigKnown, SequenceTypes, NextMoves DEF Receiving, Lag
<1>p. /\ Separated(todo, Updates, Updates, Receiving)
      /\ ~Fits(batch.weights, actor) => Preceded(todo, Updates, Receiving)
      /\ inflight # None =>
           /\ Fits(inflight.weights, actor)
           /\ Len(actor) > Len(inflight.weights) => Preceded(todo, Updates, Receiving)
  BY DEF BatchPlan, Follows
<1>1. Separated(todo', Updates, Updates, Receiving)
  <2>1. \A p \in Continuations : p[2] # "update_actor"
    BY ContinuationRange
  <2>2. Separated(BeginCalls, Updates, Updates, Receiving)
    BY <1>0, UpdatePlans, BeginOrder, WithoutOrder
  <2>3. At("fetch") => Separated(ColocatedCalls, Updates, Updates, Receiving)
    BY <1>0, UpdatePlans, ColocatedOrder DEF At
  <2>4. At("step") => Separated(PipelinedCalls, Updates, Updates, Receiving)
    BY <1>0, UpdatePlans, PipelinedOrder
  <2> QED BY <1>0, <1>p, <2>1, <2>2, <2>3, <2>4, SeparatedKept
<1>2. At("generate") \/ At("start") => replicas.weights = actor
  BY <1>0, PrecededHead DEF PushPlan, Generating
<1>3. Fits(actor, actor)
  BY <1>0, PrefixEnds
<1>4. ASSUME UpdateActor
      PROVE  /\ Preceded(todo', Updates, Receiving)
             /\ inflight' # None => inflight' = inflight /\ Fits(inflight.weights, actor')
  <2>1. Preceded(todo', Updates, Receiving)
    <3>1. todo # <<>> /\ Head(todo) \in Updates /\ todo' = Tail(todo)
      BY <1>4, UpdateGrows DEF Rest
    <3>2. Separated(todo, Updates, Updates, Receiving)
      BY <1>p
    <3> HIDE DEF Updates
    <3> QED BY <1>0, <3>1, <3>2, TailOrder
  <2>2. inflight' = inflight
    BY <1>4, UpdateGrows, BatchesKept
  <2>3. ASSUME inflight # None PROVE Fits(inflight.weights, actor')
    <3>1. ~Preceded(todo, Updates, Receiving)
      BY <1>0, <1>4, PrecededHead, ActionCall
    <3>2. Fits(inflight.weights, actor) /\ Len(inflight.weights) \in Nat
          /\ ~(Len(actor) > Len(inflight.weights))
      BY <1>p, <2>3, <3>1, LenProperties
    <3>3. config.pipelined
      BY <2>3 DEF OwnCalls
    <3>4. Len(actor') = Len(actor) + 1 /\ actor' = Append(actor, batch.prompts)
      BY <1>4, UpdateGrows
    <3>5. Prefix(inflight.weights, actor')
      BY <1>0, <3>2, <3>4, PrefixFacts
    <3> QED BY <1>0, <3>2, <3>3, <3>4, <3>5 DEF Lag
  <2> QED BY <2>1, <2>2, <2>3
<1>5. ASSUME LoadCheckpoint PROVE Preceded(todo', Updates, Receiving) /\ inflight' = None
  <2>1. todo' = BeginCalls
    BY <1>5 DEF LoadCheckpoint, BeginTraining, BeginCalls
  <2>2. inflight' = None
    BY <1>5, ActionCall DEF LoadCheckpoint, batches, Warm
  <2> QED BY <1>0, <2>1, <2>2, UpdatePlans, BeginOrder, WithoutOrder
<1>6. ASSUME Dies PROVE Preceded(todo', Updates, Receiving) /\ inflight' = None
  BY <1>6, Survives, EmptyOrder
<1>7. ASSUME ~Dies, ~UpdateActor, ~LoadCheckpoint PROVE actor' = actor
  BY <1>7, BatchesKept
<1>8. ASSUME ~Generate, ~AwaitGeneration, ~UpdateActor, Preceded(todo, Updates, Receiving)
      PROVE  Preceded(todo', Updates, Receiving)
  <2>1. CASE Dies
    BY <1>6, <2>1
  <2>2. CASE ~Dies
    <3>1. ASSUME NEW call \in Receiving, At(call), todo' = Rest PROVE todo' = todo
      <4>1. CASE todo' # todo
        BY <1>8, <2>2, <3>1, <4>1, ActionOf DEF Receiving
      <4> QED BY <4>1
    <3>2. \A p \in Continuations : p[2] # "update_actor" /\ p[1] \notin Receiving
      BY DEF Continuations, Receiving
    <3>3. At("fetch") => Preceded(ColocatedCalls, Updates, Receiving)
      BY <1>0, UpdatePlans, ColocatedOrder DEF At
    <3>4. At("step") => Preceded(PipelinedCalls, Updates, Receiving)
      <4>1. At("step") => Preceded(PipelinedCalls, StepTrains \cup {"start"}, {"await"})
                          /\ config.pipelined
        BY <1>0, UpdatePlans, PipelinedOrder
      <4>2. "update_actor" \in StepTrains
        BY DEF StepTrains
      <4> QED BY <4>1, <4>2 DEF Preceded, Receiving
    <3>5. Preceded(BeginCalls, Updates, Receiving)
      BY <1>0, UpdatePlans, BeginOrder, WithoutOrder
    <3>6. At("first_step") \/ At("finish") => Preceded(todo', Updates, Receiving)
      <4>1. \/ Preceded(<<>>, Updates, Receiving) /\ Preceded(<<"fetch">>, Updates, Receiving)
               /\ Preceded(<<"step">>, Updates, Receiving)
               /\ Preceded(<<"start", "step">>, Updates, Receiving)
        BY EmptyOrder, OneCallPlans, StartPlan
      <4> QED BY <1>8, <4>1, StepPlan
    <3> QED BY <1>0, <1>8, <3>1, <3>2, <3>3, <3>4, <3>5, <3>6, PrecededKept
  <2> QED BY <2>1, <2>2
<1>9. ASSUME ~Fits(batch'.weights, actor') PROVE Preceded(todo', Updates, Receiving)
  <2>1. CASE Generate
    <3>1. batch'.weights = replicas.weights /\ actor' = actor
      BY <2>1 DEF Generate, models, TypeInv, TypeOK, Batch
    <3> QED BY <1>2, <1>3, <1>9, <2>1, <3>1, ActionCall
  <2>2. CASE AwaitGeneration
    <3>1. batch' = inflight /\ inflight # None /\ actor' = actor
      BY <2>2 DEF AwaitGeneration, models
    <3> QED BY <1>9, <1>p, <3>1
  <2>3. CASE Fetch
    <3>1. todo' = ColocatedCalls /\ At("fetch")
      BY <2>3, ActionCall DEF Fetch
    <3> QED BY <1>0, <3>1, UpdatePlans, ColocatedOrder DEF At
  <2>4. CASE LoadCheckpoint \/ UpdateActor \/ Dies
    BY <1>4, <1>5, <1>6, <2>4
  <2>5. CASE ~Generate /\ ~AwaitGeneration /\ ~Fetch /\ ~LoadCheckpoint /\ ~UpdateActor /\ ~Dies
    <3>1. batch' = batch /\ actor' = actor
      BY <2>5, BatchesKept
    <3> QED BY <1>8, <1>9, <1>p, <2>5, <3>1
  <2> QED BY <2>1, <2>2, <2>3, <2>4, <2>5
<1>10. ASSUME inflight' # None
       PROVE  /\ Fits(inflight'.weights, actor')
              /\ Len(actor') > Len(inflight'.weights) => Preceded(todo', Updates, Receiving)
  <2>1. ~Dies /\ ~LoadCheckpoint /\ ~AwaitGeneration
    BY <1>5, <1>6, <1>10 DEF AwaitGeneration
  <2>2. CASE UpdateActor
    BY <1>4, <1>10, <2>2
  <2>3. CASE StartGeneration
    <3>1. inflight'.weights = replicas.weights /\ actor' = actor
      BY <1>10, <2>3 DEF StartGeneration, models
    <3>2. replicas.weights = actor
      BY <1>2, <2>3, ActionCall
    <3> QED BY <1>0, <1>3, <3>1, <3>2
  <2>4. CASE ~UpdateActor /\ ~StartGeneration
    <3>1. inflight' = inflight /\ actor' = actor
      BY <2>1, <2>4, BatchesKept
    <3>2. ~Generate
      BY <1>0, <1>10, <3>1, HeadWithout, ActionCall DEF OwnCalls
    <3> QED BY <1>8, <1>10, <1>p, <2>1, <2>4, <3>1, <3>2
  <2> QED BY <2>2, <2>3, <2>4
<1> QED BY <1>0, <1>1, <1>9, <1>10 DEF BatchPlan, Follows

\* A batch trains the actor at most Lag updates after the weights that
\* generated it, also after a restart, in both trainers.
THEOREM BoundedLag == Spec => []OffPolicyBound
<1> DEFINE Plan == Warm /\ PushPlan /\ BatchPlan
<1>1. Init => Plan
  <2> SUFFICES ASSUME Init PROVE Plan
    OBVIOUS
  <2>1. /\ actor = <<>> /\ inflight = None /\ replicas.weights = <<>> /\ ~At("load")
        /\ \A s \in Steps : disk[s].actor = Missing
        /\ \A use, off, on : /\ Separated(todo, use, off, on) /\ Preceded(todo, use, on)
                             /\ Without(todo, use)
    BY InitOrder DEF EmptyFolder
  <2>2. Prefix(<<>>, <<>>)
    BY DEF Prefix
  <2> QED BY <2>1, <2>2 DEF Warm, PushPlan, BatchPlan, Loadable
<1>2. LoopInv /\ Plan /\ [Next]_vars => Plan'
  BY NextWarm, NextPush, NextBatch DEF LoopInv
<1>3. LoopInv /\ Plan => OffPolicyBound
  <2> SUFFICES ASSUME LoopInv, Plan, At("update_actor")
               PROVE  /\ Len(actor) <= Len(batch.weights) + (IF config.pipelined THEN 1 ELSE 0)
                      /\ batch.weights = SubSeq(actor, 1, Len(batch.weights))
    BY DEF OffPolicyBound
  <2>1. todo \in Seq(Calls) /\ actor \in Seq(Nat)
    BY SequenceTypes DEF LoopInv
  <2>2. Follows(batch.weights)
    BY <2>1, PrecededHead DEF BatchPlan
  <2> QED BY <2>1, <2>2, PrefixFacts DEF Follows, Lag
<1> HIDE DEF Plan
<1> QED BY <1>1, <1>2, <1>3, LoopInvariant, PTL DEF Spec

-----------------------------------------------------------------------------
\* Each model is trained once in a step, before it is saved; the last call of
\* a plan has nothing behind it; a generation is received before the next one
\* is started.
Starts == {"start", "first_step"}

RunOrder ==
  /\ Separated(todo, TrainsCritic, TrainsCritic, {})
  /\ Separated(todo, TrainsActor, TrainsActor, {})
  /\ Separated(todo, TrainsCritic \cup TrainsActor, Saving, {})
  /\ Separated(todo, Calls, Closing, {})
  /\ global_steps = 0 => Without(todo, StepTrains)
  /\ config.pipelined => /\ Separated(todo, Starts, {"start"}, {})
                         /\ Separated(todo, {"step"}, {"await"}, {})
                         /\ Separated(todo, {"await"}, {"start"}, {})

LEMMA BeginWithout ==
  ASSUME ConfigTypes, NEW calls \in SUBSET (Calls \ BeginSet)
  PROVE  /\ Without(BeginCalls, calls)
         /\ \A use, off, on : Separated(BeginCalls, calls, off, on)
                              /\ Separated(BeginCalls, use, calls, on)
BY BeginOrder, WithoutOrder

LEMMA NextRunOrder ==
  ASSUME TypeInv, OwnCalls, RunOrder, [Next]_vars
  PROVE  RunOrder'
<1>0. /\ ConfigTypes /\ config' = config /\ todo \in Seq(Calls) /\ Moves /\ global_steps \in Nat
      /\ At("fetch") => ~config.pipelined
      /\ At("step") => config.pipelined
  <2>1. At("fetch") \/ At("step") => (config.pipelined <=> At("step"))
    BY UpdatePlans
  <2>2. ~(At("fetch") /\ At("step"))
    BY DEF At
  <2> QED BY <2>1, <2>2, ConfigKnown, Survives, SequenceTypes, NextMoves
<1>1. /\ TrainsCritic \subseteq Calls \ BeginSet /\ TrainsActor \subseteq Calls \ BeginSet
      /\ Saving \subseteq Calls \ BeginSet /\ StepTrains \subseteq Calls \ BeginSet
      /\ {"start"} \subseteq Calls \ BeginSet /\ {"await"} \subseteq Calls \ BeginSet
  BY DEF TrainsCritic, TrainsActor, Saving, StepTrains, Calls, BeginSet
<1>2. \A p \in Continuations :
         /\ p[2] \notin TrainsCritic \cup TrainsActor \cup Closing \cup {"start", "await"}
         /\ p[2] \in Saving => p[1] \in Saving
  BY DEF Continuations, TrainsCritic, TrainsActor, Closing, Saving
<1>3. Separated(todo', TrainsCritic, TrainsCritic, {})
  <2>1. Separated(BeginCalls, TrainsCritic, TrainsCritic, {})
    BY <1>0, <1>1, BeginWithout
  <2>2. "start" \notin TrainsCritic
    BY DEF TrainsCritic
  <2> QED BY <1>0, <1>2, <2>1, <2>2, ColocatedOrder, PipelinedOrder, SeparatedKept DEF RunOrder
<1>4. Separated(todo', TrainsActor, TrainsActor, {})
  <2>1. Separated(BeginCalls, TrainsActor, TrainsActor, {})
    BY <1>0, <1>1, BeginWithout
  <2>2. "start" \notin TrainsActor
    BY DEF TrainsActor
  <2> QED BY <1>0, <1>2, <2>1, <2>2, ColocatedOrder, PipelinedOrder, SeparatedKept DEF RunOrder
<1>5. Separated(todo', TrainsCritic \cup TrainsActor, Saving, {})
  <2>1. Separated(BeginCalls, TrainsCritic \cup TrainsActor, Saving, {})
    BY <1>0, <1>1, BeginWithout
  <2>2. "start" \notin Saving
    BY DEF Saving
  <2> QED BY <1>0, <1>2, <2>1, <2>2, ColocatedOrder, PipelinedOrder, SeparatedKept DEF RunOrder
<1>6. Separated(todo', Calls, Closing, {})
  <2>1. "start" \notin Closing
    BY DEF Closing
  <2> QED BY <1>0, <1>2, <2>1, BeginOrder, ColocatedOrder, PipelinedOrder, SeparatedKept DEF RunOrder
<1>7. ASSUME global_steps' = 0 PROVE Without(todo', StepTrains)
  <2>1. CASE Dies
    BY <2>1, Survives, EmptyOrder
  <2>2. CASE LoadCheckpoint
    <3>1. todo' = BeginCalls
      BY <2>2 DEF LoadCheckpoint, BeginTraining, BeginCalls
    <3> QED BY <1>0, <1>1, <3>1, BeginWithout
  <2>3. CASE ~Dies /\ ~LoadCheckpoint
    <3>1. global_steps = 0 /\ Without(todo, StepTrains)
      BY <1>0, <1>7, <2>3, StepsGrow DEF RunOrder
    <3>2. ~At("fetch") /\ ~At("step")
      BY <1>0, <3>1, HeadWithout DEF OwnCalls
    <3>3. At("first_step") \/ At("finish") => Without(todo', StepTrains)
      BY <1>0, <1>7, <3>1, StepPlan, EmptyOrder
    <3>4. \A p \in Continuations : p[2] \in StepTrains => p[1] \in StepTrains
      BY DEF Continuations, StepTrains, Saving
    <3>5. "load" \notin StepTrains
      BY DEF StepTrains, Saving
    <3>6. Without(BeginCalls, StepTrains)
      BY <1>0, <1>1, BeginWithout
    <3> QED BY <1>0, <3>1, <3>2, <3>3, <3>4, <3>5, <3>6, WithoutKept
  <2> QED BY <2>1, <2>2, <2>3
<1>8. ASSUME config.pipelined
      PROVE  /\ Separated(todo', Starts, {"start"}, {})
             /\ Separated(todo', {"step"}, {"await"}, {})
             /\ Separated(todo', {"await"}, {"start"}, {})
  <2>1. Separated(PipelinedCalls, Starts, {"start"}, {})
    <3>1. Separated(PipelinedCalls, {"start"}, {"start"}, {})
          /\ Without(PipelinedCalls, {"load", "first_step", "fetch", "step", "generate"})
      BY <1>0, <1>8, PipelinedOrder
    <3> QED BY <3>1 DEF Separated, Without, Starts
  <2>2. Separated(PipelinedCalls, {"step"}, {"await"}, {})
    BY <1>0, <1>8, PipelinedOrder DEF Separated, Without
  <2>3. /\ Separated(BeginCalls, Starts, {"start"}, {}) /\ Separated(BeginCalls, {"step"}, {"await"}, {})
        /\ Separated(BeginCalls, {"await"}, {"start"}, {})
    BY <1>0, <1>1, BeginWithout
  <2>4. Separated(todo', Starts, {"start"}, {})
    <3>1. "step" \notin Starts
      BY DEF Starts
    <3> QED BY <1>0, <1>2, <1>8, <2>1, <2>3, <3>1, SeparatedKept DEF RunOrder
  <2>5. Separated(todo', {"step"}, {"await"}, {})
    BY <1>0, <1>2, <1>8, <2>2, <2>3, SeparatedKept DEF RunOrder
  <2>6. Separated(todo', {"await"}, {"start"}, {})
    BY <1>0, <1>2, <1>8, <2>3, PipelinedOrder, SeparatedKept DEF RunOrder
  <2> QED BY <2>4, <2>5, <2>6
<1> QED BY <1>0, <1>3, <1>4, <1>5, <1>6, <1>7, <1>8 DEF RunOrder

\* What is still to be done changes with the calls made.
LEMMA AheadKept ==
  ASSUME todo \in Seq(Calls), Moves, NEW calls,
         job = "running", ~Crash, ~Relaunch,
         \A call \in calls : At(call) => todo' = todo,
         \A p \in Continuations : p[1] \notin calls /\ p[2] \notin calls,
         \/ todo' = todo
         \/ ~At("fetch") /\ ~At("step") /\ ~At("load") /\ ~At("first_step") /\ ~At("finish")
  PROVE  Without(todo', calls) <=> Without(todo, calls)
<1>1. CASE todo' = todo
  BY <1>1
<1>2. ASSUME todo # <<>>
      PROVE  /\ Rest \in Seq(Calls)
             /\ Head(todo) \notin calls => (Without(todo, calls) <=> Without(Rest, calls))
  <2>1. /\ Rest \in Seq(Calls) /\ Len(todo) \in Nat /\ Len(todo) >= 1
        /\ DOMAIN todo = 1 .. Len(todo) /\ DOMAIN Rest = 1 .. Len(todo) - 1
        /\ \A i \in 1 .. Len(todo) - 1 : Rest[i] = todo[i + 1]
        /\ Head(todo) = todo[1]
    BY <1>2, TailShape DEF Rest
  <2>2. ASSUME Head(todo) \notin calls, Without(Rest, calls) PROVE Without(todo, calls)
    <3> SUFFICES ASSUME NEW i \in DOMAIN todo PROVE todo[i] \notin calls
      BY DEF Without
    <3>1. CASE i = 1
      BY <2>1, <2>2, <3>1
    <3>2. CASE i # 1
      <4>1. i - 1 \in DOMAIN Rest /\ Rest[i - 1] = todo[i]
        BY <2>1, <3>2
      <4> QED BY <2>2, <4>1 DEF Without
    <3> QED BY <3>1, <3>2
  <2> QED BY <1>2, <2>1, <2>2, TailOrder DEF Rest
<1>3. CASE todo # <<>> /\ todo' = Rest /\ todo' # todo
  <2>1. Head(todo) \notin calls
    BY <1>3 DEF At
  <2> QED BY <1>2, <1>3, <2>1
<1>4. CASE \E p \in Continuations : At(p[1]) /\ todo' = Then(p[2])
  <2>1. PICK p \in Continuations : At(p[1]) /\ todo' = Then(p[2])
    BY <1>4
  <2>2. todo # <<>> /\ Head(todo) \notin calls /\ p[2] \in Calls /\ p[2] \notin calls
    BY <2>1, ContinuationCalls DEF At
  <2>3. Without(<<p[2]>>, calls) /\ <<p[2]>> \in Seq(Calls)
    BY <2>2, SingleOrder
  <2> QED BY <1>2, <2>1, <2>2, <2>3, WithoutConcat DEF Then
<1>5. todo' = todo \/ ~(job = "down" /\ todo' = <<"load">>)
  OBVIOUS
<1> QED BY <1>1, <1>3, <1>4, <1>5 DEF Moves

\* The last call of a plan is alone; a call that may not be repeated is not.
LEMMA AloneAtEnd ==
  ASSUME TypeInv, RunOrder, NEW call \in Closing, At(call), NEW calls, call \notin calls
  PROVE  Without(todo, calls)
<1>1. todo \in Seq(Calls) /\ todo # <<>> /\ Head(todo) = call
  BY SequenceTypes DEF At
<1>2. Preceded(Tail(todo), Calls, {})
  BY <1>1, TailOrder DEF RunOrder
<1>3. Tail(todo) \in Seq(Calls) /\ DOMAIN Tail(todo) = 1 .. Len(todo) - 1 /\ Len(todo) \in Nat
      /\ Len(todo) >= 1 /\ DOMAIN todo = 1 .. Len(todo) /\ Head(todo) = todo[1]
  BY <1>1, TailShape
<1>4. DOMAIN Tail(todo) = {}
  BY <1>2, <1>3 DEF Preceded
<1>5. Len(todo) = 1
  <2>1. CASE Len(todo) > 1
    <3>1. 1 \in DOMAIN Tail(todo)
      BY <1>3, <2>1
    <3> QED BY <1>4, <3>1
  <2> QED BY <1>3, <2>1
<1> QED BY <1>1, <1>3, <1>5 DEF Without

LEMMA NoneAfter ==
  ASSUME NEW s \in Seq(Calls), s # <<>>, NEW use, NEW off, Separated(s, use, off, {}), Head(s) \in off
  PROVE  Without(Tail(s), use)
BY TailOrder DEF Preceded, Without

-----------------------------------------------------------------------------
\* The place in the data.  The n-th batch of a run is the one at n modulo the
\* length of an epoch.
NextPosition == IF loader < StepsPerEpoch THEN loader + 1 ELSE 1
Reads(n)     == NextPosition = 1 + (n % StepsPerEpoch)
InOrder(s)   == \A i \in DOMAIN s : s[i] = (i - 1) % StepsPerEpoch
Position     == (global_steps - 1) % StepsPerEpoch

LEMMA ModNext ==
  ASSUME NEW n \in Nat, NEW d \in Nat \ {0}
  PROVE  /\ n % d \in 0 .. d - 1 /\ 0 % d = 0
         /\ (n + 1) % d = IF (n % d) + 1 < d THEN (n % d) + 1 ELSE 0
<1> DEFINE q == n \div d
           r == n % d
           p == (n + 1) \div d
           s == (n + 1) % d
<1>1. q \in Int /\ r \in Int /\ 0 <= r /\ r < d /\ n = (d * q) + r
  BY SMT
<1>2. p \in Int /\ s \in Int /\ 0 <= s /\ s < d /\ n + 1 = (d * p) + s
  BY SMT
<1>3. 0 % d = 0
  BY SMT
<1> HIDE DEF q, r, p, s
<1>4. ASSUME NEW a \in Int, NEW b \in Int, a < b PROVE d * b >= d * a + d
  <2>1. d * (b - a) >= d
    <3> DEFINE c == b - a
    <3>1. c \in Int /\ c >= 1
      BY <1>4
    <3> HIDE DEF c
    <3>2. d * c >= d * 1
      BY <3>1
    <3> QED BY <3>2 DEF c
  <2>2. d * b = d * a + d * (b - a)
    OBVIOUS
  <2>3. d * (b - a) \in Int /\ d * a \in Int
    OBVIOUS
  <2> QED BY <2>1, <2>2, <2>3
<1> DEFINE dp == d * p
           dq == d * q
<1>5. dp \in Int /\ dq \in Int /\ n = dq + r /\ n + 1 = dp + s
  BY <1>1, <1>2
<1>6. ASSUME p < q PROVE dq >= dp + d
  BY <1>1, <1>2, <1>4, <1>6
<1>7. ASSUME q < p PROVE dp >= dq + d
  BY <1>1, <1>2, <1>4, <1>7
<1>8. ASSUME q + 1 < p PROVE dp >= dq + d + d
  <2>1. d * p >= d * (q + 1) + d
    BY <1>1, <1>2, <1>4, <1>8
  <2>2. d * (q + 1) = d * q + d
    BY <1>1
  <2> QED BY <1>5, <2>1, <2>2
<1>9. p = q => dp = dq
  OBVIOUS
<1>10. p = q + 1 => dp = dq + d
  BY <1>1
<1> HIDE DEF dp, dq
<1>11. p = q \/ p = q + 1
  BY <1>1, <1>2, <1>5, <1>6, <1>8
<1>12. s = IF r + 1 < d THEN r + 1 ELSE 0
  BY <1>1, <1>2, <1>5, <1>9, <1>10, <1>11
<1> QED BY <1>1, <1>3, <1>12 DEF r, s

LEMMA LoaderMoves ==
  ASSUME TypeInv, NEW n \in Nat, Reads(n), LoaderYields
  PROVE  /\ loader' = 1 + (n % StepsPerEpoch) /\ loader' - 1 = n % StepsPerEpoch
         /\ Reads(n + 1)'
<1>1. StepsPerEpoch \in Nat \ {0} /\ loader \in Nat
  BY SequenceTypes, TrainingAssumption
<1>2. loader' = NextPosition
  BY <1>1 DEF LoaderYields, NextPosition
<1>3. loader' = 1 + (n % StepsPerEpoch)
  BY <1>2 DEF Reads
<1>4. n % StepsPerEpoch \in 0 .. StepsPerEpoch - 1
      /\ (n + 1) % StepsPerEpoch = IF (n % StepsPerEpoch) + 1 < StepsPerEpoch
                                     THEN (n % StepsPerEpoch) + 1 ELSE 0
  BY <1>1, ModNext
<1> DEFINE m == n % StepsPerEpoch
           k == (n + 1) % StepsPerEpoch
<1>5. m \in 0 .. StepsPerEpoch - 1 /\ k = (IF m + 1 < StepsPerEpoch THEN m + 1 ELSE 0)
      /\ loader' = 1 + m
  BY <1>3, <1>4
<1>6. Reads(n + 1)' <=> NextPosition' = 1 + k
  BY DEF Reads
<1>7. NextPosition' = IF loader' < StepsPerEpoch THEN loader' + 1 ELSE 1
  BY DEF NextPosition
<1> HIDE DEF m, k
<1>8. NextPosition' = 1 + k /\ loader' - 1 = m
  BY <1>1, <1>5, <1>7
<1> QED BY <1>3, <1>6, <1>8 DEF m

LEMMA PositionRestored ==
  ASSUME TypeInv, NEW step \in Nat, loader' = RestoredPosition(step),
         step # 0 => disk[step].data = 1 + ((step - 1) % StepsPerEpoch),
         disk[step].data # Missing
  PROVE  Reads(step)'
<1>1. StepsPerEpoch \in Nat \ {0}
  BY TrainingAssumption
<1>2. Reads(step)' <=> (IF loader' < StepsPerEpoch THEN loader' + 1 ELSE 1)
                         = 1 + (step % StepsPerEpoch)
  BY DEF Reads, NextPosition
<1>3. CASE step % StepsPerEpoch = 0
  <2>1. loader' = 0
    BY <1>3 DEF RestoredPosition, AtEpochBoundary
  <2> QED BY <1>1, <1>2, <1>3, <2>1
<1>4. CASE step % StepsPerEpoch # 0
  <2>1. step # 0 /\ step - 1 \in Nat /\ (step - 1) + 1 = step
    BY <1>1, <1>4, ModNext
  <2> DEFINE n == step - 1
             m == n % StepsPerEpoch
             k == step % StepsPerEpoch
  <2>2. m \in 0 .. StepsPerEpoch - 1 /\ k = (IF m + 1 < StepsPerEpoch THEN m + 1 ELSE 0)
    <3>1. n \in Nat /\ n + 1 = step
      BY <2>1
    <3> HIDE DEF n
    <3> QED BY <1>1, <3>1, ModNext
  <2>3. loader' = 1 + m
    BY <1>4, <2>1 DEF RestoredPosition, AtEpochBoundary
  <2>4. k # 0
    BY <1>4
  <2> HIDE DEF m, k
  <2>5. (IF loader' < StepsPerEpoch THEN loader' + 1 ELSE 1) = 1 + k
    BY <1>1, <2>2, <2>3, <2>4
  <2> QED BY <1>2, <2>5 DEF k
<1> QED BY <1>3, <1>4

LEMMA OneMore ==
  ASSUME NEW s \in Seq(Nat), InOrder(s), NEW n \in Nat, n = Len(s) % StepsPerEpoch
  PROVE  InOrder(Append(s, n)) /\ Len(Append(s, n)) = Len(s) + 1
<1> DEFINE t == Append(s, n)
<1>1. /\ Len(s) \in Nat /\ DOMAIN s = 1 .. Len(s) /\ DOMAIN t = 1 .. Len(s) + 1
      /\ Len(t) = Len(s) + 1 /\ t[Len(s) + 1] = n /\ \A i \in 1 .. Len(s) : t[i] = s[i]
  BY LenProperties, AppendProperties
<1> HIDE DEF t
<1>2. ASSUME NEW i \in DOMAIN t PROVE t[i] = (i - 1) % StepsPerEpoch
  <2>1. CASE i \in DOMAIN s
    BY <1>1, <2>1 DEF InOrder
  <2>2. CASE i = Len(s) + 1
    <3>1. i - 1 = Len(s)
      BY <1>1, <2>2
    <3> QED BY <1>1, <2>2, <3>1
  <2> QED BY <1>1, <2>1, <2>2
<1> QED BY <1>1, <1>2 DEF InOrder, t

-----------------------------------------------------------------------------
\* A job that is resumed goes on where the data and the models were saved.  A
\* pipelined job keeps its place until it dies: it has saved a position one
\* batch too far.
Ahead(calls)   == ~Without(todo, calls)
Trained(calls) == IF Ahead(calls) THEN global_steps - 1 ELSE global_steps
Uninterrupted  == ~config.pipelined \/ launches = 1
Loaded         == job = "running" /\ ~At("load") /\ Uninterrupted
Saved(s, step) == InOrder(s) /\ Len(s) = step

DiskRuns ==
  ~config.pipelined => \A s \in Steps :
     /\ disk[s].data # Missing => s > 0 /\ disk[s].data = 1 + ((s - 1) % StepsPerEpoch)
     /\ config.use_critic /\ Loadable(disk[s].critic) => Saved(disk[s].critic, s)
     /\ config.critic_warmup <= 1 /\ Loadable(disk[s].actor) => Saved(disk[s].actor, s)

TrackerRuns ==
  /\ Named => disk[tracker].data # Missing
  /\ DataSaved => disk[global_steps].data # Missing
  /\ launches = 0 => job = "down"
  /\ launches = 0 \/ (launches = 1 /\ At("load")) => tracker = 0

ModelRuns ==
  /\ job = "down" \/ At("load") => loader = 0 /\ global_steps = 0 /\ critic = <<>> /\ actor = <<>>
  /\ ~config.use_critic => critic = <<>> /\ Without(todo, {"update_critic"})
  /\ job = "running" /\ Uninterrupted => /\ InOrder(critic)
                                         /\ config.critic_warmup <= 1 => InOrder(actor)
  /\ Loaded => /\ config.use_critic => Len(critic) = Trained(TrainsCritic)
               /\ config.critic_warmup <= 1 => Len(actor) = Trained(TrainsActor)

ColocatedPlace ==
  /\ Reads(Trained({"fetch"}))
  /\ Without(todo, StepTrains) \/ (loader = 1 + Position /\ batch.prompts = Position)

GeneratedPlace ==
  inflight # None => /\ Trained({"await", "step"}) \in Nat
                     /\ inflight.prompts = Trained({"await", "step"}) % StepsPerEpoch
                     /\ Reads(Trained({"await", "step"}) + 1)

PipelinedPlace ==
  /\ Preceded(todo, StepTrains, {"await"}) \/ batch.prompts = Position
  /\ GeneratedPlace
  /\ Preceded(todo, Starts, {"await"}) \/ Reads(Trained({"step"}))

PlaceRuns == Loaded => IF config.pipelined THEN PipelinedPlace ELSE ColocatedPlace

RunInv == LoopInv /\ Warm /\ RunOrder /\ DiskRuns /\ TrackerRuns /\ ModelRuns /\ PlaceRuns

LEMMA Continues ==
  ASSUME [Next]_vars
  PROVE  /\ Loaded' => LoadCheckpoint \/ (Loaded /\ ~Dies /\ ~LoadCheckpoint /\ ~Launch)
         /\ job' = "running" /\ Uninterrupted' =>
              \/ Launch
              \/ job = "running" /\ Uninterrupted /\ ~Dies
         /\ Launch => At("load")'
         /\ ~Launch => launches' = launches
<1>1. Launch => At("load")' /\ todo' = <<"load">> /\ job' = "running"
  BY DEF Launch, At
<1>2. ~Launch => launches' = launches
  <2>1. CASE UNCHANGED vars
    BY <2>1 DEF vars, identity
  <2>2. CASE Dies
    BY <2>2, Survives
  <2>3. CASE LoadCheckpoint \/ LoadFails \/ FirstStep \/ FitStep \/ Fetch \/ NoMoreEpochs
             \/ Generate \/ StartGeneration \/ AwaitGeneration \/ AwaitFails \/ Validate
    BY <2>3 DEF LoadCheckpoint, LoadFails, FirstStep, FitStep, Fetch, NoMoreEpochs, Generate,
         StartGeneration, AwaitGeneration, AwaitFails, Validate, identity
  <2>4. CASE SleepReplicas \/ ResumeKvCache \/ SendParams \/ PushStandalone
             \/ PushColocated \/ OffloadParams \/ Save \/ SaveData \/ OpenTracker \/ WriteTracker
             \/ FinishStep \/ LoadModel
    BY <2>4 DEF SleepReplicas, ResumeKvCache, SendParams, PushStandalone, PushColocated, identity,
         OffloadParams, Save, SaveData, OpenTracker, WriteTracker, FinishStep, LoadModel
  <2>5. CASE UpdateCritic \/ UpdateActor \/ Infer \/ SaveActor \/ SaveCritic
    BY <2>5 DEF UpdateCritic, UpdateActor, Infer, SaveActor, SaveCritic, OffloadModel, identity
  <2> QED BY <2>1, <2>2, <2>3, <2>4, <2>5 DEF Next, Driver, Dies
<1>3. Driver => job = "running"
  BY ActionCall DEF Driver, At
<1>4. Dies => job' # "running"
  BY Survives
<1>5. config' = config
  BY Survives
<1>6. At("load") /\ Driver /\ ~LoadCheckpoint => LoadFails
  <2>1. \A c, d : At(c) /\ At(d) => c = d
    BY DEF At
  <2> QED BY <2>1, ActionCall DEF Driver, Loads
<1>7. LoadFails => job' # "running"
  BY DEF LoadFails
<1>8. job' = "running" => Launch \/ Driver \/ UNCHANGED vars
  BY <1>4 DEF Next, Dies
<1>9. UNCHANGED vars => job' = job /\ launches' = launches /\ (At("load")' <=> At("load"))
  BY DEF vars, identity, At
<1> QED BY <1>1, <1>2, <1>3, <1>4, <1>5, <1>6, <1>7, <1>8, <1>9 DEF Loaded, Uninterrupted

LEMMA InitRun ==
  ASSUME Init
  PROVE  RunOrder /\ DiskRuns /\ TrackerRuns /\ ModelRuns /\ PlaceRuns /\ Warm
<1>1. /\ todo = <<>> /\ job = "down" /\ launches = 0 /\ actor = <<>> /\ critic = <<>>
      /\ loader = 0 /\ global_steps = 0 /\ tracker = 0 /\ inflight = None
      /\ \A s \in Steps : disk[s].actor = Missing /\ disk[s].critic = Missing
                          /\ disk[s].data = Missing
      /\ \A c : ~At(c)
      /\ \A use, off, on : /\ Separated(todo, use, off, on) /\ Preceded(todo, use, on)
                           /\ Without(todo, use)
  BY InitOrder DEF EmptyFolder
<1>2. RunOrder
  BY <1>1 DEF RunOrder
<1>3. DiskRuns
  BY <1>1 DEF DiskRuns, Loadable
<1>4. TrackerRuns
  BY <1>1 DEF TrackerRuns, Named, DataSaved
<1>5. ModelRuns /\ PlaceRuns
  BY <1>1 DEF ModelRuns, PlaceRuns, Loaded
<1>6. Warm
  BY <1>1 DEF Warm, Loadable
<1> QED BY <1>2, <1>3, <1>4, <1>5, <1>6

LEMMA SavesTrained ==
  ASSUME TypeInv, RunOrder, At("save") \/ At("save_actor") \/ At("save_critic") \/ At("save_data")
  PROVE  /\ Trained(TrainsCritic) = global_steps /\ Trained(TrainsActor) = global_steps
         /\ ~Without(todo, StepTrains) /\ global_steps > 0
<1>1. todo \in Seq(Calls) /\ todo # <<>> /\ Head(todo) \in Saving
  BY SequenceTypes DEF At, Saving
<1>2. Without(Tail(todo), TrainsCritic \cup TrainsActor)
  BY <1>1, NoneAfter DEF RunOrder
<1>3. /\ DOMAIN Tail(todo) = 1 .. Len(todo) - 1 /\ Len(todo) \in Nat /\ Len(todo) >= 1
      /\ DOMAIN todo = 1 .. Len(todo) /\ Head(todo) = todo[1]
      /\ \A i \in 1 .. Len(todo) - 1 : Tail(todo)[i] = todo[i + 1]
  BY <1>1, TailShape
<1>4. Head(todo) \notin TrainsCritic \cup TrainsActor /\ Head(todo) \in StepTrains
  BY <1>1 DEF Saving, TrainsCritic, TrainsActor, StepTrains
<1>5. ASSUME NEW i \in DOMAIN todo PROVE todo[i] \notin TrainsCritic \cup TrainsActor
  <2>1. CASE i = 1
    BY <1>3, <1>4, <2>1
  <2>2. CASE i # 1
    <3>1. i - 1 \in DOMAIN Tail(todo) /\ Tail(todo)[i - 1] = todo[i]
      BY <1>3, <2>2
    <3> QED BY <1>2, <3>1 DEF Without
  <2> QED BY <2>1, <2>2
<1>6. Without(todo, TrainsCritic) /\ Without(todo, TrainsActor)
  BY <1>5 DEF Without
<1>7. ~Without(todo, StepTrains)
  BY <1>3, <1>4 DEF Without
<1>8. global_steps > 0
  BY <1>7, SequenceTypes DEF RunOrder
<1> QED BY <1>6, <1>7, <1>8 DEF Trained, Ahead


\* A call of the saving chain comes out of the one before it.
LEMMA ChainCall ==
  ASSUME TypeInv, [Next]_vars, NEW call \in SaveChain, At(call)'
  PROVE  /\ ~Dies /\ ~Launch /\ ~LoadCheckpoint /\ ~FirstStep /\ ~FinishStep
         /\ \/ At(call)
            \/ \E p \in Continuations : p[2] = call /\ At(p[1]) /\ todo' = Then(call) /\ todo' # todo
<1>0. /\ todo \in Seq(Calls) /\ OneSaveAhead /\ call \in OnlyNext /\ Moves /\ ConfigTypes
      /\ todo' # <<>> /\ Head(todo') = call /\ job' = "running"
      /\ call \notin {"load", "fetch", "step", "start"}
  BY NextMoves, ConfigKnown DEF TypeInv, TypeOK, OnlyNext, At, SaveChain
<1>1. ASSUME NEW s \in Seq(Calls), Without(s, OnlyNext), s # <<>> PROVE Head(s) # call
  BY <1>0, <1>1, TailShape DEF Without
<1>2. ~Dies
  BY <1>0, Survives
<1>3. ~Launch
  BY <1>0 DEF Launch
<1>4. At("fetch") /\ todo' = ColocatedCalls => FALSE
  BY <1>0, <1>1, ColocatedPlan DEF OneSave, Without
<1>5. At("step") /\ todo' = PipelinedCalls => FALSE
  BY <1>0, <1>1, PipelinedPlan DEF OneSave, Without
<1>6. todo' = BeginCalls => FALSE
  <2>1. OnlyNext \cap BeginSet = {} /\ BeginCalls \in Seq(Calls)
    BY <1>0, BeginOrder DEF OnlyNext, SaveChain, BeginSet
  <2>2. Without(BeginCalls, OnlyNext)
    BY <1>0, <2>1, BeginOrder DEF Without
  <2> QED BY <1>0, <1>1, <2>1, <2>2
<1>7. ~LoadCheckpoint
  BY <1>6 DEF LoadCheckpoint, BeginTraining, BeginCalls
<1>8. \A plan \in {<<"fetch">>, <<"step">>, <<"start", "step">>, <<"load">>} : todo' # plan
  BY <1>0
<1>9. ~FirstStep /\ ~FinishStep
  BY <1>0, <1>8 DEF FirstStep, FinishStep
<1>10. CASE todo' = todo
  <2>1. job = "running"
    <3>1. CASE Driver
      BY <3>1, ActionCall DEF Driver, At
    <3>2. CASE UNCHANGED vars
      BY <1>0, <3>2 DEF vars
    <3> QED BY <1>2, <1>3, <3>1, <3>2 DEF Next, Dies
  <2>2. At(call)
    BY <1>0, <1>10, <2>1 DEF At
  <2> QED BY <1>2, <1>3, <1>7, <1>9, <2>2
<1>11. CASE todo # <<>> /\ todo' = Rest
  <2>1. Rest \in Seq(Calls) /\ Without(Rest, OnlyNext)
    BY <1>0, <1>11, TailShape DEF OneSaveAhead, OneSave, Without, Rest
  <2> QED BY <1>0, <1>1, <1>11, <2>1
<1>12. CASE todo' # todo /\ \E p \in Continuations : At(p[1]) /\ todo' = Then(p[2])
  <2>1. PICK p \in Continuations : At(p[1]) /\ todo' = Then(p[2])
    BY <1>12
  <2>2. p[2] \in Calls /\ Rest \in Seq(Calls)
    BY <1>0, <2>1, ContinuationCalls, TailShape DEF At, Rest
  <2>3. p[2] = call
    BY <1>0, <2>1, <2>2 DEF Then
  <2> QED BY <1>2, <1>3, <1>7, <1>9, <1>12, <2>1, <2>3
<1>13. todo' # <<>> /\ ~(Crash \/ Relaunch)
  BY <1>0, <1>2 DEF Dies
<1>14. \/ todo' = todo
       \/ todo # <<>> /\ todo' = Rest
       \/ todo' # todo /\ \E p \in Continuations : At(p[1]) /\ todo' = Then(p[2])
  BY <1>0, <1>4, <1>5, <1>6, <1>8, <1>13 DEF Moves
<1> QED BY <1>10, <1>11, <1>12, <1>14

LEMMA TrackerKept ==
  ASSUME [Next]_vars, ~OpenTracker, ~WriteTracker
  PROVE  tracker' = tracker
<1> USE DEF store
<1>1. CASE UNCHANGED vars \/ Launch \/ Dies
  BY <1>1, Survives DEF vars, Launch
<1>2. CASE LoadCheckpoint \/ LoadFails \/ FirstStep \/ FitStep \/ Fetch \/ NoMoreEpochs
           \/ Generate \/ StartGeneration \/ AwaitGeneration \/ AwaitFails \/ SleepReplicas
           \/ Validate \/ FinishStep
  BY <1>2 DEF LoadCheckpoint, LoadFails, FirstStep, FitStep, Fetch, NoMoreEpochs,
       Generate, StartGeneration, AwaitGeneration, AwaitFails, SleepReplicas, Validate, FinishStep
<1>3. CASE PushColocated \/ PushStandalone \/ SendParams \/ OffloadParams \/ ResumeKvCache
           \/ Save \/ SaveData \/ LoadModel
  BY <1>3 DEF PushColocated, PushStandalone, SendParams, OffloadParams, ResumeKvCache, Save,
       SaveData, LoadModel
<1>4. CASE UpdateCritic \/ UpdateActor \/ Infer \/ SaveActor \/ SaveCritic
  BY <1>4 DEF UpdateCritic, UpdateActor, Infer, SaveActor, SaveCritic, OffloadModel
<1> QED BY <1>1, <1>2, <1>3, <1>4 DEF Next, Driver, Dies

LEMMA NextDiskRuns ==
  ASSUME RunInv, [Next]_vars
  PROVE  DiskRuns'
<1>0. TypeInv /\ RunOrder /\ ConfigTypes /\ global_steps \in Nat /\ config' = config
  BY ConfigKnown, SequenceTypes, Survives DEF RunInv, LoopInv
<1> SUFFICES ASSUME ~config.pipelined, NEW s \in Steps
             PROVE  /\ disk'[s].data # Missing => s > 0 /\ disk'[s].data = 1 + ((s - 1) % StepsPerEpoch)
                    /\ config.use_critic /\ Loadable(disk'[s].critic) => Saved(disk'[s].critic, s)
                    /\ config.critic_warmup <= 1 /\ Loadable(disk'[s].actor)
                         => Saved(disk'[s].actor, s)
  BY <1>0 DEF DiskRuns, Saved, InOrder
<1>1. /\ disk[s].data # Missing => s > 0 /\ disk[s].data = 1 + ((s - 1) % StepsPerEpoch)
      /\ config.use_critic /\ Loadable(disk[s].critic) => Saved(disk[s].critic, s)
      /\ config.critic_warmup <= 1 /\ Loadable(disk[s].actor) => Saved(disk[s].actor, s)
  BY DEF RunInv, DiskRuns
<1>2. ASSUME SaveActor \/ SaveCritic \/ SaveData
      PROVE  /\ Loaded /\ Trained(TrainsCritic) = global_steps
             /\ Trained(TrainsActor) = global_steps /\ ~Without(todo, StepTrains)
             /\ global_steps > 0
  <2>1. At("save_actor") \/ At("save_critic") \/ At("save_data")
    BY <1>2, ActionCall
  <2>2. Loaded
    BY <2>1 DEF Loaded, Uninterrupted, At
  <2> QED BY <1>0, <2>1, <2>2, SavesTrained
<1>3. CASE SaveActor /\ s = global_steps /\ disk'[s].actor = actor
  <2>1. config.critic_warmup <= 1 => Saved(actor, s)
    BY <1>2, <1>3 DEF RunInv, ModelRuns, Loaded, Saved
  <2>2. disk'[s].data = disk[s].data /\ disk'[s].critic \in {disk[s].critic, Missing, Partial}
    <3>1. ~SaveCritic /\ ~SaveData
      BY <1>3, ActionCall DEF At
    <3> QED BY <1>0, <3>1, DiskKept
  <2> QED BY <1>1, <1>3, <2>1, <2>2 DEF Loadable
<1>4. CASE SaveCritic /\ s = global_steps /\ disk'[s].critic = critic
  <2>1. config.use_critic => Saved(critic, s)
    BY <1>2, <1>4 DEF RunInv, ModelRuns, Loaded, Saved
  <2>2. disk'[s].data = disk[s].data /\ disk'[s].actor \in {disk[s].actor, Missing, Partial}
    <3>1. ~SaveActor /\ ~SaveData
      BY <1>4, ActionCall DEF At
    <3> QED BY <1>0, <3>1, DiskKept
  <2> QED BY <1>1, <1>4, <2>1, <2>2 DEF Loadable
<1>5. CASE SaveData /\ s = global_steps /\ disk'[s].data = loader
  <2>1. loader = 1 + ((s - 1) % StepsPerEpoch) /\ s > 0
    BY <1>2, <1>5 DEF RunInv, PlaceRuns, ColocatedPlace, Position
  <2>2. disk'[s].actor \in {disk[s].actor, Missing, Partial}
        /\ disk'[s].critic \in {disk[s].critic, Missing, Partial}
    <3>1. ~SaveActor /\ ~SaveCritic
      BY <1>5, ActionCall DEF At
    <3> QED BY <1>0, <3>1, DiskKept
  <2> QED BY <1>1, <1>5, <2>1, <2>2 DEF Loadable
<1>6. CASE /\ disk'[s].actor \in {disk[s].actor, Missing, Partial}
           /\ disk'[s].critic \in {disk[s].critic, Missing, Partial}
           /\ disk'[s].data = disk[s].data
  BY <1>1, <1>6 DEF Loadable
<1> QED BY <1>0, <1>3, <1>4, <1>5, <1>6, DiskKept

LEMMA NextTrackerRuns ==
  ASSUME RunInv, [Next]_vars
  PROVE  TrackerRuns'
<1>0. /\ TypeInv /\ config' = config /\ loader \in Nat /\ loader # Missing
      /\ tracker \in Steps \cup {Torn} /\ (job = "running" => global_steps \in Steps)
      /\ launches \in Nat
  BY Survives, SequenceTypes, MarkAssumption DEF RunInv, LoopInv, TypeInv, TypeOK, StepInRange
<1>t. TrackerRuns
  BY DEF RunInv
<1>1. \A s \in Steps : disk[s].data # Missing => disk'[s].data # Missing
  BY <1>0, DiskKept
<1>2. Named' => disk'[tracker'].data # Missing
  <2>1. CASE OpenTracker
    BY <2>1 DEF OpenTracker, Named
  <2>2. CASE WriteTracker
    <3>1. DataSaved /\ tracker' = global_steps /\ job = "running"
      BY <2>2 DEF WriteTracker, DataSaved, At
    <3> QED BY <1>0, <1>1, <1>t, <3>1 DEF TrackerRuns
  <2>3. CASE ~OpenTracker /\ ~WriteTracker
    <3>1. tracker' = tracker
      BY <2>3, TrackerKept
    <3> QED BY <1>0, <1>1, <1>t, <3>1 DEF TrackerRuns, Named
  <2> QED BY <2>1, <2>2, <2>3
<1>3. ASSUME DataSaved' PROVE disk'[global_steps'].data # Missing
  <2>1. PICK call \in {"open_tracker", "write_tracker"} : At(call)'
    BY <1>3 DEF DataSaved
  <2>2. call \in SaveChain
    BY DEF SaveChain
  <2>3. ~Dies /\ ~LoadCheckpoint /\ ~FirstStep /\ ~FinishStep
    BY <1>0, <2>1, <2>2, ChainCall
  <2>4. global_steps' = global_steps
    BY <2>3, BatchesKept
  <2>5. DataSaved \/ SaveData
    <3>1. CASE At(call)
      BY <3>1 DEF DataSaved
    <3>2. CASE \E p \in Continuations : p[2] = call /\ At(p[1]) /\ todo' # todo
      <4>1. PICK p \in Continuations : p[2] = call /\ At(p[1]) /\ todo' # todo
        BY <3>2
      <4>2. p[1] \in {"save_data", "open_tracker"}
        BY <4>1 DEF Continuations
      <4>3. CASE p[1] = "open_tracker"
        BY <4>1, <4>3 DEF DataSaved
      <4>4. CASE p[1] = "save_data"
        <5>1. At("save_data") /\ \A d : At(d) => d = "save_data"
          BY <4>1, <4>4 DEF At
        <5>2. ~Launch /\ ~LoadModel /\ ~UNCHANGED vars
          BY <4>1, <5>1 DEF Launch, LoadModel, vars, At
        <5>3. Driver
          BY <2>3, <5>2 DEF Next, Dies
        <5> QED BY <5>1, <5>2, <5>3, ActionCall DEF Driver
      <4> QED BY <4>2, <4>3, <4>4
    <3> QED BY <1>0, <2>1, <2>2, <3>1, <3>2, ChainCall
  <2>6. job = "running" /\ global_steps \in Steps
    BY <1>0, <2>5, ActionCall DEF DataSaved, At
  <2>7. CASE DataSaved
    BY <1>1, <1>t, <2>4, <2>6, <2>7 DEF TrackerRuns
  <2>8. CASE SaveData
    <3>1. disk \in [Steps -> Folder] /\ disk' = Write(disk, global_steps, "data", loader)
      BY <1>0, <2>8, SequenceTypes DEF SaveData
    <3>2. disk'[global_steps] = [disk[global_steps] EXCEPT !["data"] = loader]
          /\ disk[global_steps] \in Folder
      BY <2>6, <3>1 DEF Write
    <3> QED BY <1>0, <2>4, <3>2 DEF Folder
  <2> QED BY <2>5, <2>7, <2>8
<1>4. Driver => job = "running"
  BY ActionCall DEF Driver, At
<1>5. CASE Launch
  <2>1. launches' = launches + 1 /\ tracker' = tracker
    BY <1>5 DEF Launch, store
  <2> QED BY <1>0, <1>2, <1>3, <1>t, <2>1 DEF TrackerRuns
<1>6. CASE ~Launch
  <2>1. launches' = launches
    BY <1>6, Continues
  <2>2. ~OpenTracker /\ ~WriteTracker => tracker' = tracker
    BY TrackerKept
  <2>3. ASSUME launches = 0 PROVE job' = "down" /\ tracker' = 0
    <3>1. job = "down" /\ tracker = 0
      BY <1>t, <2>3 DEF TrackerRuns
    <3>2. ~Driver
      BY <1>4, <3>1
    <3>3. job' = "down"
      <4>1. CASE Dies
        BY <4>1, Survives
      <4>2. CASE UNCHANGED vars
        BY <3>1, <4>2 DEF vars
      <4> QED BY <1>6, <3>2, <4>1, <4>2 DEF Next, Dies
    <3> QED BY <2>2, <3>1, <3>2, <3>3 DEF Driver
  <2>4. ASSUME launches = 1, At("load")' PROVE tracker' = 0
    <3>1. ~Dies
      BY <2>4, Survives DEF At
    <3>2. job = "down" \/ At("load")
      BY <1>0, <2>4, <3>1, LoadOnlyFirst
    <3>3. job # "down"
      <4> SUFFICES ASSUME job = "down" PROVE FALSE
        OBVIOUS
      <4>1. UNCHANGED vars
        BY <1>4, <1>6, <3>1 DEF Next, Dies
      <4> QED BY <2>4, <4>1 DEF vars, At
    <3>4. tracker = 0 /\ ~OpenTracker /\ ~WriteTracker
      BY <1>t, <2>4, <3>2, <3>3, ActionCall DEF TrackerRuns, At
    <3> QED BY <2>2, <3>4
  <2> QED BY <1>2, <1>3, <2>1, <2>3, <2>4 DEF TrackerRuns
<1> QED BY <1>5, <1>6

\* The batch a model is trained on is the one of the step.
LEMMA TrainedBatch ==
  ASSUME RunInv, Loaded, At("update_critic") \/ At("update_actor")
  PROVE  /\ global_steps \in Nat /\ global_steps > 0 /\ batch.prompts \in Nat
         /\ batch.prompts = Position
<1>0. TypeInv /\ RunOrder /\ todo \in Seq(Calls) /\ global_steps \in Nat /\ batch.prompts \in Nat
  BY SequenceTypes DEF RunInv, LoopInv
<1>1. "update_critic" \in StepTrains /\ "update_actor" \in StepTrains
  BY DEF StepTrains
<1>2. ~Without(todo, StepTrains)
  BY <1>0, <1>1, HeadWithout
<1>3. ~Preceded(todo, StepTrains, {"await"})
  BY <1>0, <1>1, PrecededHead
<1>4. global_steps > 0
  BY <1>0, <1>2 DEF RunOrder
<1> QED BY <1>0, <1>2, <1>3, <1>4 DEF RunInv, PlaceRuns, PipelinedPlace, ColocatedPlace

\* What a restart finds: nothing, or both models of the step it goes on from.
LEMMA CheckpointFound ==
  ASSUME RunInv, LoadCheckpoint, ~config.pipelined \/ launches = 1
  PROVE  /\ job' = "running" /\ todo' = BeginCalls /\ global_steps' \in Nat
         /\ inflight' = None
         /\ InOrder(critic') /\ (config.use_critic => Len(critic') = global_steps')
         /\ config.critic_warmup <= 1 => InOrder(actor') /\ Len(actor') = global_steps'
         /\ Reads(global_steps)'
<1>0. /\ TypeInv /\ At("load") /\ job' = "running" /\ todo' = BeginCalls
      /\ global_steps = 0 /\ loader = 0 /\ critic = <<>> /\ actor = <<>>
      /\ inflight' = None /\ tracker # Torn /\ tracker \in Steps
      /\ StepsPerEpoch \in Nat \ {0}
  <2>1. At("load")
    BY ActionCall
  <2>2. /\ job' = "running" /\ todo' = BeginCalls /\ inflight' = inflight /\ tracker # Torn
    BY <2>1 DEF LoadCheckpoint, BeginTraining, BeginCalls, batches, At
  <2> QED BY <2>1, <2>2, TrainingAssumption
          DEF RunInv, ModelRuns, Warm, LoopInv, TypeInv, TypeOK
<1>1. PICK step \in Nat : step = FindLatest(disk, tracker) /\ (step = 0 \/ (step = tracker /\ step \in Steps))
  BY <1>0 DEF FindLatest, Steps
<1>2. CASE step = 0
  <2>1. critic' = <<>> /\ actor' = <<>> /\ global_steps' = 0 /\ loader' = 0
    BY <1>0, <1>1, <1>2 DEF LoadCheckpoint, models
  <2>2. InOrder(<<>>) /\ Len(<<>>) = 0
    BY DEF InOrder
  <2>3. Reads(0)'
    <3>1. 0 % StepsPerEpoch = 0 /\ loader' < StepsPerEpoch /\ NextPosition' = 1
      BY <1>0, <2>1, ModNext DEF NextPosition
    <3> QED BY <3>1 DEF Reads
  <2>4. Reads(global_steps)'
    BY <2>1, <2>3 DEF Reads
  <2> QED BY <1>0, <2>1, <2>2, <2>4
<1>3. CASE step # 0
  <2>1. /\ Loadable(disk[step].actor)
        /\ config.use_critic => Loadable(disk[step].critic)
        /\ global_steps' = step /\ actor' = disk[step].actor
        /\ critic' = IF config.use_critic THEN disk[step].critic ELSE critic
        /\ loader' = RestoredPosition(step)
    BY <1>1, <1>3 DEF LoadCheckpoint
  <2>2. Named /\ tracker = step
    BY <1>0, <1>1, <1>3 DEF Named
  <2>3. ~config.pipelined
    BY <1>0, <2>2 DEF RunInv, TrackerRuns, Named
  <2>4. disk[step].data # Missing
    BY <2>2 DEF RunInv, TrackerRuns
  <2>5. /\ disk[step].data = 1 + ((step - 1) % StepsPerEpoch)
        /\ config.use_critic => InOrder(critic') /\ Len(critic') = step
        /\ config.critic_warmup <= 1 => InOrder(actor') /\ Len(actor') = step
    BY <1>1, <1>3, <2>1, <2>3, <2>4 DEF RunInv, DiskRuns, Saved
  <2>6. ~config.use_critic => InOrder(critic')
    BY <1>0, <2>1 DEF InOrder
  <2>7. Reads(step)'
    BY <1>0, <2>1, <2>4, <2>5, PositionRestored
  <2>8. Reads(global_steps)'
    BY <2>1, <2>7 DEF Reads
  <2> QED BY <1>0, <2>1, <2>5, <2>6, <2>8
<1> QED BY <1>2, <1>3

\* Calls that train a model, or are about to plan it, are ahead of a step from
\* its plan until they are made.
LEMMA TrainsAhead ==
  ASSUME RunInv, [Next]_vars, Loaded, Loaded', ~Dies, ~LoadCheckpoint,
         NEW call \in {"update_critic", "update_actor"},
         call = "update_critic" => config.use_critic,
         call = "update_actor" => config.critic_warmup <= 1
  PROVE  LET calls == {call, "fetch", "step"} IN
         /\ (UpdateCritic /\ call = "update_critic") \/ (UpdateActor /\ call = "update_actor") =>
              Trained(calls) = global_steps - 1 /\ Trained(calls)' = global_steps
         /\ ~(UpdateCritic /\ call = "update_critic") /\ ~(UpdateActor /\ call = "update_actor") =>
              Trained(calls)' = Trained(calls)
<1> DEFINE calls == {call, "fetch", "step"}
<1>0. /\ TypeInv /\ OwnCalls /\ RunOrder /\ ConfigTypes /\ Moves /\ todo \in Seq(Calls)
      /\ global_steps \in Nat /\ job = "running" /\ job' = "running"
      /\ config' = config /\ ~Crash /\ ~Relaunch /\ todo' \in Seq(Calls)
  <2>1. TypeInv'
    BY NextTypes DEF RunInv, LoopInv
  <2> QED BY <2>1, NextMoves, ConfigKnown, SequenceTypes, Survives
          DEF RunInv, LoopInv, Loaded, Dies, TypeInv, TypeOK
<1>1. ~FirstStep /\ ~FinishStep => global_steps' = global_steps
  BY BatchesKept
<1>2. Separated(todo, calls, calls, {})
  BY <1>0 DEF RunOrder, TrainsCritic, TrainsActor
<1>3. ASSUME (UpdateCritic /\ call = "update_critic") \/ (UpdateActor /\ call = "update_actor")
      PROVE  Trained(calls) = global_steps - 1 /\ Trained(calls)' = global_steps
  <2>1. At(call) /\ todo' = Tail(todo) /\ global_steps' = global_steps
    BY <1>3, ActionCall DEF UpdateCritic, UpdateActor, OffloadModel, place, Rest
  <2>2. todo # <<>> /\ Head(todo) \in calls
    BY <2>1 DEF At
  <2>3. ~Without(todo, calls)
    BY <1>0, <2>1, HeadWithout
  <2>4. Without(todo', calls)
    <3> HIDE DEF calls
    <3> QED BY <1>0, <1>2, <2>1, <2>2, NoneAfter
  <2> QED BY <2>1, <2>3, <2>4 DEF Trained, Ahead
<1>4. ASSUME ~(UpdateCritic /\ call = "update_critic"), ~(UpdateActor /\ call = "update_actor")
      PROVE  Trained(calls)' = Trained(calls)
  <2>1. CASE todo' = todo
    <3>1. ~FirstStep /\ ~FinishStep
      <4>1. At("first_step") \/ At("finish") => Without(todo, {"fetch", "step"})
        BY <1>0, AloneAtEnd DEF Closing, Without
      <4>2. FirstStep \/ FinishStep => todo' \in {<<"start", "step">>, <<"step">>, <<"fetch">>}
        BY <1>0 DEF FirstStep, FinishStep
      <4>3. ~Without(<<"start", "step">>, {"fetch", "step"})
            /\ ~Without(<<"step">>, {"fetch", "step"}) /\ ~Without(<<"fetch">>, {"fetch", "step"})
        BY StartPlan, OneCallPlans
      <4> QED BY <2>1, <4>1, <4>2, <4>3, ActionCall
    <3> QED BY <1>1, <2>1, <3>1 DEF Trained, Ahead
  <2>2. CASE todo' # todo /\ (At("fetch") \/ At("step"))
    <3>1. ~Without(todo, calls)
      BY <1>0, <2>2, HeadWithout
    <3>2. Fetch \/ FitStep
      BY <2>2, ActionOf
    <3>3. global_steps' = global_steps /\ global_steps # 0
      <4>1. ~FirstStep /\ ~FinishStep
        BY <2>2, ActionCall DEF At
      <4> QED BY <1>0, <1>1, <2>2, <4>1, HeadWithout DEF OwnCalls
    <3>4. ~Without(todo', {call})
      <4>1. call = "update_actor" => ActorTrains
        BY <1>0, <3>3 DEF ActorTrains, ConfigTypes
      <4>2. CASE Fetch
        <5>1. todo' = ColocatedCalls /\ ~config.pipelined
          BY <1>0, <4>2, ActionCall, HeadWithout DEF Fetch, OwnCalls
        <5> QED BY <1>0, <4>1, <5>1, ColocatedOrder
      <4>3. CASE FitStep
        <5>1. todo' = PipelinedCalls /\ config.pipelined
          BY <1>0, <4>3, ActionCall, HeadWithout DEF FitStep, OwnCalls
        <5> QED BY <1>0, <4>1, <5>1, PipelinedOrder
      <4> QED BY <3>2, <4>2, <4>3
    <3>5. ~Without(todo', calls)
      BY <3>4 DEF Without
    <3> QED BY <3>1, <3>3, <3>5 DEF Trained, Ahead
  <2>3. CASE todo' # todo /\ (At("first_step") \/ At("finish"))
    <3>1. "first_step" \notin calls /\ "finish" \notin calls
      OBVIOUS
    <3>2. Without(todo, calls)
      <4> HIDE DEF calls
      <4> QED BY <1>0, <2>3, <3>1, AloneAtEnd DEF Closing
    <3>3. FirstStep \/ FinishStep
      BY <2>3, ActionOf
    <3>4. global_steps' = global_steps + 1
          /\ todo' \in {<<"start", "step">>, <<"step">>, <<"fetch">>}
      BY <1>0, <3>3 DEF FirstStep, FinishStep
    <3>5. ~Without(todo', calls)
      BY <3>4, StartPlan, OneCallPlans
    <3> QED BY <1>0, <3>2, <3>4, <3>5 DEF Trained, Ahead
  <2>4. CASE todo' # todo /\ ~At("fetch") /\ ~At("step") /\ ~At("first_step") /\ ~At("finish")
    <3>1. global_steps' = global_steps
      BY <1>1, <2>4, ActionCall
    <3>2. ~At("load")
      BY DEF Loaded
    <3>3. \A c \in calls : At(c) => todo' = todo
      <4>1. ~At(call)
        BY <1>4, <2>4, ActionOf
      <4> QED BY <2>4, <4>1
    <3>4. \A p \in Continuations : p[1] \notin calls /\ p[2] \notin calls
      BY DEF Continuations
    <3>5. Without(todo', calls) <=> Without(todo, calls)
      <4> HIDE DEF calls
      <4> QED BY <1>0, <2>4, <3>2, <3>3, <3>4, AheadKept
    <3> QED BY <3>1, <3>5 DEF Trained, Ahead
  <2> QED BY <2>1, <2>2, <2>3, <2>4
<1> QED BY <1>3, <1>4

LEMMA NextModelRuns ==
  ASSUME RunInv, [Next]_vars
  PROVE  ModelRuns'
<1>0. /\ TypeInv /\ OwnCalls /\ RunOrder /\ ConfigTypes /\ Moves /\ config' = config
      /\ todo \in Seq(Calls) /\ critic \in Seq(Nat) /\ actor \in Seq(Nat) /\ ModelRuns
      /\ Len(critic) \in Nat /\ Len(actor) \in Nat
      /\ At("fetch") => ~config.pipelined
      /\ At("step") => config.pipelined
  <2>1. TypeInv /\ OwnCalls /\ todo \in Seq(Calls)
    BY SequenceTypes DEF RunInv, LoopInv
  <2>2. (At("fetch") => ~config.pipelined) /\ (At("step") => config.pipelined)
    BY <2>1, HeadWithout DEF OwnCalls
  <2> QED BY <2>1, <2>2, NextMoves, ConfigKnown, SequenceTypes, Survives DEF RunInv
<1>1. ASSUME job' = "down" \/ At("load")'
      PROVE  loader' = 0 /\ global_steps' = 0 /\ critic' = <<>> /\ actor' = <<>>
  <2>1. CASE Dies
    BY <2>1, Survives
  <2>2. CASE ~Dies
    <3>1. job = "down" \/ At("load")
      BY <1>0, <1>1, <2>2, LoadOnlyFirst
    <3>2. LoadCheckpoint => todo' = BeginCalls /\ job' = "running"
      BY DEF LoadCheckpoint, BeginTraining, BeginCalls, At
    <3>3. ~LoadCheckpoint
      BY <1>0, <1>1, <3>2, NotLoading DEF At
    <3>4. /\ ~Fetch /\ ~StartGeneration /\ ~FirstStep /\ ~FinishStep /\ ~UpdateCritic
          /\ ~UpdateActor
      BY <3>1, ActionCall DEF At
    <3> QED BY <1>0, <2>2, <3>1, <3>3, <3>4, BatchesKept DEF ModelRuns
  <2> QED BY <2>1, <2>2
<1>2. ASSUME ~config.use_critic PROVE critic' = <<>> /\ Without(todo', {"update_critic"})
  <2>1. critic = <<>> /\ Without(todo, {"update_critic"})
    BY <1>0, <1>2 DEF ModelRuns
  <2>2. ~UpdateCritic
    BY <1>0, <2>1, HeadWithout, ActionCall
  <2>3. LoadCheckpoint => critic' = critic
    BY <1>2 DEF LoadCheckpoint, models
  <2>4. critic' = <<>>
    BY <2>1, <2>2, <2>3, BatchesKept, Survives
  <2>5. /\ At("fetch") => Without(ColocatedCalls, {"update_critic"})
        /\ At("step") => Without(PipelinedCalls, {"update_critic"})
    BY <1>0, <1>2, ColocatedOrder, PipelinedOrder
  <2>6. Without(BeginCalls, {"update_critic"})
    <3>1. {"update_critic"} \subseteq Calls \ BeginSet
      BY DEF Calls, BeginSet
    <3> QED BY <1>0, <3>1, BeginWithout
  <2>7. At("first_step") \/ At("finish") => Without(todo', {"update_critic"})
    BY <2>1, StepPlan, EmptyOrder, OneCallPlans, StartPlan
  <2>8. \A p \in Continuations : p[2] # "update_critic"
    BY ContinuationRange
  <2>9. Without(todo', {"update_critic"})
    BY <1>0, <2>1, <2>5, <2>6, <2>7, <2>8, WithoutKept
  <2> QED BY <2>4, <2>9
<1>3. ASSUME UpdateCritic
      PROVE  critic' = Append(critic, batch.prompts) /\ At("update_critic") /\ config.use_critic
  BY <1>0, <1>3, ActionCall, HeadWithout DEF UpdateCritic, ModelRuns
<1>4. ASSUME UpdateActor
      PROVE  actor' = Append(actor, batch.prompts) /\ At("update_actor")
  BY <1>4, ActionCall DEF UpdateActor
<1>5. \A c : At(c) => ~LoadCheckpoint \/ c = "load"
  BY ActionCall DEF At
<1>6. ASSUME Loaded, ~Dies, ~LoadCheckpoint, UpdateCritic \/ UpdateActor PROVE Loaded'
  <2>1. ~Launch
    BY <1>6 DEF Loaded, Launch
  <2>2. job' = "running" /\ todo' = Rest /\ launches' = launches
    <3>1. launches' = launches
      BY <2>1, Continues
    <3>2. job' = "running" /\ todo' = Rest
      BY <1>6 DEF UpdateCritic, UpdateActor, OffloadModel, Computes, At
    <3> QED BY <3>1, <3>2
  <2>3. At("update_critic") \/ At("update_actor")
    BY <1>6, ActionCall
  <2>4. ~At("load")'
    <3>1. Rest \in Seq(Calls) /\ Without(Rest, OnlyNext) /\ "load" \in OnlyNext
      BY <1>0, <2>3, TailShape DEF TypeInv, OneSaveAhead, OneSave, Without, Rest, At, OnlyNext
    <3> QED BY <2>2, <3>1, TailShape DEF At, Without
  <2> QED BY <1>0, <1>6, <2>2, <2>4 DEF Loaded, Uninterrupted
<1>7. ASSUME job' = "running", Uninterrupted'
      PROVE  /\ InOrder(critic') /\ (config.critic_warmup <= 1 => InOrder(actor'))
             /\ Loaded' =>
                  /\ config.use_critic => Len(critic') = Trained(TrainsCritic)'
                  /\ config.critic_warmup <= 1 => Len(actor') = Trained(TrainsActor)'
  <2>1. CASE Launch
    <3>1. job = "down" /\ ~Dies /\ ~LoadCheckpoint /\ ~UpdateCritic /\ ~UpdateActor
      BY <2>1, ActionCall DEF Launch, Dies, Crash, Relaunch, At
    <3>2. critic' = <<>> /\ actor' = <<>>
      BY <1>0, <3>1, BatchesKept DEF ModelRuns
    <3>3. ~Loaded'
      BY <2>1, Continues DEF Loaded
    <3> QED BY <3>2, <3>3 DEF InOrder
  <2>2. CASE LoadCheckpoint
    <3>1. ~config.pipelined \/ launches = 1
      <4>1. ~Launch
        BY <2>2, ActionCall DEF Launch, At
      <4> QED BY <1>0, <1>7, <4>1, Continues DEF Uninterrupted
    <3>2. /\ todo' = BeginCalls /\ InOrder(critic') /\ (config.use_critic => Len(critic') = global_steps')
          /\ config.critic_warmup <= 1 => InOrder(actor') /\ Len(actor') = global_steps'
      BY <2>2, <3>1, CheckpointFound
    <3>3. Without(BeginCalls, TrainsCritic) /\ Without(BeginCalls, TrainsActor)
      <4>1. TrainsCritic \subseteq Calls \ BeginSet /\ TrainsActor \subseteq Calls \ BeginSet
        BY DEF TrainsCritic, TrainsActor, Calls, BeginSet
      <4> QED BY <1>0, <4>1, BeginWithout
    <3>4. Trained(TrainsCritic)' = global_steps' /\ Trained(TrainsActor)' = global_steps'
      BY <3>2, <3>3 DEF Trained, Ahead, TrainsCritic, TrainsActor
    <3> QED BY <3>2, <3>4
  <2>3. CASE ~Launch /\ ~LoadCheckpoint
    <3>1. job = "running" /\ Uninterrupted /\ ~Dies
      BY <1>7, <2>3, Continues
    <3>2. Loaded' => Loaded
      BY <2>3, Continues
    <3>3. InOrder(critic) /\ (config.critic_warmup <= 1 => InOrder(actor))
      BY <1>0, <3>1 DEF ModelRuns
    <3>4. ASSUME UpdateCritic \/ UpdateActor PROVE Loaded
      <4>1. ~At("load")
        BY <3>4, ActionCall DEF At
      <4> QED BY <3>1, <4>1 DEF Loaded
    <3>5. ASSUME UpdateCritic
          PROVE  InOrder(critic') /\ Len(critic') = Len(critic) + 1
      <4>1. Loaded /\ Loaded' /\ At("update_critic") /\ config.use_critic
        BY <1>3, <1>6, <2>3, <3>1, <3>4, <3>5
      <4>2. Trained(TrainsCritic) = global_steps - 1
        BY <2>3, <3>1, <3>5, <4>1, TrainsAhead DEF TrainsCritic
      <4>3. Len(critic) = global_steps - 1
        BY <1>0, <4>1, <4>2 DEF ModelRuns
      <4>4. batch.prompts = Len(critic) % StepsPerEpoch /\ batch.prompts \in Nat
        BY <4>1, <4>3, TrainedBatch DEF Position
      <4> QED BY <1>0, <1>3, <3>3, <3>5, <4>4, OneMore
    <3>6. ASSUME UpdateActor, config.critic_warmup <= 1
          PROVE  InOrder(actor') /\ Len(actor') = Len(actor) + 1
      <4>1. Loaded /\ Loaded' /\ At("update_actor")
        BY <1>4, <1>6, <2>3, <3>1, <3>4, <3>6
      <4>2. Trained(TrainsActor) = global_steps - 1
        BY <2>3, <3>1, <3>6, <4>1, TrainsAhead DEF TrainsActor
      <4>3. Len(actor) = global_steps - 1
        BY <1>0, <3>6, <4>1, <4>2 DEF ModelRuns
      <4>4. batch.prompts = Len(actor) % StepsPerEpoch /\ batch.prompts \in Nat
        BY <4>1, <4>3, TrainedBatch DEF Position
      <4> QED BY <1>0, <1>4, <3>3, <3>6, <4>4, OneMore
    <3>7. (~UpdateCritic => critic' = critic) /\ (~UpdateActor => actor' = actor)
      BY <2>3, <3>1, BatchesKept
    <3>8. ASSUME Loaded', config.use_critic PROVE Len(critic') = Trained(TrainsCritic)'
      <4>1. Loaded /\ Len(critic) = Trained(TrainsCritic)
        BY <1>0, <3>2, <3>8 DEF ModelRuns
      <4>2. /\ UpdateCritic => Trained(TrainsCritic) = global_steps - 1
                               /\ Trained(TrainsCritic)' = global_steps
            /\ ~UpdateCritic => Trained(TrainsCritic)' = Trained(TrainsCritic)
        BY <2>3, <3>1, <3>8, <4>1, TrainsAhead DEF TrainsCritic
      <4> QED BY <1>0, <3>5, <3>7, <4>1, <4>2, SequenceTypes
    <3>9. ASSUME Loaded', config.critic_warmup <= 1 PROVE Len(actor') = Trained(TrainsActor)'
      <4>1. Loaded /\ Len(actor) = Trained(TrainsActor)
        BY <1>0, <3>2, <3>9 DEF ModelRuns
      <4>2. /\ UpdateActor => Trained(TrainsActor) = global_steps - 1
                              /\ Trained(TrainsActor)' = global_steps
            /\ ~UpdateActor => Trained(TrainsActor)' = Trained(TrainsActor)
        BY <2>3, <3>1, <3>9, <4>1, TrainsAhead DEF TrainsActor
      <4> QED BY <1>0, <3>6, <3>7, <3>9, <4>1, <4>2, SequenceTypes
    <3> QED BY <3>3, <3>5, <3>6, <3>7, <3>8, <3>9
  <2> QED BY <2>1, <2>2, <2>3
<1>8. /\ (job = "down" \/ At("load"))' <=> job' = "down" \/ At("load")'
      /\ Loaded' => job' = "running" /\ Uninterrupted'
  BY DEF Loaded
<1>9. InOrder(critic)' <=> InOrder(critic')
  BY DEF InOrder
<1>10. InOrder(actor)' <=> InOrder(actor')
  BY DEF InOrder
<1> QED BY <1>0, <1>1, <1>2, <1>7, <1>8, <1>9, <1>10 DEF ModelRuns

\* What is ahead of a step, and what a quiet call leaves ahead.
LEMMA QuietAhead ==
  ASSUME RunInv, [Next]_vars, Loaded, Loaded', ~Dies, ~LoadCheckpoint,
         ~FirstStep, ~FinishStep, ~Fetch, ~FitStep,
         NEW calls \in SUBSET {"fetch", "step", "await"},
         "await" \in calls => ~AwaitGeneration
  PROVE  Trained(calls)' = Trained(calls) /\ global_steps' = global_steps
<1>0. /\ todo \in Seq(Calls) /\ Moves /\ job = "running" /\ ~Crash /\ ~Relaunch
      /\ global_steps' = global_steps /\ ~At("load")
  BY NextMoves, SequenceTypes, BatchesKept DEF RunInv, LoopInv, Loaded, Dies
<1>1. \A p \in Continuations : p[1] \notin calls /\ p[2] \notin calls
  BY DEF Continuations
<1>2. todo' # todo => /\ ~At("fetch") /\ ~At("step") /\ ~At("first_step") /\ ~At("finish")
                      /\ "await" \in calls => ~At("await")
  BY ActionOf
<1>3. \A call \in calls : At(call) => todo' = todo
  BY <1>2
<1>4. Without(todo', calls) <=> Without(todo, calls)
  BY <1>0, <1>1, <1>2, <1>3, AheadKept
<1> QED BY <1>0, <1>4 DEF Trained, Ahead

\* A step begins: what was not ahead of the last one is ahead of it.
LEMMA StepBegins ==
  ASSUME RunInv, [Next]_vars, Loaded, Loaded', FirstStep \/ FinishStep,
         NEW call, call = (IF config.pipelined THEN "step" ELSE "fetch"),
         NEW calls, call \in calls, calls \subseteq {"fetch", "step", "await"}
  PROVE  /\ Trained(calls) = global_steps /\ Trained(calls)' = global_steps
         /\ todo' \in {<<"start", "step">>, <<"step">>, <<"fetch">>}
         /\ loader' = loader /\ inflight' = inflight /\ batch' = batch
<1>0. /\ TypeInv /\ RunOrder /\ todo \in Seq(Calls) /\ global_steps \in Nat
      /\ At("first_step") \/ At("finish")
  BY SequenceTypes, ActionCall DEF RunInv, LoopInv
<1>1. /\ global_steps' = global_steps + 1
      /\ todo' \in {<<"start", "step">>, <<call>>} \/ job' = "done"
      /\ todo' = <<"start", "step">> => call = "step"
      /\ loader' = loader /\ inflight' = inflight /\ batch' = batch
  BY DEF FirstStep, FinishStep, batches
<1>2. job' = "running"
  BY DEF Loaded
<1>3. Without(todo, calls)
  BY <1>0, AloneAtEnd DEF Closing
<1>4. call \in {"fetch", "step"}
  OBVIOUS
<1>5. ~Without(todo', calls)
  BY <1>1, <1>2, <1>4, StartPlan, OneCallPlans
<1>6. Trained(calls) = global_steps /\ Trained(calls)' = global_steps
  BY <1>0, <1>1, <1>3, <1>5 DEF Trained, Ahead
<1> QED BY <1>1, <1>2, <1>4, <1>6

LEMMA NextColocatedPlace ==
  ASSUME RunInv, [Next]_vars, Loaded', ~config.pipelined
  PROVE  ColocatedPlace'
<1>0. /\ TypeInv /\ OwnCalls /\ RunOrder /\ ConfigTypes /\ config' = config /\ todo \in Seq(Calls)
      /\ Moves /\ global_steps \in Nat
      /\ ~At("start") /\ ~At("step") /\ ~At("await") /\ {"fetch"} \subseteq {"fetch", "step", "await"}
  <2>1. TypeInv /\ OwnCalls /\ todo \in Seq(Calls)
    BY SequenceTypes DEF RunInv, LoopInv
  <2>2. Without(todo, {"start", "step", "await"})
    BY <2>1 DEF OwnCalls
  <2>3. \A c \in {"start", "step", "await"} : ~At(c)
    BY <2>1, <2>2, HeadWithout
  <2> QED BY <2>1, <2>3, NextMoves, ConfigKnown, SequenceTypes, Survives DEF RunInv
<1>1. CASE LoadCheckpoint
  <2>1. todo' = BeginCalls /\ Reads(global_steps)'
    BY <1>1, CheckpointFound
  <2>2. Without(BeginCalls, {"fetch"}) /\ Without(BeginCalls, StepTrains)
    <3>1. {"fetch"} \subseteq Calls \ BeginSet /\ StepTrains \subseteq Calls \ BeginSet
      BY DEF StepTrains, Saving, Calls, BeginSet
    <3> QED BY <1>0, <3>1, BeginWithout
  <2>3. Trained({"fetch"})' = global_steps' /\ Without(todo', StepTrains)
    BY <2>1, <2>2 DEF Trained, Ahead
  <2>4. Reads(Trained({"fetch"}))'
    BY <2>1, <2>3 DEF Reads
  <2> QED BY <2>3, <2>4 DEF ColocatedPlace, StepTrains, Saving
<1>2. CASE ~LoadCheckpoint
  <2>0. Loaded /\ ~Dies /\ ColocatedPlace /\ job' = "running"
    <3>1. Loaded /\ ~Dies
      BY <1>2, Continues
    <3> QED BY <3>1 DEF RunInv, PlaceRuns, Loaded
  <2>1. CASE Fetch
    <3>1. /\ At("fetch") /\ LoaderYields /\ batch'.prompts = loader' - 1 /\ todo' = ColocatedCalls
          /\ global_steps' = global_steps
      BY <2>1 DEF Fetch
    <3>2. Trained({"fetch"}) = global_steps - 1 /\ global_steps # 0
      <4>1. ~Without(todo, {"fetch"}) /\ ~Without(todo, {"fetch", "step"})
        BY <1>0, <3>1, HeadWithout
      <4> QED BY <1>0, <4>1 DEF Trained, Ahead, OwnCalls
    <3>n. PICK n \in Nat : n = global_steps - 1
      BY <1>0, <3>2
    <3>3. Reads(n) /\ n + 1 = global_steps
      BY <1>0, <2>0, <3>2, <3>n DEF ColocatedPlace
    <3>4. /\ loader' = 1 + (n % StepsPerEpoch) /\ loader' - 1 = n % StepsPerEpoch
          /\ Reads(n + 1)'
      BY <1>0, <3>1, <3>3, LoaderMoves
    <3>5. Trained({"fetch"})' = global_steps
      <4>1. Without(todo', {"fetch"})
        BY <1>0, <3>1, ColocatedOrder DEF Without
      <4> QED BY <3>1, <4>1 DEF Trained, Ahead
    <3>6. Reads(Trained({"fetch"}))'
      BY <3>3, <3>4, <3>5 DEF Reads
    <3>7. Position' = n % StepsPerEpoch
      BY <3>1, <3>n DEF Position
    <3> QED BY <3>1, <3>4, <3>6, <3>7 DEF ColocatedPlace
  <2>2. CASE FirstStep \/ FinishStep
    <3>1. /\ Trained({"fetch"}) = global_steps /\ Trained({"fetch"})' = global_steps
          /\ todo' \in {<<"start", "step">>, <<"step">>, <<"fetch">>} /\ loader' = loader
      BY <1>0, <2>0, <2>2, StepBegins
    <3>2. Reads(Trained({"fetch"}))'
      BY <2>0, <3>1 DEF ColocatedPlace, Reads, NextPosition
    <3>3. Without(todo', StepTrains)
      <4>1. {"start", "step", "fetch"} \cap StepTrains = {}
        BY DEF StepTrains, Saving
      <4> QED BY <3>1, <4>1, StartPlan, OneCallPlans
    <3> QED BY <3>2, <3>3 DEF ColocatedPlace, StepTrains, Saving
  <2>3. CASE ~Fetch /\ ~FirstStep /\ ~FinishStep
    <3>1. ~FitStep /\ ~StartGeneration /\ ~AwaitGeneration
      BY <1>0, ActionCall
    <3>2. Trained({"fetch"})' = Trained({"fetch"}) /\ global_steps' = global_steps
      <4> DEFINE calls == {"fetch"}
      <4>1. calls \in SUBSET {"fetch", "step", "await"} /\ "await" \notin calls
        OBVIOUS
      <4> HIDE DEF calls
      <4>2. Trained(calls)' = Trained(calls) /\ global_steps' = global_steps
        BY <1>2, <2>0, <2>3, <3>1, <4>1, QuietAhead
      <4> QED BY <4>2 DEF calls
    <3>3. loader' = loader
      BY <1>2, <2>0, <2>3, <3>1, BatchesKept
    <3>4. batch'.prompts = batch.prompts
      <4>1. batch \in Batch
        BY <1>0 DEF TypeInv, TypeOK
      <4> QED BY <2>0, <2>3, <3>1, <4>1, BatchesKept DEF Generate, Batch
    <3>5. Reads(Trained({"fetch"}))'
      BY <2>0, <3>2, <3>3 DEF ColocatedPlace, Reads, NextPosition
    <3>6. Position' = Position
      BY <3>2 DEF Position
    <3>7. Without(todo, StepTrains) => Without(todo', StepTrains)
      <4>1. \A p \in Continuations : p[2] \in StepTrains => p[1] \in StepTrains
        BY DEF Continuations, StepTrains, Saving
      <4>2. todo' # todo => ~At("fetch") /\ ~At("first_step") /\ ~At("finish")
        BY <2>0, <2>3, ActionOf
      <4>3. "load" \notin StepTrains /\ ~At("load")
        BY <2>0 DEF StepTrains, Saving, Loaded
      <4> QED BY <1>0, <4>1, <4>2, <4>3, WithoutKept
    <3> QED BY <2>0, <3>3, <3>4, <3>5, <3>6, <3>7 DEF ColocatedPlace, StepTrains, Saving
  <2> QED BY <2>1, <2>2, <2>3
<1> QED BY <1>1, <1>2

LEMMA NextPipelinedPlace ==
  ASSUME RunInv, [Next]_vars, Loaded', config.pipelined
  PROVE  PipelinedPlace'
<1> DEFINE awaits == {"await", "step"}
           steps  == {"step"}
<1>0. /\ TypeInv /\ OwnCalls /\ RunOrder /\ ConfigTypes /\ config' = config /\ todo \in Seq(Calls)
      /\ Moves /\ global_steps \in Nat /\ ~At("fetch") /\ ~At("generate")
      /\ awaits \in SUBSET {"fetch", "step", "await"} /\ steps \in SUBSET {"fetch", "step", "await"}
      /\ "await" \notin steps
  <2>1. TypeInv /\ OwnCalls /\ todo \in Seq(Calls)
    BY SequenceTypes DEF RunInv, LoopInv
  <2>2. Without(todo, {"fetch", "generate"})
    BY <2>1 DEF OwnCalls
  <2>3. \A c \in {"fetch", "generate"} : ~At(c)
    BY <2>1, <2>2, HeadWithout
  <2> QED BY <2>1, <2>3, NextMoves, ConfigKnown, SequenceTypes, Survives DEF RunInv
<1>1. ASSUME Without(todo', StepTrains) PROVE Preceded(todo', StepTrains, {"await"})
  BY <1>1 DEF Without, Preceded
<1>2. ASSUME Without(todo', Starts) PROVE Preceded(todo', Starts, {"await"})
  BY <1>2 DEF Without, Preceded
<1>3. CASE LoadCheckpoint
  <2>1. ~Launch
    BY <1>3, ActionCall DEF Launch, At
  <2>2. launches = 1
    BY <1>0, <2>1, Continues DEF Loaded, Uninterrupted
  <2>3. todo' = BeginCalls /\ Reads(global_steps)' /\ inflight' = None
    BY <1>3, <2>2, CheckpointFound
  <2>4. Without(BeginCalls, steps) /\ Without(BeginCalls, StepTrains)
    <3>1. steps \subseteq Calls \ BeginSet /\ StepTrains \subseteq Calls \ BeginSet
      BY DEF StepTrains, Saving, Calls, BeginSet
    <3> QED BY <1>0, <3>1, BeginWithout
  <2>5. Trained({"step"})' = global_steps'
    BY <2>3, <2>4 DEF Trained, Ahead
  <2>6. Reads(Trained({"step"}))'
    BY <2>3, <2>5 DEF Reads
  <2> QED BY <1>1, <2>3, <2>4, <2>6 DEF PipelinedPlace, GeneratedPlace, StepTrains, Saving, Starts
<1>4. CASE ~LoadCheckpoint
  <2>0. Loaded /\ ~Dies /\ PipelinedPlace /\ job' = "running"
    <3>1. Loaded /\ ~Dies
      BY <1>4, Continues
    <3> QED BY <3>1 DEF RunInv, PlaceRuns, Loaded
  <2>p. /\ Preceded(todo, StepTrains, {"await"}) \/ batch.prompts = Position
        /\ inflight # None => /\ Trained(awaits) \in Nat
                              /\ inflight.prompts = Trained(awaits) % StepsPerEpoch
                              /\ Reads(Trained(awaits) + 1)
        /\ Preceded(todo, Starts, {"await"}) \/ Reads(Trained(steps))
    BY <2>0 DEF PipelinedPlace, GeneratedPlace
  <2>1. CASE FirstStep \/ FinishStep
    <3>1. /\ Trained(steps) = global_steps /\ Trained(steps)' = global_steps
          /\ Trained(awaits) = global_steps /\ Trained(awaits)' = global_steps
          /\ todo' \in {<<"start", "step">>, <<"step">>, <<"fetch">>}
          /\ loader' = loader /\ inflight' = inflight /\ batch' = batch
      BY <1>0, <2>0, <2>1, StepBegins
    <3>2. Preceded(todo', StepTrains, {"await"})
      <4>1. {"start", "step", "fetch"} \cap StepTrains = {}
        BY DEF StepTrains, Saving
      <4> QED BY <1>1, <3>1, <4>1, StartPlan, OneCallPlans
    <3>3. GeneratedPlace'
      BY <2>p, <3>1 DEF GeneratedPlace, Reads, NextPosition
    <3>4. Preceded(todo', Starts, {"await"}) \/ Reads(Trained(steps))'
      <4>1. CASE FirstStep
        <5>1. At("first_step") /\ "first_step" \in Starts
          BY <4>1, ActionCall DEF Starts
        <5>2. Reads(Trained(steps))
          BY <1>0, <2>p, <5>1, PrecededHead
        <5> QED BY <3>1, <5>2 DEF Reads, NextPosition
      <4>2. CASE FinishStep
        <5>1. todo' = <<"step">>
          BY <1>0, <2>0, <4>2 DEF FinishStep
        <5>2. "step" \notin Starts
          BY DEF Starts
        <5> QED BY <1>2, <5>1, <5>2, OneCallPlans
      <4> QED BY <2>1, <4>1, <4>2
    <3> QED BY <3>2, <3>3, <3>4 DEF PipelinedPlace, StepTrains, Saving, Starts, Reads
  <2>2. CASE FitStep
    <3>1. At("step") /\ todo' = PipelinedCalls
          /\ UNCHANGED <<global_steps, loader, inflight, batch>>
      BY <2>2 DEF FitStep, place, batches
    <3>2. ~Without(todo, awaits) /\ ~Without(todo', awaits)
      <4>1. ~Without(todo', {"await"})
        BY <1>0, <3>1, PipelinedOrder
      <4> QED BY <1>0, <3>1, <4>1, HeadWithout DEF Without
    <3>3. Preceded(todo', StepTrains, {"await"}) /\ Preceded(todo', Starts, {"await"})
      <4>1. /\ Preceded(PipelinedCalls, StepTrains \cup {"start"}, {"await"})
            /\ Without(PipelinedCalls, {"load", "first_step", "fetch", "step", "generate"})
        BY <1>0, PipelinedOrder
      <4> QED BY <3>1, <4>1 DEF Preceded, Without, Starts
    <3>4. Trained(awaits)' = Trained(awaits)
      BY <3>1, <3>2 DEF Trained, Ahead
    <3>5. GeneratedPlace'
      BY <2>p, <3>1, <3>4 DEF GeneratedPlace, Reads, NextPosition
    <3> QED BY <3>3, <3>5 DEF PipelinedPlace, StepTrains, Saving, Starts, Reads
  <2>3. CASE AwaitGeneration
    <3>1. /\ At("await") /\ inflight # None /\ batch' = inflight /\ inflight' = None
          /\ todo' = Tail(todo) /\ UNCHANGED <<global_steps, loader>>
      BY <2>3 DEF AwaitGeneration, place, Rest
    <3>2. Trained(awaits) = global_steps - 1
      <4>1. ~Without(todo, awaits)
        BY <1>0, <3>1, HeadWithout
      <4> QED BY <4>1 DEF Trained, Ahead
    <3>3. inflight.prompts = Position /\ Reads(global_steps) /\ Position' = Position
      <4>1. Trained(awaits) + 1 = global_steps
        BY <1>0, <3>2
      <4> QED BY <2>p, <3>1, <3>2, <4>1 DEF Position
    <3>4. Without(todo', steps)
      <4>1. Separated(todo, steps, {"await"}, {}) /\ todo # <<>> /\ Head(todo) \in {"await"}
        BY <1>0, <3>1 DEF RunOrder, At
      <4> HIDE DEF steps
      <4> QED BY <1>0, <3>1, <4>1, NoneAfter
    <3>5. Reads(Trained(steps))'
      <4>1. Trained(steps)' = global_steps
        BY <3>1, <3>4 DEF Trained, Ahead
      <4> QED BY <3>1, <3>3, <4>1 DEF Reads, NextPosition
    <3> QED BY <3>1, <3>3, <3>5 DEF PipelinedPlace, GeneratedPlace
  <2>4. CASE StartGeneration
    <3>1. /\ At("start") /\ todo' = Tail(todo) /\ UNCHANGED <<global_steps, batch>>
          /\ todo # <<>> /\ Head(todo) \in {"start"}
      BY <2>4 DEF StartGeneration, Rest, At
    <3>2. Trained(steps)' = Trained(steps)
      <4>1. ~AwaitGeneration /\ ~FirstStep /\ ~FinishStep /\ ~Fetch /\ ~FitStep
        BY <3>1, ActionCall DEF At
      <4> HIDE DEF steps
      <4> QED BY <1>0, <1>4, <2>0, <4>1, QuietAhead
    <3>3. Preceded(todo', Starts, {"await"})
      <4>1. Separated(todo, Starts, {"start"}, {})
        BY <1>0 DEF RunOrder
      <4>2. Without(todo', Starts)
        BY <1>0, <3>1, <4>1, NoneAfter
      <4> QED BY <1>2, <4>2
    <3>4. Preceded(todo, StepTrains, {"await"}) => Preceded(todo', StepTrains, {"await"})
      BY <1>0, <3>1, TailOrder
    <3>5. GeneratedPlace'
      <4> SUFFICES ASSUME inflight' # None
                   PROVE  /\ Trained(awaits)' \in Nat
                          /\ inflight'.prompts = Trained(awaits)' % StepsPerEpoch
                          /\ Reads(Trained(awaits) + 1)'
        BY DEF GeneratedPlace
      <4>1. LoaderYields /\ inflight'.prompts = loader' - 1
        BY <2>4 DEF StartGeneration
      <4>2. Reads(Trained(steps))
        BY <1>0, <2>p, <3>1, PrecededHead DEF Starts
      <4>3. Trained(steps) \in Nat
        <5>1. ~Without(todo, steps) => global_steps # 0
          BY <1>0 DEF OwnCalls, Without
        <5> QED BY <1>0, <5>1 DEF Trained, Ahead
      <4>4. Trained(awaits)' = Trained(steps)
        <5>1. Separated(todo, {"await"}, {"start"}, {})
          BY <1>0 DEF RunOrder
        <5>2. Without(todo', {"await"})
          BY <1>0, <3>1, <5>1, NoneAfter
        <5>3. Without(todo', awaits) <=> Without(todo', steps)
          BY <5>2 DEF Without
        <5>4. Trained(awaits)' = Trained(steps)'
          BY <5>3 DEF Trained, Ahead
        <5> QED BY <3>2, <5>4
      <4>5. PICK n \in Nat : n = Trained(steps)
        BY <4>3
      <4>6. /\ loader' - 1 = n % StepsPerEpoch /\ Reads(n + 1)'
        <5>1. Reads(n)
          BY <4>2, <4>5
        <5> QED BY <1>0, <4>1, <5>1, LoaderMoves
      <4> QED BY <4>1, <4>4, <4>5, <4>6 DEF Reads
    <3>6. Position' = Position
      BY <3>1 DEF Position
    <3> QED BY <2>p, <3>1, <3>3, <3>4, <3>5, <3>6 DEF PipelinedPlace, StepTrains, Saving, Starts, Reads
  <2>5. CASE ~FirstStep /\ ~FinishStep /\ ~FitStep /\ ~AwaitGeneration /\ ~StartGeneration
    <3>1. ~Fetch /\ ~Generate
      BY <1>0, ActionCall
    <3>2. Trained(steps)' = Trained(steps) /\ Trained(awaits)' = Trained(awaits)
          /\ global_steps' = global_steps
      <4> HIDE DEF steps, awaits
      <4> QED BY <1>0, <1>4, <2>0, <2>5, <3>1, QuietAhead
    <3>3. loader' = loader /\ inflight' = inflight /\ batch' = batch /\ Position' = Position
      BY <1>4, <2>0, <2>5, <3>1, <3>2, BatchesKept DEF Position
    <3>4. ASSUME NEW use \in {StepTrains, Starts}, Preceded(todo, use, {"await"})
          PROVE  Preceded(todo', use, {"await"})
      <4>1. \A call \in {"await"} : At(call) /\ todo' = Rest => todo' = todo
        BY <2>0, <2>5, ActionOf
      <4>2. \A p \in Continuations : (p[2] \in use => p[1] \in use) /\ p[1] # "await"
        BY DEF Continuations, StepTrains, Saving, Starts
      <4>3. todo' # todo => ~At("fetch") /\ ~At("step") /\ ~At("first_step") /\ ~At("finish")
        BY <2>0, <2>5, <3>1, ActionOf
      <4>4. "load" \notin use /\ ~At("load")
        BY <2>0 DEF StepTrains, Saving, Starts, Loaded
      <4>5. CASE todo' = todo
        BY <3>4, <4>5
      <4>6. CASE todo' # todo
        BY <1>0, <3>4, <4>1, <4>2, <4>3, <4>4, <4>6, PrecededKept
      <4> QED BY <4>5, <4>6
    <3>5. GeneratedPlace'
      BY <2>p, <3>2, <3>3 DEF GeneratedPlace, Reads, NextPosition
    <3>6. Preceded(todo', Starts, {"await"}) \/ Reads(Trained(steps))'
      BY <2>p, <3>2, <3>3, <3>4 DEF Reads, NextPosition
    <3> QED BY <2>p, <3>3, <3>4, <3>5, <3>6 DEF PipelinedPlace, StepTrains, Saving, Starts, Reads
  <2> QED BY <2>1, <2>2, <2>3, <2>4, <2>5
<1> QED BY <1>3, <1>4

LEMMA NextPlaceRuns ==
  ASSUME RunInv, [Next]_vars
  PROVE  PlaceRuns'
<1>1. config' = config
  BY Survives
<1> QED BY <1>1, NextColocatedPlace, NextPipelinedPlace DEF PlaceRuns

LEMMA RunInvariant == Spec => []RunInv
<1>1. Init /\ LoopInv => RunInv
  BY InitRun DEF RunInv
<1>2. RunInv /\ LoopInv' /\ [Next]_vars => RunInv'
  <2> SUFFICES ASSUME RunInv, LoopInv', [Next]_vars PROVE RunInv'
    OBVIOUS
  <2>1. Warm' /\ RunOrder'
    BY NextWarm, NextRunOrder DEF RunInv, LoopInv
  <2>2. DiskRuns' /\ TrackerRuns' /\ ModelRuns' /\ PlaceRuns'
    BY NextDiskRuns, NextTrackerRuns, NextModelRuns, NextPlaceRuns
  <2> QED BY <2>1, <2>2 DEF RunInv
<1> QED BY <1>1, <1>2, LoopInvariant, PTL DEF Spec

\* Crashes and restarts leave no trace in the models: the trainer that is
\* resumed has trained them on the batches of an uninterrupted run, each step
\* once; the pipelined trainer has, until it is interrupted.
THEOREM ResumedExactly == Spec => []ResumeExact
<1>1. RunInv => ResumeExact
  <2> SUFFICES ASSUME RunInv, job = "running", Uninterrupted
               PROVE  /\ InOrder(critic)
                      /\ At("update_critic") => Len(critic) = global_steps - 1
                      /\ config.critic_warmup <= 1 =>
                           /\ InOrder(actor)
                           /\ At("update_actor") => Len(actor) = global_steps - 1
    BY DEF ResumeExact, Uninterrupted, InOrder
  <2>1. todo \in Seq(Calls)
    BY SequenceTypes DEF RunInv, LoopInv
  <2>2. InOrder(critic) /\ (config.critic_warmup <= 1 => InOrder(actor))
    BY DEF RunInv, ModelRuns
  <2>3. ASSUME At("update_critic") PROVE Len(critic) = global_steps - 1
    <3>1. ~Without(todo, {"update_critic"}) /\ ~Without(todo, TrainsCritic) /\ ~At("load")
      BY <2>1, <2>3, HeadWithout DEF TrainsCritic, At
    <3> QED BY <3>1 DEF RunInv, ModelRuns, Loaded, Trained, Ahead
  <2>4. ASSUME At("update_actor"), config.critic_warmup <= 1
        PROVE  Len(actor) = global_steps - 1
    <3>1. ~Without(todo, TrainsActor) /\ ~At("load")
      BY <2>1, <2>4, HeadWithout DEF TrainsActor, At
    <3> QED BY <2>4, <3>1 DEF RunInv, ModelRuns, Loaded, Trained, Ahead
  <2> QED BY <2>2, <2>3, <2>4
<1> QED BY <1>1, RunInvariant, PTL

=============================================================================

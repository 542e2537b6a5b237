---------------------------- MODULE MessageQueue ----------------------------
(***************************************************************************)
(* The Ray actor MessageQueue of fully_async_policy/message_queue.py.      *)
(*                                                                         *)
(* Every handler runs under the actor's asyncio lock and only get_sample   *)
(* awaits while it holds it (Condition.wait, which releases the lock), so  *)
(* every handler is one action and get_sample is three: the call, the      *)
(* wait, and the re-check after a notification.                            *)
(*                                                                         *)
(* A sample is its own production number.                                  *)
(***************************************************************************)
EXTENDS SampleQueue, FiniteSets

CONSTANTS
    Consumers,      \* concurrent get_sample calls (the trainer is the only one in the system)
    MaxQueueSize,   \* max_queue_size of __init__
    MaxProduced     \* bound: puts in a behaviour

ASSUME MessageQueueAssumption ==
    /\ MaxQueueSize \in Nat \ {0}
    /\ MaxProduced \in Nat

VARIABLES
    queue, running, total_produced, total_consumed, dropped_samples,
    getter,         \* state of each get_sample call
    result,         \* what its last get_sample returned: a sample, or Closed
    cleared,        \* history: samples removed by clear_queue
    last_out        \* history: the largest sample handed to a consumer

vars == <<queue, running, total_produced, total_consumed, dropped_samples,
          getter, result, cleared, last_out>>

Closed == 0         \* get_sample's None: the queue is shut down and empty

GetterStates == {"idle", "checking", "waiting"}

TypeOK ==
    /\ queue \in Seq(1..MaxProduced) /\ Len(queue) <= MaxQueueSize
    /\ running \in BOOLEAN
    /\ {total_produced, total_consumed, dropped_samples, cleared} \subseteq 0..MaxProduced
    /\ getter \in [Consumers -> GetterStates]
    /\ result \in [Consumers -> 0..MaxProduced]
    /\ last_out \in 0..MaxProduced

Init ==
    /\ queue = <<>>
    /\ running = TRUE
    /\ total_produced = 0 /\ total_consumed = 0 /\ dropped_samples = 0
    /\ getter = [c \in Consumers |-> "idle"]
    /\ result = [c \in Consumers |-> Closed]
    /\ cleared = 0 /\ last_out = 0

-----------------------------------------------------------------------------
\* _consumer_condition.notify_all(): every waiting get_sample re-checks.
NotifyNoConsumer == UNCHANGED getter

NotifyConsumers ==
    getter' = [c \in Consumers |-> IF getter[c] = "waiting" THEN "checking" ELSE getter[c]]

PutSampleCall ==
    /\ total_produced < MaxProduced
    /\ queue' = PutSample(queue, total_produced + 1, MaxQueueSize)
    /\ dropped_samples' = dropped_samples + Cardinality(PutDrops(queue, MaxQueueSize))
    /\ total_produced' = total_produced + 1
    /\ NotifyConsumers
    /\ UNCHANGED <<running, total_consumed, result, cleared, last_out>>

GetSampleCall(c) ==
    /\ getter[c] = "idle"
    /\ getter' = [getter EXCEPT ![c] = "checking"]
    /\ UNCHANGED <<queue, running, total_produced, total_consumed, dropped_samples,
                   result, cleared, last_out>>

\* while len(queue) == 0 and running: await wait()
GetSampleWait(c) ==
    /\ getter[c] = "checking"
    /\ queue = <<>> /\ running
    /\ getter' = [getter EXCEPT ![c] = "waiting"]
    /\ UNCHANGED <<queue, running, total_produced, total_consumed, dropped_samples,
                   result, cleared, last_out>>

GetSampleReturn(c) ==
    /\ getter[c] = "checking"
    /\ queue # <<>>
    /\ queue' = Tail(queue)
    /\ result' = [result EXCEPT ![c] = Head(queue)]
    /\ total_consumed' = total_consumed + 1
    /\ last_out' = Head(queue)
    /\ getter' = [getter EXCEPT ![c] = "idle"]
    /\ UNCHANGED <<running, total_produced, dropped_samples, cleared>>


GetSampleClosed(c) ==
    /\ getter[c] = "checking"
    /\ queue = <<>> /\ ~running
    /\ result' = [result EXCEPT ![c] = Closed]
    /\ getter' = [getter EXCEPT ![c] = "idle"]
    /\ UNCHANGED <<queue, running, total_produced, total_consumed, dropped_samples,
                   cleared, last_out>>

ClearQueue ==
    /\ cleared' = cleared + Len(queue)
    /\ queue' = <<>>
    /\ UNCHANGED <<running, total_produced, total_consumed, dropped_samples,
                   getter, result, last_out>>

Shutdown ==
    /\ running' = FALSE
    /\ NotifyConsumers
    /\ UNCHANGED <<queue, total_produced, total_consumed, dropped_samples,
                   result, cleared, last_out>>

Next ==
    \/ PutSampleCall
    \/ \E c \in Consumers : \/ GetSampleCall(c)
                            \/ GetSampleWait(c)
                            \/ GetSampleReturn(c)
                            \/ GetSampleClosed(c)
    \/ ClearQueue
    \/ Shutdown

\* The actor's event loop runs every get_sample that can run; nobody has to
\* call put_sample, clear_queue or shutdown.
Fairness ==
    \A c \in Consumers :
        WF_vars(GetSampleWait(c) \/ GetSampleReturn(c) \/ GetSampleClosed(c))

Spec == Init /\ [][Next]_vars /\ Fairness

-----------------------------------------------------------------------------
\* The counters of get_statistics account for every sample: one that was
\* produced was consumed, dropped, cleared or is still queued.
Accounting ==
    total_produced = total_consumed + dropped_samples + cleared + Len(queue)

\* Samples leave in production order, whatever mix of drops, clears and
\* concurrent consumers ran before.
ProductionOrder ==
    /\ \A i, j \in 1..Len(queue) : i < j => queue[i] < queue[j]
    /\ \A i \in 1..Len(queue) : last_out < queue[i]

\* No lost wake-up: a get_sample sleeps on the condition only while there is
\* nothing it could return.
NoLostWakeup ==
    (\E c \in Consumers : getter[c] = "waiting") => queue = <<>> /\ running


\* shutdown releases every consumer: none of them waits for ever.
ShutdownReleasesConsumers ==
    \A c \in Consumers : (~running /\ getter[c] # "idle") ~> (getter[c] = "idle")

=============================================================================

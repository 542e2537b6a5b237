---------------------------- MODULE SampleQueue ----------------------------
(***************************************************************************)
(* The bounded deque of fully_async_policy/message_queue.py as pure        *)
(* operators, shared by the stand-alone queue (MessageQueue) and by the    *)
(* pipeline that uses it (FullyAsyncRollouter, FullyAsync).                *)
(***************************************************************************)
EXTENDS Naturals, Sequences

\* put_sample finds the deque at its maximum size.
QueueFull(queue, max_queue_size) == Len(queue) >= max_queue_size

\* put_sample never blocks: on a full deque the oldest sample makes room.
PutSampleRefused(queue, sample, max_queue_size) ==
    IF QueueFull(queue, max_queue_size) THEN queue ELSE Append(queue, sample)

PutSampleNewestOut(queue, sample, max_queue_size) ==
    <<sample>> \o (IF QueueFull(queue, max_queue_size) THEN Tail(queue) ELSE queue)

PutSample(queue, sample, max_queue_size) ==
    Append(IF QueueFull(queue, max_queue_size) THEN Tail(queue) ELSE queue, sample)

\* The samples a put throws away: the oldest one, if the deque is full.
PutDropsUncounted(queue, max_queue_size) == {}

PutDrops(queue, max_queue_size) ==
    IF QueueFull(queue, max_queue_size) THEN {Head(queue)} ELSE {}

=============================================================================

----------------------------- MODULE RewardLoop -----------------------------
(***************************************************************************)
(* How the rows of a rollout batch get their reward while they are         *)
(* generated: the agent loop workers send each finished row to a randomly  *)
(* chosen reward loop worker, whose rate limited reward manager            *)
(* (experimental/reward_loop/reward_manager/limited.py) passes it through  *)
(* two token buckets, a semaphore and a timeout; the rows are then         *)
(* gathered, first per agent loop worker and then for the batch.           *)
(*                                                                         *)
(* Time is counted in ticks and tokens in ticks of refill: a bucket gains  *)
(* one token per tick, holds Second of them (max_tokens is one second of   *)
(* the rate) and a request takes Cost[limiter] of them.                    *)
(***************************************************************************)
EXTENDS Integers, Sequences, FiniteSets

CONSTANTS
    Rows,           \* rows of the batch
    Agents,         \* agent loop workers, each with Rows \div Agents rows
    Workers,        \* reward loop workers
    Cost,           \* [limiter -> tokens per request]
    Second,         \* ticks in a second
    MaxConcurrent,  \* permits of the semaphore
    PoolSize,       \* threads of a worker's default executor
    Timeout,        \* ticks a score may take
    GenTimes,       \* ticks the generation of a row may take
    Lag,            \* ticks a sleeper may oversleep
    ScoreKeys,      \* keys of the reward info of a computed score
    None

Limiters == {"rpm", "tpm"}
RowIds   == 1 .. Rows
AgentIds == 1 .. Agents

ASSUME RewardAssumption ==
    /\ {Rows, Agents, Second, MaxConcurrent, PoolSize, Timeout} \subseteq Nat \ {0}
    /\ Rows % Agents = 0      \* DataProto.chunk asserts it
    /\ Cost \in [Limiters -> Nat]
    /\ GenTimes \subseteq Nat /\ Lag \in Nat

VARIABLES
    now,
    async,     \* whether the scoring function is a coroutine
    pc, wake,  \* where each row is, and the time it waits for there
    reserved,  \* rows asleep with their tokens already taken
    worker,    \* the reward loop worker of each row
    result,    \* how its scoring ended
    bucket,    \* [worker -> [limiter -> tokens and time of the last update]]
    queue,     \* waiters of each worker's semaphore
    permits,
    pool,      \* tasks submitted to each worker's executor and not started
    threads,   \* rows whose scoring occupies a thread, abandoned ones included
    agent,     \* what each agent loop worker has answered
    batch,     \* what generate_sequences of the manager has answered
    calls,     \* scoring calls made by each worker so far (history)
    grants     \* times of the requests each bucket let through (history)

row     == <<pc, wake, reserved, worker, result>>
limits  == <<bucket, grants>>
slots   == <<queue, permits>>
exec    == <<pool, threads, calls>>
answers == <<agent, batch>>
vars    == <<now, async, row, limits, slots, exec, answers>>

RowsOf(a) == {r \in RowIds : (r - 1) \div (Rows \div Agents) = a - 1}

TypeOK ==
  /\ now \in Nat /\ async \in BOOLEAN
  /\ pc \in [RowIds -> {"generating", "decode", "queued", "scoring", "scored"} \cup Limiters]
  /\ wake \in [RowIds -> Nat] /\ reserved \subseteq RowIds
  /\ worker \in [RowIds -> Workers \cup {None}]
  /\ result \in [RowIds -> {"score", "error", "timeout", None}]
  /\ bucket \in [Workers -> [Limiters -> [tokens : Int, last : Nat]]]
  /\ queue \in [Workers -> Seq(RowIds)] /\ pool \in [Workers -> Seq(RowIds)]
  /\ permits \in [Workers -> 0 .. MaxConcurrent]
  /\ threads \in [Workers -> SUBSET RowIds] /\ calls \in [Workers -> Nat]
  /\ agent \in [AgentIds -> {"running", "returned", "raised"}]
  /\ batch \in {"generating", "returned", "raised"}
  /\ grants \in [Workers -> [Limiters -> Seq(Nat)]]

Init ==
  /\ now = 0 /\ async \in BOOLEAN
  /\ pc = [r \in RowIds |-> "generating"]
  /\ wake \in [RowIds -> GenTimes]
  /\ reserved = {}
  /\ worker = [r \in RowIds |-> None] /\ result = [r \in RowIds |-> None]
  /\ bucket = [w \in Workers |-> [k \in Limiters |-> [tokens |-> Second, last |-> 0]]]
  /\ queue = [w \in Workers |-> <<>>] /\ pool = [w \in Workers |-> <<>>]
  /\ permits = [w \in Workers |-> MaxConcurrent]
  /\ threads = [w \in Workers |-> {}] /\ calls = [w \in Workers |-> 0]
  /\ agent = [a \in AgentIds |-> "running"] /\ batch = "generating"
  /\ grants = [w \in Workers |-> [k \in Limiters |-> <<>>]]

-----------------------------------------------------------------------------
(* The agent loop: a row is generated and handed to a reward loop worker,   *)
(* which first decodes its tokens in the worker's thread pool.             *)

Generated(r) ==
  /\ pc[r] = "generating" /\ now >= wake[r]
  /\ \E w \in Workers :
       /\ worker' = [worker EXCEPT ![r] = w]
       /\ pool' = [pool EXCEPT ![w] = Append(@, r)]
  /\ pc' = [pc EXCEPT ![r] = "decode"]
  /\ UNCHANGED <<now, async, wake, reserved, result, limits, slots, threads, calls, answers>>

FreeThread(w) == Cardinality(threads[w]) < PoolSize
NextTask(w)   == pool[w] # <<>> /\ FreeThread(w)

Decoded(w) ==
  /\ NextTask(w) /\ pc[Head(pool[w])] = "decode"
  /\ pc' = [pc EXCEPT ![Head(pool[w])] = "rpm"]
  /\ pool' = [pool EXCEPT ![w] = Tail(@)]
  /\ UNCHANGED <<now, async, wake, reserved, worker, result, limits, slots, threads, calls, answers>>

-----------------------------------------------------------------------------
(* The limiters.                                                            *)

Lesser(a, b) == IF a < b THEN a ELSE b
\* The refill forgets the capacity.
RefilledWithoutCap(b) == b.tokens + (now - b.last)
Refilled(b) == Lesser(Second, b.tokens + (now - b.last))

\* The debt of a large request is forgotten while it sleeps.
PassWithoutDebt(b, cost) ==
  LET tokens == Refilled(b) IN
  IF cost > Second
  THEN [left |-> 0, taken |-> TRUE, sleep |-> IF cost > tokens THEN cost - tokens ELSE 0]
  ELSE IF tokens >= cost
       THEN [left |-> tokens - cost, taken |-> TRUE, sleep |-> 0]
       ELSE [left |-> tokens, taken |-> FALSE, sleep |-> cost - tokens]

\* AsyncTokenBucket.acquire, one pass under its lock: the tokens left, whether
\* they were taken, and for how long to sleep.  A request above the capacity
\* takes its tokens at once and sleeps off the debt; any other tries again.
Pass(b, cost) ==
  LET tokens == Refilled(b) IN
  IF cost > Second
  THEN [left |-> tokens - cost, taken |-> TRUE,
        sleep |-> IF cost > tokens THEN cost - tokens ELSE 0]
  ELSE IF tokens >= cost
       THEN [left |-> tokens - cost, taken |-> TRUE, sleep |-> 0]
       ELSE [left |-> tokens, taken |-> FALSE, sleep |-> cost - tokens]

\* The row has its tokens: on to the other bucket or to the semaphore.
Granted(r, k) ==
  /\ grants' = [grants EXCEPT ![worker[r]][k] = Append(@, now)]
  /\ pc' = [pc EXCEPT ![r] = IF k = "rpm" THEN "tpm" ELSE "queued"]
  /\ queue' = IF k = "rpm" THEN queue ELSE [queue EXCEPT ![worker[r]] = Append(@, r)]

Acquire(r, k) ==
  /\ pc[r] = k /\ r \notin reserved /\ now >= wake[r]
  /\ LET pass == Pass(bucket[worker[r]][k], Cost[k]) IN
       /\ bucket' = [bucket EXCEPT ![worker[r]][k] = [tokens |-> pass.left, last |-> now]]
       /\ IF pass.sleep = 0
          THEN Granted(r, k) /\ UNCHANGED <<wake, reserved>>
          ELSE /\ wake' = [wake EXCEPT ![r] = now + pass.sleep]
               /\ reserved' = IF pass.taken THEN reserved \cup {r} ELSE reserved
               /\ UNCHANGED <<grants, pc, queue>>
  /\ UNCHANGED <<now, async, worker, result, permits, exec, answers>>

\* The large request wakes up and returns.
DebtPaid(r, k) ==
  /\ pc[r] = k /\ r \in reserved /\ now >= wake[r]
  /\ reserved' = reserved \ {r}
  /\ Granted(r, k)
  /\ UNCHANGED <<now, async, wake, worker, result, bucket, permits, exec, answers>>

-----------------------------------------------------------------------------
(* Scoring under the semaphore and wait_for.                                *)

\* Every request has a semaphore of its own.
MayStartAlways(w) == queue[w] # <<>>
MayStart(w) == queue[w] # <<>> /\ permits[w] > 0

StartScoring(w) ==
  /\ MayStart(w)
  /\ LET r == Head(queue[w]) IN
       /\ pc' = [pc EXCEPT ![r] = "scoring"]
       /\ wake' = [wake EXCEPT ![r] = now + Timeout]
       /\ IF async
          THEN calls' = [calls EXCEPT ![w] = @ + 1] /\ UNCHANGED pool
          ELSE pool' = [pool EXCEPT ![w] = Append(@, r)] /\ UNCHANGED calls
  /\ queue' = [queue EXCEPT ![w] = Tail(@)]
  /\ permits' = [permits EXCEPT ![w] = @ - 1]
  /\ UNCHANGED <<now, async, reserved, worker, result, limits, threads, answers>>

\* A thread takes up a synchronous scoring function.
ThreadStarts(w) ==
  /\ NextTask(w) /\ pc[Head(pool[w])] = "scoring"
  /\ threads' = [threads EXCEPT ![w] = @ \cup {Head(pool[w])}]
  /\ pool' = [pool EXCEPT ![w] = Tail(@)]
  /\ calls' = [calls EXCEPT ![w] = @ + 1]
  /\ UNCHANGED <<now, async, row, limits, slots, answers>>

\* The permit of a row that timed out is not given back.
ReleaseUnlessLate(r, how) ==
  /\ pc' = [pc EXCEPT ![r] = "scored"]
  /\ result' = [result EXCEPT ![r] = how]
  /\ permits' = IF how = "timeout" THEN permits ELSE [permits EXCEPT ![worker[r]] = @ + 1]

\* run_single returns: the semaphore is released on every path, while the
\* thread of a row that timed out still scores.
Release(r, how) ==
  /\ pc' = [pc EXCEPT ![r] = "scored"]
  /\ result' = [result EXCEPT ![r] = how]
  /\ permits' = [permits EXCEPT ![worker[r]] = @ + 1]

ScoreReturns(r) ==
  /\ pc[r] = "scoring" /\ (async \/ r \in threads[worker[r]])
  /\ \E how \in {"score", "error"} : Release(r, how)
  /\ threads' = [threads EXCEPT ![worker[r]] = @ \ {r}]
  /\ UNCHANGED <<now, async, wake, reserved, worker, limits, queue, pool, calls, answers>>

\* A task cancelled before a thread took it up.
Place(q, r)   == CHOOSE i \in 1 .. Len(q) : q[i] = r
Without(q, r) ==
  IF \E i \in 1 .. Len(q) : q[i] = r
  THEN SubSeq(q, 1, Place(q, r) - 1) \o SubSeq(q, Place(q, r) + 1, Len(q))
  ELSE q

\* Only the thread is waited for with a timeout.
TimesOutOfThread(r) ==
  /\ ~async /\ pc[r] = "scoring" /\ now >= wake[r]
  /\ Release(r, "timeout")
  /\ pool' = [pool EXCEPT ![worker[r]] = Without(@, r)]
  /\ UNCHANGED <<now, async, wake, reserved, worker, limits, queue, threads, calls, answers>>

\* wait_for cancels a coroutine, and a task no thread has started; a thread
\* that runs the scoring function goes on.
TimesOut(r) ==
  /\ pc[r] = "scoring" /\ now >= wake[r]
  /\ Release(r, "timeout")
  /\ pool' = [pool EXCEPT ![worker[r]] = Without(@, r)]
  /\ UNCHANGED <<now, async, wake, reserved, worker, limits, queue, threads, calls, answers>>

ThreadEnds(r) ==
  /\ pc[r] = "scored" /\ r \in threads[worker[r]]
  /\ threads' = [threads EXCEPT ![worker[r]] = @ \ {r}]
  /\ UNCHANGED <<now, async, row, limits, slots, pool, calls, answers>>

-----------------------------------------------------------------------------
(* The gathers.                                                             *)

InfoKeys(r) ==
  IF result[r] = "score" THEN ScoreKeys ELSE {result[r], "acc"}
FirstOf(a) == CHOOSE r \in RowsOf(a) : \A s \in RowsOf(a) : r <= s
KeysOf(a)  == InfoKeys(FirstOf(a))

\* _postprocess builds one column per key of the first row's reward info, and
\* raises a KeyError when another row does not have it.
AgentAnswers(a) ==
  /\ agent[a] = "running" /\ \A r \in RowsOf(a) : pc[r] = "scored"
  /\ agent' = [agent EXCEPT ![a] =
       IF \A r \in RowsOf(a) : KeysOf(a) \subseteq InfoKeys(r) THEN "returned" ELSE "raised"]
  /\ UNCHANGED <<now, async, row, limits, slots, exec, batch>>

\* The manager's gather raises with the first worker that does; concat needs
\* the same columns from every worker.
BatchAnswers ==
  /\ batch = "generating"
  /\ \/ /\ \E a \in AgentIds : agent[a] = "raised"
        /\ batch' = "raised"
     \/ /\ \A a \in AgentIds : agent[a] = "returned"
        /\ batch' = IF \A a \in AgentIds : KeysOf(a) = KeysOf(1) THEN "returned" ELSE "raised"
  /\ UNCHANGED <<now, async, row, limits, slots, exec, agent>>

-----------------------------------------------------------------------------
(* Time passes while something waits for it, and nothing that can run is    *)
(* kept waiting for more than Lag.                                          *)

Timed(r)   == pc[r] \in {"generating", "scoring"} \cup Limiters
Ready(r)   == pc[r] \in Limiters /\ r \notin reserved /\ now >= wake[r]
Tick ==
  /\ \E r \in RowIds : Timed(r)
  /\ \A r \in RowIds : /\ ~Ready(r)
                       /\ Timed(r) => now < wake[r] + Lag
  /\ \A w \in Workers : ~NextTask(w) /\ ~MayStart(w)
  /\ now' = now + 1
  /\ UNCHANGED <<async, row, limits, slots, exec, answers>>

Answered == batch # "generating" /\ (\A r \in RowIds : pc[r] = "scored") /\ UNCHANGED vars

Next ==
  \/ \E r \in RowIds :
       \/ Generated(r) \/ ScoreReturns(r) \/ TimesOut(r) \/ ThreadEnds(r)
       \/ \E k \in Limiters : Acquire(r, k) \/ DebtPaid(r, k)
  \/ \E w \in Workers : Decoded(w) \/ StartScoring(w) \/ ThreadStarts(w)
  \/ \E a \in AgentIds : AgentAnswers(a)
  \/ BatchAnswers \/ Tick \/ Answered

\* The event loops run; nothing is assumed of the scoring function.
Fairness ==
  /\ WF_vars(Tick) /\ WF_vars(BatchAnswers)
  /\ \A r \in RowIds :
       /\ WF_vars(Generated(r)) /\ WF_vars(TimesOut(r))
       /\ \A k \in Limiters : WF_vars(Acquire(r, k)) /\ WF_vars(DebtPaid(r, k))
  /\ \A w \in Workers : WF_vars(Decoded(w)) /\ WF_vars(StartScoring(w)) /\ WF_vars(ThreadStarts(w))
  /\ \A a \in AgentIds : WF_vars(AgentAnswers(a))

Spec == Init /\ [][Next]_vars /\ Fairness

-----------------------------------------------------------------------------
(* Properties.                                                              *)

\* The rows between acquire and release of a worker's semaphore, and the ones
\* whose scoring function runs, with a request to the judge open: a coroutine
\* runs while its row holds a permit, a thread until the function returns.
Holding(w) == {r \in RowIds : worker[r] = w /\ pc[r] = "scoring"}
Running(w) == IF async THEN Holding(w) ELSE threads[w]

\* The quota (both limiters): from the start on, a reward worker has never
\* made more scoring calls than its buckets hold and have been refilled with,
\* however long rows wait between the bucket and the call.
RateBound ==
  \A w \in Workers, k \in Limiters : calls[w] * Cost[k] <= Second + now

\* The burst: a bucket lets no more through in any interval than it holds and
\* gains in it, and at most one request (and its oversleeping) more when the
\* requests are larger than the bucket; an idle time is not saved up.
BurstBound ==
  \A w \in Workers, k \in Limiters :
    LET times == grants[w][k]
        slack == IF Cost[k] > Second THEN Cost[k] + Lag ELSE Second
    IN \A i, j \in 1 .. Len(times) :
         i <= j => (j - i + 1) * Cost[k] <= slack + (times[j] - times[i])

\* The semaphore neither loses nor gains a permit, whatever mix of scores,
\* errors and timeouts has passed through it: max_concurrent permits, each
\* free or held by one row.  A row that timed out holds none.
PermitsExact ==
  \A w \in Workers :
    /\ Cardinality(Holding(w)) <= MaxConcurrent
    /\ permits[w] = MaxConcurrent - Cardinality(Holding(w))

\* What the permits bound: of the scoring functions that run on a worker at a
\* time, all but max_concurrent belong to rows that have timed out.  Without a
\* timeout, and with a coroutine, no more than max_concurrent run.
ExcessIsLate ==
  \A w \in Workers :
    Cardinality({r \in Running(w) : result[r] # "timeout"}) <= MaxConcurrent

\* limited.py:182-184: max_concurrent "Limits the number of simultaneous API
\* requests".  A timeout gives the permit back and leaves the thread of a
\* synchronous function with its request, beside those that start after it.
MaxConcurrentRequests ==
  \A w \in Workers : Cardinality(Running(w)) <= MaxConcurrent

\* generate_sequences answers even if the judge never does: with a coroutine
\* always, with a synchronous function if its threads end.
BatchAnswered ==
  (async \/ \A w \in Workers : []<>(threads[w] = {})) => <>(batch # "generating")

\* limited.py:195-197: "All rate limiters are global class-level resources ...
\* rate limits are enforced consistently across multiple workers".  The class
\* is in every worker's process.
GlobalRate ==
  \A k \in Limiters :
    LET total[W \in SUBSET Workers] ==
          IF W = {} THEN 0
          ELSE LET w == CHOOSE w \in W : TRUE IN calls[w] + total[W \ {w}]
    IN total[Workers] * Cost[k] <= Second + now
=============================================================================

---------------------------- MODULE RewardProofs ----------------------------
(***************************************************************************)
(* The rate limited reward manager, for every number of rows, workers,     *)
(* permits and threads, every cost and every timeout: the semaphore keeps  *)
(* its permits, and the scoring calls stay within the quota, at every      *)
(* moment and in every interval of time.                                   *)
(***************************************************************************)
EXTENDS RewardLoop, FiniteSetTheorems, SequenceTheorems, TLAPS

Places == {"generating", "decode", "queued", "scoring", "scored"} \cup Limiters

Types ==
  /\ now \in Nat /\ async \in BOOLEAN
  /\ pc \in [RowIds -> Places] /\ wake \in [RowIds -> Nat] /\ reserved \subseteq RowIds
  /\ worker \in [RowIds -> Workers \cup {None}]
  /\ bucket \in [Workers -> [Limiters -> [tokens : Int, last : Nat]]]
  /\ queue \in [Workers -> Seq(RowIds)] /\ pool \in [Workers -> Seq(RowIds)]
  /\ permits \in [Workers -> Int]
  /\ threads \in [Workers -> SUBSET RowIds] /\ calls \in [Workers -> Nat]

\* A row past its generation has a worker; tokens are reserved in a bucket.
Placed ==
  /\ \A r \in RowIds : pc[r] # "generating" => worker[r] \in Workers
  /\ \A r \in reserved : pc[r] \in Limiters

\* A sequence of different rows.
Distinct(q) == \A i, j \in 1 .. Len(q) : q[i] = q[j] => i = j
Holds(q, r) == \E i \in 1 .. Len(q) : q[i] = r

\* The semaphore's waiters are the rows that wait for it.
Queued ==
  \A w \in Workers :
    /\ Distinct(queue[w])
    /\ \A r \in RowIds : Holds(queue[w], r) => worker[r] = w /\ pc[r] = "queued"

\* A task of the executor decodes, or scores in a thread to come.
PooledAt(w, r) ==
  Holds(pool[w], r) =>
    /\ worker[r] = w /\ r \notin threads[w]
    /\ pc[r] = "decode" \/ (pc[r] = "scoring" /\ ~async)
Pooled == \A w \in Workers : Distinct(pool[w]) /\ \A r \in RowIds : PooledAt(w, r)

Threaded ==
  \A w \in Workers : \A r \in threads[w] : worker[r] = w /\ pc[r] \in {"scoring", "scored"}

Located == Types /\ Placed /\ Queued /\ Pooled /\ Threaded

-----------------------------------------------------------------------------
(* Queues of rows. *)

LEMMA TailHolds ==
  ASSUME NEW S, NEW q \in Seq(S), q # <<>>, Distinct(q)
  PROVE  /\ Tail(q) \in Seq(S) /\ Distinct(Tail(q)) /\ Head(q) \in S /\ Holds(q, Head(q))
         /\ \A r \in S : Holds(Tail(q), r) => Holds(q, r) /\ r # Head(q)
<1> DEFINE t == Tail(q)
<1>1. /\ t \in Seq(S) /\ Len(q) \in Nat /\ Len(q) >= 1 /\ Len(t) = Len(q) - 1
      /\ Head(q) = q[1] /\ Head(q) \in S
      /\ \A i \in 1 .. Len(t) : t[i] = q[i + 1]
  OBVIOUS
<1> HIDE DEF t
<1>2. 1 \in 1 .. Len(q)
  BY <1>1
<1>3. ASSUME NEW i \in 1 .. Len(t)
      PROVE  i + 1 \in 1 .. Len(q) /\ t[i] = q[i + 1] /\ i + 1 # 1
  BY <1>1
<1>4. ASSUME NEW i \in 1 .. Len(t), NEW j \in 1 .. Len(t), t[i] = t[j] PROVE i = j
  <2>1. i + 1 = j + 1
    BY <1>3, <1>4 DEF Distinct
  <2> QED
    BY <2>1
<1>5. ASSUME NEW r \in S, Holds(t, r) PROVE Holds(q, r) /\ r # Head(q)
  <2>1. PICK i \in 1 .. Len(t) : t[i] = r
    BY <1>5 DEF Holds
  <2>2. i + 1 \in 1 .. Len(q) /\ q[i + 1] = r /\ i + 1 # 1
    BY <1>3, <2>1
  <2> QED
    BY <1>1, <1>2, <2>2 DEF Distinct, Holds
<1> QED
  BY <1>1, <1>2, <1>4, <1>5 DEF t, Distinct, Holds

LEMMA AppendHolds ==
  ASSUME NEW S, NEW q \in Seq(S), NEW r \in S, Distinct(q), ~Holds(q, r)
  PROVE  /\ Append(q, r) \in Seq(S) /\ Distinct(Append(q, r))
         /\ \A s \in S : Holds(Append(q, r), s) => Holds(q, s) \/ s = r
<1> DEFINE a == Append(q, r)
<1>1. /\ a \in Seq(S) /\ Len(q) \in Nat /\ Len(a) = Len(q) + 1
      /\ a[Len(q) + 1] = r /\ \A i \in 1 .. Len(q) : a[i] = q[i]
  OBVIOUS
<1> HIDE DEF a
<1>2. ASSUME NEW i \in 1 .. Len(a)
      PROVE  (i \in 1 .. Len(q) /\ a[i] = q[i] /\ a[i] # r) \/ (i = Len(q) + 1 /\ a[i] = r)
  <2>1. i \in 1 .. Len(q) \/ i = Len(q) + 1
    BY <1>1
  <2> QED
    BY <1>1, <2>1 DEF Holds
<1>3. ASSUME NEW i \in 1 .. Len(a), NEW j \in 1 .. Len(a), a[i] = a[j] PROVE i = j
  BY <1>2, <1>3 DEF Distinct
<1> QED
  BY <1>1, <1>2, <1>3 DEF a, Distinct, Holds

LEMMA WithoutHolds ==
  ASSUME NEW S, NEW q \in Seq(S), NEW r \in S, Distinct(q)
  PROVE  /\ Without(q, r) \in Seq(S) /\ Distinct(Without(q, r))
         /\ \A s \in S : Holds(Without(q, r), s) => Holds(q, s) /\ s # r
<1>1. CASE ~Holds(q, r)
  <2>1. Without(q, r) = q
    BY <1>1 DEF Without, Holds
  <2> QED
    BY <1>1, <2>1
<1>2. CASE Holds(q, r)
  <2> DEFINE p == Place(q, r)
             w == SubSeq(q, 1, p - 1) \o SubSeq(q, p + 1, Len(q))
  <2>1. p \in 1 .. Len(q) /\ q[p] = r
    BY <1>2 DEF Place, Holds
  <2>2. Without(q, r) = w
    BY <1>2 DEF Without, Holds
  <2> HIDE DEF p
  <2>3. Len(q) \in Nat /\ p \in Nat /\ 1 <= p /\ p <= Len(q)
    BY <2>1
  <2>4. /\ SubSeq(q, 1, p - 1) \in Seq(S) /\ Len(SubSeq(q, 1, p - 1)) = p - 1
        /\ \A i \in 1 .. p - 1 : SubSeq(q, 1, p - 1)[i] = q[i]
    BY <2>3
  <2>5. /\ SubSeq(q, p + 1, Len(q)) \in Seq(S) /\ Len(SubSeq(q, p + 1, Len(q))) = Len(q) - p
        /\ \A i \in 1 .. Len(q) - p : SubSeq(q, p + 1, Len(q))[i] = q[p + i]
    BY <2>3
  <2> DEFINE u == SubSeq(q, 1, p - 1)
             v == SubSeq(q, p + 1, Len(q))
  <2> HIDE DEF u, v, w
  <2>6. /\ w \in Seq(S) /\ Len(w) = Len(q) - 1
        /\ \A i \in 1 .. Len(w) : w[i] = IF i < p THEN q[i] ELSE q[i + 1]
    <3>1. /\ u \in Seq(S) /\ v \in Seq(S) /\ Len(u) = p - 1 /\ Len(v) = Len(q) - p /\ w = u \o v
      BY <2>4, <2>5 DEF u, v, w
    <3>2. /\ w \in Seq(S) /\ Len(w) = Len(u) + Len(v)
          /\ \A i \in 1 .. Len(u) + Len(v) : w[i] = IF i <= Len(u) THEN u[i] ELSE v[i - Len(u)]
      BY <3>1, ConcatProperties
    <3>3. \A i \in 1 .. Len(u) + Len(v) : w[i] = IF i <= Len(u) THEN u[i] ELSE v[i - Len(u)]
      BY <3>2
    <3>4. ASSUME NEW i \in 1 .. Len(w) PROVE w[i] = IF i < p THEN q[i] ELSE q[i + 1]
      <4>1. i \in Nat /\ 1 <= i /\ i <= Len(q) - 1 /\ i \in 1 .. Len(u) + Len(v)
        BY <2>3, <3>1, <3>2
      <4>2. CASE i < p
        <5>1. i <= Len(u) /\ i \in 1 .. p - 1
          BY <2>3, <3>1, <4>1, <4>2
        <5>2. w[i] = u[i] /\ u[i] = q[i]
          BY <2>4, <3>3, <4>1, <5>1 DEF u
        <5> QED
          BY <4>2, <5>2
      <4>3. CASE ~(i < p)
        <5>1. ~(i <= Len(u)) /\ i - Len(u) = i - p + 1 /\ i - p + 1 \in 1 .. Len(q) - p
              /\ p + (i - p + 1) = i + 1
          BY <2>3, <3>1, <4>1, <4>3
        <5>2. w[i] = v[i - p + 1] /\ v[i - p + 1] = q[p + (i - p + 1)]
          BY <2>5, <3>3, <4>1, <5>1 DEF v
        <5> QED
          BY <4>3, <5>1, <5>2
      <4> QED
        BY <4>2, <4>3
    <3> QED
      BY <2>3, <3>1, <3>2, <3>4
  <2> DEFINE o(i) == IF i < p THEN i ELSE i + 1
  <2>7. ASSUME NEW i \in 1 .. Len(w)
        PROVE  o(i) \in 1 .. Len(q) /\ o(i) # p /\ w[i] = q[o(i)]
    BY <2>3, <2>6
  <2>8. ASSUME NEW i \in 1 .. Len(w), NEW j \in 1 .. Len(w), w[i] = w[j] PROVE i = j
    <3>1. o(i) = o(j)
      BY <2>7, <2>8 DEF Distinct
    <3> QED
      BY <2>3, <2>6, <3>1
  <2>9. ASSUME NEW s \in S, Holds(w, s) PROVE Holds(q, s) /\ s # r
    <3>1. PICK i \in 1 .. Len(w) : w[i] = s
      BY <2>9 DEF Holds
    <3>2. o(i) \in 1 .. Len(q) /\ o(i) # p /\ q[o(i)] = s
      BY <2>7, <3>1
    <3> QED
      BY <2>1, <3>2 DEF Distinct, Holds
  <2> QED
    BY <2>2, <2>6, <2>8, <2>9 DEF Distinct
<1> QED
  BY <1>1, <1>2
-----------------------------------------------------------------------------
(* Where the rows are. *)

LEMMA Constants ==
  /\ Second \in Nat \ {0} /\ MaxConcurrent \in Nat /\ Timeout \in Nat /\ Rows \in Nat
  /\ GenTimes \subseteq Nat /\ \A k \in Limiters : Cost[k] \in Nat
BY RewardAssumption

LEMMA LocatedInit == Init => Located
<1> SUFFICES ASSUME Init PROVE Located
  OBVIOUS
<1>1. Types
  <2>1. now \in Nat /\ async \in BOOLEAN /\ reserved \subseteq RowIds /\ calls \in [Workers -> Nat]
    BY DEF Init
  <2>2. wake \in [RowIds -> Nat]
    BY Constants DEF Init
  <2>3. bucket \in [Workers -> [Limiters -> [tokens : Int, last : Nat]]]
    BY Constants DEF Init
  <2>4. pc \in [RowIds -> Places] /\ worker \in [RowIds -> Workers \cup {None}]
    BY DEF Init, Places
  <2>5. queue \in [Workers -> Seq(RowIds)] /\ pool \in [Workers -> Seq(RowIds)]
    BY DEF Init
  <2>6. permits \in [Workers -> Int] /\ threads \in [Workers -> SUBSET RowIds]
    BY Constants DEF Init
  <2> QED
    BY <2>1, <2>2, <2>3, <2>4, <2>5, <2>6 DEF Types
<1>2. Placed /\ Threaded
  BY DEF Init, Placed, Threaded
<1>3. ASSUME NEW w \in Workers
      PROVE  queue[w] = <<>> /\ pool[w] = <<>> /\ Distinct(<<>>) /\ \A r \in RowIds : ~Holds(<<>>, r)
  BY DEF Init, Distinct, Holds
<1>4. Queued /\ Pooled
  BY <1>3 DEF Queued, Pooled, PooledAt
<1> QED
  BY <1>1, <1>2, <1>4 DEF Located

LEMMA LocatedGenerated ==
  ASSUME Located, NEW r \in RowIds, Generated(r) PROVE Located'
<1> USE DEF Located
<1>1. PICK w \in Workers : worker' = [worker EXCEPT ![r] = w] /\ pool' = [pool EXCEPT ![w] = Append(@, r)]
  BY DEF Generated
<1>2. /\ pc[r] = "generating" /\ pc' = [pc EXCEPT ![r] = "decode"] /\ r \notin reserved
      /\ UNCHANGED <<now, async, wake, reserved, result, limits, slots, threads, calls>>
  BY DEF Generated, Placed, Limiters
<1> USE DEF limits, slots
<1>3. ASSUME NEW v \in Workers
      PROVE  ~Holds(pool[v], r) /\ ~Holds(queue[v], r) /\ r \notin threads[v]
  BY <1>2 DEF Queued, Pooled, PooledAt, Threaded
<1>4. /\ Append(pool[w], r) \in Seq(RowIds) /\ Distinct(Append(pool[w], r))
      /\ \A s \in RowIds : Holds(Append(pool[w], r), s) => Holds(pool[w], s) \/ s = r
  <2>1. pool[w] \in Seq(RowIds) /\ Distinct(pool[w]) /\ ~Holds(pool[w], r)
    BY <1>3 DEF Types, Pooled, PooledAt
  <2> QED
    BY <2>1, AppendHolds
<1>5. Types'
  BY <1>1, <1>2, <1>4 DEF Types, Places
<1>6. Placed'
  BY <1>1, <1>2 DEF Types, Placed
<1>7. Queued'
  BY <1>1, <1>2, <1>3 DEF Types, Queued
<1>8. Pooled'
  <2> SUFFICES ASSUME NEW v \in Workers, NEW s \in RowIds
               PROVE  Distinct(pool'[v]) /\ PooledAt(v, s)'
    BY DEF Pooled
  <2>1. CASE v = w
    BY <1>1, <1>2, <1>3, <1>4, <2>1 DEF Types, Pooled, PooledAt
  <2>2. CASE v # w
    BY <1>1, <1>2, <1>3, <2>2 DEF Types, Pooled, PooledAt
  <2> QED
    BY <2>1, <2>2
<1>9. Threaded'
  BY <1>1, <1>2, <1>3 DEF Types, Threaded
<1> QED
  BY <1>5, <1>6, <1>7, <1>8, <1>9

LEMMA LocatedDecoded ==
  ASSUME Located, NEW w \in Workers, Decoded(w)
  PROVE  /\ Located' /\ Head(pool[w]) \in RowIds
         /\ pc[Head(pool[w])] = "decode" /\ pc' = [pc EXCEPT ![Head(pool[w])] = "rpm"]
<1> DEFINE r == Head(pool[w])
<1> USE DEF Located
<1>1. /\ Tail(pool[w]) \in Seq(RowIds) /\ Distinct(Tail(pool[w])) /\ r \in RowIds /\ Holds(pool[w], r)
      /\ \A s \in RowIds : Holds(Tail(pool[w]), s) => Holds(pool[w], s) /\ s # r
  <2>1. pool[w] \in Seq(RowIds) /\ Distinct(pool[w]) /\ pool[w] # <<>>
    BY DEF Types, Pooled, Decoded, ThreadStarts, NextTask
  <2> QED
    BY <2>1, TailHolds
<1> HIDE DEF r
<1>2. /\ pc[r] = "decode" /\ pc' = [pc EXCEPT ![r] = "rpm"] /\ pool' = [pool EXCEPT ![w] = Tail(@)]
      /\ UNCHANGED <<now, async, wake, reserved, worker, threads, calls>>
      /\ bucket' = bucket /\ queue' = queue /\ permits' = permits
  BY DEF Decoded, limits, slots, r
<1>3. worker[r] = w /\ r \notin threads[w] /\ r \notin reserved /\ (pc[r] = "scoring" => ~async)
  BY <1>1, <1>2 DEF Pooled, PooledAt, Placed, Limiters
<1>4. Types'
  BY <1>1, <1>2 DEF Types, Places, Limiters
<1>5. Placed'
  BY <1>1, <1>2, <1>3 DEF Types, Placed
<1>6. Queued'
  BY <1>1, <1>2 DEF Types, Queued
<1>7. Pooled'
  <2> SUFFICES ASSUME NEW v \in Workers, NEW s \in RowIds
               PROVE  Distinct(pool'[v]) /\ PooledAt(v, s)'
    BY <1>1 DEF Pooled
  <2>1. CASE v = w
    BY <1>1, <1>2, <2>1 DEF Types, Pooled, PooledAt
  <2>2. CASE v # w
    BY <1>1, <1>2, <1>3, <2>2 DEF Types, Pooled, PooledAt
  <2> QED
    BY <2>1, <2>2
<1>8. Threaded'
  BY <1>1, <1>2, <1>3 DEF Types, Threaded
<1> QED
  BY <1>1, <1>2, <1>4, <1>5, <1>6, <1>7, <1>8 DEF r

LEMMA LocatedThreadStarts ==
  ASSUME Located, NEW w \in Workers, ThreadStarts(w)
  PROVE  /\ Located' /\ Head(pool[w]) \in RowIds /\ worker[Head(pool[w])] = w
         /\ Head(pool[w]) \notin threads[w] /\ pc[Head(pool[w])] = "scoring" /\ ~async
<1> DEFINE r == Head(pool[w])
<1> USE DEF Located
<1>1. /\ Tail(pool[w]) \in Seq(RowIds) /\ Distinct(Tail(pool[w])) /\ r \in RowIds /\ Holds(pool[w], r)
      /\ \A s \in RowIds : Holds(Tail(pool[w]), s) => Holds(pool[w], s) /\ s # r
  <2>1. pool[w] \in Seq(RowIds) /\ Distinct(pool[w]) /\ pool[w] # <<>>
    BY DEF Types, Pooled, Decoded, ThreadStarts, NextTask
  <2> QED
    BY <2>1, TailHolds
<1> HIDE DEF r
<1>2. /\ pc[r] = "scoring" /\ pool' = [pool EXCEPT ![w] = Tail(@)]
      /\ threads' = [threads EXCEPT ![w] = @ \cup {r}] /\ calls' = [calls EXCEPT ![w] = @ + 1]
      /\ UNCHANGED <<now, async, pc, wake, reserved, worker>>
      /\ bucket' = bucket /\ queue' = queue /\ permits' = permits
  BY DEF ThreadStarts, row, limits, slots, r
<1>3. worker[r] = w /\ r \notin threads[w] /\ r \notin reserved /\ (pc[r] = "scoring" => ~async)
  BY <1>1, <1>2 DEF Pooled, PooledAt, Placed, Limiters
<1>4. Types'
  <2>1. pool' \in [Workers -> Seq(RowIds)]
    BY <1>1, <1>2 DEF Types
  <2>2. threads' \in [Workers -> SUBSET RowIds] /\ calls' \in [Workers -> Nat]
    BY <1>1, <1>2 DEF Types
  <2> QED
    BY <1>2, <2>1, <2>2 DEF Types
<1>5. Placed'
  BY <1>1, <1>2, <1>3 DEF Types, Placed
<1>6. Queued'
  BY <1>1, <1>2 DEF Types, Queued
<1>7. Pooled'
  <2> SUFFICES ASSUME NEW v \in Workers, NEW s \in RowIds
               PROVE  Distinct(pool'[v]) /\ PooledAt(v, s)'
    BY <1>1 DEF Pooled
  <2>1. CASE v = w
    BY <1>1, <1>2, <2>1 DEF Types, Pooled, PooledAt
  <2>2. CASE v # w
    BY <1>1, <1>2, <1>3, <2>2 DEF Types, Pooled, PooledAt
  <2> QED
    BY <2>1, <2>2
<1>8. Threaded'
  BY <1>1, <1>2, <1>3 DEF Types, Threaded
<1> QED
  BY <1>1, <1>2, <1>3, <1>4, <1>5, <1>6, <1>7, <1>8 DEF r
Buckets == [Workers -> [Limiters -> [tokens : Int, last : Nat]]]

LEMMA LocatedGranted ==
  ASSUME Located, NEW r \in RowIds, NEW k \in Limiters, pc[r] = k, Granted(r, k), bucket' \in Buckets,
         reserved' = reserved \ {r},
         UNCHANGED <<now, async, wake, worker, permits, pool, threads, calls>>
  PROVE  Located'
<1> USE DEF Located
<1> DEFINE w == worker[r]
<1>1. w \in Workers /\ pc[r] # "queued" /\ pc[r] # "decode" /\ pc[r] \notin {"scoring", "scored"}
  BY DEF Placed, Limiters
<1> HIDE DEF w
<1>2. \/ /\ k = "rpm" /\ pc' = [pc EXCEPT ![r] = "tpm"] /\ queue' = queue
      \/ /\ k = "tpm" /\ pc' = [pc EXCEPT ![r] = "queued"] /\ queue' = [queue EXCEPT ![w] = Append(@, r)]
  BY DEF Granted, Limiters, w
<1>3. /\ Append(queue[w], r) \in Seq(RowIds) /\ Distinct(Append(queue[w], r))
      /\ \A s \in RowIds : Holds(Append(queue[w], r), s) => Holds(queue[w], s) \/ s = r
  <2>1. queue[w] \in Seq(RowIds) /\ Distinct(queue[w]) /\ ~Holds(queue[w], r)
    BY <1>1 DEF Types, Queued
  <2> QED
    BY <2>1, AppendHolds
<1>4. Types'
  <2>1. pc' \in [RowIds -> Places]
    BY <1>2 DEF Types, Places, Limiters
  <2>2. queue' \in [Workers -> Seq(RowIds)]
    BY <1>2, <1>3 DEF Types
  <2> QED
    BY <2>1, <2>2 DEF Types, Buckets
<1>5. Placed'
  BY <1>1, <1>2 DEF Types, Placed, w
<1>6. Queued'
  <2> SUFFICES ASSUME NEW v \in Workers, NEW s \in RowIds
               PROVE  Distinct(queue'[v]) /\ (Holds(queue'[v], s) => worker'[s] = v /\ pc'[s] = "queued")
    BY DEF Queued
  <2>1. CASE k = "rpm"
    BY <1>1, <1>2, <2>1 DEF Types, Queued
  <2>2. CASE k = "tpm" /\ v = w
    <3>1. queue'[v] = Append(queue[w], r) /\ pc' = [pc EXCEPT ![r] = "queued"]
      BY <1>1, <1>2, <2>2 DEF Types
    <3>2. \A q \in RowIds : Holds(queue[w], q) => worker[q] = w /\ pc[q] = "queued"
      BY <1>1 DEF Queued
    <3> QED
      BY <1>1, <1>3, <2>2, <3>1, <3>2 DEF Types, w
  <2>3. CASE k = "tpm" /\ v # w
    BY <1>1, <1>2, <2>3 DEF Types, Queued
  <2> QED
    BY <2>1, <2>2, <2>3 DEF Limiters
<1>7. Pooled'
  <2>1. \A s \in RowIds : pc[s] \in {"decode", "scoring"} => pc'[s] = pc[s]
    BY <1>1, <1>2 DEF Types
  <2> QED
    BY <2>1 DEF Pooled, PooledAt
<1>8. Threaded'
  BY <1>1, <1>2 DEF Types, Threaded
<1> QED
  BY <1>4, <1>5, <1>6, <1>7, <1>8

LEMMA PassTypes ==
  ASSUME NEW b \in [tokens : Int, last : Nat], NEW c \in Nat, now \in Nat
  PROVE  /\ Pass(b, c).left \in Int /\ Pass(b, c).sleep \in Nat /\ Pass(b, c).taken \in BOOLEAN
         /\ Refilled(b) \in Int
BY Constants DEF Pass, Refilled, Lesser

LEMMA LocatedAcquire ==
  ASSUME Located, NEW r \in RowIds, NEW k \in Limiters, Acquire(r, k) PROVE Located'
<1> USE DEF Located
<1> DEFINE w == worker[r]
           p == Pass(bucket[w][k], Cost[k])
<1>1. w \in Workers /\ bucket[w][k] \in [tokens : Int, last : Nat] /\ pc[r] = k /\ r \notin reserved
  BY DEF Types, Placed, Limiters, Acquire
<1>2. p.left \in Int /\ p.sleep \in Nat
  BY <1>1, PassTypes, Constants DEF Types
<1>3. /\ bucket' = [bucket EXCEPT ![w][k] = [tokens |-> p.left, last |-> now]]
      /\ \/ Granted(r, k) /\ UNCHANGED <<wake, reserved>>
         \/ /\ wake' = [wake EXCEPT ![r] = now + p.sleep]
            /\ reserved' \in {reserved, reserved \cup {r}}
            /\ UNCHANGED <<pc, queue>>
      /\ UNCHANGED <<now, async, worker, permits, pool, threads, calls>>
  BY DEF Acquire, exec
<1> HIDE DEF w, p
<1>4. bucket' \in Buckets
  BY <1>1, <1>2, <1>3 DEF Types, Buckets
<1>5. CASE Granted(r, k) /\ UNCHANGED <<wake, reserved>>
  <2>1. reserved' = reserved \ {r}
    BY <1>1, <1>5
  <2> QED
    BY <1>1, <1>3, <1>4, <1>5, <2>1, LocatedGranted
<1>6. CASE /\ wake' = [wake EXCEPT ![r] = now + p.sleep]
           /\ reserved' \in {reserved, reserved \cup {r}}
           /\ UNCHANGED <<pc, queue>>
  <2>1. Types'
    <3>1. wake' \in [RowIds -> Nat]
      BY <1>2, <1>6 DEF Types
    <3> QED
      BY <1>3, <1>4, <1>6, <3>1 DEF Types, Buckets
  <2>2. Placed' /\ Queued' /\ Threaded'
    BY <1>1, <1>3, <1>6 DEF Placed, Queued, Threaded
  <2>3. Pooled'
    BY <1>3, <1>6 DEF Pooled, PooledAt
  <2> QED
    BY <2>1, <2>2, <2>3
<1> QED
  BY <1>3, <1>5, <1>6

LEMMA LocatedDebtPaid ==
  ASSUME Located, NEW r \in RowIds, NEW k \in Limiters, DebtPaid(r, k) PROVE Located'
BY LocatedGranted DEF DebtPaid, exec, Located, Types, Buckets

LEMMA LocatedStartScoring ==
  ASSUME Located, NEW w \in Workers, StartScoring(w)
  PROVE  /\ Located' /\ Head(queue[w]) \in RowIds /\ worker[Head(queue[w])] = w
         /\ pc[Head(queue[w])] = "queued" /\ Head(queue[w]) \notin threads[w]
         /\ Head(queue[w]) \notin reserved
<1> DEFINE r == Head(queue[w])
<1> USE DEF Located
<1>1. /\ Tail(queue[w]) \in Seq(RowIds) /\ Distinct(Tail(queue[w])) /\ r \in RowIds /\ Holds(queue[w], r)
      /\ \A s \in RowIds : Holds(Tail(queue[w]), s) => Holds(queue[w], s) /\ s # r
  <2>1. queue[w] \in Seq(RowIds) /\ Distinct(queue[w]) /\ queue[w] # <<>>
    BY DEF Types, Queued, StartScoring, MayStart
  <2> QED
    BY <2>1, TailHolds
<1> HIDE DEF r
<1>2. /\ pc' = [pc EXCEPT ![r] = "scoring"] /\ wake' = [wake EXCEPT ![r] = now + Timeout]
      /\ \/ async /\ calls' = [calls EXCEPT ![w] = @ + 1] /\ pool' = pool
         \/ ~async /\ pool' = [pool EXCEPT ![w] = Append(@, r)] /\ calls' = calls
      /\ queue' = [queue EXCEPT ![w] = Tail(@)] /\ permits' = [permits EXCEPT ![w] = @ - 1]
      /\ UNCHANGED <<now, async, reserved, worker, threads>> /\ bucket' = bucket
  BY DEF StartScoring, limits, r, Types
<1>3. worker[r] = w /\ pc[r] = "queued" /\ r \notin threads[w] /\ r \notin reserved
  BY <1>1 DEF Queued, Threaded, Placed, Limiters
<1>4. \A v \in Workers : ~Holds(pool[v], r)
  BY <1>1, <1>3 DEF Pooled, PooledAt
<1>5. /\ Append(pool[w], r) \in Seq(RowIds) /\ Distinct(Append(pool[w], r))
      /\ \A s \in RowIds : Holds(Append(pool[w], r), s) => Holds(pool[w], s) \/ s = r
  <2>1. pool[w] \in Seq(RowIds) /\ Distinct(pool[w]) /\ ~Holds(pool[w], r)
    BY <1>4 DEF Types, Pooled
  <2> QED
    BY <1>1, <2>1, AppendHolds
<1>6. Types'
  <2>1. wake' \in [RowIds -> Nat] /\ pc' \in [RowIds -> Places] /\ permits' \in [Workers -> Int]
    BY <1>1, <1>2, Constants DEF Types, Places
  <2>2. queue' \in [Workers -> Seq(RowIds)]
    BY <1>1, <1>2 DEF Types
  <2>3. pool' \in [Workers -> Seq(RowIds)]
    <3>1. pool \in [Workers -> Seq(RowIds)]
      BY DEF Types
    <3>2. pool' = pool \/ pool' = [pool EXCEPT ![w] = Append(@, r)]
      BY <1>2
    <3> QED
      BY <1>5, <3>1, <3>2
  <2>4. calls' \in [Workers -> Nat]
    <3>1. calls \in [Workers -> Nat]
      BY DEF Types
    <3>2. calls' = calls \/ calls' = [calls EXCEPT ![w] = @ + 1]
      BY <1>2
    <3> QED
      BY <3>1, <3>2
  <2> QED
    BY <1>2, <2>1, <2>2, <2>3, <2>4 DEF Types
<1>7. Placed'
  BY <1>1, <1>2, <1>3 DEF Types, Placed
<1>8. Queued'
  <2> SUFFICES ASSUME NEW v \in Workers, NEW s \in RowIds
               PROVE  Distinct(queue'[v]) /\ (Holds(queue'[v], s) => worker'[s] = v /\ pc'[s] = "queued")
    BY <1>1 DEF Queued
  <2>1. CASE v = w
    BY <1>1, <1>2, <2>1 DEF Types, Queued
  <2>2. CASE v # w
    BY <1>1, <1>2, <1>3, <2>2 DEF Types, Queued
  <2> QED
    BY <2>1, <2>2
<1>9. Pooled'
  <2> SUFFICES ASSUME NEW v \in Workers, NEW s \in RowIds
               PROVE  Distinct(pool'[v]) /\ PooledAt(v, s)'
    BY <1>1 DEF Pooled
  <2>1. CASE async \/ v # w
    BY <1>2, <1>4, <2>1 DEF Types, Pooled, PooledAt
  <2>2. CASE ~async /\ v = w
    <3>1. pool'[v] = Append(pool[w], r) /\ pc'[r] = "scoring" /\ ~async'
      BY <1>1, <1>2, <2>2 DEF Types
    <3>2. CASE s = r
      BY <1>2, <1>3, <1>5, <2>2, <3>1, <3>2 DEF PooledAt
    <3>3. CASE s # r
      <4>1. pc'[s] = pc[s] /\ PooledAt(w, s)
        BY <1>2, <3>3 DEF Types, Pooled
      <4> QED
        BY <1>2, <1>5, <2>2, <3>1, <3>3, <4>1 DEF PooledAt
    <3> QED
      BY <3>2, <3>3
  <2> QED
    BY <2>1, <2>2
<1>10. Threaded'
  BY <1>1, <1>2, <1>3 DEF Types, Threaded
<1> QED
  BY <1>1, <1>3, <1>6, <1>7, <1>8, <1>9, <1>10 DEF r
LEMMA LocatedReleased ==
  ASSUME Located, NEW r \in RowIds, pc[r] = "scoring", ScoreReturns(r) \/ TimesOut(r)
  PROVE  Located'
<1> USE DEF Located
<1> DEFINE w == worker[r]
<1>1. w \in Workers /\ r \notin reserved
  BY DEF Placed, Limiters
<1>2. /\ pc' = [pc EXCEPT ![r] = "scored"] /\ permits' = [permits EXCEPT ![w] = @ + 1]
      /\ \/ /\ async \/ r \in threads[w]
            /\ threads' = [threads EXCEPT ![w] = @ \ {r}] /\ pool' = pool
         \/ /\ pool' = [pool EXCEPT ![w] = Without(@, r)] /\ threads' = threads
      /\ UNCHANGED <<now, async, wake, reserved, worker, queue, calls>> /\ bucket' = bucket
  BY DEF ScoreReturns, TimesOut, Release, limits
<1>3. /\ Without(pool[w], r) \in Seq(RowIds) /\ Distinct(Without(pool[w], r))
      /\ \A s \in RowIds : Holds(Without(pool[w], r), s) => Holds(pool[w], s) /\ s # r
  <2>1. pool[w] \in Seq(RowIds) /\ Distinct(pool[w])
    BY <1>1 DEF Types, Pooled
  <2> QED
    BY <2>1, WithoutHolds
<1> HIDE DEF w
<1>4. Types'
  <2>1. permits' \in [Workers -> Int] /\ pc' \in [RowIds -> Places]
    BY <1>1, <1>2 DEF Types, Places
  <2>2. threads' \in [Workers -> SUBSET RowIds]
    BY <1>2 DEF Types
  <2>3. pool' \in [Workers -> Seq(RowIds)]
    BY <1>2, <1>3 DEF Types
  <2> QED
    BY <1>2, <2>1, <2>2, <2>3 DEF Types
<1>5. Placed'
  BY <1>1, <1>2 DEF Types, Placed, w
<1>6. Queued'
  BY <1>2 DEF Types, Queued
<1>7. Pooled'
  <2> SUFFICES ASSUME NEW v \in Workers
               PROVE  Distinct(pool'[v]) /\ \A s \in RowIds : PooledAt(v, s)'
    BY DEF Pooled
  <2>1. ASSUME NEW s \in RowIds, Holds(pool'[v], s) PROVE Holds(pool[v], s) /\ s # r
    <3>1. CASE pool' = pool /\ (async \/ r \in threads[w])
      <4>1. Holds(pool[v], s) /\ PooledAt(v, s)
        BY <2>1, <3>1 DEF Pooled
      <4>2. CASE s = r
        BY <4>1, <4>2, <3>1 DEF PooledAt, w
      <4> QED
        BY <4>1, <4>2
    <3>2. CASE pool' = [pool EXCEPT ![w] = Without(@, r)] /\ v = w
      BY <1>1, <1>3, <2>1, <3>2 DEF Types
    <3>3. CASE pool' = [pool EXCEPT ![w] = Without(@, r)] /\ v # w
      <4>1. Holds(pool[v], s) /\ PooledAt(v, s)
        BY <2>1, <3>3 DEF Types, Pooled
      <4> QED
        BY <3>3, <4>1 DEF PooledAt, w
    <3> QED
      BY <1>2, <3>1, <3>2, <3>3
  <2>2. Distinct(pool'[v])
    BY <1>1, <1>2, <1>3 DEF Types, Pooled
  <2>3. ASSUME NEW s \in RowIds, Holds(pool'[v], s) PROVE PooledAt(v, s)'
    <3>1. pc'[s] = pc[s] /\ threads'[v] \subseteq threads[v] /\ PooledAt(v, s) /\ Holds(pool[v], s)
      BY <1>2, <2>1, <2>3 DEF Types, Pooled
    <3> QED
      BY <1>2, <3>1 DEF PooledAt
  <2>4. ASSUME NEW s \in RowIds, ~Holds(pool'[v], s) PROVE PooledAt(v, s)'
    BY <2>4 DEF PooledAt
  <2> QED
    BY <2>2, <2>3, <2>4
<1>8. Threaded'
  <2>1. \A v \in Workers : threads'[v] \subseteq threads[v]
    BY <1>2 DEF Types
  <2> QED
    BY <1>2, <2>1 DEF Types, Threaded
<1> QED
  BY <1>4, <1>5, <1>6, <1>7, <1>8

LEMMA LocatedThreadEnds ==
  ASSUME Located, NEW r \in RowIds, ThreadEnds(r) PROVE Located'
<1> USE DEF Located
<1>1. /\ threads' = [threads EXCEPT ![worker[r]] = @ \ {r}]
      /\ UNCHANGED <<now, async, pc, wake, reserved, worker, pool, calls>>
      /\ bucket' = bucket /\ queue' = queue /\ permits' = permits
  BY DEF ThreadEnds, row, limits, slots
<1>2. \A v \in Workers : threads'[v] \subseteq threads[v]
  BY <1>1 DEF Types
<1>3. Types'
  BY <1>1, <1>2 DEF Types
<1>4. Placed' /\ Queued' /\ Threaded'
  BY <1>1, <1>2 DEF Placed, Queued, Threaded
<1>5. Pooled'
  BY <1>1, <1>2 DEF Pooled, PooledAt
<1> QED
  BY <1>3, <1>4, <1>5

\* The steps that leave the rows where they are.
Quiet ==
  /\ now' \in Nat /\ now' >= now
  /\ UNCHANGED <<async, pc, wake, reserved, worker, bucket, queue, permits, pool, threads, calls>>

LEMMA QuietSteps ==
  ASSUME Located,
         \/ \E a \in AgentIds : AgentAnswers(a)
         \/ BatchAnswers \/ Tick \/ Answered \/ UNCHANGED vars
  PROVE  Quiet
<1>1. now \in Nat
  BY DEF Located, Types
<1> QED
  BY <1>1 DEF Quiet, AgentAnswers, BatchAnswers, Tick, Answered, vars, row, limits, slots, exec, answers

LEMMA LocatedQuiet == ASSUME Located, Quiet PROVE Located'
BY DEF Located, Quiet, Types, Placed, Queued, Pooled, PooledAt, Threaded
-----------------------------------------------------------------------------
(* The semaphore. *)

LEMMA RowSets ==
  ASSUME NEW A \in SUBSET RowIds
  PROVE  /\ IsFiniteSet(A) /\ Cardinality(A) \in Nat
         /\ \A r \in RowIds \ A : Cardinality(A \cup {r}) = Cardinality(A) + 1
         /\ \A r \in A : Cardinality(A \ {r}) = Cardinality(A) - 1
         /\ \A B \in SUBSET A : Cardinality(B) <= Cardinality(A)
<1>1. IsFiniteSet(RowIds)
  BY FS_Interval, Constants DEF RowIds
<1>2. IsFiniteSet(A) /\ Cardinality(A) \in Nat
  BY <1>1, FS_Subset, FS_CardinalityType
<1> QED
  BY <1>2, FS_AddElement, FS_RemoveElement, FS_Subset

\* The rows whose scoring function has been called.
Started(w) ==
  {r \in RowIds : /\ worker[r] = w
                  /\ pc[r] = "scored" \/ (pc[r] = "scoring" /\ (async \/ r \in threads[w]))}

Permitted == \A w \in Workers : permits[w] >= 0 /\ permits[w] = MaxConcurrent - Cardinality(Holding(w))
Counted   == \A w \in Workers : calls[w] <= Cardinality(Started(w))

LEMMA SemaphoreInit == Init => Permitted /\ Counted
<1> SUFFICES ASSUME Init, NEW w \in Workers
             PROVE  /\ permits[w] >= 0 /\ permits[w] = MaxConcurrent - Cardinality(Holding(w))
                    /\ calls[w] <= Cardinality(Started(w))
  BY DEF Permitted, Counted
<1>1. Holding(w) = {} /\ Started(w) = {}
  BY DEF Init, Holding, Started
<1> QED
  BY <1>1, FS_EmptySet, Constants DEF Init

\* A step that takes no row in or out of the semaphore and calls nothing.
LEMMA SemaphoreFrame ==
  ASSUME Permitted, Counted, permits' = permits, calls' = calls,
         \A w \in Workers : Holding(w)' = Holding(w) /\ Started(w)' = Started(w)
  PROVE  Permitted' /\ Counted'
BY DEF Permitted, Counted

LEMMA SemaphoreStartScoring ==
  ASSUME Located, Permitted, Counted, NEW w \in Workers, StartScoring(w) PROVE Permitted' /\ Counted'
<1> DEFINE r == Head(queue[w])
<1>1. r \in RowIds /\ worker[r] = w /\ pc[r] = "queued" /\ r \notin threads[w]
  BY LocatedStartScoring
<1>2. /\ pc' = [pc EXCEPT ![r] = "scoring"] /\ permits' = [permits EXCEPT ![w] = @ - 1] /\ permits[w] > 0
      /\ calls' = IF async THEN [calls EXCEPT ![w] = @ + 1] ELSE calls
      /\ UNCHANGED <<async, worker, threads>>
  BY DEF StartScoring, MayStart, Located, Types
<1> HIDE DEF r
<1>3. permits \in [Workers -> Int] /\ calls \in [Workers -> Nat] /\ pc \in [RowIds -> Places] /\ async \in BOOLEAN
  BY DEF Located, Types
<1> SUFFICES ASSUME NEW v \in Workers
             PROVE  /\ permits'[v] >= 0 /\ permits'[v] = MaxConcurrent - Cardinality(Holding(v)')
                    /\ calls'[v] <= Cardinality(Started(v)')
  BY DEF Permitted, Counted
<1>4. Holding(v) \in SUBSET RowIds /\ Started(v) \in SUBSET RowIds /\ r \notin Holding(v) /\ r \notin Started(v)
  BY <1>1 DEF Holding, Started
<1>5. /\ Holding(v)' = IF v = w THEN Holding(v) \cup {r} ELSE Holding(v)
      /\ Started(v)' = IF v = w /\ async THEN Started(v) \cup {r} ELSE Started(v)
  BY <1>1, <1>2, <1>3 DEF Holding, Started
<1>6. /\ Cardinality(Holding(v)) \in Nat /\ Cardinality(Holding(v) \cup {r}) = Cardinality(Holding(v)) + 1
      /\ Cardinality(Started(v)) \in Nat /\ Cardinality(Started(v) \cup {r}) = Cardinality(Started(v)) + 1
  BY <1>1, <1>4, RowSets
<1>7. permits'[v] >= 0 /\ permits'[v] = MaxConcurrent - Cardinality(Holding(v)')
  BY <1>2, <1>3, <1>5, <1>6, Constants DEF Permitted
<1>8. calls'[v] <= Cardinality(Started(v)')
  BY <1>2, <1>3, <1>5, <1>6 DEF Counted
<1> QED
  BY <1>7, <1>8

LEMMA SemaphoreReleased ==
  ASSUME Located, Permitted, Counted, NEW r \in RowIds, ScoreReturns(r) \/ TimesOut(r)
  PROVE  Permitted' /\ Counted'
<1> DEFINE w == worker[r]
<1>1. /\ pc[r] = "scoring" /\ pc' = [pc EXCEPT ![r] = "scored"] /\ permits' = [permits EXCEPT ![w] = @ + 1]
      /\ threads' \in {threads, [threads EXCEPT ![w] = @ \ {r}]}
      /\ UNCHANGED <<async, worker, calls>>
  BY DEF ScoreReturns, TimesOut, Release
<1>2. w \in Workers
  BY <1>1 DEF Located, Placed
<1>3. /\ permits \in [Workers -> Int] /\ calls \in [Workers -> Nat] /\ pc \in [RowIds -> Places]
      /\ threads \in [Workers -> SUBSET RowIds]
  BY DEF Located, Types
<1> SUFFICES ASSUME NEW v \in Workers
             PROVE  /\ permits'[v] >= 0 /\ permits'[v] = MaxConcurrent - Cardinality(Holding(v)')
                    /\ calls'[v] <= Cardinality(Started(v)')
  BY DEF Permitted, Counted
<1>4. Holding(v) \in SUBSET RowIds /\ Started(v) \in SUBSET RowIds /\ Started(v)' \in SUBSET RowIds
  BY DEF Holding, Started
<1>5. /\ Holding(v)' = IF v = w THEN Holding(v) \ {r} ELSE Holding(v)
      /\ v = w => r \in Holding(v)
  BY <1>1, <1>3 DEF Holding
<1>6. Started(v) \subseteq Started(v)'
  <2> SUFFICES ASSUME NEW s \in Started(v) PROVE s \in Started(v)'
    OBVIOUS
  <2>1. CASE s = r
    BY <1>1, <1>3, <2>1 DEF Started
  <2>2. CASE s # r
    <3>1. pc'[s] = pc[s] /\ (s \in threads[v] => s \in threads'[v]) /\ s \in RowIds
      BY <1>1, <1>2, <1>3, <2>2 DEF Started
    <3> QED
      BY <1>1, <3>1 DEF Started
  <2> QED
    BY <2>1, <2>2
<1>7. /\ Cardinality(Holding(v)) \in Nat
      /\ r \in Holding(v) => Cardinality(Holding(v) \ {r}) = Cardinality(Holding(v)) - 1
      /\ Cardinality(Started(v)) \in Nat /\ Cardinality(Started(v)') \in Nat
      /\ Cardinality(Started(v)) <= Cardinality(Started(v)')
  BY <1>4, <1>6, RowSets
<1>8. permits'[v] >= 0 /\ permits'[v] = MaxConcurrent - Cardinality(Holding(v)')
  BY <1>1, <1>2, <1>3, <1>5, <1>7, Constants DEF Permitted
<1>9. calls'[v] <= Cardinality(Started(v)')
  BY <1>1, <1>3, <1>7 DEF Counted
<1> QED
  BY <1>8, <1>9

LEMMA SemaphoreThreadStarts ==
  ASSUME Located, Permitted, Counted, NEW w \in Workers, ThreadStarts(w) PROVE Permitted' /\ Counted'
<1> DEFINE r == Head(pool[w])
<1>1. r \in RowIds /\ worker[r] = w /\ r \notin threads[w] /\ pc[r] = "scoring" /\ ~async
  BY LocatedThreadStarts
<1>2. /\ threads' = [threads EXCEPT ![w] = @ \cup {r}] /\ calls' = [calls EXCEPT ![w] = @ + 1]
      /\ UNCHANGED <<async, pc, worker, permits>>
  BY DEF ThreadStarts, row, slots
<1> HIDE DEF r
<1>3. calls \in [Workers -> Nat] /\ threads \in [Workers -> SUBSET RowIds]
  BY DEF Located, Types
<1>4. Permitted'
  BY <1>2 DEF Permitted, Holding
<1> SUFFICES ASSUME NEW v \in Workers PROVE calls'[v] <= Cardinality(Started(v)')
  BY <1>4 DEF Counted
<1>5. Started(v) \in SUBSET RowIds /\ r \notin Started(v)
  BY <1>1 DEF Started
<1>6. Started(v)' = IF v = w THEN Started(v) \cup {r} ELSE Started(v)
  BY <1>1, <1>2, <1>3 DEF Started
<1>7. Cardinality(Started(v)) \in Nat /\ Cardinality(Started(v) \cup {r}) = Cardinality(Started(v)) + 1
  BY <1>1, <1>5, RowSets
<1> QED
  BY <1>2, <1>3, <1>6, <1>7 DEF Counted
LEMMA SemaphoreGenerated ==
  ASSUME Located, Permitted, Counted, NEW r \in RowIds, Generated(r) PROVE Permitted' /\ Counted'
<1>1. /\ pc[r] = "generating" /\ pc' = [pc EXCEPT ![r] = "decode"]
      /\ UNCHANGED <<async, permits, threads, calls>>
      /\ \A s \in RowIds : s # r => worker'[s] = worker[s]
  BY DEF Generated, slots, Located, Types
<1>2. pc \in [RowIds -> Places]
  BY DEF Located, Types
<1>3. \A w \in Workers : Holding(w)' = Holding(w) /\ Started(w)' = Started(w)
  BY <1>1, <1>2 DEF Holding, Started
<1> QED
  BY <1>1, <1>3, SemaphoreFrame

\* A row before the semaphore moves on to a place before the semaphore.
LEMMA SemaphoreBefore ==
  ASSUME Located, Permitted, Counted, NEW r \in RowIds, pc[r] \notin {"scoring", "scored"},
         NEW p \in {"rpm", "tpm", "queued"}, pc' = [pc EXCEPT ![r] = p] \/ pc' = pc,
         UNCHANGED <<async, worker, permits, threads, calls>>
  PROVE  Permitted' /\ Counted'
<1>1. pc \in [RowIds -> Places]
  BY DEF Located, Types
<1>2. \A w \in Workers : Holding(w)' = Holding(w) /\ Started(w)' = Started(w)
  BY <1>1 DEF Holding, Started
<1> QED
  BY <1>2, SemaphoreFrame

LEMMA SemaphoreDecoded ==
  ASSUME Located, Permitted, Counted, NEW w \in Workers, Decoded(w) PROVE Permitted' /\ Counted'
BY LocatedDecoded, SemaphoreBefore DEF Decoded, slots

LEMMA SemaphoreAcquire ==
  ASSUME Located, Permitted, Counted, NEW r \in RowIds, NEW k \in Limiters, Acquire(r, k) \/ DebtPaid(r, k)
  PROVE  Permitted' /\ Counted'
<1>1. pc[r] = k /\ UNCHANGED <<async, worker, permits, threads, calls>>
  BY DEF Acquire, DebtPaid, exec
<1>2. pc' = pc \/ pc' = [pc EXCEPT ![r] = IF k = "rpm" THEN "tpm" ELSE "queued"]
  BY DEF Acquire, DebtPaid, Granted
<1> QED
  BY <1>1, <1>2, SemaphoreBefore DEF Limiters

LEMMA SemaphoreThreadEnds ==
  ASSUME Located, Permitted, Counted, NEW r \in RowIds, ThreadEnds(r) PROVE Permitted' /\ Counted'
<1>1. /\ pc[r] = "scored" /\ threads' = [threads EXCEPT ![worker[r]] = @ \ {r}]
      /\ UNCHANGED <<async, pc, worker, permits, calls>> /\ threads \in [Workers -> SUBSET RowIds]
  BY DEF ThreadEnds, row, slots, Located, Types
<1>2. \A w \in Workers, s \in RowIds : s # r => (s \in threads'[w] <=> s \in threads[w])
  BY <1>1
<1>3. \A w \in Workers : Holding(w)' = Holding(w) /\ Started(w)' = Started(w)
  BY <1>1, <1>2 DEF Holding, Started
<1> QED
  BY <1>1, <1>3, SemaphoreFrame

LEMMA SemaphoreQuiet ==
  ASSUME Permitted, Counted, Quiet PROVE Permitted' /\ Counted'
<1>1. \A w \in Workers : Holding(w)' = Holding(w) /\ Started(w)' = Started(w)
  BY DEF Quiet, Holding, Started
<1> QED
  BY <1>1, SemaphoreFrame DEF Quiet

-----------------------------------------------------------------------------
(* The threads.  A row that has left its thread behind has timed out.       *)

Outcomes == {"score", "error", "timeout", None}

Abandoned ==
  /\ result \in [RowIds -> Outcomes]
  /\ \A w \in Workers : \A r \in threads[w] : pc[r] = "scoring" \/ result[r] = "timeout"

LEMMA AbandonedInit == Init => Abandoned
BY DEF Init, Abandoned, Outcomes

\* A step that ends no score: a row in a thread stays where it is, or scores.
LEMMA AbandonedFrame ==
  ASSUME Abandoned, UNCHANGED result,
         \A w \in Workers : \A r \in threads'[w] :
           pc'[r] = "scoring" \/ (r \in threads[w] /\ pc'[r] = pc[r])
  PROVE  Abandoned'
BY DEF Abandoned

\* A row that has not come to its score occupies no thread.
LEMMA AbandonedBefore ==
  ASSUME Located, Abandoned, UNCHANGED <<result, threads>>,
         NEW r \in RowIds, pc[r] \notin {"scoring", "scored"},
         NEW p, pc' = [pc EXCEPT ![r] = p] \/ pc' = pc
  PROVE  Abandoned'
<1>1. threads \in [Workers -> SUBSET RowIds] /\ pc \in [RowIds -> Places]
  BY DEF Located, Types
<1>2. \A w \in Workers : r \notin threads[w]
  BY DEF Located, Threaded
<1>3. \A w \in Workers : \A s \in threads'[w] : s \in threads[w] /\ pc'[s] = pc[s]
  BY <1>1, <1>2
<1> QED
  BY <1>3, AbandonedFrame

LEMMA AbandonedStartScoring ==
  ASSUME Located, Abandoned, NEW w \in Workers, StartScoring(w) PROVE Abandoned'
<1>1. Head(queue[w]) \in RowIds /\ pc[Head(queue[w])] = "queued"
  BY LocatedStartScoring
<1>2. pc' = [pc EXCEPT ![Head(queue[w])] = "scoring"] /\ UNCHANGED <<result, threads>>
  BY DEF StartScoring
<1> QED
  BY <1>1, <1>2, AbandonedBefore

LEMMA AbandonedThreadStarts ==
  ASSUME Located, Abandoned, NEW w \in Workers, ThreadStarts(w) PROVE Abandoned'
<1> DEFINE r == Head(pool[w])
<1>1. r \in RowIds /\ pc[r] = "scoring"
  BY LocatedThreadStarts
<1>2. threads' = [threads EXCEPT ![w] = @ \cup {r}] /\ UNCHANGED <<pc, result>>
  BY DEF ThreadStarts, row
<1> HIDE DEF r
<1>3. threads \in [Workers -> SUBSET RowIds]
  BY DEF Located, Types
<1>4. \A v \in Workers : \A s \in threads'[v] : s = r \/ s \in threads[v]
  BY <1>2, <1>3
<1> QED
  BY <1>1, <1>2, <1>4, AbandonedFrame

\* The one step that leaves a thread behind says so in the row's result.
LEMMA AbandonedReleased ==
  ASSUME Located, Abandoned, NEW r \in RowIds, ScoreReturns(r) \/ TimesOut(r) PROVE Abandoned'
<1> DEFINE w == worker[r]
<1>1. /\ pc[r] = "scoring" /\ pc' = [pc EXCEPT ![r] = "scored"]
      /\ \/ /\ threads' = [threads EXCEPT ![w] = @ \ {r}]
            /\ \E how \in Outcomes : result' = [result EXCEPT ![r] = how]
         \/ threads' = threads /\ result' = [result EXCEPT ![r] = "timeout"]
  BY DEF ScoreReturns, TimesOut, Release, Outcomes
<1>2. /\ w \in Workers /\ threads \in [Workers -> SUBSET RowIds] /\ pc \in [RowIds -> Places]
      /\ result \in [RowIds -> Outcomes]
  BY <1>1 DEF Located, Types, Placed, Abandoned
<1>3. \A v \in Workers : r \in threads[v] => v = w
  BY DEF Located, Threaded
<1> HIDE DEF w
<1>4. result' \in [RowIds -> Outcomes]
  BY <1>1, <1>2 DEF Outcomes
<1>5. ASSUME NEW v \in Workers, NEW s \in threads'[v] PROVE pc'[s] = "scoring" \/ result'[s] = "timeout"
  <2>1. s \in threads[v] /\ s \in RowIds
    BY <1>1, <1>2, <1>5
  <2>2. CASE s = r
    BY <1>1, <1>2, <1>3, <1>5, <2>1, <2>2
  <2>3. CASE s # r
    <3>1. pc'[s] = pc[s] /\ result'[s] = result[s]
      BY <1>1, <1>2, <2>1, <2>3
    <3> QED
      BY <2>1, <3>1 DEF Abandoned
  <2> QED
    BY <2>2, <2>3
<1> QED
  BY <1>4, <1>5 DEF Abandoned

LEMMA AbandonedThreadEnds ==
  ASSUME Located, Abandoned, NEW r \in RowIds, ThreadEnds(r) PROVE Abandoned'
<1>1. threads' = [threads EXCEPT ![worker[r]] = @ \ {r}] /\ UNCHANGED <<pc, result>>
  BY DEF ThreadEnds, row
<1>2. threads \in [Workers -> SUBSET RowIds]
  BY DEF Located, Types
<1>3. \A w \in Workers : \A s \in threads'[w] : s \in threads[w]
  BY <1>1, <1>2
<1> QED
  BY <1>1, <1>3, AbandonedFrame

LEMMA AbandonedElsewhere ==
  ASSUME Located, Abandoned,
         \/ \E r \in RowIds : \/ Generated(r)
                              \/ \E k \in Limiters : Acquire(r, k) \/ DebtPaid(r, k)
         \/ \E w \in Workers : Decoded(w)
         \/ \E a \in AgentIds : AgentAnswers(a)
         \/ BatchAnswers \/ Tick \/ Answered \/ UNCHANGED vars
  PROVE  Abandoned'
<1>1. ASSUME NEW r \in RowIds, Generated(r) PROVE Abandoned'
  BY <1>1, AbandonedBefore DEF Generated
<1>2. ASSUME NEW r \in RowIds, NEW k \in Limiters, Acquire(r, k) \/ DebtPaid(r, k) PROVE Abandoned'
  <2>1. pc[r] = k /\ UNCHANGED <<result, threads>>
    BY <1>2 DEF Acquire, DebtPaid, exec
  <2>2. pc' = pc \/ pc' = [pc EXCEPT ![r] = IF k = "rpm" THEN "tpm" ELSE "queued"]
    BY <1>2 DEF Acquire, DebtPaid, Granted
  <2> QED
    BY <2>1, <2>2, AbandonedBefore DEF Limiters
<1>3. ASSUME NEW w \in Workers, Decoded(w) PROVE Abandoned'
  BY <1>3, LocatedDecoded, AbandonedBefore DEF Decoded
<1>4. ASSUME \/ \E a \in AgentIds : AgentAnswers(a)
             \/ BatchAnswers \/ Tick \/ Answered \/ UNCHANGED vars
      PROVE  Abandoned'
  <2>1. UNCHANGED <<pc, result, threads>>
    BY <1>4 DEF AgentAnswers, BatchAnswers, Tick, Answered, vars, row, exec
  <2> QED
    BY <2>1, AbandonedFrame
<1> QED
  BY <1>1, <1>2, <1>3, <1>4

-----------------------------------------------------------------------------
(* The buckets.  A request above the capacity reserves its tokens, so the   *)
(* bucket is in debt; it is let through when the debt it left is paid.      *)

Later(a, b) == IF a < b THEN b ELSE a

\* Let through by a limiter, and asleep with the tokens taken.
Passed(w, k) ==
  {r \in RowIds : /\ worker[r] = w
                  /\ pc[r] \in {"queued", "scoring", "scored"} \/ (k = "rpm" /\ pc[r] = "tpm")}
Asleep(w, k) == {r \in reserved : worker[r] = w /\ pc[r] = k}
NotAfter(w, k, r) == {s \in Asleep(w, k) : wake[s] <= wake[r]}
Debt(w, k) == bucket[w][k].last - bucket[w][k].tokens

\* The rows that sleep until r wakes up fit the quota of that time.
InTurn(w, k, r) ==
  /\ Cost[k] > Second /\ wake[r] <= Debt(w, k)
  /\ (Cardinality(Passed(w, k)) + Cardinality(NotAfter(w, k, r))) * Cost[k] <= Second + Later(wake[r], now)

WithinQuota(w, k) ==
  /\ bucket[w][k].tokens <= Second /\ bucket[w][k].last <= now
  /\ (Cardinality(Passed(w, k)) + Cardinality(Asleep(w, k))) * Cost[k] <= Second + Debt(w, k)
  /\ Cardinality(Passed(w, k)) * Cost[k] <= Second + now
  /\ \A r \in Asleep(w, k) : InTurn(w, k, r)

Quotas == \A w \in Workers, k \in Limiters : WithinQuota(w, k)

LEMMA PassFacts ==
  ASSUME NEW b \in [tokens : Int, last : Nat], NEW c \in Nat, now \in Nat, b.tokens <= Second, b.last <= now
  PROVE  LET p == Pass(b, c) IN
         /\ p.left \in Int /\ p.left <= Second /\ p.sleep \in Nat /\ p.taken \in BOOLEAN
         /\ now - p.left >= b.last - b.tokens
         /\ p.taken => now - p.left >= b.last - b.tokens + c
         /\ p.sleep = 0 => p.taken /\ p.left >= 0 /\ c <= Second
         /\ p.sleep # 0 /\ p.taken => c > Second /\ p.sleep = 0 - p.left
BY Constants DEF Pass, Refilled, Lesser

LEMMA QuotasInit == Init => Quotas
<1> SUFFICES ASSUME Init, NEW w \in Workers, NEW k \in Limiters PROVE WithinQuota(w, k)
  BY DEF Quotas
<1>1. Passed(w, k) = {} /\ Asleep(w, k) = {}
  BY DEF Init, Passed, Asleep
<1>2. now = 0 /\ bucket[w][k] = [tokens |-> Second, last |-> 0]
  BY DEF Init
<1>3. Second \in Nat /\ Cost[k] \in Nat
  BY Constants
<1> QED
  BY <1>1, <1>2, <1>3, FS_EmptySet DEF WithinQuota, Debt

\* Nothing passes or reserves, time and the bucket may go on.
LEMMA QuotaFrame ==
  ASSUME NEW w \in Workers, NEW k \in Limiters, Located, WithinQuota(w, k), Located',
         Passed(w, k)' = Passed(w, k), Asleep(w, k)' = Asleep(w, k),
         \A r \in Asleep(w, k) : wake'[r] = wake[r],
         now' >= now, bucket'[w][k].tokens <= Second, bucket'[w][k].last <= now', Debt(w, k)' >= Debt(w, k)
  PROVE  WithinQuota(w, k)'
<1> DEFINE G == Cardinality(Passed(w, k))
           R == Cardinality(Asleep(w, k))
<1>1. /\ now \in Nat /\ now' \in Nat /\ bucket[w][k] \in [tokens : Int, last : Nat]
      /\ bucket'[w][k] \in [tokens : Int, last : Nat]
  BY DEF Located, Types
<1>2. Debt(w, k) \in Int /\ Debt(w, k)' \in Int /\ Second \in Nat /\ Cost[k] \in Nat
  BY <1>1, Constants DEF Debt
<1>3. G \in Nat /\ R \in Nat
  <2>1. Passed(w, k) \in SUBSET RowIds /\ Asleep(w, k) \in SUBSET RowIds
    BY DEF Passed, Asleep, Located, Types
  <2> QED
    BY <2>1, RowSets
<1>4. (G + R) * Cost[k] \in Int /\ G * Cost[k] \in Int
  BY <1>2, <1>3
<1>5. ASSUME NEW r \in Asleep(w, k) PROVE InTurn(w, k, r)'
  <2>1. r \in RowIds /\ wake'[r] = wake[r] /\ wake[r] \in Nat
    BY DEF Asleep, Located, Types
  <2>2. NotAfter(w, k, r)' = NotAfter(w, k, r)
    BY DEF NotAfter
  <2> DEFINE N == Cardinality(NotAfter(w, k, r))
  <2>3. N \in Nat
    <3>1. NotAfter(w, k, r) \in SUBSET RowIds
      BY DEF NotAfter, Asleep, Located, Types
    <3> QED
      BY <3>1, RowSets
  <2>4. (G + N) * Cost[k] \in Int
    BY <1>2, <1>3, <2>3
  <2>5. InTurn(w, k, r)
    BY DEF WithinQuota
  <2>6. Cost[k] > Second /\ wake[r] <= Debt(w, k) /\ (G + N) * Cost[k] <= Second + Later(wake[r], now)
    BY <2>5 DEF InTurn
  <2> HIDE DEF N, G
  <2>7. Later(wake[r], now) <= Later(wake[r], now') /\ Later(wake[r], now) \in Nat /\ Later(wake[r], now') \in Nat
    BY <1>1, <2>1 DEF Later
  <2>8. wake[r] <= Debt(w, k)' /\ (G + N) * Cost[k] <= Second + Later(wake[r], now')
    BY <1>1, <1>2, <2>1, <2>4, <2>6, <2>7
  <2> QED
    BY <2>1, <2>2, <2>6, <2>8 DEF InTurn, G, N
<1>6. (G + R) * Cost[k] <= Second + Debt(w, k) /\ G * Cost[k] <= Second + now
  BY DEF WithinQuota
<1> HIDE DEF G, R
<1>7. (G + R) * Cost[k] <= Second + Debt(w, k)' /\ G * Cost[k] <= Second + now'
  BY <1>1, <1>2, <1>4, <1>6
<1> QED
  BY <1>5, <1>7 DEF WithinQuota, G, R
LEMMA QuotasStill ==
  ASSUME Located, Located', Quotas, bucket' = bucket, now' >= now,
         \A r \in reserved : wake'[r] = wake[r],
         \A w \in Workers, k \in Limiters : Passed(w, k)' = Passed(w, k) /\ Asleep(w, k)' = Asleep(w, k)
  PROVE  Quotas'
<1> SUFFICES ASSUME NEW w \in Workers, NEW k \in Limiters PROVE WithinQuota(w, k)'
  BY DEF Quotas
<1>1. now \in Nat /\ now' \in Nat /\ bucket[w][k] \in [tokens : Int, last : Nat]
  BY DEF Located, Types
<1>2. Debt(w, k) \in Int /\ Debt(w, k)' = Debt(w, k)
  BY <1>1 DEF Debt
<1>3. WithinQuota(w, k)
  BY DEF Quotas
<1>4. bucket[w][k].tokens <= Second /\ bucket[w][k].last <= now
  BY <1>3 DEF WithinQuota
<1>5. \A r \in Asleep(w, k) : wake'[r] = wake[r]
  BY DEF Asleep
<1>6. Passed(w, k)' = Passed(w, k) /\ Asleep(w, k)' = Asleep(w, k)
  OBVIOUS
<1>7. bucket'[w][k].last <= now' /\ Debt(w, k)' >= Debt(w, k)
  BY <1>1, <1>2, <1>4
<1> QED
  BY <1>3, <1>4, <1>5, <1>6, <1>7, QuotaFrame

LEMMA QuotasGenerated ==
  ASSUME Located, Quotas, NEW r \in RowIds, Generated(r) PROVE Quotas'
<1>1. /\ pc[r] = "generating" /\ pc' = [pc EXCEPT ![r] = "decode"]
      /\ now' = now /\ wake' = wake /\ reserved' = reserved /\ bucket' = bucket
      /\ \A s \in RowIds : s # r => worker'[s] = worker[s]
  BY DEF Generated, limits, Located, Types
<1>2. pc \in [RowIds -> Places] /\ reserved \subseteq RowIds /\ r \notin reserved /\ now \in Nat
  BY <1>1 DEF Located, Types, Placed, Limiters
<1>3. \A w \in Workers, k \in Limiters : Passed(w, k)' = Passed(w, k)
  BY <1>1, <1>2 DEF Passed
<1>4. \A w \in Workers, k \in Limiters : Asleep(w, k)' = Asleep(w, k)
  BY <1>1, <1>2 DEF Asleep
<1>5. Located'
  BY LocatedGenerated
<1> QED
  BY <1>1, <1>2, <1>3, <1>4, <1>5, QuotasStill

\* Behind the limiters and before them a row only changes its place.
LEMMA QuotasElsewhere ==
  ASSUME Located, Located', Quotas, NEW r \in RowIds, r \notin reserved, NEW p \in {"rpm", "scoring", "scored"},
         pc[r] \in (IF p = "rpm" THEN {"decode"} ELSE {"queued", "scoring", "scored"}),
         pc' = [pc EXCEPT ![r] = p], \A s \in RowIds : s # r => wake'[s] = wake[s],
         UNCHANGED <<now, reserved, worker, bucket>>
  PROVE  Quotas'
<1>1. pc \in [RowIds -> Places] /\ reserved \subseteq RowIds /\ now \in Nat
  BY DEF Located, Types
<1>2. \A w \in Workers, k \in Limiters : Passed(w, k)' = Passed(w, k)
  BY <1>1 DEF Passed
<1>3. \A w \in Workers, k \in Limiters : Asleep(w, k)' = Asleep(w, k)
  BY <1>1 DEF Asleep
<1>4. \A s \in reserved : wake'[s] = wake[s]
  BY <1>1
<1>5. now' >= now
  BY <1>1
<1> QED
  BY <1>2, <1>3, <1>4, <1>5, QuotasStill

LEMMA QuotasDecoded ==
  ASSUME Located, Quotas, NEW w \in Workers, Decoded(w) PROVE Quotas'
<1> DEFINE r == Head(pool[w])
<1>1. Located' /\ r \in RowIds /\ pc[r] = "decode" /\ pc' = [pc EXCEPT ![r] = "rpm"]
  BY LocatedDecoded
<1>2. wake' = wake /\ r \notin reserved /\ UNCHANGED <<now, reserved, worker, bucket>>
  BY <1>1 DEF Decoded, limits, Located, Placed, Limiters
<1> QED
  BY <1>1, <1>2, QuotasElsewhere

LEMMA QuotasStartScoring ==
  ASSUME Located, Quotas, NEW w \in Workers, StartScoring(w) PROVE Quotas'
<1> DEFINE r == Head(queue[w])
<1>1. Located' /\ r \in RowIds /\ pc[r] = "queued" /\ r \notin reserved
  BY LocatedStartScoring
<1>2. /\ pc' = [pc EXCEPT ![r] = "scoring"] /\ wake' = [wake EXCEPT ![r] = now + Timeout]
      /\ UNCHANGED <<now, reserved, worker, bucket>>
  BY DEF StartScoring, limits
<1>3. \A s \in RowIds : s # r => wake'[s] = wake[s]
  BY <1>2 DEF Located, Types
<1> QED
  BY <1>1, <1>2, <1>3, QuotasElsewhere

LEMMA QuotasReleased ==
  ASSUME Located, Quotas, NEW r \in RowIds, ScoreReturns(r) \/ TimesOut(r) PROVE Quotas'
<1>1. /\ pc[r] = "scoring" /\ pc' = [pc EXCEPT ![r] = "scored"]
      /\ UNCHANGED <<now, wake, reserved, worker, bucket>>
  BY DEF ScoreReturns, TimesOut, Release, limits
<1>2. r \notin reserved
  BY <1>1 DEF Located, Placed, Limiters
<1> QED
  BY <1>1, <1>2, LocatedReleased, QuotasElsewhere

LEMMA QuotasThread ==
  ASSUME Located, Quotas, (\E w \in Workers : ThreadStarts(w)) \/ (\E r \in RowIds : ThreadEnds(r)) \/ Quiet
  PROVE  Quotas'
<1>1. Located'
  BY LocatedThreadStarts, LocatedThreadEnds, LocatedQuiet
<1>2. UNCHANGED <<pc, wake, reserved, worker, bucket>> /\ now' >= now
  BY DEF ThreadStarts, ThreadEnds, Quiet, row, limits, Located, Types
<1>3. \A w \in Workers, k \in Limiters : Passed(w, k)' = Passed(w, k) /\ Asleep(w, k)' = Asleep(w, k)
  BY <1>2 DEF Passed, Asleep
<1> QED
  BY <1>1, <1>2, <1>3, QuotasStill

LEMMA Times ==
  ASSUME NEW a \in Nat, NEW b \in Nat, NEW c \in Nat
  PROVE  /\ a * c \in Nat /\ (a + 1) * c = a * c + c
         /\ a <= b => a * c <= b * c
<1>1. a * c \in Nat /\ (a + 1) * c = a * c + c
  OBVIOUS
<1>2. ASSUME a <= b PROVE a * c <= b * c
  <2>1. PICK d \in Nat : b = a + d
    <3>1. b - a \in Nat /\ b = a + (b - a)
      BY <1>2
    <3> QED
      BY <3>1
  <2>2. b * c = a * c + d * c /\ d * c \in Nat
    BY <2>1
  <2> QED
    BY <1>1, <2>2
<1> QED
  BY <1>1, <1>2
\* What the sets of a bucket count.
LEMMA Counts ==
  ASSUME Located, NEW w \in Workers, NEW k \in Limiters
  PROVE  /\ Passed(w, k) \in SUBSET RowIds /\ Asleep(w, k) \in SUBSET RowIds
         /\ Cardinality(Passed(w, k)) \in Nat /\ Cardinality(Asleep(w, k)) \in Nat
         /\ \A r \in RowIds : /\ NotAfter(w, k, r) \in SUBSET Asleep(w, k)
                              /\ NotAfter(w, k, r) \in SUBSET RowIds
                              /\ Cardinality(NotAfter(w, k, r)) \in Nat
                              /\ Cardinality(NotAfter(w, k, r)) <= Cardinality(Asleep(w, k))
         /\ now \in Nat /\ Debt(w, k) \in Int /\ bucket[w][k] \in [tokens : Int, last : Nat]
<1>1. Passed(w, k) \in SUBSET RowIds /\ Asleep(w, k) \in SUBSET RowIds
  BY DEF Passed, Asleep, Located, Types
<1>2. \A r \in RowIds : NotAfter(w, k, r) \in SUBSET Asleep(w, k) /\ NotAfter(w, k, r) \in SUBSET RowIds
  BY <1>1 DEF NotAfter
<1>3. now \in Nat /\ bucket[w][k] \in [tokens : Int, last : Nat]
  BY DEF Located, Types
<1>4. Debt(w, k) \in Int
  BY <1>3 DEF Debt
<1> QED
  BY <1>1, <1>2, <1>3, <1>4, RowSets

\* A row that its bucket lets through is counted there and nowhere else.
LEMMA GrantedSets ==
  ASSUME Located, NEW r \in RowIds, NEW k \in Limiters, pc[r] = k, Granted(r, k),
         reserved' = reserved \ {r}, worker' = worker,
         NEW v \in Workers, NEW l \in Limiters
  PROVE  /\ r \notin Passed(worker[r], k)
         /\ Passed(v, l)' = IF v = worker[r] /\ l = k THEN Passed(v, l) \cup {r} ELSE Passed(v, l)
         /\ Asleep(v, l)' = IF v = worker[r] /\ l = k THEN Asleep(v, l) \ {r} ELSE Asleep(v, l)
<1>1. pc \in [RowIds -> Places] /\ reserved \subseteq RowIds
  BY DEF Located, Types
<1>2. pc' = [pc EXCEPT ![r] = IF k = "rpm" THEN "tpm" ELSE "queued"]
  BY DEF Granted
<1>3. k = "rpm" \/ k = "tpm"
  BY DEF Limiters
<1>4. l = "rpm" \/ l = "tpm"
  BY DEF Limiters
<1>5. r \notin Passed(worker[r], k)
  BY <1>3 DEF Passed
<1>6. Passed(v, l)' = IF v = worker[r] /\ l = k THEN Passed(v, l) \cup {r} ELSE Passed(v, l)
  BY <1>1, <1>2, <1>3, <1>4 DEF Passed
<1>7. Asleep(v, l)' = IF v = worker[r] /\ l = k THEN Asleep(v, l) \ {r} ELSE Asleep(v, l)
  BY <1>1, <1>2, <1>3, <1>4 DEF Asleep
<1> QED
  BY <1>5, <1>6, <1>7

LEMMA QuotaDebtPaid ==
  ASSUME Located, Located', NEW r \in RowIds, NEW k \in Limiters, DebtPaid(r, k),
         NEW w \in Workers, w = worker[r], WithinQuota(w, k)
  PROVE  WithinQuota(w, k)'
<1>1. /\ pc[r] = k /\ r \in reserved /\ now >= wake[r] /\ Granted(r, k) /\ reserved' = reserved \ {r}
      /\ UNCHANGED <<now, wake, worker, bucket>>
  BY DEF DebtPaid
<1> DEFINE G == Cardinality(Passed(w, k))
           R == Cardinality(Asleep(w, k))
           N(s) == Cardinality(NotAfter(w, k, s))
           c == Cost[k]
<1>2. /\ Passed(w, k)' = Passed(w, k) \cup {r} /\ r \notin Passed(w, k)
      /\ Asleep(w, k)' = Asleep(w, k) \ {r} /\ r \in Asleep(w, k)
  BY <1>1, GrantedSets DEF Asleep
<1>3. /\ G \in Nat /\ R \in Nat /\ \A s \in RowIds : N(s) \in Nat
      /\ now \in Nat /\ Debt(w, k) \in Int /\ Debt(w, k)' = Debt(w, k) /\ c \in Nat /\ Second \in Nat
      /\ wake \in [RowIds -> Nat]
  BY <1>1, Counts, Constants DEF Debt, Located, Types
<1>4. Cardinality(Passed(w, k)') = G + 1 /\ Cardinality(Asleep(w, k)') = R - 1
  BY <1>2, Counts, RowSets
<1>5. r \in NotAfter(w, k, r)
  BY <1>2, <1>3 DEF NotAfter
<1>6. N(r) >= 1
  <2>1. NotAfter(w, k, r) \in SUBSET RowIds
    BY Counts
  <2>2. Cardinality(NotAfter(w, k, r) \ {r}) = N(r) - 1 /\ NotAfter(w, k, r) \ {r} \in SUBSET RowIds
    BY <1>5, <2>1, RowSets
  <2>3. N(r) - 1 \in Nat
    BY <2>2, RowSets
  <2> QED
    BY <1>3, <2>3
<1>7. /\ \A s \in Asleep(w, k) : c > Second /\ wake[s] <= Debt(w, k) /\ (G + N(s)) * c <= Second + Later(wake[s], now)
      /\ (G + R) * c <= Second + Debt(w, k)
      /\ bucket[w][k].tokens <= Second /\ bucket[w][k].last <= now
  BY DEF WithinQuota, InTurn
<1>8. (G + N(r)) * c <= Second + now
  <2>1. Later(wake[r], now) = now
    BY <1>1, <1>3 DEF Later
  <2> QED
    BY <1>2, <1>7, <2>1
<1>9. ASSUME NEW s \in Asleep(w, k), s # r PROVE InTurn(w, k, s)'
  <2> DEFINE M == Cardinality(NotAfter(w, k, s)')
  <2>1. s \in RowIds /\ s \in Asleep(w, k)
    BY Counts
  <2>2. wake[s] \in Nat /\ wake[r] \in Nat
    BY <1>3, <2>1
  <2>3. NotAfter(w, k, s)' = NotAfter(w, k, s) \ {r}
    BY <1>1, <1>2 DEF NotAfter
  <2>4. (G + 1 + M) * c <= Second + Later(wake[s], now)
    <3>1. CASE wake[r] <= wake[s]
      <4>1. r \in NotAfter(w, k, s) /\ NotAfter(w, k, s) \in SUBSET RowIds
        BY <1>2, <2>1, <3>1, Counts DEF NotAfter
      <4>2. M = N(s) - 1
        BY <2>3, <4>1, RowSets
      <4>3. G + 1 + M = G + N(s)
        BY <1>3, <2>1, <4>2
      <4> QED
        BY <1>7, <4>3
    <3>2. CASE ~(wake[r] <= wake[s])
      <4>1. NotAfter(w, k, s)' \in SUBSET (NotAfter(w, k, r) \ {r})
        <5> SUFFICES ASSUME NEW x \in NotAfter(w, k, s) PROVE x \in NotAfter(w, k, r)
          BY <2>3
        <5>1. x \in Asleep(w, k) /\ wake[x] <= wake[s] /\ wake[x] \in Nat
          BY <1>3, Counts DEF NotAfter
        <5> QED
          BY <2>2, <3>2, <5>1 DEF NotAfter
      <4>2. NotAfter(w, k, r) \in SUBSET RowIds
        BY Counts
      <4>3. Cardinality(NotAfter(w, k, r) \ {r}) = N(r) - 1
        BY <1>5, <4>2, RowSets
      <4>4. M <= N(r) - 1 /\ M \in Nat
        <5>1. NotAfter(w, k, r) \ {r} \in SUBSET RowIds /\ NotAfter(w, k, s)' \in SUBSET RowIds
          BY <4>1, <4>2
        <5> QED
          BY <4>1, <4>3, <5>1, RowSets
      <4>5. G + 1 + M <= G + N(r) /\ G + 1 + M \in Nat /\ G + N(r) \in Nat
        BY <1>3, <4>4
      <4> HIDE DEF M, N, G
      <4>6. (G + 1 + M) * c <= (G + N(r)) * c /\ (G + 1 + M) * c \in Nat /\ (G + N(r)) * c \in Nat
        BY <1>3, <4>5, Times
      <4>7. Later(wake[s], now) = now
        BY <1>1, <1>3, <2>2, <3>2 DEF Later
      <4> QED
        BY <1>3, <1>8, <4>6, <4>7
    <3> QED
      BY <3>1, <3>2
  <2>5. wake[s] <= Debt(w, k) /\ c > Second
    BY <1>7
  <2> QED
    BY <1>1, <1>3, <1>4, <2>4, <2>5 DEF InTurn
<1> HIDE DEF G, R, N
<1>10. G + 1 + (R - 1) = G + R
  BY <1>3
<1>11. (G + 1) * c <= Second + now
  <2>1. G + 1 <= G + N(r) /\ G + 1 \in Nat /\ G + N(r) \in Nat
    BY <1>3, <1>6
  <2>2. (G + 1) * c <= (G + N(r)) * c /\ (G + 1) * c \in Nat /\ (G + N(r)) * c \in Nat
    BY <1>3, <2>1, Times
  <2> QED
    BY <1>3, <1>8, <2>2
<1> QED
  BY <1>1, <1>2, <1>3, <1>4, <1>7, <1>9, <1>10, <1>11 DEF WithinQuota, G
\* One pass of acquire: what it does to the bucket and to the row.
Acquired(r, k, w, p) ==
  /\ w \in Workers /\ w = worker[r] /\ pc[r] = k /\ r \notin reserved
  /\ bucket' = [bucket EXCEPT ![w][k] = [tokens |-> p.left, last |-> now]]
  /\ UNCHANGED <<now, worker>>
  /\ p.left \in Int /\ p.left <= Second /\ p.sleep \in Nat /\ p.taken \in BOOLEAN
  /\ now - p.left >= Debt(w, k)
  /\ p.taken => now - p.left >= Debt(w, k) + Cost[k]
  /\ \/ /\ Granted(r, k) /\ UNCHANGED <<wake, reserved>>
        /\ p.taken /\ p.left >= 0 /\ Cost[k] <= Second
     \/ /\ p.taken /\ Cost[k] > Second /\ p.sleep = 0 - p.left
        /\ wake' = [wake EXCEPT ![r] = now + p.sleep]
        /\ reserved' = reserved \cup {r} /\ UNCHANGED pc
     \/ /\ wake' = [wake EXCEPT ![r] = now + p.sleep]
        /\ UNCHANGED <<pc, reserved>>

LEMMA AcquirePasses ==
  ASSUME Located, Quotas, NEW r \in RowIds, NEW k \in Limiters, Acquire(r, k)
  PROVE  Acquired(r, k, worker[r], Pass(bucket[worker[r]][k], Cost[k]))
<1> DEFINE w == worker[r]
           b == bucket[w][k]
           p == Pass(b, Cost[k])
<1>1. w \in Workers /\ pc[r] = k /\ r \notin reserved
  BY DEF Acquire, Located, Placed, Limiters
<1>2. b \in [tokens : Int, last : Nat] /\ now \in Nat /\ Cost[k] \in Nat
  BY <1>1, Constants DEF Located, Types
<1>3. b.tokens <= Second /\ b.last <= now /\ Debt(w, k) = b.last - b.tokens
  BY <1>1 DEF Quotas, WithinQuota, Debt
<1>4. /\ bucket' = [bucket EXCEPT ![w][k] = [tokens |-> p.left, last |-> now]]
      /\ UNCHANGED <<now, worker>>
      /\ IF p.sleep = 0
         THEN Granted(r, k) /\ UNCHANGED <<wake, reserved>>
         ELSE /\ wake' = [wake EXCEPT ![r] = now + p.sleep]
              /\ reserved' = IF p.taken THEN reserved \cup {r} ELSE reserved
              /\ UNCHANGED pc
  BY DEF Acquire
<1> HIDE DEF b
<1>5. /\ p.left \in Int /\ p.left <= Second /\ p.sleep \in Nat /\ p.taken \in BOOLEAN
      /\ now - p.left >= b.last - b.tokens
      /\ p.taken => now - p.left >= b.last - b.tokens + Cost[k]
      /\ p.sleep = 0 => p.taken /\ p.left >= 0 /\ Cost[k] <= Second
      /\ p.sleep # 0 /\ p.taken => Cost[k] > Second /\ p.sleep = 0 - p.left
  BY <1>2, <1>3, PassFacts
<1> HIDE DEF p, w
<1>6. Acquired(r, k, w, p)
  BY <1>1, <1>3, <1>4, <1>5 DEF Acquired, w
<1> QED
  BY <1>6 DEF w, p, b

LEMMA QuotaGranted ==
  ASSUME Located, Located', NEW r \in RowIds, NEW k \in Limiters, NEW w, NEW p, Acquired(r, k, w, p),
         Granted(r, k), UNCHANGED <<wake, reserved>>, p.taken, p.left >= 0, Cost[k] <= Second,
         WithinQuota(w, k)
  PROVE  WithinQuota(w, k)'
<1> DEFINE G == Cardinality(Passed(w, k))
           R == Cardinality(Asleep(w, k))
           c == Cost[k]
<1>1. /\ w \in Workers /\ w = worker[r] /\ pc[r] = k /\ r \notin reserved /\ now' = now /\ worker' = worker
      /\ bucket' = [bucket EXCEPT ![w][k] = [tokens |-> p.left, last |-> now]]
      /\ p.left \in Int /\ p.left <= Second /\ now - p.left >= Debt(w, k) + c
  BY DEF Acquired
<1>2. reserved' = reserved \ {r}
  BY <1>1
<1>3. /\ Passed(w, k)' = Passed(w, k) \cup {r} /\ r \notin Passed(w, k) /\ Asleep(w, k)' = Asleep(w, k)
  <2>1. r \notin Asleep(w, k)
    BY <1>1 DEF Asleep
  <2>2. /\ r \notin Passed(worker[r], k)
        /\ Passed(w, k)' = IF w = worker[r] /\ k = k THEN Passed(w, k) \cup {r} ELSE Passed(w, k)
        /\ Asleep(w, k)' = IF w = worker[r] /\ k = k THEN Asleep(w, k) \ {r} ELSE Asleep(w, k)
    BY <1>1, <1>2, GrantedSets
  <2> QED
    BY <1>1, <2>1, <2>2
<1>4. G \in Nat /\ R \in Nat /\ now \in Nat /\ Debt(w, k) \in Int /\ c \in Nat /\ Second \in Nat
  BY <1>1, Counts, Constants
<1>5. Cardinality(Passed(w, k)') = G + 1 /\ Cardinality(Asleep(w, k)') = R
  BY <1>1, <1>3, Counts, RowSets
<1>6. bucket'[w][k] = [tokens |-> p.left, last |-> now] /\ Debt(w, k)' = now - p.left
  BY <1>1 DEF Located, Types, Debt
<1>7. Asleep(w, k) = {}
  <2>1. \A s \in Asleep(w, k) : c > Second
    BY DEF WithinQuota, InTurn
  <2> QED
    BY <1>4, <2>1
<1>8. (G + R) * c <= Second + Debt(w, k)
  BY DEF WithinQuota
<1> HIDE DEF G, R
<1>9. (G + 1 + R) * c <= Second + (now - p.left)
  <2>1. (G + R + 1) * c = (G + R) * c + c /\ (G + R) * c \in Nat /\ G + 1 + R = G + R + 1
    BY <1>4, Times
  <2> QED
    BY <1>1, <1>4, <1>8, <2>1
<1>10. (G + 1) * c <= Second + now
  <2>1. (G + 1) * c <= (G + 1 + R) * c /\ (G + 1) * c \in Nat /\ (G + 1 + R) * c \in Nat
    BY <1>4, Times
  <2> QED
    BY <1>1, <1>4, <1>9, <2>1
<1> QED
  BY <1>1, <1>3, <1>4, <1>5, <1>6, <1>7, <1>9, <1>10 DEF WithinQuota

LEMMA QuotaReserved ==
  ASSUME Located, Located', NEW r \in RowIds, NEW k \in Limiters, NEW w, NEW p, Acquired(r, k, w, p),
         p.taken, Cost[k] > Second, p.sleep = 0 - p.left,
         wake' = [wake EXCEPT ![r] = now + p.sleep], reserved' = reserved \cup {r}, pc' = pc,
         WithinQuota(w, k)
  PROVE  WithinQuota(w, k)'
<1> DEFINE G == Cardinality(Passed(w, k))
           R == Cardinality(Asleep(w, k))
           N(s) == Cardinality(NotAfter(w, k, s))
           c == Cost[k]
           d == now - p.left
<1>1. /\ w \in Workers /\ w = worker[r] /\ pc[r] = k /\ r \notin reserved /\ now' = now /\ worker' = worker
      /\ bucket' = [bucket EXCEPT ![w][k] = [tokens |-> p.left, last |-> now]]
      /\ p.left \in Int /\ p.left <= Second /\ d >= Debt(w, k) + c
  BY DEF Acquired
<1>2. /\ Passed(w, k)' = Passed(w, k)
      /\ Asleep(w, k)' = Asleep(w, k) \cup {r} /\ r \notin Asleep(w, k)
  BY <1>1 DEF Passed, Asleep
<1>3. /\ G \in Nat /\ R \in Nat /\ \A s \in RowIds : N(s) \in Nat
      /\ now \in Nat /\ Debt(w, k) \in Int /\ c \in Nat /\ c > 0 /\ Second \in Nat
      /\ wake \in [RowIds -> Nat]
  <2>1. wake \in [RowIds -> Nat]
    BY DEF Located, Types
  <2>2. c \in Nat /\ c > 0 /\ Second \in Nat
    BY Constants
  <2>3. G \in Nat /\ R \in Nat /\ (\A s \in RowIds : N(s) \in Nat) /\ now \in Nat /\ Debt(w, k) \in Int
    BY <1>1, Counts
  <2> QED
    BY <2>1, <2>2, <2>3
<1>4. Cardinality(Passed(w, k)') = G /\ Cardinality(Asleep(w, k)') = R + 1
  BY <1>1, <1>2, Counts, RowSets
<1>5. bucket'[w][k] = [tokens |-> p.left, last |-> now] /\ Debt(w, k)' = d /\ wake'[r] = d /\ d \in Int
  <2>1. bucket'[w][k] = [tokens |-> p.left, last |-> now]
    BY <1>1 DEF Located, Types
  <2>2. Debt(w, k)' = d
    BY <2>1 DEF Debt
  <2>3. wake'[r] = now + p.sleep /\ now + p.sleep = d /\ d \in Int
    BY <1>1, <1>3
  <2> QED
    BY <2>1, <2>2, <2>3
<1>6. /\ \A s \in Asleep(w, k) : c > Second /\ wake[s] <= Debt(w, k) /\ (G + N(s)) * c <= Second + Later(wake[s], now)
      /\ (G + R) * c <= Second + Debt(w, k) /\ G * c <= Second + now
  BY DEF WithinQuota, InTurn
<1>7. ASSUME NEW s \in Asleep(w, k) PROVE InTurn(w, k, s)'
  <2>1. s # r /\ s \in RowIds /\ wake'[s] = wake[s] /\ wake[s] \in Nat
    BY <1>1, <1>2, <1>3, Counts
  <2>2. wake[s] <= Debt(w, k) /\ wake[s] <= d /\ ~(d <= wake[s])
    BY <1>1, <1>3, <1>5, <1>6, <2>1
  <2>3. NotAfter(w, k, s)' = NotAfter(w, k, s)
    <3>1. \A x \in Asleep(w, k) : wake'[x] = wake[x]
      BY <1>1, <1>2, <1>3, Counts
    <3> QED
      BY <1>2, <1>5, <2>1, <2>2, <3>1 DEF NotAfter
  <2> QED
    BY <1>1, <1>2, <1>5, <1>6, <2>1, <2>2, <2>3 DEF InTurn
<1>8. (G + (R + 1)) * c <= Second + d
  <2> HIDE DEF G, R
  <2>1. (G + R + 1) * c = (G + R) * c + c /\ (G + R) * c \in Nat /\ G + (R + 1) = G + R + 1
    BY <1>3, Times
  <2> QED
    BY <1>1, <1>3, <1>5, <1>6, <2>1
<1>9. InTurn(w, k, r)'
  <2> DEFINE M == Cardinality(NotAfter(w, k, r)')
  <2>1. M \in Nat /\ M <= R + 1
    <3>1. NotAfter(w, k, r)' \in SUBSET Asleep(w, k)' /\ Asleep(w, k)' \in SUBSET RowIds
      BY <1>1, <1>2, Counts DEF NotAfter
    <3> QED
      BY <1>4, <3>1, RowSets
  <2> HIDE DEF M, G, R, d
  <2>2. (G + M) * c <= (G + (R + 1)) * c /\ (G + M) * c \in Nat /\ (G + (R + 1)) * c \in Nat
    BY <1>3, <2>1, Times
  <2>3. d <= Later(d, now) /\ Later(d, now) \in Int
    BY <1>3, <1>5 DEF Later
  <2>4. (G + M) * c <= Second + Later(d, now)
    BY <1>3, <1>5, <1>8, <2>2, <2>3
  <2>5. d <= d
    BY <1>5
  <2> QED
    BY <1>1, <1>2, <1>5, <2>4, <2>5 DEF InTurn, M, G
<1> HIDE DEF G, R, d
<1> QED
  BY <1>1, <1>2, <1>3, <1>4, <1>5, <1>6, <1>7, <1>8, <1>9 DEF WithinQuota
LEMMA QuotasAcquire ==
  ASSUME Located, Quotas, NEW r \in RowIds, NEW k \in Limiters, Acquire(r, k) PROVE Quotas'
<1> DEFINE w == worker[r]
           p == Pass(bucket[w][k], Cost[k])
<1>1. Acquired(r, k, w, p)
  BY AcquirePasses
<1>2. Located'
  BY LocatedAcquire
<1> HIDE DEF p
<1>3. /\ w \in Workers /\ pc[r] = k /\ r \notin reserved /\ now' = now /\ worker' = worker
      /\ bucket' = [bucket EXCEPT ![w][k] = [tokens |-> p.left, last |-> now]]
      /\ p.left \in Int /\ p.left <= Second /\ now - p.left >= Debt(w, k)
  BY <1>1 DEF Acquired
<1>4. now \in Nat /\ wake \in [RowIds -> Nat] /\ reserved \subseteq RowIds /\ bucket \in Buckets
  BY DEF Located, Types, Buckets
<1> SUFFICES ASSUME NEW v \in Workers, NEW l \in Limiters PROVE WithinQuota(v, l)'
  BY DEF Quotas
<1>5. WithinQuota(v, l)
  BY DEF Quotas
<1>6. \A s \in Asleep(v, l) : wake'[s] = wake[s]
  <2>1. \A s \in reserved : s # r /\ s \in RowIds
    BY <1>3, <1>4
  <2>2. wake' = wake \/ wake' = [wake EXCEPT ![r] = now + p.sleep]
    BY <1>1 DEF Acquired
  <2> QED
    BY <1>4, <2>1, <2>2 DEF Asleep
<1>7. CASE ~(v = w /\ l = k)
  <2>1. Passed(v, l)' = Passed(v, l) /\ Asleep(v, l)' = Asleep(v, l)
    <3>1. CASE Granted(r, k) /\ UNCHANGED reserved
      <4>1. reserved' = reserved \ {r}
        BY <1>3, <3>1
      <4> QED
        BY <1>3, <1>7, <3>1, <4>1, GrantedSets
    <3>2. CASE reserved' = reserved \cup {r} /\ UNCHANGED pc
      BY <1>3, <1>7, <3>2 DEF Passed, Asleep
    <3>3. CASE UNCHANGED <<pc, reserved>>
      BY <1>3, <3>3 DEF Passed, Asleep
    <3> QED
      BY <1>1, <3>1, <3>2, <3>3 DEF Acquired
  <2>2. bucket'[v][l] = bucket[v][l]
    BY <1>3, <1>4, <1>7 DEF Buckets
  <2>3. bucket[v][l].tokens <= Second /\ bucket[v][l].last <= now /\ Debt(v, l) \in Int
    BY <1>5, Counts DEF WithinQuota
  <2>4. Debt(v, l)' = Debt(v, l)
    BY <2>2 DEF Debt
  <2>5. now' >= now /\ bucket'[v][l].tokens <= Second /\ bucket'[v][l].last <= now' /\ Debt(v, l)' >= Debt(v, l)
    BY <1>3, <1>4, <2>2, <2>3, <2>4
  <2> QED
    BY <1>2, <1>5, <1>6, <2>1, <2>5, QuotaFrame
<1>8. CASE v = w /\ l = k
  <2>1. CASE /\ Granted(r, k) /\ UNCHANGED <<wake, reserved>>
             /\ p.taken /\ p.left >= 0 /\ Cost[k] <= Second
    BY <1>1, <1>2, <1>5, <1>8, <2>1, QuotaGranted
  <2>2. CASE /\ p.taken /\ Cost[k] > Second /\ p.sleep = 0 - p.left
             /\ wake' = [wake EXCEPT ![r] = now + p.sleep]
             /\ reserved' = reserved \cup {r} /\ UNCHANGED pc
    BY <1>1, <1>2, <1>5, <1>8, <2>2, QuotaReserved
  <2>3. CASE UNCHANGED <<pc, reserved>>
    <3>1. Passed(v, l)' = Passed(v, l) /\ Asleep(v, l)' = Asleep(v, l)
      BY <1>3, <2>3 DEF Passed, Asleep
    <3>2. bucket'[v][l] = [tokens |-> p.left, last |-> now]
      BY <1>3, <1>4, <1>8 DEF Buckets
    <3>3. Debt(v, l)' = now - p.left /\ Debt(v, l) = Debt(w, k)
      BY <1>8, <3>2 DEF Debt
    <3>4. now' >= now /\ bucket'[v][l].tokens <= Second /\ bucket'[v][l].last <= now' /\ Debt(v, l)' >= Debt(v, l)
      BY <1>3, <1>4, <3>2, <3>3
    <3> QED
      BY <1>2, <1>5, <1>6, <3>1, <3>4, QuotaFrame
  <2> QED
    BY <1>1, <2>1, <2>2, <2>3 DEF Acquired
<1> QED
  BY <1>7, <1>8

LEMMA QuotasDebtPaid ==
  ASSUME Located, Quotas, NEW r \in RowIds, NEW k \in Limiters, DebtPaid(r, k) PROVE Quotas'
<1> DEFINE w == worker[r]
<1>1. /\ pc[r] = k /\ Granted(r, k) /\ reserved' = reserved \ {r}
      /\ UNCHANGED <<now, wake, worker, bucket>>
  BY DEF DebtPaid
<1>2. Located' /\ w \in Workers
  BY <1>1, LocatedDebtPaid DEF Located, Placed, Limiters
<1> SUFFICES ASSUME NEW v \in Workers, NEW l \in Limiters PROVE WithinQuota(v, l)'
  BY DEF Quotas
<1>3. WithinQuota(v, l)
  BY DEF Quotas
<1>4. CASE ~(v = w /\ l = k)
  <2>1. Passed(v, l)' = Passed(v, l) /\ Asleep(v, l)' = Asleep(v, l)
    BY <1>1, <1>4, GrantedSets
  <2>2. /\ bucket[v][l].tokens <= Second /\ bucket[v][l].last <= now /\ Debt(v, l) \in Int /\ now \in Nat
    BY <1>3, Counts DEF WithinQuota
  <2>3. Debt(v, l)' = Debt(v, l)
    BY <1>1 DEF Debt
  <2>4. /\ now' >= now /\ bucket'[v][l].tokens <= Second /\ bucket'[v][l].last <= now'
        /\ Debt(v, l)' >= Debt(v, l)
    BY <1>1, <2>2, <2>3
  <2> QED
    BY <1>1, <1>2, <1>3, <2>1, <2>4, QuotaFrame
<1>5. CASE v = w /\ l = k
  BY <1>2, <1>3, <1>5, QuotaDebtPaid
<1> QED
  BY <1>4, <1>5

-----------------------------------------------------------------------------
(* The bursts.  What a small request takes is in the bucket; the large ones  *)
(* wake up at least their cost apart, and are let through soon after that.  *)

Until(w, k, hi)       == {s \in Asleep(w, k) : wake[s] <= hi}
Between(w, k, lo, hi) == {s \in Until(w, k, hi) : lo <= wake[s]}

\* No sleeper oversleeps by more than Lag.
Timely == \A r \in reserved : now <= wake[r] + Lag

\* The requests from the i-th on took what the bucket held and gained since.
Saved(w, k) ==
  LET times == grants[w][k]
  IN \A i \in 1 .. Len(times) :
       (Len(times) - i + 1) * Cost[k] <= Second + Debt(w, k) - times[i]

\* Those who sleep off their debt wake up one after the other, ...
Spaced(w, k) ==
  \A lo, hi \in Int : lo <= hi => Cardinality(Between(w, k, lo, hi)) * Cost[k] <= hi - lo + Cost[k]

\* ... and with those let through from the i-th on they are as many as have
\* been paid for.
InLine(w, k) ==
  LET times == grants[w][k]
  IN \A i \in 1 .. Len(times), hi \in Int :
       hi >= now \/ hi >= Debt(w, k) =>
         (Len(times) - i + Cardinality(Until(w, k, hi))) * Cost[k] <= hi - times[i] + Lag

Burst(w, k) ==
  LET times == grants[w][k]
      slack == IF Cost[k] > Second THEN Cost[k] + Lag ELSE Second
  IN \A i, j \in 1 .. Len(times) :
       i <= j => (j - i + 1) * Cost[k] <= slack + (times[j] - times[i])

WithinBurst(w, k) ==
  /\ Cost[k] <= Second => bucket[w][k].tokens >= 0 /\ Saved(w, k)
  /\ Cost[k] > Second => Spaced(w, k) /\ InLine(w, k)
  /\ Burst(w, k)

GrantTimes == grants \in [Workers -> [Limiters -> Seq(Nat)]]
Bursts == GrantTimes /\ Timely /\ \A w \in Workers, k \in Limiters : WithinBurst(w, k)

LEMMA BurstsInit == Init => Bursts
<1> SUFFICES ASSUME Init PROVE Bursts
  OBVIOUS
<1>1. /\ grants = [w \in Workers |-> [k \in Limiters |-> <<>>]] /\ reserved = {}
      /\ bucket = [w \in Workers |-> [k \in Limiters |-> [tokens |-> Second, last |-> 0]]]
  BY DEF Init
<1>2. GrantTimes /\ Timely
  BY <1>1 DEF GrantTimes, Timely
<1>3. ASSUME NEW w \in Workers, NEW k \in Limiters PROVE WithinBurst(w, k)
  <2>1. Len(grants[w][k]) = 0 /\ bucket[w][k].tokens = Second /\ Asleep(w, k) = {}
    BY <1>1 DEF Asleep
  <2>2. Second \in Nat /\ Cost[k] \in Nat
    BY Constants
  <2>3. Saved(w, k) /\ InLine(w, k) /\ Burst(w, k)
    BY <2>1 DEF Saved, InLine, Burst
  <2>4. Spaced(w, k)
    <3> SUFFICES ASSUME NEW lo \in Int, NEW hi \in Int, lo <= hi
                 PROVE  Cardinality(Between(w, k, lo, hi)) * Cost[k] <= hi - lo + Cost[k]
      BY DEF Spaced
    <3>1. Cardinality(Between(w, k, lo, hi)) = 0
      BY <2>1, FS_EmptySet DEF Between, Until
    <3> QED
      BY <2>2, <3>1
  <2> QED
    BY <2>1, <2>2, <2>3, <2>4 DEF WithinBurst
<1> QED
  BY <1>2, <1>3 DEF Bursts

\* Nothing is let through or reserved, time and the bucket may go on.
LEMMA BurstFrame ==
  ASSUME Located, Located', GrantTimes, NEW w \in Workers, NEW k \in Limiters, WithinBurst(w, k),
         grants'[w][k] = grants[w][k], Asleep(w, k)' = Asleep(w, k),
         \A r \in Asleep(w, k) : wake'[r] = wake[r],
         now' >= now, Debt(w, k)' >= Debt(w, k), Cost[k] <= Second => bucket'[w][k].tokens >= 0
  PROVE  WithinBurst(w, k)'
<1> DEFINE times == grants[w][k]
<1>1. /\ now \in Nat /\ now' \in Nat /\ Debt(w, k) \in Int /\ Debt(w, k)' \in Int
      /\ Second \in Nat /\ Cost[k] \in Nat
  <2>1. now \in Nat /\ Debt(w, k) \in Int
    BY Counts
  <2>2. now' \in Nat /\ bucket'[w][k] \in [tokens : Int, last : Nat]
    BY DEF Located, Types
  <2>3. Debt(w, k)' \in Int
    BY <2>2 DEF Debt
  <2> QED
    BY <2>1, <2>2, <2>3, Constants
<1>2. times \in Seq(Nat)
  BY DEF GrantTimes
<1>3. Len(times) \in Nat /\ \A i \in 1 .. Len(times) : times[i] \in Nat
  BY <1>2
<1> HIDE DEF times
<1>4. \A hi \in Int : Until(w, k, hi)' = Until(w, k, hi)
  BY DEF Until
<1>5. \A lo, hi \in Int : Between(w, k, lo, hi)' = Between(w, k, lo, hi)
  <2> SUFFICES ASSUME NEW lo \in Int, NEW hi \in Int PROVE Between(w, k, lo, hi)' = Between(w, k, lo, hi)
    OBVIOUS
  <2>1. \A s \in Until(w, k, hi) : wake'[s] = wake[s]
    BY DEF Until
  <2> QED
    BY <1>4, <2>1 DEF Between
<1>6. ASSUME Saved(w, k) PROVE Saved(w, k)'
  <2> SUFFICES ASSUME NEW i \in 1 .. Len(times)
               PROVE  (Len(times) - i + 1) * Cost[k] <= Second + Debt(w, k)' - times[i]
    BY DEF Saved, times
  <2>1. (Len(times) - i + 1) * Cost[k] <= Second + Debt(w, k) - times[i]
    BY <1>6 DEF Saved, times
  <2>2. (Len(times) - i + 1) * Cost[k] \in Int /\ times[i] \in Nat
    BY <1>1, <1>3
  <2> QED
    BY <1>1, <2>1, <2>2
<1>7. ASSUME Spaced(w, k) PROVE Spaced(w, k)'
  BY <1>5, <1>7 DEF Spaced
<1>8. ASSUME InLine(w, k) PROVE InLine(w, k)'
  <2> SUFFICES ASSUME NEW i \in 1 .. Len(times), NEW hi \in Int, hi >= now' \/ hi >= Debt(w, k)'
               PROVE  (Len(times) - i + Cardinality(Until(w, k, hi)')) * Cost[k] <= hi - times[i] + Lag
    BY DEF InLine, times
  <2>1. hi >= now \/ hi >= Debt(w, k)
    BY <1>1
  <2> QED
    BY <1>4, <1>8, <2>1 DEF InLine, times
<1>9. Burst(w, k)'
  BY DEF WithinBurst, Burst
<1> QED
  BY <1>1, <1>6, <1>7, <1>8, <1>9 DEF WithinBurst

\* A request is let through now.
Extended(w, k) == grants' = [grants EXCEPT ![w][k] = Append(@, now)]

LEMMA Extends ==
  ASSUME GrantTimes, now \in Nat, NEW w \in Workers, NEW k \in Limiters, Extended(w, k)
  PROVE  /\ GrantTimes'
         /\ \A v \in Workers, l \in Limiters : ~(v = w /\ l = k) => grants'[v][l] = grants[v][l]
         /\ grants[w][k] \in Seq(Nat) /\ Len(grants[w][k]) \in Nat
         /\ Len(grants'[w][k]) = Len(grants[w][k]) + 1
         /\ grants'[w][k][Len(grants[w][k]) + 1] = now
         /\ \A i \in 1 .. Len(grants[w][k]) : grants'[w][k][i] = grants[w][k][i] /\ grants[w][k][i] \in Nat
<1> DEFINE times == grants[w][k]
<1>1. times \in Seq(Nat)
  BY DEF GrantTimes
<1>2. grants'[w][k] = Append(times, now)
  BY DEF GrantTimes, Extended
<1>3. GrantTimes' /\ \A v \in Workers, l \in Limiters : ~(v = w /\ l = k) => grants'[v][l] = grants[v][l]
  <2>1. Append(times, now) \in Seq(Nat)
    BY <1>1
  <2> QED
    BY <2>1 DEF GrantTimes, Extended
<1> HIDE DEF times
<1>4. /\ Len(times) \in Nat /\ Len(Append(times, now)) = Len(times) + 1
      /\ Append(times, now)[Len(times) + 1] = now
      /\ \A i \in 1 .. Len(times) : Append(times, now)[i] = times[i] /\ times[i] \in Nat
  BY <1>1
<1> QED
  BY <1>1, <1>2, <1>3, <1>4 DEF times

\* The bound of the intervals that end now is all that is new.
LEMMA BurstExtends ==
  ASSUME Located, GrantTimes, NEW w \in Workers, NEW k \in Limiters, Extended(w, k), Burst(w, k),
         LET n     == Len(grants[w][k])
             slack == IF Cost[k] > Second THEN Cost[k] + Lag ELSE Second
         IN \A i \in 1 .. n + 1 : (n - i + 2) * Cost[k] <= slack + (now - grants'[w][k][i])
  PROVE  Burst(w, k)'
<1> DEFINE times == grants[w][k]
           n     == Len(grants[w][k])
           new   == grants'[w][k]
           slack == IF Cost[k] > Second THEN Cost[k] + Lag ELSE Second
<1>1. /\ n \in Nat /\ Len(new) = n + 1 /\ new[n + 1] = now
      /\ \A i \in 1 .. n : new[i] = times[i]
  BY Extends DEF Located, Types
<1>2. \A i \in 1 .. n + 1 : (n - i + 2) * Cost[k] <= slack + (now - new[i])
  OBVIOUS
<1>3. \A i, j \in 1 .. n : i <= j => (j - i + 1) * Cost[k] <= slack + (times[j] - times[i])
  BY DEF Burst
<1> SUFFICES ASSUME NEW i \in 1 .. n + 1, NEW j \in 1 .. n + 1, i <= j
             PROVE  (j - i + 1) * Cost[k] <= slack + (new[j] - new[i])
  BY <1>1 DEF Burst
<1> HIDE DEF times, n, new, slack
<1>4. CASE j = n + 1
  <2>1. j - i + 1 = n - i + 2
    BY <1>1, <1>4
  <2> QED
    BY <1>1, <1>2, <1>4, <2>1
<1>5. CASE j \in 1 .. n
  <2>1. i \in 1 .. n
    BY <1>1, <1>5
  <2> QED
    BY <1>1, <1>3, <1>5, <2>1
<1> QED
  BY <1>1, <1>4, <1>5

LEMMA PassSmall ==
  ASSUME NEW b \in [tokens : Int, last : Nat], NEW c \in Nat, now \in Nat, b.tokens <= Second, b.last <= now,
         c <= Second, b.tokens >= 0
  PROVE  Pass(b, c).left >= 0 /\ (Pass(b, c).taken => Pass(b, c).left <= Second - c)
BY Constants DEF Pass, Refilled, Lesser

\* A request that fits the bucket takes its tokens.
LEMMA BurstGranted ==
  ASSUME Located, Located', GrantTimes, NEW r \in RowIds, NEW k \in Limiters, NEW w, NEW p,
         Acquired(r, k, w, p), Extended(w, k), p.taken, p.left >= 0, Cost[k] <= Second,
         p.left <= Second - Cost[k], WithinBurst(w, k)
  PROVE  WithinBurst(w, k)'
<1> DEFINE times == grants[w][k]
           n     == Len(grants[w][k])
           new   == grants'[w][k]
           c     == Cost[k]
           d     == now - p.left
<1>1. /\ w \in Workers /\ now' = now
      /\ bucket' = [bucket EXCEPT ![w][k] = [tokens |-> p.left, last |-> now]]
      /\ p.left \in Int /\ d >= Debt(w, k) + c
  BY DEF Acquired
<1>2. now \in Nat /\ Debt(w, k) \in Int /\ c \in Nat /\ Second \in Nat /\ ~(c > Second)
  BY <1>1, Counts, Constants
<1>3. /\ n \in Nat /\ Len(new) = n + 1 /\ new[n + 1] = now
      /\ \A i \in 1 .. n : new[i] = times[i] /\ times[i] \in Nat
  BY <1>1, <1>2, Extends
<1>4. bucket'[w][k] = [tokens |-> p.left, last |-> now] /\ Debt(w, k)' = d
  BY <1>1 DEF Located, Types, Debt
<1>5. \A i \in 1 .. n : (n - i + 1) * c <= Second + Debt(w, k) - times[i]
  BY <1>2 DEF WithinBurst, Saved
<1> HIDE DEF times, n, new, c
<1>6. ASSUME NEW i \in 1 .. n + 1 PROVE (n - i + 2) * c <= Second + d - new[i]
  <2>1. CASE i = n + 1
    <3>1. (n - i + 2) * c = c
      <4>1. n - i + 2 = 1
        BY <1>3, <2>1
      <4> QED
        BY <1>2, <4>1
    <3>2. c <= Second - p.left
      BY <1>1, <1>2 DEF c
    <3> HIDE DEF d
    <3>3. Second + d - new[i] = Second - p.left
      BY <1>1, <1>2, <1>3, <2>1 DEF d
    <3> QED
      BY <3>1, <3>2, <3>3
  <2>2. CASE i \in 1 .. n
    <3> DEFINE m == n - i + 1
    <3>1. m \in Nat /\ n - i + 2 = m + 1
      BY <1>3, <2>2
    <3>2. m * c <= Second + Debt(w, k) - times[i]
      BY <1>5, <2>2
    <3> HIDE DEF m
    <3>3. (m + 1) * c = m * c + c /\ m * c \in Nat
      BY <1>2, <3>1, Times
    <3>4. new[i] = times[i] /\ times[i] \in Nat /\ d \in Int /\ d >= Debt(w, k) + c
      BY <1>1, <1>2, <1>3, <2>2
    <3>5. (n - i + 2) * c = m * c + c
      BY <3>1, <3>3
    <3> HIDE DEF d
    <3> QED
      BY <1>2, <3>2, <3>3, <3>4, <3>5
  <2> QED
    BY <1>3, <2>1, <2>2
<1>7. Saved(w, k)'
  <2> SUFFICES ASSUME NEW i \in 1 .. n + 1
               PROVE  (n + 1 - i + 1) * c <= Second + Debt(w, k)' - new[i]
    BY <1>3 DEF Saved, n, new, c
  <2>1. n + 1 - i + 1 = n - i + 2
    BY <1>3
  <2> QED
    BY <1>4, <1>6, <2>1
<1>8. Burst(w, k)'
  <2>1. ASSUME NEW i \in 1 .. n + 1 PROVE (n - i + 2) * c <= Second + (now - new[i])
    <3>1. new[i] \in Nat
      BY <1>2, <1>3
    <3>2. n - i + 2 \in Nat
      BY <1>3
    <3>3. (n - i + 2) * c \in Nat
      BY <1>2, <3>2, Times
    <3> QED
      BY <1>1, <1>2, <1>6, <3>1, <3>3
  <2>2. Burst(w, k)
    BY DEF WithinBurst
  <2> QED
    BY <1>1, <1>2, <2>1, <2>2, BurstExtends DEF n, new, c
<1> QED
  BY <1>1, <1>2, <1>4, <1>7, <1>8 DEF WithinBurst, c

LEMMA WindowSets ==
  ASSUME Located, NEW w \in Workers, NEW k \in Limiters, NEW lo \in Int, NEW hi \in Int
  PROVE  /\ Until(w, k, hi) \in SUBSET Asleep(w, k) /\ Until(w, k, hi) \in SUBSET RowIds
         /\ Between(w, k, lo, hi) \in SUBSET Until(w, k, hi) /\ Between(w, k, lo, hi) \in SUBSET RowIds
         /\ Cardinality(Until(w, k, hi)) \in Nat /\ Cardinality(Between(w, k, lo, hi)) \in Nat
<1>1. Until(w, k, hi) \in SUBSET Asleep(w, k) /\ Between(w, k, lo, hi) \in SUBSET Until(w, k, hi)
  BY DEF Until, Between
<1>2. Until(w, k, hi) \in SUBSET RowIds /\ Between(w, k, lo, hi) \in SUBSET RowIds
  BY <1>1, Counts
<1> QED
  BY <1>1, <1>2, RowSets

\* A larger one falls asleep behind all the others, at least its cost later.
LEMMA BurstReserved ==
  ASSUME Located, Located', GrantTimes, NEW r \in RowIds, NEW k \in Limiters, NEW w, NEW p,
         Acquired(r, k, w, p), p.taken, Cost[k] > Second, p.sleep = 0 - p.left,
         wake' = [wake EXCEPT ![r] = now + p.sleep], reserved' = reserved \cup {r}, pc' = pc,
         grants' = grants, WithinQuota(w, k), WithinBurst(w, k)
  PROVE  WithinBurst(w, k)'
<1> DEFINE times == grants[w][k]
           n     == Len(grants[w][k])
           c     == Cost[k]
           d     == now - p.left
           D     == Debt(w, k)
<1>1. /\ w \in Workers /\ w = worker[r] /\ pc[r] = k /\ r \notin reserved /\ now' = now /\ worker' = worker
      /\ bucket' = [bucket EXCEPT ![w][k] = [tokens |-> p.left, last |-> now]]
      /\ p.left \in Int /\ d >= D + c
  BY DEF Acquired
<1>2. now \in Nat /\ D \in Int /\ c \in Nat /\ Second \in Nat /\ c > Second /\ d \in Int /\ Lag \in Nat
  BY <1>1, Counts, Constants, RewardAssumption
<1>3. n \in Nat /\ \A i \in 1 .. n : times[i] \in Nat
  <2>1. times \in Seq(Nat)
    BY <1>1 DEF GrantTimes
  <2> QED
    BY <2>1
<1>4. Asleep(w, k)' = Asleep(w, k) \cup {r} /\ r \notin Asleep(w, k)
  BY <1>1 DEF Asleep
<1>5. wake \in [RowIds -> Nat] /\ wake'[r] = d /\ \A s \in Asleep(w, k) : wake'[s] = wake[s] /\ s \in RowIds
  <2>1. wake \in [RowIds -> Nat] /\ Asleep(w, k) \in SUBSET RowIds
    BY <1>1, Counts DEF Located, Types
  <2>2. now + p.sleep = d
    BY <1>1, <1>2
  <2> HIDE DEF d
  <2> QED
    BY <1>4, <2>1, <2>2
<1>6. bucket'[w][k] = [tokens |-> p.left, last |-> now] /\ Debt(w, k)' = d
  BY <1>1 DEF Located, Types, Debt
<1>7. \A s \in Asleep(w, k) : wake[s] <= D /\ wake[s] \in Nat
  BY <1>5 DEF WithinQuota, InTurn
<1>8. Spaced(w, k) /\ InLine(w, k) /\ Burst(w, k)
  BY <1>2 DEF WithinBurst
<1> HIDE DEF times, n, c, d, D
<1>9. \A hi \in Int : Until(w, k, hi)' = IF d <= hi THEN Until(w, k, hi) \cup {r} ELSE Until(w, k, hi)
  <2> SUFFICES ASSUME NEW hi \in Int
               PROVE  Until(w, k, hi)' = IF d <= hi THEN Until(w, k, hi) \cup {r} ELSE Until(w, k, hi)
    OBVIOUS
  <2>1. Until(w, k, hi)' = {s \in Asleep(w, k) \cup {r} : wake'[s] <= hi}
    BY <1>4 DEF Until
  <2> QED
    BY <1>5, <2>1 DEF Until
<1>10. ASSUME NEW hi \in Int, D <= hi PROVE Until(w, k, hi) = Until(w, k, D)
  <2>1. \A s \in Asleep(w, k) : wake[s] <= hi /\ wake[s] <= D
    BY <1>2, <1>7, <1>10
  <2> QED
    BY <2>1 DEF Until
<1>11. InLine(w, k)'
  <2> SUFFICES ASSUME NEW i \in 1 .. n, NEW hi \in Int, hi >= now \/ hi >= d
               PROVE  (n - i + Cardinality(Until(w, k, hi)')) * c <= hi - times[i] + Lag
    BY <1>1, <1>6 DEF InLine, times, n, c
  <2>1. CASE ~(d <= hi)
    <3>1. Until(w, k, hi)' = Until(w, k, hi) /\ hi >= now
      BY <1>2, <1>9, <2>1
    <3> QED
      BY <1>8, <3>1 DEF InLine, times, n, c
  <2>2. CASE d <= hi
    <3> DEFINE m == n - i + Cardinality(Until(w, k, D))
    <3>1. D <= hi
      BY <1>1, <1>2, <2>2
    <3>2. Until(w, k, hi)' = Until(w, k, D) \cup {r} /\ r \notin Until(w, k, D)
      BY <1>4, <1>9, <1>10, <2>2, <3>1 DEF Until
    <3>3. Cardinality(Until(w, k, D)) \in Nat /\ Cardinality(Until(w, k, hi)') = Cardinality(Until(w, k, D)) + 1
      <4>1. Until(w, k, D) \in SUBSET RowIds /\ Cardinality(Until(w, k, D)) \in Nat
        BY <1>1, <1>2, WindowSets
      <4>2. r \in RowIds \ Until(w, k, D)
        BY <3>2
      <4>3. Cardinality(Until(w, k, D) \cup {r}) = Cardinality(Until(w, k, D)) + 1
        BY <4>1, <4>2, RowSets
      <4> QED
        BY <3>2, <4>1, <4>3
    <3>4. m \in Nat /\ n - i + Cardinality(Until(w, k, hi)') = m + 1
      BY <1>3, <3>3
    <3>5. m * c <= D - times[i] + Lag
      <4>1. D >= D
        BY <1>2
      <4> QED
        BY <1>2, <1>8, <4>1 DEF InLine, times, n, c, D
    <3> HIDE DEF m
    <3>6. (m + 1) * c = m * c + c /\ m * c \in Nat
      BY <1>2, <3>4, Times
    <3>7. m * c + c <= hi - times[i] + Lag
      BY <1>1, <1>2, <1>3, <2>2, <3>5, <3>6
    <3> QED
      BY <3>4, <3>6, <3>7
  <2> QED
    BY <2>1, <2>2
<1>12. Spaced(w, k)'
  <2> SUFFICES ASSUME NEW lo \in Int, NEW hi \in Int, lo <= hi
               PROVE  Cardinality(Between(w, k, lo, hi)') * c <= hi - lo + c
    BY DEF Spaced, c
  <2>1. Between(w, k, lo, hi)' = {s \in Until(w, k, hi)' : lo <= wake'[s]}
    BY DEF Between
  <2>2. \A s \in Until(w, k, hi) : wake'[s] = wake[s]
    BY <1>5 DEF Until
  <2>3. CASE ~(lo <= d /\ d <= hi)
    <3>1. Between(w, k, lo, hi)' = Between(w, k, lo, hi)
      BY <1>5, <1>9, <2>1, <2>2, <2>3 DEF Between
    <3> QED
      BY <1>8, <3>1 DEF Spaced, c
  <2>4. CASE lo <= d /\ d <= hi
    <3> DEFINE m == Cardinality(Between(w, k, lo, D))
    <3>1. D <= hi
      BY <1>1, <1>2, <2>4
    <3>2. Between(w, k, lo, hi)' = Between(w, k, lo, D) \cup {r}
      BY <1>5, <1>9, <1>10, <2>1, <2>2, <2>4, <3>1 DEF Between
    <3>3. r \notin Between(w, k, lo, D)
      BY <1>4 DEF Between, Until
    <3>4. m \in Nat /\ Cardinality(Between(w, k, lo, hi)') = m + 1
      <4>1. Between(w, k, lo, D) \in SUBSET RowIds /\ Cardinality(Between(w, k, lo, D)) \in Nat
        BY <1>1, <1>2, WindowSets
      <4>2. r \in RowIds \ Between(w, k, lo, D)
        BY <3>3
      <4>3. Cardinality(Between(w, k, lo, D) \cup {r}) = Cardinality(Between(w, k, lo, D)) + 1
        BY <4>1, <4>2, RowSets
      <4> QED
        BY <3>2, <4>1, <4>3
    <3>5. CASE lo <= D
      <4>1. m * c <= D - lo + c
        BY <1>2, <1>8, <3>5 DEF Spaced, c
      <4> HIDE DEF m
      <4>2. (m + 1) * c = m * c + c /\ m * c \in Nat
        BY <1>2, <3>4, Times
      <4>3. m * c + c <= hi - lo + c
        BY <1>1, <1>2, <2>4, <4>1, <4>2
      <4> QED
        BY <3>4, <4>2, <4>3
    <3>6. CASE ~(lo <= D)
      <4>1. ASSUME NEW s \in Between(w, k, lo, D) PROVE FALSE
        <5>1. s \in Asleep(w, k) /\ lo <= wake[s] /\ wake[s] <= D
          BY <4>1 DEF Between, Until
        <5> QED
          BY <1>2, <1>7, <3>6, <5>1
      <4>2. Between(w, k, lo, D) = {}
        BY <4>1
      <4>3. Cardinality(Between(w, k, lo, hi)') = 1
        BY <3>4, <4>2, FS_EmptySet
      <4> QED
        BY <1>2, <4>3
    <3> QED
      BY <3>5, <3>6
  <2> QED
    BY <2>3, <2>4
<1>13. Burst(w, k)'
  BY <1>8 DEF Burst
<1> QED
  BY <1>2, <1>11, <1>12, <1>13 DEF WithinBurst, c

\* It is let through when it wakes up, or soon after.
LEMMA BurstDebtPaid ==
  ASSUME Located, Located', GrantTimes, Timely, NEW r \in RowIds, NEW k \in Limiters, DebtPaid(r, k),
         NEW w \in Workers, w = worker[r], WithinQuota(w, k), WithinBurst(w, k)
  PROVE  WithinBurst(w, k)'
<1> DEFINE times == grants[w][k]
           n     == Len(grants[w][k])
           new   == grants'[w][k]
           c     == Cost[k]
           D     == Debt(w, k)
           U(hi) == Until(w, k, hi)
<1>1. /\ pc[r] = k /\ r \in reserved /\ now >= wake[r] /\ Granted(r, k) /\ reserved' = reserved \ {r}
      /\ UNCHANGED <<now, wake, worker, bucket>>
  BY DEF DebtPaid
<1>2. Extended(w, k)
  BY <1>1 DEF Granted, Extended
<1>3. Asleep(w, k)' = Asleep(w, k) \ {r} /\ r \in Asleep(w, k)
  BY <1>1, GrantedSets DEF Asleep
<1>4. /\ now \in Nat /\ D \in Int /\ c \in Nat /\ Second \in Nat /\ Lag \in Nat
      /\ wake \in [RowIds -> Nat] /\ wake[r] \in Nat
  BY Counts, Constants, RewardAssumption DEF Located, Types
<1>5. Debt(w, k)' = D
  BY <1>1 DEF Debt
<1>6. /\ n \in Nat /\ Len(new) = n + 1 /\ new[n + 1] = now
      /\ \A i \in 1 .. n : new[i] = times[i] /\ times[i] \in Nat
  BY <1>2, <1>4, Extends
<1>7. c > Second /\ wake[r] <= D
  BY <1>3 DEF WithinQuota, InTurn
<1>8. Spaced(w, k) /\ InLine(w, k) /\ Burst(w, k) /\ ~(c <= Second)
  BY <1>4, <1>7 DEF WithinBurst
<1>9. \A s \in Asleep(w, k) : s \in RowIds /\ wake[s] \in Nat /\ now - Lag <= wake[s]
  <2> SUFFICES ASSUME NEW s \in Asleep(w, k)
               PROVE  s \in RowIds /\ wake[s] \in Nat /\ now - Lag <= wake[s]
    OBVIOUS
  <2>1. s \in RowIds /\ s \in reserved
    BY Counts DEF Asleep
  <2>2. wake[s] \in Nat /\ now <= wake[s] + Lag
    BY <1>4, <2>1 DEF Timely
  <2> QED
    BY <1>4, <2>1, <2>2
<1> HIDE DEF times, n, new, c, D
<1>10. \A hi \in Int : U(hi)' = U(hi) \ {r}
  BY <1>1, <1>3 DEF Until
<1>11. ASSUME NEW hi \in Int, hi >= now \/ hi >= D
       PROVE  /\ r \in U(hi) /\ wake[r] <= hi
              /\ Cardinality(U(hi)) \in Nat /\ Cardinality(U(hi)) - 1 \in Nat
              /\ Cardinality(U(hi)') = Cardinality(U(hi)) - 1
  <2>1. wake[r] <= hi
    BY <1>1, <1>4, <1>7, <1>11
  <2>2. r \in U(hi)
    BY <1>3, <2>1 DEF Until
  <2>3. U(hi) \in SUBSET RowIds /\ U(hi) \ {r} \in SUBSET RowIds /\ Cardinality(U(hi)) \in Nat
    BY WindowSets
  <2> HIDE DEF U
  <2>4. Cardinality(U(hi) \ {r}) = Cardinality(U(hi)) - 1 /\ Cardinality(U(hi) \ {r}) \in Nat
    BY <2>2, <2>3, RowSets
  <2>5. U(hi)' = U(hi) \ {r}
    BY <1>10 DEF U
  <2> QED
    BY <2>1, <2>2, <2>3, <2>4, <2>5
<1>12. \A i \in 1 .. n, hi \in Int :
         hi >= now \/ hi >= D => (n - i + Cardinality(U(hi))) * c <= hi - times[i] + Lag
  BY <1>8 DEF InLine, times, n, c, D
<1>13. ASSUME NEW lo \in Int, NEW hi \in Int, lo <= hi
       PROVE  Cardinality(Between(w, k, lo, hi)) * c <= hi - lo + c
  BY <1>8, <1>13 DEF Spaced, c
<1>14. InLine(w, k)'
  <2> SUFFICES ASSUME NEW i \in 1 .. n + 1, NEW hi \in Int, hi >= now \/ hi >= D
               PROVE  (n + 1 - i + Cardinality(U(hi)')) * c <= hi - new[i] + Lag
    <3>1. \A i \in 1 .. n + 1, hi \in Int :
            hi >= now \/ hi >= D => (n + 1 - i + Cardinality(U(hi)')) * c <= hi - new[i] + Lag
      OBVIOUS
    <3>2. Len(new) = n + 1 /\ now' = now /\ Debt(w, k)' = D
      BY <1>1, <1>5, <1>6
    <3>3. ASSUME NEW i \in 1 .. Len(new), NEW hi \in Int, hi >= now' \/ hi >= Debt(w, k)'
          PROVE  (Len(new) - i + Cardinality(U(hi)')) * c <= hi - new[i] + Lag
      <4>1. i \in 1 .. n + 1 /\ (hi >= now \/ hi >= D)
        BY <3>2, <3>3
      <4>2. (n + 1 - i + Cardinality(U(hi)')) * c <= hi - new[i] + Lag
        BY <3>1, <4>1
      <4>3. Len(new) - i = n + 1 - i
        BY <1>6, <3>2
      <4> QED
        BY <4>2, <4>3, Zenon
    <3> QED
      BY <3>3 DEF InLine, new, c
  <2> DEFINE u == Cardinality(U(hi))
  <2>1. u \in Nat /\ u - 1 \in Nat /\ Cardinality(U(hi)') = u - 1 /\ wake[r] <= hi
    BY <1>11
  <2>2. CASE i \in 1 .. n
    <3>1. n + 1 - i + (u - 1) = n - i + u
      BY <1>6, <2>1, <2>2
    <3>2. (n - i + u) * c <= hi - times[i] + Lag
      BY <1>12, <2>2
    <3> QED
      BY <1>6, <2>1, <2>2, <3>1, <3>2
  <2>3. CASE i = n + 1
    <3> DEFINE lo == now - Lag
    <3>1. lo \in Int /\ lo <= hi
      BY <1>3, <1>4, <1>9, <2>1
    <3>2. Between(w, k, lo, hi) = U(hi)
      BY <1>9 DEF Between, Until
    <3>3. u * c <= hi - lo + c
      BY <1>13, <3>1, <3>2
    <3> DEFINE v == u - 1
    <3>4. v \in Nat /\ u = v + 1 /\ n + 1 - i + (u - 1) = v
      BY <1>6, <2>1, <2>3
    <3> HIDE DEF v, u
    <3>5. (v + 1) * c = v * c + c /\ v * c \in Nat
      BY <1>4, <3>4, Times
    <3>6. v * c <= hi - now + Lag
      BY <1>4, <3>3, <3>4, <3>5
    <3> QED
      BY <1>6, <2>1, <2>3, <3>4, <3>6
  <2> QED
    BY <1>6, <2>2, <2>3
<1>15. Spaced(w, k)'
  <2> SUFFICES ASSUME NEW lo \in Int, NEW hi \in Int, lo <= hi
               PROVE  Cardinality(Between(w, k, lo, hi)') * c <= hi - lo + c
    BY DEF Spaced, c
  <2> DEFINE a == Cardinality(Between(w, k, lo, hi)')
             b == Cardinality(Between(w, k, lo, hi))
  <2>1. Between(w, k, lo, hi)' \in SUBSET Between(w, k, lo, hi) /\ Between(w, k, lo, hi) \in SUBSET RowIds
    BY <1>1, <1>10, WindowSets DEF Between
  <2>2. a \in Nat /\ b \in Nat /\ a <= b
    <3>1. Between(w, k, lo, hi)' \in SUBSET RowIds
      BY <2>1
    <3> QED
      BY <2>1, <3>1, RowSets
  <2>3. b * c <= hi - lo + c
    BY <1>13
  <2> HIDE DEF a, b
  <2>4. a * c <= b * c /\ a * c \in Nat /\ b * c \in Nat
    BY <1>4, <2>2, Times
  <2>5. a * c <= hi - lo + c
    BY <1>4, <2>3, <2>4
  <2> QED
    BY <2>5 DEF a
<1>16. Burst(w, k)'
  <2>1. ASSUME NEW i \in 1 .. n + 1 PROVE (n - i + 2) * c <= c + Lag + (now - new[i])
    <3>1. CASE i = n + 1
      <4>1. n - i + 2 = 1 /\ new[i] = now
        BY <1>6, <3>1
      <4>2. (n - i + 2) * c = c
        BY <1>4, <4>1
      <4> QED
        BY <1>4, <4>1, <4>2
    <3>2. CASE i \in 1 .. n
      <4> DEFINE u == Cardinality(U(now))
                 m == n - i + 1
                 v == n - i + u
      <4>1. u \in Nat /\ u - 1 \in Nat
        BY <1>4, <1>11
      <4>2. m \in Nat /\ v \in Nat /\ m <= v /\ n - i + 2 = m + 1
        BY <1>6, <3>2, <4>1
      <4>3. v * c <= now - times[i] + Lag
        BY <1>4, <1>12, <3>2
      <4> HIDE DEF u, m, v
      <4>4. (m + 1) * c = m * c + c /\ m * c <= v * c /\ m * c \in Nat /\ v * c \in Nat
        BY <1>4, <4>2, Times
      <4>5. m * c + c <= c + Lag + (now - times[i])
        BY <1>4, <1>6, <3>2, <4>3, <4>4
      <4> QED
        BY <1>6, <3>2, <4>2, <4>4, <4>5
    <3> QED
      BY <1>6, <3>1, <3>2
  <2> QED
    BY <1>2, <1>7, <1>8, <2>1, BurstExtends DEF n, new, c
<1> QED
  BY <1>8, <1>14, <1>15, <1>16 DEF WithinBurst, c

LEMMA BurstsElsewhere ==
  ASSUME Located, Located', Quotas, Bursts, Timely', now' >= now, UNCHANGED <<reserved, bucket, grants>>,
         \A s \in reserved : pc'[s] = pc[s] /\ worker'[s] = worker[s] /\ wake'[s] = wake[s]
  PROVE  Bursts'
<1>1. GrantTimes /\ GrantTimes'
  BY DEF Bursts, GrantTimes
<1>2. ASSUME NEW w \in Workers, NEW k \in Limiters PROVE WithinBurst(w, k)'
  <2>1. WithinBurst(w, k)
    BY DEF Bursts
  <2>2. Asleep(w, k)' = Asleep(w, k) /\ \A s \in Asleep(w, k) : wake'[s] = wake[s]
    BY DEF Asleep
  <2>3. Debt(w, k)' = Debt(w, k) /\ Debt(w, k) \in Int /\ bucket[w][k].tokens \in Int
    BY Counts DEF Debt
  <2>4. Debt(w, k)' >= Debt(w, k) /\ (Cost[k] <= Second => bucket'[w][k].tokens >= 0)
    BY <2>1, <2>3 DEF WithinBurst
  <2> QED
    BY <1>1, <2>1, <2>2, <2>4, BurstFrame
<1> QED
  BY <1>1, <1>2 DEF Bursts

\* Only r moves, and it is not asleep.
LEMMA BurstsMoved ==
  ASSUME Located, Located', Quotas, Bursts, NEW r \in RowIds, r \notin reserved,
         UNCHANGED <<now, reserved, bucket, grants>>,
         \A s \in RowIds : s # r => pc'[s] = pc[s] /\ worker'[s] = worker[s] /\ wake'[s] = wake[s]
  PROVE  Bursts'
<1>1. reserved \subseteq RowIds /\ now \in Nat
  BY DEF Located, Types
<1>2. \A s \in reserved : pc'[s] = pc[s] /\ worker'[s] = worker[s] /\ wake'[s] = wake[s]
  BY <1>1
<1>3. Timely' /\ now' >= now
  BY <1>1, <1>2 DEF Bursts, Timely
<1> QED
  BY <1>2, <1>3, BurstsElsewhere

LEMMA BurstsRows ==
  ASSUME Located, Quotas, Bursts, NEW r \in RowIds, Generated(r) \/ ScoreReturns(r) \/ TimesOut(r)
  PROVE  Bursts'
<1>1. pc[r] \notin Limiters /\ r \notin reserved
  BY DEF Generated, ScoreReturns, TimesOut, Located, Placed, Limiters
<1>2. /\ UNCHANGED <<now, reserved, bucket, grants>>
      /\ \A s \in RowIds : s # r => pc'[s] = pc[s] /\ worker'[s] = worker[s] /\ wake'[s] = wake[s]
  BY DEF Generated, ScoreReturns, TimesOut, Release, limits, Located, Types
<1>3. Located'
  <2>1. CASE Generated(r)
    BY <2>1, LocatedGenerated
  <2>2. CASE ScoreReturns(r) \/ TimesOut(r)
    <3>1. pc[r] = "scoring"
      BY <2>2 DEF ScoreReturns, TimesOut
    <3> QED
      BY <2>2, <3>1, LocatedReleased
  <2> QED
    BY <2>1, <2>2
<1> QED
  BY <1>1, <1>2, <1>3, BurstsMoved

LEMMA BurstsDecoded ==
  ASSUME Located, Quotas, Bursts, NEW w \in Workers, Decoded(w) PROVE Bursts'
<1> DEFINE r == Head(pool[w])
<1>1. Located' /\ r \in RowIds /\ pc[r] = "decode" /\ pc' = [pc EXCEPT ![r] = "rpm"]
  BY LocatedDecoded
<1>2. r \notin reserved /\ UNCHANGED <<now, wake, reserved, worker, bucket, grants>>
  BY <1>1 DEF Decoded, limits, Located, Placed, Limiters
<1>3. \A s \in RowIds : s # r => pc'[s] = pc[s] /\ worker'[s] = worker[s] /\ wake'[s] = wake[s]
  BY <1>1, <1>2 DEF Located, Types
<1> QED
  BY <1>1, <1>2, <1>3, BurstsMoved

LEMMA BurstsStartScoring ==
  ASSUME Located, Quotas, Bursts, NEW w \in Workers, StartScoring(w) PROVE Bursts'
<1> DEFINE r == Head(queue[w])
<1>1. Located' /\ r \in RowIds /\ r \notin reserved
  BY LocatedStartScoring DEF Located, Placed, Limiters
<1>2. /\ pc' = [pc EXCEPT ![r] = "scoring"] /\ wake' = [wake EXCEPT ![r] = now + Timeout]
      /\ UNCHANGED <<now, reserved, worker, bucket, grants>>
  BY DEF StartScoring, limits
<1>3. \A s \in RowIds : s # r => pc'[s] = pc[s] /\ worker'[s] = worker[s] /\ wake'[s] = wake[s]
  BY <1>2 DEF Located, Types
<1> QED
  BY <1>1, <1>2, <1>3, BurstsMoved

\* The clock waits for the sleepers.
LEMMA BurstsTick ==
  ASSUME Located, Quotas, Bursts, Tick PROVE Bursts'
<1>1. now' = now + 1 /\ UNCHANGED <<pc, wake, reserved, worker, bucket, grants>>
  BY DEF Tick, row, limits
<1>2. now \in Nat /\ now' >= now /\ reserved \subseteq RowIds /\ wake \in [RowIds -> Nat] /\ Lag \in Nat
  BY <1>1, RewardAssumption DEF Located, Types
<1>3. Timely'
  <2> SUFFICES ASSUME NEW r \in reserved PROVE now' <= wake[r] + Lag
    BY <1>1 DEF Timely
  <2>1. r \in RowIds /\ pc[r] \in Limiters /\ wake[r] \in Nat
    BY <1>2 DEF Located, Placed
  <2>2. now < wake[r] + Lag
    BY <2>1 DEF Tick, Timed
  <2> QED
    BY <1>1, <1>2, <2>1, <2>2
<1>4. Located'
  BY QuietSteps, LocatedQuiet
<1> QED
  BY <1>1, <1>2, <1>3, <1>4, BurstsElsewhere

LEMMA BurstsStill ==
  ASSUME Located, Quotas, Bursts,
         \/ \E w \in Workers : ThreadStarts(w)
         \/ \E r \in RowIds : ThreadEnds(r)
         \/ \E a \in AgentIds : AgentAnswers(a)
         \/ BatchAnswers \/ Answered \/ UNCHANGED vars
  PROVE  Bursts'
<1>1. UNCHANGED <<now, pc, wake, reserved, worker, bucket, grants>>
  BY DEF ThreadStarts, ThreadEnds, AgentAnswers, BatchAnswers, Answered, vars, row, limits
<1>2. Located'
  BY LocatedThreadStarts, LocatedThreadEnds, QuietSteps, LocatedQuiet
<1>3. now \in Nat /\ now' >= now
  BY <1>1 DEF Located, Types
<1>4. Timely'
  BY <1>1 DEF Bursts, Timely
<1> QED
  BY <1>1, <1>2, <1>3, <1>4, BurstsElsewhere

LEMMA BurstsAcquire ==
  ASSUME Located, Quotas, Bursts, NEW r \in RowIds, NEW k \in Limiters, Acquire(r, k) PROVE Bursts'
<1> DEFINE w == worker[r]
           b == bucket[w][k]
           p == Pass(b, Cost[k])
<1>1. Acquired(r, k, w, p) /\ Located'
  BY AcquirePasses, LocatedAcquire
<1>2. /\ w \in Workers /\ b \in [tokens : Int, last : Nat] /\ now \in Nat /\ Cost[k] \in Nat /\ Second \in Nat
      /\ b.tokens <= Second /\ b.last <= now /\ WithinBurst(w, k) /\ GrantTimes /\ Timely
      /\ pc[r] = k /\ r \notin reserved
  BY <1>1, Constants DEF Acquired, Located, Types, Quotas, WithinQuota, Bursts
<1>3. Cost[k] <= Second => p.left >= 0 /\ (p.taken => p.left <= Second - Cost[k])
  <2> HIDE DEF b
  <2> SUFFICES ASSUME Cost[k] <= Second PROVE p.left >= 0 /\ (p.taken => p.left <= Second - Cost[k])
    OBVIOUS
  <2>1. b.tokens >= 0
    BY <1>2 DEF WithinBurst, b
  <2> QED
    BY <1>2, <2>1, PassSmall
<1>4. /\ bucket' = [bucket EXCEPT ![w][k] = [tokens |-> p.left, last |-> now]]
      /\ p.sleep \in Nat /\ UNCHANGED <<now, worker>>
      /\ \/ /\ Granted(r, k) /\ UNCHANGED <<wake, reserved>>
            /\ p.taken /\ p.left >= 0 /\ Cost[k] <= Second
         \/ /\ p.taken /\ Cost[k] > Second /\ p.sleep = 0 - p.left
            /\ wake' = [wake EXCEPT ![r] = now + p.sleep]
            /\ reserved' = reserved \cup {r} /\ UNCHANGED <<pc, grants>>
         \/ /\ wake' = [wake EXCEPT ![r] = now + p.sleep]
            /\ UNCHANGED <<pc, reserved, grants>>
  <2>1. IF p.sleep = 0
        THEN Granted(r, k) /\ UNCHANGED <<wake, reserved>>
        ELSE /\ wake' = [wake EXCEPT ![r] = now + p.sleep]
             /\ reserved' = IF p.taken THEN reserved \cup {r} ELSE reserved
             /\ UNCHANGED <<grants, pc>>
    BY DEF Acquire
  <2>2. /\ p.left \in Int /\ p.left <= Second /\ p.sleep \in Nat /\ p.taken \in BOOLEAN
        /\ p.sleep = 0 => p.taken /\ p.left >= 0 /\ Cost[k] <= Second
        /\ p.sleep # 0 /\ p.taken => Cost[k] > Second /\ p.sleep = 0 - p.left
    <3> HIDE DEF b
    <3> QED
      BY <1>2, PassFacts
  <2>3. bucket' = [bucket EXCEPT ![w][k] = [tokens |-> p.left, last |-> now]] /\ UNCHANGED <<now, worker>>
    BY <1>1 DEF Acquired
  <2> HIDE DEF p, w
  <2> QED
    BY <2>1, <2>2, <2>3
<1> HIDE DEF b, p
<1>5. reserved \subseteq RowIds /\ wake \in [RowIds -> Nat] /\ bucket \in Buckets /\ Lag \in Nat
  BY RewardAssumption DEF Located, Types, Buckets
<1>6. Timely'
  <2>1. \A s \in reserved : wake'[s] = wake[s]
    BY <1>2, <1>4, <1>5
  <2>2. CASE reserved' = reserved
    BY <1>2, <1>4, <2>1, <2>2 DEF Timely
  <2>3. CASE /\ reserved' = reserved \cup {r} /\ wake' = [wake EXCEPT ![r] = now + p.sleep]
    <3>1. wake'[r] = now + p.sleep
      BY <1>5, <2>3
    <3>2. now <= wake'[r] + Lag
      BY <1>2, <1>4, <1>5, <3>1
    <3> QED
      BY <1>2, <1>4, <2>1, <2>3, <3>2 DEF Timely
  <2> QED
    BY <1>4, <2>2, <2>3
<1>7. GrantTimes' /\ \A v \in Workers, l \in Limiters : ~(v = w /\ l = k) => grants'[v][l] = grants[v][l]
  <2>1. CASE Granted(r, k)
    <3>1. Extended(w, k)
      BY <2>1 DEF Granted, Extended
    <3> QED
      BY <1>2, <3>1, Extends
  <2>2. CASE UNCHANGED grants
    BY <1>2, <2>2 DEF GrantTimes
  <2> QED
    BY <1>4, <2>1, <2>2
<1>8. ASSUME NEW v \in Workers, NEW l \in Limiters PROVE WithinBurst(v, l)'
  <2>1. WithinBurst(v, l) /\ WithinQuota(v, l)
    BY DEF Bursts, Quotas
  <2>2. \A s \in Asleep(v, l) : wake'[s] = wake[s]
    BY <1>2, <1>4, <1>5 DEF Asleep
  <2>3. now' >= now
    BY <1>2, <1>4
  <2>4. CASE ~(v = w /\ l = k)
    <3>1. Asleep(v, l)' = Asleep(v, l)
      <4>1. CASE Granted(r, k) /\ UNCHANGED reserved
        <5>1. reserved' = reserved \ {r}
          BY <1>2, <4>1
        <5> QED
          BY <1>2, <1>4, <2>4, <4>1, <5>1, GrantedSets
      <4>2. CASE reserved' = reserved \cup {r} /\ UNCHANGED pc
        BY <1>2, <1>4, <2>4, <4>2 DEF Asleep
      <4>3. CASE UNCHANGED <<pc, reserved>>
        BY <1>4, <4>3 DEF Asleep
      <4> QED
        BY <1>4, <4>1, <4>2, <4>3
    <3>2. bucket'[v][l] = bucket[v][l]
      BY <1>4, <1>5, <2>4 DEF Buckets
    <3>3. Debt(v, l)' = Debt(v, l) /\ Debt(v, l) \in Int
      BY <3>2, Counts DEF Debt
    <3>4. Debt(v, l)' >= Debt(v, l) /\ (Cost[l] <= Second => bucket'[v][l].tokens >= 0)
      BY <2>1, <3>2, <3>3 DEF WithinBurst
    <3>5. grants'[v][l] = grants[v][l]
      BY <1>7, <2>4
    <3> QED
      BY <1>1, <1>2, <2>1, <2>2, <2>3, <3>1, <3>4, <3>5, BurstFrame
  <2>5. CASE v = w /\ l = k
    <3>1. CASE /\ Granted(r, k) /\ UNCHANGED <<wake, reserved>>
               /\ p.taken /\ p.left >= 0 /\ Cost[k] <= Second
      <4>1. Extended(w, k)
        BY <3>1 DEF Granted, Extended
      <4>2. p.left <= Second - Cost[k]
        BY <1>3, <3>1
      <4> HIDE DEF w
      <4> QED
        BY <1>1, <1>2, <2>5, <3>1, <4>1, <4>2, BurstGranted
    <3>2. CASE /\ p.taken /\ Cost[k] > Second /\ p.sleep = 0 - p.left
               /\ wake' = [wake EXCEPT ![r] = now + p.sleep]
               /\ reserved' = reserved \cup {r} /\ UNCHANGED <<pc, grants>>
      <4> HIDE DEF w
      <4> QED
        BY <1>1, <1>2, <2>1, <2>5, <3>2, BurstReserved
    <3>3. CASE UNCHANGED <<pc, reserved, grants>>
      <4>1. Asleep(v, l)' = Asleep(v, l)
        BY <1>4, <3>3 DEF Asleep
      <4>2. bucket'[v][l] = [tokens |-> p.left, last |-> now]
        BY <1>2, <1>4, <1>5, <2>5 DEF Buckets
      <4>3. Debt(v, l)' = now - p.left /\ now - p.left >= Debt(v, l)
        BY <1>1, <1>4, <2>5, <4>2 DEF Debt, Acquired
      <4>4. Debt(v, l)' >= Debt(v, l) /\ (Cost[l] <= Second => bucket'[v][l].tokens >= 0)
        BY <1>3, <2>5, <4>2, <4>3
      <4>5. grants'[v][l] = grants[v][l]
        BY <3>3
      <4> QED
        BY <1>1, <1>2, <2>1, <2>2, <2>3, <4>1, <4>4, <4>5, BurstFrame
    <3> QED
      BY <1>4, <3>1, <3>2, <3>3
  <2> QED
    BY <2>4, <2>5
<1> QED
  BY <1>6, <1>7, <1>8 DEF Bursts

LEMMA BurstsDebtPaid ==
  ASSUME Located, Quotas, Bursts, NEW r \in RowIds, NEW k \in Limiters, DebtPaid(r, k) PROVE Bursts'
<1> DEFINE w == worker[r]
<1>1. /\ pc[r] = k /\ Granted(r, k) /\ reserved' = reserved \ {r}
      /\ UNCHANGED <<now, wake, worker, bucket>>
  BY DEF DebtPaid
<1>2. Located' /\ w \in Workers /\ GrantTimes /\ Timely /\ now \in Nat
  BY <1>1, LocatedDebtPaid DEF Located, Types, Placed, Limiters, Bursts
<1>3. Extended(w, k)
  BY <1>1 DEF Granted, Extended
<1>4. GrantTimes' /\ \A v \in Workers, l \in Limiters : ~(v = w /\ l = k) => grants'[v][l] = grants[v][l]
  BY <1>2, <1>3, Extends
<1>5. Timely'
  BY <1>1, <1>2 DEF Timely
<1>6. ASSUME NEW v \in Workers, NEW l \in Limiters PROVE WithinBurst(v, l)'
  <2>1. WithinBurst(v, l) /\ WithinQuota(v, l)
    BY DEF Bursts, Quotas
  <2>2. CASE ~(v = w /\ l = k)
    <3>1. Asleep(v, l)' = Asleep(v, l) /\ grants'[v][l] = grants[v][l]
      BY <1>1, <1>4, <2>2, GrantedSets
    <3>2. Debt(v, l)' = Debt(v, l) /\ Debt(v, l) \in Int /\ bucket[v][l].tokens \in Int
      BY <1>1, Counts DEF Debt
    <3>3. /\ now' >= now /\ Debt(v, l)' >= Debt(v, l)
          /\ Cost[l] <= Second => bucket'[v][l].tokens >= 0
      BY <1>1, <1>2, <2>1, <3>2 DEF WithinBurst
    <3>4. \A s \in Asleep(v, l) : wake'[s] = wake[s]
      BY <1>1
    <3> QED
      BY <1>2, <2>1, <3>1, <3>3, <3>4, BurstFrame
  <2>3. CASE v = w /\ l = k
    BY <1>2, <2>1, <2>3, BurstDebtPaid
  <2> QED
    BY <2>2, <2>3
<1> QED
  BY <1>4, <1>5, <1>6 DEF Bursts

-----------------------------------------------------------------------------
(* The invariant. *)

RewardInvariant == Located /\ Permitted /\ Counted /\ Abandoned /\ Quotas /\ Bursts

LEMMA InvariantInit == Init => RewardInvariant
BY LocatedInit, SemaphoreInit, AbandonedInit, QuotasInit, BurstsInit DEF RewardInvariant

LEMMA InvariantNext == RewardInvariant /\ [Next]_vars => RewardInvariant'
<1> SUFFICES ASSUME RewardInvariant, [Next]_vars PROVE RewardInvariant'
  OBVIOUS
<1> USE DEF RewardInvariant
<1>1. ASSUME NEW r \in RowIds, Generated(r) PROVE RewardInvariant'
  BY <1>1, LocatedGenerated, SemaphoreGenerated, AbandonedElsewhere, QuotasGenerated, BurstsRows
<1>2. ASSUME NEW r \in RowIds, ScoreReturns(r) \/ TimesOut(r) PROVE RewardInvariant'
  <2>1. pc[r] = "scoring"
    BY <1>2 DEF ScoreReturns, TimesOut
  <2> QED
    BY <1>2, <2>1, LocatedReleased, SemaphoreReleased, AbandonedReleased, QuotasReleased, BurstsRows
<1>3. ASSUME NEW r \in RowIds, ThreadEnds(r) PROVE RewardInvariant'
  BY <1>3, LocatedThreadEnds, SemaphoreThreadEnds, AbandonedThreadEnds, QuotasThread, BurstsStill
<1>4. ASSUME NEW r \in RowIds, NEW k \in Limiters, Acquire(r, k) PROVE RewardInvariant'
  BY <1>4, LocatedAcquire, SemaphoreAcquire, AbandonedElsewhere, QuotasAcquire, BurstsAcquire
<1>5. ASSUME NEW r \in RowIds, NEW k \in Limiters, DebtPaid(r, k) PROVE RewardInvariant'
  BY <1>5, LocatedDebtPaid, SemaphoreAcquire, AbandonedElsewhere, QuotasDebtPaid, BurstsDebtPaid
<1>6. ASSUME NEW w \in Workers, Decoded(w) PROVE RewardInvariant'
  BY <1>6, LocatedDecoded, SemaphoreDecoded, AbandonedElsewhere, QuotasDecoded, BurstsDecoded
<1>7. ASSUME NEW w \in Workers, StartScoring(w) PROVE RewardInvariant'
  BY <1>7, LocatedStartScoring, SemaphoreStartScoring, AbandonedStartScoring, QuotasStartScoring,
     BurstsStartScoring
<1>8. ASSUME NEW w \in Workers, ThreadStarts(w) PROVE RewardInvariant'
  BY <1>8, LocatedThreadStarts, SemaphoreThreadStarts, AbandonedThreadStarts, QuotasThread, BurstsStill
<1>9. ASSUME \/ \E a \in AgentIds : AgentAnswers(a)
             \/ BatchAnswers \/ Tick \/ Answered \/ UNCHANGED vars
      PROVE  RewardInvariant'
  <2>1. Quiet
    BY <1>9, QuietSteps
  <2> QED
    BY <1>9, <2>1, LocatedQuiet, SemaphoreQuiet, AbandonedElsewhere, QuotasThread, BurstsTick, BurstsStill
<1> QED
  BY <1>1, <1>2, <1>3, <1>4, <1>5, <1>6, <1>7, <1>8, <1>9 DEF Next

LEMMA Invariance == Spec => []RewardInvariant
BY InvariantInit, InvariantNext, PTL DEF Spec

\* The semaphore of a reward worker neither loses nor gains a permit, whatever
\* scores, errors and timeouts have passed through it: no more than
\* max_concurrent rows hold a permit, and the others are free.  It does not
\* count the threads that timed out (limited.py:428-469).
THEOREM PermitsKept == Spec => []PermitsExact
<1>1. RewardInvariant => PermitsExact
  <2> SUFFICES ASSUME RewardInvariant, NEW w \in Workers
               PROVE  /\ Cardinality(Holding(w)) <= MaxConcurrent
                      /\ permits[w] = MaxConcurrent - Cardinality(Holding(w))
    BY DEF PermitsExact
  <2>1. Holding(w) \in SUBSET RowIds
    BY DEF Holding
  <2>2. Cardinality(Holding(w)) \in Nat
    BY <2>1, RowSets
  <2> QED
    BY <2>2, Constants DEF RewardInvariant, Permitted
<1> QED
  BY <1>1, Invariance, PTL

\* What the semaphore is worth: of the scoring functions that run on a reward
\* worker at a time, abandoned threads included, all but max_concurrent belong
\* to rows that have timed out (limited.py:385-396, 428-458).
THEOREM OnlyLateExceed == Spec => []ExcessIsLate
<1>1. RewardInvariant => ExcessIsLate
  <2> SUFFICES ASSUME RewardInvariant, NEW w \in Workers
               PROVE  Cardinality({r \in Running(w) : result[r] # "timeout"}) <= MaxConcurrent
    BY DEF ExcessIsLate
  <2> DEFINE S == {r \in Running(w) : result[r] # "timeout"}
  <2>1. /\ async \in BOOLEAN /\ threads[w] \in SUBSET RowIds
        /\ \A r \in threads[w] : worker[r] = w /\ (pc[r] = "scoring" \/ result[r] = "timeout")
    BY DEF RewardInvariant, Located, Types, Threaded, Abandoned
  <2>2. S \subseteq Holding(w) /\ Holding(w) \in SUBSET RowIds
    BY <2>1 DEF Running, Holding
  <2>3. permits[w] >= 0 /\ permits[w] = MaxConcurrent - Cardinality(Holding(w)) /\ permits[w] \in Int
    BY DEF RewardInvariant, Permitted, Located, Types
  <2> HIDE DEF S
  <2>4. S \in SUBSET RowIds /\ Cardinality(S) <= Cardinality(Holding(w))
        /\ Cardinality(S) \in Nat /\ Cardinality(Holding(w)) \in Nat
    BY <2>2, RowSets
  <2> QED
    BY <2>3, <2>4, Constants DEF S
<1> QED
  BY <1>1, Invariance, PTL

\* The scoring calls of a reward worker stay within what its two buckets hold
\* at the start and gain since, also when a request is larger than the bucket
\* and several sleep off the debt they left (limited.py:123-166).
THEOREM QuotaKept == Spec => []RateBound
<1>1. RewardInvariant => RateBound
  <2> SUFFICES ASSUME RewardInvariant, NEW w \in Workers, NEW k \in Limiters
               PROVE  calls[w] * Cost[k] <= Second + now
    BY DEF RateBound
  <2>1. Located /\ calls[w] <= Cardinality(Started(w)) /\ WithinQuota(w, k)
    BY DEF RewardInvariant, Counted, Quotas
  <2>2. Started(w) \in SUBSET Passed(w, k) /\ Started(w) \in SUBSET RowIds /\ Passed(w, k) \in SUBSET RowIds
    BY DEF Started, Passed
  <2> DEFINE n == Cardinality(Started(w))
             g == Cardinality(Passed(w, k))
  <2>3. n \in Nat /\ g \in Nat /\ n <= g
    BY <2>2, RowSets
  <2>4. calls[w] \in Nat /\ Cost[k] \in Nat /\ now \in Nat /\ Second \in Nat
    BY <2>1, Constants DEF Located, Types
  <2>5. g * Cost[k] <= Second + now
    BY <2>1 DEF WithinQuota
  <2> HIDE DEF n, g
  <2>6. calls[w] <= g
    BY <2>1, <2>3, <2>4 DEF n
  <2>7. calls[w] * Cost[k] <= g * Cost[k] /\ calls[w] * Cost[k] \in Nat /\ g * Cost[k] \in Nat
    BY <2>3, <2>4, <2>6, Times
  <2> QED
    BY <2>4, <2>5, <2>7
<1> QED
  BY <1>1, Invariance, PTL

\* In any interval a bucket lets no more requests through than it holds and
\* gains in that time, and one request and its oversleeping more when they are
\* larger than the bucket: sleepers let through out of order, several at a
\* time, included (limited.py:123-166).
THEOREM BurstsLimited == Spec => []BurstBound
<1>1. RewardInvariant => BurstBound
  BY DEF RewardInvariant, Bursts, WithinBurst, Burst, BurstBound
<1> QED
  BY <1>1, Invariance, PTL
=============================================================================

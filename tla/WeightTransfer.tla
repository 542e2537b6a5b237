--------------------------- MODULE WeightTransfer ---------------------------
(***************************************************************************)
(* How weights travel from the trainer to the engines in one               *)
(* synchronisation, with the NIXL engine (a chain of agents, each reading  *)
(* its predecessor's buffer) or the NCCL engine (a broadcast from rank 0): *)
(* checkpoint_engine/{nixl,nccl}_checkpoint_engine.py.  Every rank has two *)
(* buffers: one is filled while the other is read.  A rollout rank yields  *)
(* the tensors of a bucket to the sender of                                *)
(* workers/rollout/vllm_rollout/bucketed_weight_transfer.py, which packs   *)
(* them into one more buffer that the engine's process reads.              *)
(*                                                                         *)
(* Tensors are numbers, in the order the trainer produces them; a buffer   *)
(* maps every byte to the tensor it belongs to, so that an overwritten     *)
(* tensor shows.  Copies on a GPU stream are asynchronous: they sit in     *)
(* "copies" until the stream executes them.                                *)
(***************************************************************************)
EXTENDS Naturals, Sequences

CONSTANTS
    Engines,     \* subset of {"nixl", "nccl"}
    Trainers,    \* trainer workers
    Rollouts,    \* rollout workers
    Sizes,       \* bytes of each tensor
    BucketSize,  \* bytes of a buffer, the same on the rollout side
    None

ASSUME TransferAssumption ==
    /\ Engines \subseteq {"nixl", "nccl"}
    /\ {Trainers, Rollouts, BucketSize} \subseteq Nat \ {0}
    /\ Sizes \in Seq(1 .. BucketSize)   \* a larger tensor fails an assertion

Ranks     == 0 .. Rollouts   \* rank 0 is the trainer's; ranks -1 only produce weights
Receivers == 1 .. Rollouts
Tensors   == 1 .. Len(Sizes)
Bytes     == 0 .. BucketSize - 1
Buffers   == {1, 2}

VARIABLES
    engine,
    pc,        \* where each rank is
    bufs,      \* the two buffers of each rank
    send,      \* which of them is send_buf; the other is recv_buf
    meta,      \* bucket being filled (rank 0) or yielded: placed tensors, is_last
    next,      \* next weight of the trainer's generator
    copies,    \* copies on the GPU stream of each rank, in order
    readable,  \* buffer of the ReadableOperation or broadcast under way
    mail,      \* metadata on its way to each rank
    xfer,      \* read under way: its metadata and the bytes moved so far
    yielded,   \* tensors of the bucket yielded so far
    ipc,       \* the sender's buffer and the tensors placed in it
    inbox,     \* tensors the engine has cloned and not loaded
    loaded     \* tensors the engine has loaded

trainer == <<next>>
buffers == <<bufs, copies>>
network == <<readable, mail, xfer>>
local   == <<yielded, ipc, inbox, loaded>>
vars    == <<engine, pc, send, meta, trainer, buffers, network, local>>

-----------------------------------------------------------------------------
\* A bucket: tensors one after the other, as long as they fit.
Used(bucket) ==
  IF bucket = <<>> THEN 0
  ELSE LET last == bucket[Len(bucket)] IN last.offset + Sizes[last.tensor]
Fits(bucket, t)  == Used(bucket) + Sizes[t] <= BucketSize
Place(bucket, t) == Append(bucket, [tensor |-> t, offset |-> Used(bucket)])
Extent(entry)    == entry.offset .. entry.offset + Sizes[entry.tensor] - 1

EmptyBuffer == [b \in Bytes |-> 0]
\* what a reader of an entry finds: the tensor, or 0 for a damaged one
Found(buffer, entry) ==
  IF \A b \in Extent(entry) : buffer[b] = entry.tensor THEN entry.tensor ELSE 0

Recv(r) == 3 - send[r]

\* build_topology of the NIXL engine: the agents of all workers, the trainer's
\* first, are sliced as Python does (a negative index counts from the end, but
\* -0 is the beginning).
Agents == [i \in 1 .. Trainers + Rollouts |-> IF i = 1 THEN 0 ELSE IF i <= Trainers THEN None ELSE i - Trainers]
FromEnd(n) == IF n = 0 THEN 1 ELSE (Len(Agents) - n) + 1
PrevAgents == <<Agents[1]>> \o SubSeq(Agents, FromEnd(Rollouts), Len(Agents) - 1)
NextAgents == SubSeq(Agents, FromEnd(Rollouts - 1), Len(Agents)) \o <<None>>
TopologyFits == engine = "nixl" => Len(PrevAgents) = Rollouts /\ Len(NextAgents) = Rollouts

\* whom a rank reads, and who is told that it can be read
Source(r) == IF engine = "nixl" THEN PrevAgents[r] ELSE 0
Readers(r) == IF engine = "nccl" THEN IF r = 0 THEN Receivers ELSE {}
              ELSE {IF r = 0 THEN Agents[FromEnd(Rollouts)] ELSE NextAgents[r]} \ {None}
Go(r, label) == pc' = [pc EXCEPT ![r] = label]
Swap(r) == send' = [send EXCEPT ![r] = 3 - @]
NeverWaitsForCopies(r) == TRUE
Synchronized(r) == copies[r] = <<>>         \* torch.cuda.synchronize
NeverWaitsForReader(r) == TRUE
ReadersDone(r)  == readable[r] = None       \* wait_for_complete

Init ==
  /\ engine \in Engines
  /\ pc = [r \in Ranks |-> "unconnected"]
  /\ bufs = [r \in Ranks |-> [b \in Buffers |-> EmptyBuffer]]
  /\ send = [r \in Ranks |-> 1]
  /\ meta = [r \in Ranks |-> [bucket |-> <<>>, last |-> FALSE]]
  /\ next = 1
  /\ copies = [r \in Ranks |-> <<>>]
  /\ readable = [r \in Ranks |-> None]
  /\ mail = [r \in Ranks |-> <<>>]
  /\ xfer = [r \in Ranks |-> None]
  /\ yielded = [r \in Ranks |-> 0]
  /\ ipc = [r \in Ranks |-> [bytes |-> EmptyBuffer, bucket |-> <<>>]]
  /\ inbox = [r \in Ranks |-> <<>>] /\ loaded = [r \in Ranks |-> <<>>]

\* build_process_group: prepare, build_topology, two assertions, connect
BuildGroup ==
  /\ \A r \in Ranks : pc[r] = "unconnected"
  /\ pc' = [r \in Ranks |-> IF ~TopologyFits THEN "failed"
                           ELSE IF r = 0 THEN "fill" ELSE "metadata"]
  /\ UNCHANGED <<engine, send, meta, trainer, buffers, network, local>>

-----------------------------------------------------------------------------
\* A ReadableOperation, or the root's side of a broadcast: the metadata is
\* sent and the buffer is offered until everybody has read it.
Offer(r, m) ==
  /\ readable' = [readable EXCEPT ![r] = send[r]]
  /\ mail' = [q \in Ranks |->
                IF q \in Readers(r) THEN Append(mail[q], [m EXCEPT !.buffer = send[r]])
                                    ELSE mail[q]]

MessageUnmarked(bucket, last) == [bucket |-> bucket, last |-> FALSE, buffer |-> None]

Message(bucket, last) == [bucket |-> bucket, last |-> last, buffer |-> None]

\* send_weights: the next weight is copied into the bucket
Fill ==
  /\ pc[0] = "fill" /\ next \in Tensors /\ Fits(meta[0].bucket, next)
  /\ LET bucket == Place(meta[0].bucket, next) IN
       /\ meta' = [meta EXCEPT ![0].bucket = bucket]
       /\ copies' = [copies EXCEPT ![0] =
                       Append(@, [entry |-> bucket[Len(bucket)], buffer |-> send[0]])]
  /\ next' = next + 1
  /\ UNCHANGED <<engine, pc, send, bufs, network, local>>

\* the bucket is full: synchronize, wait for the previous one, offer, swap
Flush ==
  /\ pc[0] = "fill" /\ next \in Tensors /\ ~Fits(meta[0].bucket, next)
  /\ Synchronized(0) /\ ReadersDone(0)
  /\ Offer(0, Message(meta[0].bucket, FALSE))
  /\ meta' = [meta EXCEPT ![0].bucket = <<>>]
  /\ Swap(0)
  /\ UNCHANGED <<engine, pc, trainer, buffers, xfer, local>>

FlushLast ==
  /\ pc[0] = "fill" /\ next \notin Tensors
  /\ Synchronized(0) /\ ReadersDone(0)
  /\ Offer(0, Message(meta[0].bucket, TRUE))
  /\ Go(0, "last")
  /\ UNCHANGED <<engine, send, meta, trainer, buffers, xfer, local>>

SendDone ==
  /\ pc[0] = "last" /\ ReadersDone(0)
  /\ Go(0, "done")
  /\ UNCHANGED <<engine, send, meta, trainer, buffers, network, local>>

-----------------------------------------------------------------------------
\* receive_weights.  The metadata arrives and the read into recv_buf begins;
\* the first bucket is waited for, the others are read while one is yielded.
BeginRead(r) ==
  /\ \/ pc[r] \in {"metadata", "next_metadata"}
     \/ engine = "nccl" /\ pc[r] = "yield"
  /\ mail[r] # <<>> /\ xfer[r] = None /\ ~meta[r].last
  /\ xfer' = [xfer EXCEPT ![r] = [message |-> Head(mail[r]), moved |-> 0]]
  /\ mail' = [mail EXCEPT ![r] = Tail(@)]
  /\ IF pc[r] = "yield" THEN pc' = pc
     ELSE Go(r, IF pc[r] = "metadata" THEN "first" ELSE "yield")
  /\ UNCHANGED <<engine, send, meta, trainer, buffers, readable, local>>

Moved(r) == xfer[r] # None /\ xfer[r].moved = BucketSize
CopyByte(r) ==
  LET b == xfer[r].moved IN
    [bufs[r] EXCEPT ![Recv(r)][b] = bufs[Source(r)][xfer[r].message.buffer][b]]

\* RDMA, one byte after the other; the last one notifies the source
ReadByte(r) ==
  /\ engine = "nixl" /\ xfer[r] # None /\ ~Moved(r)
  /\ bufs' = [bufs EXCEPT ![r] = CopyByte(r)]
  /\ xfer' = [xfer EXCEPT ![r].moved = @ + 1]
  /\ readable' = IF Moved(r)' THEN [readable EXCEPT ![Source(r)] = None] ELSE readable
  /\ UNCHANGED <<engine, pc, send, meta, trainer, copies, mail, local>>

\* a collective moves when every rank has entered it
BroadcastByte ==
  /\ engine = "nccl"
  /\ \A r \in Receivers : xfer[r] # None /\ ~Moved(r)
  /\ bufs' = [r \in Ranks |-> IF r = 0 THEN bufs[0] ELSE CopyByte(r)]
  /\ xfer' = [r \in Ranks |-> IF r = 0 THEN None ELSE [xfer[r] EXCEPT !.moved = @ + 1]]
  /\ readable' = IF \A r \in Receivers : Moved(r)'
                   THEN [readable EXCEPT ![0] = None] ELSE readable
  /\ UNCHANGED <<engine, pc, send, meta, trainer, copies, mail, local>>

\* What follows a swap: a NIXL agent offers the bucket to the next one first.
TakeBucket(r) ==
  /\ meta' = [meta EXCEPT ![r] = [bucket |-> xfer[r].message.bucket,
                                  last |-> xfer[r].message.last]]
  /\ yielded' = [yielded EXCEPT ![r] = 0]
  /\ xfer' = [xfer EXCEPT ![r] = None]
  /\ Swap(r)
  /\ Go(r, IF engine = "nixl" THEN "offer" ELSE "yield")
  /\ UNCHANGED <<engine, trainer, buffers, readable, mail, ipc, inbox, loaded>>

FirstBucket(r) == pc[r] = "first" /\ Moved(r) /\ TakeBucket(r)

OfferOn(r) ==
  /\ pc[r] = "offer"
  /\ IF Readers(r) # {}
       THEN Offer(r, Message(meta[r].bucket, meta[r].last))
       ELSE UNCHANGED <<readable, mail>>
  /\ Go(r, IF meta[r].last THEN "yield" ELSE "next_metadata")
  /\ UNCHANGED <<engine, send, meta, trainer, buffers, xfer, local>>

\* step 4 and 5: both transfers are over, the copies too
NextBucket(r) ==
  /\ pc[r] = "yield" /\ yielded[r] = Len(meta[r].bucket) /\ ~meta[r].last
  /\ ReadersDone(r) /\ Moved(r) /\ Synchronized(r)
  /\ TakeBucket(r)

EndOfWeights(r) ==
  /\ pc[r] = "yield" /\ yielded[r] = Len(meta[r].bucket) /\ meta[r].last
  /\ ReadersDone(r)
  /\ Go(r, "drain")
  /\ UNCHANGED <<engine, send, meta, trainer, buffers, network, local>>

-----------------------------------------------------------------------------
\* async_send_weights of the rollout worker, which takes the yielded tensors:
\* a copy into its buffer, or first the hand-over of a full one.
Upcoming(r) == meta[r].bucket[yielded[r] + 1]

YieldTensor(r) ==
  /\ pc[r] = "yield" /\ yielded[r] < Len(meta[r].bucket)
  /\ Fits(ipc[r].bucket, Upcoming(r).tensor)
  /\ LET bucket == Place(ipc[r].bucket, Upcoming(r).tensor) IN
       /\ ipc' = [ipc EXCEPT ![r].bucket = bucket]
       /\ copies' = [copies EXCEPT ![r] =
            Append(@, [entry |-> bucket[Len(bucket)], buffer |-> send[r],
                       from |-> Upcoming(r).offset])]
  /\ yielded' = [yielded EXCEPT ![r] = @ + 1]
  /\ UNCHANGED <<engine, pc, send, meta, trainer, bufs, network, inbox, loaded>>

\* The engine clones the tensors of the bucket before it replies: the sender
\* waits for the reply, not for the load.
HandOver(r) ==
  /\ Synchronized(r) /\ inbox[r] = <<>>
  /\ inbox' = [inbox EXCEPT ![r] =
       [i \in DOMAIN ipc[r].bucket |-> Found(ipc[r].bytes, ipc[r].bucket[i])]]
  /\ ipc' = [ipc EXCEPT ![r].bucket = <<>>]
  /\ UNCHANGED <<engine, send, meta, trainer, buffers, network, yielded, loaded>>

HandOverFull(r) ==
  /\ pc[r] = "yield" /\ yielded[r] < Len(meta[r].bucket)
  /\ ~Fits(ipc[r].bucket, Upcoming(r).tensor)
  /\ HandOver(r) /\ pc' = pc

HandOverLast(r) ==
  /\ pc[r] = "drain"
  /\ HandOver(r) /\ Go(r, "loading")

Load(r) ==
  /\ inbox[r] # <<>>
  /\ loaded' = [loaded EXCEPT ![r] = @ \o inbox[r]]
  /\ inbox' = [inbox EXCEPT ![r] = <<>>]
  /\ UNCHANGED <<engine, pc, send, meta, trainer, buffers, network, yielded, ipc>>

\* update_weights awaits the engine's future
ReceiveDoneEarly(r) ==
  /\ pc[r] = "loading"
  /\ Go(r, "done")
  /\ UNCHANGED <<engine, send, meta, trainer, buffers, network, local>>

ReceiveDone(r) ==
  /\ pc[r] = "loading" /\ inbox[r] = <<>>
  /\ Go(r, "done")
  /\ UNCHANGED <<engine, send, meta, trainer, buffers, network, local>>

\* the GPU stream of a rank executes its oldest copy
StreamCopy(r) ==
  /\ copies[r] # <<>>
  /\ LET c == Head(copies[r]) IN
       IF r = 0
         THEN /\ bufs' = [bufs EXCEPT ![0][c.buffer] =
                   [b \in Bytes |-> IF b \in Extent(c.entry) THEN c.entry.tensor ELSE @[b]]]
              /\ ipc' = ipc
         ELSE /\ ipc' = [ipc EXCEPT ![r].bytes =
                   [b \in Bytes |-> IF b \in Extent(c.entry)
                      THEN bufs[r][c.buffer][(b - c.entry.offset) + c.from] ELSE @[b]]]
              /\ bufs' = bufs
  /\ copies' = [copies EXCEPT ![r] = Tail(@)]
  /\ UNCHANGED <<engine, pc, send, meta, trainer, network, yielded, inbox, loaded>>

-----------------------------------------------------------------------------
RankStep(r) ==
  \/ BeginRead(r) \/ ReadByte(r) \/ FirstBucket(r) \/ OfferOn(r)
  \/ NextBucket(r) \/ EndOfWeights(r)
  \/ YieldTensor(r) \/ HandOverFull(r) \/ HandOverLast(r) \/ ReceiveDone(r)

AllDone == \A r \in Ranks : pc[r] = "done"

Next ==
  \/ BuildGroup \/ Fill \/ Flush \/ FlushLast \/ SendDone \/ BroadcastByte
  \/ \E r \in Receivers : RankStep(r) \/ Load(r)
  \/ \E r \in Ranks : StreamCopy(r)

\* Every process keeps running, and so do the network and the GPU streams.
Spec ==
  /\ Init /\ [][Next]_vars
  /\ WF_vars(BuildGroup \/ Fill \/ Flush \/ FlushLast \/ SendDone) /\ WF_vars(BroadcastByte)
  /\ \A r \in Receivers : WF_vars(RankStep(r)) /\ WF_vars(Load(r))
  /\ \A r \in Ranks : WF_vars(StreamCopy(r))
-----------------------------------------------------------------------------
Entry   == [tensor: Tensors, offset: Bytes]
Bucket  == Seq(Entry)
Labels  == {"unconnected", "failed", "fill", "last", "metadata", "next_metadata",
            "first", "offer", "yield", "drain", "loading", "done"}
Offers  == [bucket: Bucket, last: BOOLEAN, buffer: Buffers]
Reads   == [message: Offers, moved: 0 .. BucketSize]

\* None is no rank, no buffer and no read
ASSUME MarkAssumption == None \notin Nat /\ None \notin Reads

TypeOK ==
  /\ engine \in Engines /\ pc \in [Ranks -> Labels]
  /\ bufs \in [Ranks -> [Buffers -> [Bytes -> 0 .. Len(Sizes)]]]
  /\ send \in [Ranks -> Buffers]
  /\ meta \in [Ranks -> [bucket: Bucket, last: BOOLEAN]]
  /\ next \in 1 .. Len(Sizes) + 1
  /\ readable \in [Ranks -> Buffers \cup {None}]
  /\ mail \in [Ranks -> Seq(Offers)]
  /\ xfer \in [Ranks -> Reads \cup {None}]
  /\ yielded \in [Ranks -> Nat]
  /\ ipc \in [Ranks -> [bytes: [Bytes -> 0 .. Len(Sizes)], bucket: Bucket]]
  /\ {inbox[r] : r \in Ranks} \cup {loaded[r] : r \in Ranks}
        \subseteq Seq(0 .. Len(Sizes))

(* Every engine gets every tensor once, whole and in order, however the    *)
(* processes, the network and the GPU streams interleave: two buffers and  *)
(* the waits between them (send_weights, receive_weights) are enough.      *)
WeightsIntact ==
  \A r \in Receivers : LET got == loaded[r] \o inbox[r] IN
    got = [i \in 1 .. Len(got) |-> i] /\ Len(got) <= Len(Sizes)

(* A buffer that has been offered holds what its metadata says until its   *)
(* last reader is done: nobody refills it too early.                       *)
OfferedIsStable ==
  \A r \in Ranks, q \in Receivers : readable[r] # None /\ q \in Readers(r) =>
    LET offers == {mail[q][i] : i \in DOMAIN mail[q]} \cup
                  (IF xfer[q] # None /\ ~Moved(q) THEN {xfer[q].message} ELSE {})
    IN \A m \in offers : \A i \in DOMAIN m.bucket :
         Found(bufs[r][m.buffer], m.bucket[i]) = m.bucket[i].tensor

(* When update_weights has returned on every rank, nothing of this         *)
(* synchronisation is left for the next one to trip over, and every engine *)
(* has the whole model.                                                    *)
CleanFinish ==
  AllDone => \A r \in Ranks :
    /\ mail[r] = <<>> /\ readable[r] = None /\ (xfer[r] = None \/ Moved(r))
    /\ copies[r] = <<>> /\ inbox[r] = <<>>
    /\ r \in Receivers => Len(loaded[r]) = Len(Sizes)

(* The synchronisation ends: no rank waits for another for ever.           *)
TransferEnds == <>AllDone

(* build_process_group asserts that there are as many sets of arguments as *)
(* workers; that holds for every number of workers.                        *)
GroupBuilt == \A r \in Ranks : pc[r] # "failed"
=============================================================================

--------------------------- MODULE TransferProofs ---------------------------
(***************************************************************************)
(* Weight transfer, for every number of workers, tensors and bytes: what   *)
(* the engines get is what the trainer sent (WeightsWhole), what is        *)
(* offered is not overwritten (OffersStable), and nothing is left over     *)
(* when everybody is done (FinishesClean).                                 *)
(*                                                                         *)
(* The invariant has five parts, each of which needs the ones before it:   *)
(*   TypeInv  types, and at which labels a rank can be;                    *)
(*   Flow     every bucket on its way continues where the one ahead of it  *)
(*            ends, so that numbers of tensors add up from the generator   *)
(*            to the engine;                                               *)
(*   Endings  who has seen the bucket that is marked as the last one;      *)
(*   Wire     an offer is either unread mail or a read under way at each   *)
(*            of its readers, and the buffer it names is the one offered;  *)
(*   Content  the bytes: of a bucket being filled, those of the copies     *)
(*            that the stream has made; of one being read, those that      *)
(*            have moved; of one that is offered or yielded, all.          *)
(* That the group is a chain (NIXL) or a star (NCCL) is lemma Topology,    *)
(* from the slices of build_topology.                                      *)
(***************************************************************************)
EXTENDS WeightTransfer, SequenceTheorems, TLAPS

\* Whom a rank reads, in the group that is built.
Upstream(q) == IF engine = "nixl" THEN q - 1 ELSE 0
Reading(q)  == xfer[q] # None /\ ~Moved(q)

SenderLabels   == {"unconnected", "failed", "fill", "last", "done"}
ReceiverLabels == Labels \ {"fill", "last"}
SenderCopy     == [entry: Entry, buffer: Buffers]
ReceiverCopy   == {c \in [entry: Entry, buffer: Buffers, from: Bytes] :
                      c.from + Sizes[c.entry.tensor] <= BucketSize}
Connected == \A r \in Ranks : pc[r] \notin {"unconnected", "failed"}

\* The labels: nobody works, or reads, before the group is built, or when
\* it was not.
Places ==
  /\ pc \in [Ranks -> Labels] /\ pc[0] \in SenderLabels
  /\ \A r \in Receivers : pc[r] \in ReceiverLabels
  /\ \A r \in Ranks : pc[r] = "unconnected" => pc = [q \in Ranks |-> "unconnected"]
  /\ \A r \in Ranks : pc[r] = "failed" => pc = [q \in Ranks |-> "failed"]
  /\ Connected => TopologyFits
  /\ ~Connected => xfer = [r \in Ranks |-> None]

TypeInv ==
  /\ TypeOK /\ Places
  /\ copies \in [Ranks -> Seq(SenderCopy \cup ReceiverCopy)]
  /\ copies[0] \in Seq(SenderCopy)
  /\ \A r \in Receivers : copies[r] \in Seq(ReceiverCopy)
  /\ inbox \in [Ranks -> Seq(0 .. Len(Sizes))] /\ loaded \in [Ranks -> Seq(0 .. Len(Sizes))]

Count(s) == Len(s)
Total    == Count(Sizes)

\* A bucket after n tensors; its entries lie one behind the other in a buffer.
Run(bucket, n) ==
  /\ n + Count(bucket) <= Total
  /\ \A i \in DOMAIN bucket : bucket[i].tensor = n + i
End(entry) == entry.offset + Sizes[entry.tensor]
Laid(bucket) ==
  /\ \A i \in DOMAIN bucket : End(bucket[i]) <= BucketSize
  /\ \A i, j \in DOMAIN bucket : i < j => End(bucket[i]) <= bucket[j].offset

\* How many tensors each stage of a receiver has seen.
Got(r)    == Count(loaded[r]) + Count(inbox[r])
Packed(r) == Got(r) + Count(ipc[r].bucket)
Taken(r)  == (Packed(r) + Count(meta[r].bucket)) - yielded[r]
Begun(r)  == IF xfer[r] = None THEN Taken(r) ELSE Taken(r) + Count(xfer[r].message.bucket)
Mailed(r) == IF mail[r] = <<>> THEN Begun(r) ELSE Begun(r) + Count(mail[r][1].bucket)
Offered(r) ==
  IF r = 0 THEN IF pc[0] \in {"last", "done"} THEN next - 1 ELSE (next - 1) - Count(meta[0].bucket)
  ELSE IF pc[r] = "offer" THEN Taken(r) - Count(meta[r].bucket) ELSE Taken(r)

Sender ==
  /\ Run(meta[0].bucket, (next - 1) - Count(meta[0].bucket)) /\ Laid(meta[0].bucket)
  /\ pc[0] \in {"last", "done"} => next = Total + 1
  /\ Count(meta[0].bucket) < next

Receiver(r) ==
  /\ \A i \in DOMAIN loaded[r] : loaded[r][i] = i
  /\ \A i \in DOMAIN inbox[r] : inbox[r][i] = Count(loaded[r]) + i
  /\ Got(r) <= Total
  /\ Run(ipc[r].bucket, Got(r)) /\ Laid(ipc[r].bucket)
  /\ yielded[r] <= Count(meta[r].bucket)
  /\ Run(meta[r].bucket, Taken(r) - Count(meta[r].bucket)) /\ Laid(meta[r].bucket)
  /\ xfer[r] # None => Run(xfer[r].message.bucket, Taken(r)) /\ Laid(xfer[r].message.bucket)
  /\ mail[r] # <<>> => Run(mail[r][1].bucket, Begun(r)) /\ Laid(mail[r][1].bucket)
  /\ Mailed(r) = Offered(Upstream(r))

Flow == Sender /\ \A r \in Receivers : Receiver(r)

\* Where the end of the weights is known.
Ending(r) ==
  /\ meta[r].last => Taken(r) = Total
  /\ xfer[r] # None /\ xfer[r].message.last => Begun(r) = Total
  /\ mail[r] # <<>> /\ mail[r][1].last => Mailed(r) = Total
  /\ pc[r] \in {"unconnected", "failed", "metadata", "first"} =>
       ipc[r].bucket = <<>> /\ yielded[r] = Count(meta[r].bucket) /\ ~meta[r].last
  /\ pc[r] \in {"drain", "loading", "done"} => meta[r].last /\ yielded[r] = Count(meta[r].bucket)
  /\ pc[r] \in {"loading", "done"} => ipc[r].bucket = <<>>
  /\ pc[r] = "done" => inbox[r] = <<>>

\* A buffer is offered as long as one of its readers has not read it.
Wired(q) ==
  /\ Len(mail[q]) <= 1
  /\ readable[Upstream(q)] = None => mail[q] = <<>> /\ ~Reading(q)
  /\ readable[Upstream(q)] # None => (mail[q] # <<>> <=> ~Reading(q))
  /\ mail[q] # <<>> => mail[q][1].buffer = readable[Upstream(q)]
  /\ Reading(q) => xfer[q].message.buffer = readable[Upstream(q)]
  /\ readable[q] # None => readable[q] = send[q] /\ pc[q] \in {"next_metadata", "yield"}
  /\ engine = "nccl" /\ Reading(q) /\ xfer[q].moved > 0 =>
       \A r \in Receivers : Reading(r) /\ xfer[r].moved = xfer[q].moved
  /\ Upstream(q) # 0 =>
       /\ mail[q] # <<>> => mail[q][1].bucket = meta[Upstream(q)].bucket
       /\ Reading(q) => xfer[q].message.bucket = meta[Upstream(q)].bucket
Wire ==
  /\ mail[0] = <<>> /\ xfer[0] = None
  /\ pc[0] \in {"unconnected", "failed", "done"} => readable[0] = None
  /\ \A q \in Receivers : Wired(q)

\* What the buffers hold.
Holds(bytes, entry)   == \A b \in Extent(entry) : bytes[b] = entry.tensor
Filled(bytes, bucket) == \A i \in DOMAIN bucket : Holds(bytes, bucket[i])
Staged(bytes, bucket, queue) ==
  /\ Len(queue) <= Len(bucket)
  /\ \A i \in DOMAIN bucket : i <= Len(bucket) - Len(queue) => Holds(bytes, bucket[i])
  /\ \A j \in DOMAIN queue : queue[j].entry = bucket[(Len(bucket) - Len(queue)) + j]

SenderContent ==
  /\ pc[0] # "done" => Staged(bufs[0][send[0]], meta[0].bucket, copies[0])
  /\ \A j \in DOMAIN copies[0] : copies[0][j].buffer = send[0]
  /\ copies[0] # <<>> => pc[0] = "fill"
  /\ pc[0] = "fill" => readable[0] # send[0]

Packing(r) ==
  /\ Staged(ipc[r].bytes, ipc[r].bucket, copies[r])
  /\ \A j \in DOMAIN copies[r] : LET c == copies[r][j] IN
       /\ c.buffer = send[r]
       /\ \E i \in DOMAIN meta[r].bucket : meta[r].bucket[i].tensor = c.entry.tensor
                                          /\ meta[r].bucket[i].offset = c.from
Read(r) ==
  xfer[r] # None => \A i \in DOMAIN xfer[r].message.bucket :
    \A b \in Extent(xfer[r].message.bucket[i]) :
      b < xfer[r].moved => bufs[r][Recv(r)][b] = xfer[r].message.bucket[i].tensor
Sent(r) ==
  Upstream(r) = 0 =>
    /\ mail[r] # <<>> => Filled(bufs[0][readable[0]], mail[r][1].bucket)
    /\ Reading(r) => Filled(bufs[0][readable[0]], xfer[r].message.bucket)
ReceiverContent(r) ==
  Packing(r) /\ Filled(bufs[r][send[r]], meta[r].bucket) /\ Read(r) /\ Sent(r)

Content == SenderContent /\ \A r \in Receivers : ReceiverContent(r)
Endings == \A r \in Receivers : Ending(r)

-----------------------------------------------------------------------------
(* Sequences, as the ranks use them *)

LEMMA Shape ==
  ASSUME NEW S, NEW s \in Seq(S)
  PROVE  /\ Len(s) \in Nat /\ DOMAIN s = 1 .. Len(s) /\ (s = <<>> <=> Len(s) = 0)
         /\ \A i \in DOMAIN s : s[i] \in S
BY LenProperties, ElementOfSeq, EmptySeq

LEMMA Appended ==
  ASSUME NEW S, NEW s \in Seq(S), NEW e \in S
  PROVE  /\ Append(s, e) \in Seq(S) /\ Len(Append(s, e)) = Len(s) + 1
         /\ Len(s) \in Nat /\ DOMAIN s = 1 .. Len(s)
         /\ DOMAIN Append(s, e) = 1 .. (Len(s) + 1)
         /\ \A i \in DOMAIN s : Append(s, e)[i] = s[i]
         /\ Append(s, e)[Len(s) + 1] = e
<1>1. /\ Append(s, e) \in Seq(S) /\ Len(Append(s, e)) = Len(s) + 1
      /\ \A i \in 1 .. Len(s) : Append(s, e)[i] = s[i]
      /\ Append(s, e)[Len(s) + 1] = e
  BY AppendProperties
<1> QED BY <1>1, Shape

LEMMA Behead ==
  ASSUME NEW S, NEW s \in Seq(S), s # <<>>
  PROVE  /\ Tail(s) \in Seq(S) /\ Len(s) \in Nat /\ Len(s) >= 1 /\ Len(Tail(s)) = Len(s) - 1
         /\ DOMAIN s = 1 .. Len(s) /\ DOMAIN Tail(s) = 1 .. (Len(s) - 1)
         /\ \A i \in 1 .. (Len(s) - 1) : Tail(s)[i] = s[i + 1]
         /\ Head(s) = s[1] /\ s[1] \in S
<1>1. /\ Tail(s) \in Seq(S) /\ Len(Tail(s)) = Len(s) - 1 /\ Head(s) = s[1] /\ Head(s) \in S
      /\ \A i \in 1 .. Len(Tail(s)) : Tail(s)[i] = s[i + 1]
  BY HeadTailProperties
<1> QED BY <1>1, Shape

LEMMA Joined ==
  ASSUME NEW S, NEW s \in Seq(S), NEW t \in Seq(S)
  PROVE  /\ s \o t \in Seq(S) /\ Len(s \o t) = Len(s) + Len(t)
         /\ Len(s) \in Nat /\ Len(t) \in Nat
         /\ DOMAIN (s \o t) = 1 .. (Len(s) + Len(t))
         /\ \A i \in DOMAIN (s \o t) : (s \o t)[i] = IF i <= Len(s) THEN s[i] ELSE t[i - Len(s)]
<1> DEFINE u == s \o t
<1>1. /\ u \in Seq(S) /\ Len(u) = Len(s) + Len(t)
      /\ \A i \in 1 .. (Len(s) + Len(t)) : u[i] = IF i <= Len(s) THEN s[i] ELSE t[i - Len(s)]
  BY ConcatProperties
<1> HIDE DEF u
<1> QED BY <1>1, Shape DEF u

LEMMA SizesKnown ==
  /\ Len(Sizes) \in Nat /\ Tensors = 1 .. Len(Sizes)
  /\ Rollouts \in Nat /\ Rollouts > 0 /\ Trainers \in Nat /\ Trainers > 0
  /\ BucketSize \in Nat /\ BucketSize > 0
  /\ \A t \in Tensors : Sizes[t] \in Nat /\ Sizes[t] >= 1 /\ Sizes[t] <= BucketSize
<1>1. Sizes \in Seq(1 .. BucketSize) /\ {Trainers, Rollouts, BucketSize} \subseteq Nat \ {0}
  BY TransferAssumption
<1>2. Len(Sizes) \in Nat /\ DOMAIN Sizes = 1 .. Len(Sizes)
      /\ \A t \in DOMAIN Sizes : Sizes[t] \in 1 .. BucketSize
  BY <1>1, Shape
<1> QED BY <1>1, <1>2 DEF Tensors

-----------------------------------------------------------------------------
(* The group: the topology that is built is a chain, or a star. *)

LEMMA AgentsKnown ==
  /\ Agents \in Seq(Nat \cup {None}) /\ Len(Agents) = Trainers + Rollouts
  /\ Agents[1] = 0
  /\ \A i \in Trainers + 1 .. Trainers + Rollouts : Agents[i] = i - Trainers
<1> DEFINE n == Trainers + Rollouts
<1>1. n \in Nat /\ Trainers \in Nat /\ Trainers > 0 /\ Rollouts \in Nat
  BY SizesKnown
<1>2. Agents \in [1 .. n -> Nat \cup {None}]
  BY <1>1 DEF Agents
<1>3. Agents \in Seq(Nat \cup {None})
  BY <1>1, <1>2, SeqDef
<1>4. Len(Agents) \in Nat /\ DOMAIN Agents = 1 .. Len(Agents)
  BY <1>3, Shape
<1>5. Len(Agents) = n
  BY <1>1, <1>2, <1>4
<1> QED BY <1>1, <1>3, <1>5 DEF Agents

LEMMA Slice ==
  ASSUME NEW S, NEW s \in Seq(S), NEW m \in Nat, NEW n \in Nat, m >= 1, n <= Len(s), m <= n + 1
  PROVE  /\ SubSeq(s, m, n) \in Seq(S) /\ Len(SubSeq(s, m, n)) = (n - m) + 1
         /\ \A i \in 1 .. (n - m) + 1 : SubSeq(s, m, n)[i] = s[(m + i) - 1]
<1>1. Len(s) \in Nat
  BY Shape
<1>2. \A i \in m .. n : s[i] \in S
  BY <1>1, ElementOfSeq
<1> QED BY <1>1, <1>2, SubSeqProperties

LEMMA Chain ==
  ASSUME engine = "nixl", TopologyFits
  PROVE  /\ \A r \in Receivers : PrevAgents[r] = r - 1
         /\ Rollouts > 1
         /\ \A r \in Receivers : NextAgents[r] = IF r = Rollouts THEN None ELSE r + 1
<1> DEFINE n == Trainers + Rollouts
           S == Nat \cup {None}
           prev == SubSeq(Agents, FromEnd(Rollouts), Len(Agents) - 1)
           rest == SubSeq(Agents, FromEnd(Rollouts - 1), Len(Agents))
           first == <<Agents[1]>>
           none  == <<None>>
<1>1. /\ n \in Nat /\ Trainers \in Nat /\ Trainers > 0 /\ Rollouts \in Nat /\ Rollouts > 0
      /\ Agents \in Seq(S) /\ Len(Agents) = n /\ Agents[1] = 0
      /\ \A i \in Trainers + 1 .. n : Agents[i] = i - Trainers
  BY SizesKnown, AgentsKnown
<1>2. FromEnd(Rollouts) = Trainers + 1
  BY <1>1 DEF FromEnd
<1>3. FromEnd(Rollouts - 1) = IF Rollouts = 1 THEN 1 ELSE Trainers + 2
  BY <1>1 DEF FromEnd
<1>4. /\ prev \in Seq(S) /\ Len(prev) = Rollouts - 1
      /\ \A i \in 1 .. Rollouts - 1 : prev[i] = i
  <2>1. n - 1 \in Nat /\ Trainers + 1 \in Nat
    BY <1>1
  <2>2. /\ prev \in Seq(S) /\ Len(prev) = ((n - 1) - (Trainers + 1)) + 1
        /\ \A i \in 1 .. ((n - 1) - (Trainers + 1)) + 1 : prev[i] = Agents[((Trainers + 1) + i) - 1]
    BY <1>1, <1>2, <2>1, Slice
  <2> HIDE DEF prev
  <2> QED BY <1>1, <2>2
<1>5. rest \in Seq(S) /\ Len(rest) = IF Rollouts = 1 THEN n ELSE Rollouts - 1
  <2>1. CASE Rollouts = 1
    BY <1>1, <1>3, <2>1, Slice
  <2>2. CASE Rollouts # 1
    BY <1>1, <1>3, <2>2, Slice
  <2> QED BY <2>1, <2>2
<1>6. first \in Seq(S) /\ Len(first) = 1 /\ first[1] = 0
  BY <1>1
<1>7. none \in Seq(S) /\ Len(none) = 1 /\ none[1] = None
  OBVIOUS
<1>8. Rollouts > 1
  <2>1. NextAgents = rest \o none
    BY DEF NextAgents
  <2>2. Len(NextAgents) = Len(rest) + 1
    <3> HIDE DEF rest, none, S
    <3>1. rest \in Seq(S) /\ none \in Seq(S) /\ Len(none) = 1
      BY <1>5, <1>7
    <3>2. Len(rest \o none) = Len(rest) + Len(none)
      BY <3>1, Joined
    <3> QED BY <2>1, <3>1, <3>2
  <2>3. Len(NextAgents) = Rollouts
    BY DEF TopologyFits
  <2> QED BY <1>1, <1>5, <2>2, <2>3
<1>9. \A i \in 1 .. Rollouts - 1 : rest[i] = i + 1
  <2>1. \A i \in 1 .. (n - (Trainers + 2)) + 1 : rest[i] = Agents[((Trainers + 2) + i) - 1]
    BY <1>1, <1>3, <1>8, Slice
  <2> HIDE DEF rest
  <2> QED BY <1>1, <2>1
<1>10. PrevAgents = first \o prev /\ NextAgents = rest \o none
  BY DEF PrevAgents, NextAgents
<1> HIDE DEF first, prev, rest, none, n, S
<1>11. ASSUME NEW r \in Receivers PROVE PrevAgents[r] = r - 1
  <2>1. first \in Seq(S) /\ prev \in Seq(S)
    BY <1>4, <1>6
  <2>2. /\ DOMAIN (first \o prev) = 1 .. (Len(first) + Len(prev))
        /\ \A i \in DOMAIN (first \o prev) :
             (first \o prev)[i] = IF i <= Len(first) THEN first[i] ELSE prev[i - Len(first)]
    BY <2>1, Joined
  <2> QED BY <1>1, <1>4, <1>6, <1>10, <2>2 DEF Receivers
<1>12. ASSUME NEW r \in Receivers
       PROVE  NextAgents[r] = IF r = Rollouts THEN None ELSE r + 1
  <2>1. rest \in Seq(S) /\ none \in Seq(S)
    BY <1>5, <1>7
  <2>2. /\ DOMAIN (rest \o none) = 1 .. (Len(rest) + Len(none))
        /\ \A i \in DOMAIN (rest \o none) :
             (rest \o none)[i] = IF i <= Len(rest) THEN rest[i] ELSE none[i - Len(rest)]
    BY <2>1, Joined
  <2> QED BY <1>1, <1>5, <1>7, <1>8, <1>9, <1>10, <2>2 DEF Receivers
<1> QED BY <1>8, <1>11, <1>12

\* Whom a rank reads, and who reads it, in a group that is connected.
LEMMA Topology ==
  ASSUME TopologyFits, engine \in Engines
  PROVE  /\ \A r \in Receivers : Source(r) = Upstream(r) /\ Upstream(r) \in Ranks /\ Upstream(r) # r
         /\ \A r \in Ranks, q \in Ranks :
              q \in Readers(r) <=> q \in Receivers /\ Upstream(q) = r
         /\ engine = "nccl" => \A r \in Receivers : Upstream(r) = 0
<1>1. Rollouts \in Nat /\ Rollouts > 0 /\ None \notin Nat /\ Trainers \in Nat /\ engine \in {"nixl", "nccl"}
  BY SizesKnown, TransferAssumption, MarkAssumption
<1>2. CASE engine = "nccl"
  BY <1>1, <1>2 DEF Source, Upstream, Readers, Ranks, Receivers
<1>3. CASE engine = "nixl"
  <2>1. \A r \in Receivers : Source(r) = Upstream(r) /\ Upstream(r) \in Ranks /\ Upstream(r) # r
    BY <1>1, <1>3, Chain DEF Source, Upstream, Ranks, Receivers
  <2>2. Agents[FromEnd(Rollouts)] = 1
    BY <1>1, AgentsKnown, Chain, <1>3 DEF FromEnd
  <2>3. \A q \in Ranks : q \in Readers(0) <=> q \in Receivers /\ Upstream(q) = 0
    BY <1>1, <1>3, <2>2 DEF Readers, Upstream, Ranks, Receivers
  <2>4. \A r \in Receivers, q \in Ranks : q \in Readers(r) <=> q \in Receivers /\ Upstream(q) = r
    BY <1>1, <1>3, Chain DEF Readers, Upstream, Ranks, Receivers
  <2> QED BY <1>1, <1>3, <2>1, <2>3, <2>4 DEF Ranks, Receivers
<1> QED BY <1>1, <1>2, <1>3

-----------------------------------------------------------------------------
(* Buckets and buffers *)

LEMMA EntryKnown ==
  ASSUME NEW e \in Entry
  PROVE  /\ e.tensor \in Tensors /\ e.offset \in Nat /\ Sizes[e.tensor] \in Nat
         /\ Sizes[e.tensor] >= 1 /\ End(e) \in Nat
         /\ \A b \in Extent(e) : b \in Nat /\ e.offset <= b /\ b < End(e)
         /\ Extent(e) = {b \in Nat : e.offset <= b /\ b < End(e)}
<1>1. e.tensor \in Tensors /\ e.offset \in Nat
  BY SizesKnown DEF Entry, Bytes
<1>2. Sizes[e.tensor] \in Nat /\ Sizes[e.tensor] >= 1
  BY <1>1, SizesKnown
<1> QED BY <1>1, <1>2 DEF End, Extent

\* The byte of a buffer that a byte of a tensor is copied from.
LEMMA StagedByte ==
  ASSUME NEW b \in Nat, NEW first \in Nat, NEW size \in Nat, NEW from \in Nat,
         first <= b, b < first + size, from + size <= BucketSize
  PROVE  (b - first) + from \in Bytes
BY SizesKnown DEF Bytes

LEMMA PlaceKnown ==
  ASSUME NEW bucket \in Bucket, NEW t \in Tensors, Fits(bucket, t)
  PROVE  /\ Place(bucket, t) \in Bucket /\ Len(Place(bucket, t)) = Len(bucket) + 1
         /\ Len(bucket) \in Nat /\ DOMAIN bucket = 1 .. Len(bucket)
         /\ DOMAIN Place(bucket, t) = 1 .. (Len(bucket) + 1)
         /\ Place(bucket, t)[Len(bucket) + 1] \in Entry
         /\ Place(bucket, t)[Len(bucket) + 1].tensor = t
         /\ \A i \in DOMAIN bucket : Place(bucket, t)[i] = bucket[i]
         /\ Laid(bucket) => Laid(Place(bucket, t))
<1> DEFINE n == Len(bucket)
           used == Used(bucket)
           e == [tensor |-> t, offset |-> used]
<1>1. n \in Nat /\ DOMAIN bucket = 1 .. n /\ \A i \in 1 .. n : bucket[i] \in Entry
  BY Shape DEF Bucket
<1>2. used = IF n = 0 THEN 0 ELSE End(bucket[n])
  BY Shape DEF Used, End, Bucket
<1>3. used \in Nat
  BY <1>1, <1>2, EntryKnown
<1>4. used + Sizes[t] <= BucketSize /\ Sizes[t] \in Nat /\ Sizes[t] >= 1 /\ BucketSize \in Nat
  BY SizesKnown DEF Fits
<1>5. e \in Entry /\ e.tensor = t /\ e.offset = used /\ End(e) = used + Sizes[t]
  BY <1>3, <1>4 DEF Entry, Bytes, End
<1>6. Place(bucket, t) = Append(bucket, e)
  BY DEF Place
<1> HIDE DEF e, used
<1>7. /\ Place(bucket, t) \in Bucket /\ Len(Place(bucket, t)) = n + 1
      /\ DOMAIN Place(bucket, t) = 1 .. (n + 1)
      /\ Place(bucket, t)[n + 1] = e
      /\ \A i \in DOMAIN bucket : Place(bucket, t)[i] = bucket[i]
  BY <1>5, <1>6, Appended DEF Bucket
<1>8. ASSUME Laid(bucket) PROVE Laid(Place(bucket, t))
  <2> DEFINE p == Place(bucket, t)
  <2>1. \A i \in 1 .. n : End(p[i]) <= BucketSize /\ End(p[i]) \in Nat /\ End(p[i]) <= used
    <3> SUFFICES ASSUME NEW i \in 1 .. n
                 PROVE  End(bucket[i]) <= BucketSize /\ End(bucket[i]) \in Nat /\ End(bucket[i]) <= used
      BY <1>1, <1>7
    <3>1. End(bucket[i]) \in Nat /\ End(bucket[i]) <= BucketSize
      BY <1>1, <1>8, EntryKnown DEF Laid
    <3>2. i < n => End(bucket[i]) <= bucket[n].offset
      BY <1>1, <1>8 DEF Laid
    <3>3. bucket[n].offset \in Nat /\ bucket[n].offset <= End(bucket[n]) /\ End(bucket[n]) \in Nat
      BY <1>1, EntryKnown DEF End
    <3> QED BY <1>1, <1>2, <3>1, <3>2, <3>3
  <2>2. p[n + 1] = e /\ End(e) <= BucketSize
    BY <1>4, <1>5, <1>7
  <2>3. \A i, j \in 1 .. n : i < j => End(p[i]) <= p[j].offset
    BY <1>1, <1>7, <1>8 DEF Laid
  <2>4. DOMAIN p = 1 .. (n + 1)
    BY <1>7
  <2> HIDE DEF p
  <2>5. \A i \in DOMAIN p : End(p[i]) <= BucketSize
    BY <1>1, <2>1, <2>2, <2>4
  <2>6. \A i, j \in DOMAIN p : i < j => End(p[i]) <= p[j].offset
    <3> SUFFICES ASSUME NEW i \in DOMAIN p, NEW j \in DOMAIN p, i < j
                 PROVE  End(p[i]) <= p[j].offset
      OBVIOUS
    <3>1. CASE j = n + 1
      BY <1>1, <1>5, <2>1, <2>2, <2>4, <3>1
    <3>2. CASE j # n + 1
      BY <1>1, <2>3, <2>4, <3>2
    <3> QED BY <3>1, <3>2
  <2> QED BY <2>5, <2>6 DEF Laid, p
<1> QED BY <1>1, <1>5, <1>7, <1>8

\* A bucket none of whose copies has been made, one more, one made.
LEMMA StagedAppend ==
  ASSUME NEW C, NEW queue \in Seq(C), NEW bucket \in Bucket, NEW bytes, NEW c \in C,
         NEW b2 \in Bucket, Len(b2) = Len(bucket) + 1,
         \A i \in DOMAIN bucket : b2[i] = bucket[i],
         c.entry = b2[Len(b2)], Staged(bytes, bucket, queue)
  PROVE  Staged(bytes, b2, Append(queue, c))
<1> DEFINE q2 == Append(queue, c)
           n == Len(bucket)
           k == Len(queue)
<1>1. /\ k \in Nat /\ DOMAIN queue = 1 .. k /\ DOMAIN q2 = 1 .. (k + 1) /\ Len(q2) = k + 1
      /\ \A i \in 1 .. k : q2[i] = queue[i]
      /\ q2[k + 1] = c
  BY Appended
<1>2. n \in Nat /\ DOMAIN bucket = 1 .. n /\ DOMAIN b2 = 1 .. (n + 1)
  BY Shape DEF Bucket
<1>3. /\ k <= n
      /\ \A i \in 1 .. n : i <= n - k => Holds(bytes, bucket[i])
      /\ \A j \in 1 .. k : queue[j].entry = bucket[(n - k) + j]
  BY <1>1, <1>2 DEF Staged
<1> HIDE DEF q2, n, k
<1>4. \A i \in DOMAIN b2 : i <= (n + 1) - (k + 1) => Holds(bytes, b2[i])
  BY <1>1, <1>2, <1>3
<1>5. \A j \in DOMAIN q2 : q2[j].entry = b2[((n + 1) - (k + 1)) + j]
  <2> SUFFICES ASSUME NEW j \in DOMAIN q2 PROVE q2[j].entry = b2[(n - k) + j]
    BY <1>1, <1>2
  <2>1. CASE j = k + 1
    <3>1. Len(b2) = n + 1
      BY DEF n
    <3> QED BY <1>1, <1>2, <1>3, <2>1, <3>1
  <2>2. CASE j # k + 1
    <3>1. j \in 1 .. k /\ (n - k) + j \in 1 .. n
      BY <1>1, <1>2, <1>3, <2>2
    <3> QED BY <1>1, <1>2, <1>3, <3>1
  <2> QED BY <2>1, <2>2
<1>6. Len(b2) = n + 1 /\ Len(q2) = k + 1
  BY <1>1 DEF n
<1> QED BY <1>1, <1>2, <1>3, <1>4, <1>5, <1>6 DEF Staged, q2

LEMMA StagedCopy ==
  ASSUME NEW C, NEW queue \in Seq(C), queue # <<>>, NEW bucket \in Bucket, Laid(bucket),
         NEW bytes, NEW bytes2, Staged(bytes, bucket, queue),
         Holds(bytes2, Head(queue).entry),
         \A b \in Bytes : b \notin Extent(Head(queue).entry) => bytes2[b] = bytes[b]
  PROVE  Staged(bytes2, bucket, Tail(queue))
<1> DEFINE q2 == Tail(queue)
           n == Len(bucket)
           k == Len(queue)
<1>1. /\ k \in Nat /\ k >= 1 /\ DOMAIN queue = 1 .. k /\ DOMAIN q2 = 1 .. (k - 1) /\ Len(q2) = k - 1
      /\ \A i \in 1 .. (k - 1) : q2[i] = queue[i + 1]
      /\ Head(queue) = queue[1]
  BY Behead
<1>2. n \in Nat /\ DOMAIN bucket = 1 .. n /\ \A i \in 1 .. n : bucket[i] \in Entry
  BY Shape DEF Bucket
<1>3. /\ k <= n
      /\ \A i \in 1 .. n : i <= n - k => Holds(bytes, bucket[i])
      /\ \A j \in 1 .. k : queue[j].entry = bucket[(n - k) + j]
  BY <1>1, <1>2 DEF Staged
<1> HIDE DEF q2, n, k
<1>4. (n - k) + 1 \in 1 .. n /\ Head(queue).entry = bucket[(n - k) + 1]
  BY <1>1, <1>2, <1>3
<1>5. ASSUME NEW i \in 1 .. n, i <= n - (k - 1) PROVE Holds(bytes2, bucket[i])
  <2>1. CASE i = (n - k) + 1
    BY <1>4, <2>1
  <2>2. CASE i # (n - k) + 1
    <3>1. i <= n - k /\ i < (n - k) + 1
      BY <1>1, <1>2, <1>5, <2>2
    <3>2. End(bucket[i]) <= bucket[(n - k) + 1].offset /\ End(bucket[i]) <= BucketSize
      BY <1>2, <1>4, <3>1 DEF Laid
    <3>3. \A b \in Extent(bucket[i]) : b \in Bytes /\ b \notin Extent(bucket[(n - k) + 1])
      <4>1. bucket[i] \in Entry /\ bucket[(n - k) + 1] \in Entry
        BY <1>2, <1>4
      <4> QED BY <3>2, <4>1, EntryKnown, SizesKnown DEF Bytes
    <3>4. Holds(bytes, bucket[i])
      BY <1>3, <3>1
    <3> QED BY <1>4, <3>3, <3>4 DEF Holds
  <2> QED BY <2>1, <2>2
<1>6. \A j \in DOMAIN q2 : q2[j].entry = bucket[(n - (k - 1)) + j]
  <2> SUFFICES ASSUME NEW j \in 1 .. (k - 1) PROVE q2[j].entry = bucket[(n - (k - 1)) + j]
    BY <1>1
  <2>1. q2[j] = queue[j + 1] /\ j + 1 \in 1 .. k
    BY <1>1
  <2>2. queue[j + 1].entry = bucket[(n - k) + (j + 1)]
    BY <1>3, <2>1
  <2>3. (n - k) + (j + 1) = (n - (k - 1)) + j
    BY <1>1, <1>2
  <2> QED BY <2>1, <2>2, <2>3
<1>7. k - 1 <= n /\ Len(bucket) = n /\ Len(q2) = k - 1
  BY <1>1, <1>2, <1>3 DEF n
<1> QED BY <1>2, <1>5, <1>6, <1>7 DEF Staged, q2

LEMMA StagedDone ==
  ASSUME NEW bucket \in Bucket, NEW bytes, Staged(bytes, bucket, <<>>)
  PROVE  Filled(bytes, bucket)
<1>1. Len(bucket) \in Nat /\ DOMAIN bucket = 1 .. Len(bucket)
  BY Shape DEF Bucket
<1> QED BY <1>1 DEF Staged, Filled

LEMMA HoldsFound ==
  ASSUME NEW bytes, NEW e, Holds(bytes, e)
  PROVE  Found(bytes, e) = e.tensor
BY DEF Holds, Found

-----------------------------------------------------------------------------
(* Types *)

LEMMA RankKnown ==
  ASSUME TypeInv, NEW r \in Ranks
  PROVE  /\ pc[r] \in Labels /\ send[r] \in Buffers /\ Recv(r) \in Buffers /\ Recv(r) # send[r]
         /\ bufs[r] \in [Buffers -> [Bytes -> 0 .. Len(Sizes)]]
         /\ meta[r].bucket \in Bucket /\ meta[r].last \in BOOLEAN /\ Len(meta[r].bucket) \in Nat
         /\ readable[r] \in Buffers \cup {None}
         /\ mail[r] \in Seq(Offers) /\ Len(mail[r]) \in Nat
         /\ xfer[r] # None => /\ xfer[r] \in Reads
                              /\ xfer[r].message \in Offers /\ xfer[r].moved \in 0 .. BucketSize
         /\ yielded[r] \in Nat
         /\ ipc[r].bytes \in [Bytes -> 0 .. Len(Sizes)] /\ ipc[r].bucket \in Bucket
         /\ Len(ipc[r].bucket) \in Nat
         /\ inbox[r] \in Seq(0 .. Len(Sizes)) /\ loaded[r] \in Seq(0 .. Len(Sizes))
         /\ Len(inbox[r]) \in Nat /\ Len(loaded[r]) \in Nat
         /\ copies[r] \in Seq(SenderCopy \cup ReceiverCopy) /\ Len(copies[r]) \in Nat
         /\ next \in Nat
         /\ Count(meta[r].bucket) \in Nat /\ Count(ipc[r].bucket) \in Nat
         /\ Count(inbox[r]) \in Nat /\ Count(loaded[r]) \in Nat
<1>1. /\ pc[r] \in Labels /\ send[r] \in Buffers /\ readable[r] \in Buffers \cup {None}
      /\ bufs[r] \in [Buffers -> [Bytes -> 0 .. Len(Sizes)]]
      /\ meta[r] \in [bucket: Bucket, last: BOOLEAN]
      /\ mail[r] \in Seq(Offers) /\ xfer[r] \in Reads \cup {None} /\ yielded[r] \in Nat
      /\ ipc[r] \in [bytes: [Bytes -> 0 .. Len(Sizes)], bucket: Bucket]
      /\ inbox[r] \in Seq(0 .. Len(Sizes)) /\ loaded[r] \in Seq(0 .. Len(Sizes))
      /\ copies[r] \in Seq(SenderCopy \cup ReceiverCopy)
      /\ next \in Nat
  BY SizesKnown DEF TypeInv, TypeOK
<1>2. Recv(r) \in Buffers /\ Recv(r) # send[r]
  BY <1>1 DEF Recv, Buffers
<1>3. meta[r].bucket \in Bucket /\ meta[r].last \in BOOLEAN /\ ipc[r].bucket \in Bucket
      /\ ipc[r].bytes \in [Bytes -> 0 .. Len(Sizes)]
  BY <1>1
<1>4. xfer[r] # None => /\ xfer[r] \in Reads
                        /\ xfer[r].message \in Offers /\ xfer[r].moved \in 0 .. BucketSize
  BY <1>1 DEF Reads
<1>5. Len(meta[r].bucket) \in Nat /\ Len(ipc[r].bucket) \in Nat
  BY <1>3, Shape DEF Bucket
<1>6. Len(mail[r]) \in Nat /\ Len(inbox[r]) \in Nat /\ Len(loaded[r]) \in Nat
      /\ Len(copies[r]) \in Nat
  BY <1>1, Shape
<1>7. /\ Count(meta[r].bucket) \in Nat /\ Count(ipc[r].bucket) \in Nat
      /\ Count(inbox[r]) \in Nat /\ Count(loaded[r]) \in Nat
  BY <1>5, <1>6 DEF Count
<1> QED BY <1>1, <1>2, <1>3, <1>4, <1>5, <1>6, <1>7

LEMMA Members ==
  /\ 0 \in Ranks /\ Receivers \subseteq Ranks /\ 0 \notin Receivers
  /\ \A r \in Ranks : r = 0 \/ r \in Receivers
BY SizesKnown DEF Ranks, Receivers

\* An offer adds a message to the mail of the rank's readers.
LEMMA OfferTypes ==
  ASSUME TypeInv, NEW r \in Ranks, NEW bucket \in Bucket, NEW last \in BOOLEAN,
         Offer(r, Message(bucket, last))
  PROVE  /\ readable' \in [Ranks -> Buffers \cup {None}] /\ mail' \in [Ranks -> Seq(Offers)]
         /\ readable' = [readable EXCEPT ![r] = send[r]]
         /\ \E m \in Offers :
              /\ m = [bucket |-> bucket, last |-> last, buffer |-> send[r]]
              /\ \A q \in Ranks : mail'[q] = IF q \in Readers(r) THEN Append(mail[q], m) ELSE mail[q]
<1> DEFINE m == [bucket |-> bucket, last |-> last, buffer |-> send[r]]
<1>1. [Message(bucket, last) EXCEPT !.buffer = send[r]] = m
  BY DEF Message
<1>2. m \in Offers
  BY RankKnown DEF Offers
<1>3. readable' = [readable EXCEPT ![r] = send[r]]
      /\ mail' = [q \in Ranks |-> IF q \in Readers(r) THEN Append(mail[q], m) ELSE mail[q]]
  BY <1>1 DEF Offer
<1> HIDE DEF m
<1>4. \A q \in Ranks : Append(mail[q], m) \in Seq(Offers) /\ mail[q] \in Seq(Offers)
  BY <1>2, RankKnown, Appended
<1>5. mail' \in [Ranks -> Seq(Offers)]
  BY <1>3, <1>4
<1>6. readable' \in [Ranks -> Buffers \cup {None}]
  BY <1>3, RankKnown DEF TypeInv, TypeOK
<1> QED BY <1>2, <1>3, <1>5, <1>6 DEF m

LEMMA InitTypes == Init => TypeInv
<1> SUFFICES ASSUME Init PROVE TypeInv
  OBVIOUS
<1>1. EmptyBuffer \in [Bytes -> 0 .. Len(Sizes)]
  BY SizesKnown DEF EmptyBuffer
<1>2. <<>> \in Bucket /\ <<>> \in Seq(Offers) /\ <<>> \in Seq(0 .. Len(Sizes))
      /\ <<>> \in Seq(SenderCopy) /\ <<>> \in Seq(ReceiverCopy)
      /\ <<>> \in Seq(SenderCopy \cup ReceiverCopy)
  BY DEF Bucket
<1>3. TypeOK
  <2>1. bufs \in [Ranks -> [Buffers -> [Bytes -> 0 .. Len(Sizes)]]]
        /\ ipc \in [Ranks -> [bytes: [Bytes -> 0 .. Len(Sizes)], bucket: Bucket]]
        /\ meta \in [Ranks -> [bucket: Bucket, last: BOOLEAN]]
    BY <1>1, <1>2 DEF Init
  <2>2. next \in 1 .. Len(Sizes) + 1 /\ engine \in Engines /\ yielded \in [Ranks -> Nat]
        /\ send \in [Ranks -> Buffers] /\ readable \in [Ranks -> Buffers \cup {None}]
    BY SizesKnown DEF Init, Buffers
  <2>3. pc \in [Ranks -> Labels] /\ mail \in [Ranks -> Seq(Offers)] /\ xfer \in [Ranks -> Reads \cup {None}]
    BY <1>2 DEF Init, Labels
  <2>4. {inbox[r] : r \in Ranks} \cup {loaded[r] : r \in Ranks} \subseteq Seq(0 .. Len(Sizes))
    BY <1>2 DEF Init
  <2> QED BY <2>1, <2>2, <2>3, <2>4 DEF TypeOK
<1>4. /\ copies \in [Ranks -> Seq(SenderCopy \cup ReceiverCopy)]
      /\ copies[0] \in Seq(SenderCopy)
      /\ \A r \in Receivers : copies[r] \in Seq(ReceiverCopy)
      /\ inbox \in [Ranks -> Seq(0 .. Len(Sizes))] /\ loaded \in [Ranks -> Seq(0 .. Len(Sizes))]
  BY <1>2, Members DEF Init
<1>5. pc = [q \in Ranks |-> "unconnected"] /\ pc[0] = "unconnected"
      /\ \A r \in Receivers : pc[r] = "unconnected"
  BY Members DEF Init
<1>6. pc[0] \in SenderLabels /\ (\A r \in Receivers : pc[r] \in ReceiverLabels) /\ ~Connected
      /\ \A r \in Ranks : pc[r] # "failed"
  BY <1>5, Members DEF SenderLabels, ReceiverLabels, Labels, Connected
<1>7. Places
  BY <1>3, <1>5, <1>6 DEF TypeOK, Places, Init
<1> QED BY <1>3, <1>4, <1>7 DEF TypeInv

LEMMA GoPlaces ==
  ASSUME Places, engine' = engine, NEW r \in Ranks, pc[r] \notin {"unconnected", "failed"},
         NEW label \in Labels \ {"unconnected", "failed"}, Go(r, label),
         label \in IF r = 0 THEN SenderLabels ELSE ReceiverLabels
  PROVE  Places' /\ pc' = [pc EXCEPT ![r] = label] /\ Connected
<1>1. \A q \in Ranks : pc[q] \notin {"unconnected", "failed"}
  BY DEF Places
<1>2. pc' = [pc EXCEPT ![r] = label] /\ \A q \in Ranks : pc'[q] = IF q = r THEN label ELSE pc[q]
  BY DEF Go, Places
<1>3. \A q \in Ranks : pc'[q] \notin {"unconnected", "failed"}
  BY <1>1, <1>2
<1>4. pc' \in [Ranks -> Labels] /\ pc'[0] \in SenderLabels
      /\ \A q \in Receivers : pc'[q] \in ReceiverLabels
  BY <1>2, Members DEF Places
<1>5. TopologyFits' <=> TopologyFits
  BY DEF TopologyFits
<1> QED BY <1>1, <1>2, <1>3, <1>4, <1>5 DEF Places, Connected

LEMMA NextPlaces ==
  ASSUME Places, Next
  PROVE  Places'
<1>l. {"fill", "last", "done", "first", "yield", "offer", "next_metadata", "drain", "loading"}
        \subseteq Labels \ {"unconnected", "failed"}
  BY DEF Labels
<1>s. {"last", "done"} \subseteq SenderLabels
      /\ {"first", "yield", "offer", "next_metadata", "drain", "loading", "done"} \subseteq ReceiverLabels
  BY DEF SenderLabels, ReceiverLabels, Labels
<1>1. CASE BuildGroup
  <2>1. pc' = [r \in Ranks |-> IF ~TopologyFits THEN "failed" ELSE IF r = 0 THEN "fill" ELSE "metadata"]
        /\ engine' = engine
    BY <1>1 DEF BuildGroup
  <2>2. pc' \in [Ranks -> Labels] /\ pc'[0] \in SenderLabels
        /\ \A r \in Receivers : pc'[r] \in ReceiverLabels
    BY <2>1, Members DEF Labels, SenderLabels, ReceiverLabels
  <2>3. \A r \in Ranks : pc'[r] # "unconnected"
        /\ (pc'[r] = "failed" => pc' = [q \in Ranks |-> "failed"])
    BY <2>1
  <2>4. Connected' => TopologyFits'
    BY <2>1, Members DEF Connected, TopologyFits
  <2>5. ~Connected' => xfer' = [r \in Ranks |-> None]
    BY <1>1 DEF BuildGroup, Places, Connected, network
  <2> QED BY <2>2, <2>3, <2>4, <2>5 DEF Places
<1>2. CASE FlushLast \/ SendDone
  BY <1>2, <1>l, <1>s, Members, GoPlaces DEF FlushLast, SendDone
<1>3. ASSUME pc' = pc, engine' = engine, xfer' = xfer \/ Connected PROVE Places'
  BY <1>3 DEF Places, Connected, TopologyFits
<1>4. CASE Fill \/ Flush \/ BroadcastByte
  <2>1. 1 \in Receivers /\ Receivers \subseteq Ranks
    BY SizesKnown, Members DEF Receivers
  <2>2. BroadcastByte => Connected
    BY <2>1 DEF BroadcastByte, Places
  <2> QED BY <1>3, <1>4, <2>2 DEF Fill, Flush, BroadcastByte, network
<1>5. ASSUME NEW r \in Ranks, StreamCopy(r) PROVE Places'
  BY <1>3, <1>5 DEF StreamCopy, network
<1>6. ASSUME NEW r \in Receivers, RankStep(r) \/ Load(r) PROVE Places'
  <2>0. r \in Ranks /\ r # 0
    BY Members
  <2>1. CASE BeginRead(r)
    <3>1. pc' = pc \/ Go(r, "first") \/ Go(r, "yield")
      BY <2>1 DEF BeginRead
    <3>2. engine' = engine /\ pc[r] \notin {"unconnected", "failed"}
      BY <2>1 DEF BeginRead
    <3>3. Connected
      BY <2>0, <3>2 DEF Places, Connected
    <3> QED BY <1>3, <1>l, <1>s, <2>0, <3>1, <3>2, <3>3, GoPlaces
  <2>2. CASE ReadByte(r) \/ YieldTensor(r) \/ HandOverFull(r) \/ Load(r)
    <3>1. ReadByte(r) => Connected
      BY <2>0 DEF ReadByte, Places
    <3> QED BY <1>3, <2>2, <3>1 DEF ReadByte, YieldTensor, HandOverFull, HandOver, Load, network
  <2>3. CASE FirstBucket(r) \/ NextBucket(r)
    <3>1. Go(r, "offer") \/ Go(r, "yield")
      BY <2>3 DEF FirstBucket, NextBucket, TakeBucket
    <3>2. engine' = engine /\ pc[r] \notin {"unconnected", "failed"}
      BY <2>3 DEF FirstBucket, NextBucket, TakeBucket
    <3> QED BY <1>l, <1>s, <2>0, <3>1, <3>2, GoPlaces
  <2>4. CASE OfferOn(r)
    <3>1. Go(r, "next_metadata") \/ Go(r, "yield")
      BY <2>4 DEF OfferOn
    <3>2. engine' = engine /\ pc[r] \notin {"unconnected", "failed"}
      BY <2>4 DEF OfferOn
    <3> QED BY <1>l, <1>s, <2>0, <3>1, <3>2, GoPlaces
  <2>5. CASE EndOfWeights(r)
    BY <1>l, <1>s, <2>0, <2>5, GoPlaces DEF EndOfWeights
  <2>6. CASE HandOverLast(r)
    BY <1>l, <1>s, <2>0, <2>6, GoPlaces DEF HandOverLast, HandOver
  <2>7. CASE ReceiveDone(r)
    BY <1>l, <1>s, <2>0, <2>7, GoPlaces DEF ReceiveDone
  <2> QED BY <1>6, <2>1, <2>2, <2>3, <2>4, <2>5, <2>6, <2>7 DEF RankStep
<1> QED BY <1>1, <1>2, <1>4, <1>5, <1>6 DEF Next

LEMMA NextTypes ==
  ASSUME TypeInv, [Next]_vars, \A r \in Receivers : Laid(meta[r].bucket)
  PROVE  TypeInv'
<1> DEFINE Bag == Seq(0 .. Len(Sizes))
           AllCopies == Seq(SenderCopy \cup ReceiverCopy)
           Plain == [Bytes -> 0 .. Len(Sizes)]
           Known == /\ engine \in Engines /\ bufs \in [Ranks -> [Buffers -> Plain]]
                    /\ send \in [Ranks -> Buffers]
                    /\ meta \in [Ranks -> [bucket: Bucket, last: BOOLEAN]]
                    /\ next \in 1 .. Len(Sizes) + 1
                    /\ readable \in [Ranks -> Buffers \cup {None}]
                    /\ mail \in [Ranks -> Seq(Offers)]
                    /\ xfer \in [Ranks -> Reads \cup {None}]
                    /\ yielded \in [Ranks -> Nat]
                    /\ ipc \in [Ranks -> [bytes: Plain, bucket: Bucket]]
                    /\ inbox \in [Ranks -> Bag] /\ loaded \in [Ranks -> Bag]
                    /\ copies \in [Ranks -> AllCopies]
                    /\ copies[0] \in Seq(SenderCopy)
                    /\ \A r \in Receivers : copies[r] \in Seq(ReceiverCopy)
<1>a. Known /\ Places
  BY DEF TypeInv, TypeOK
<1>b. ASSUME Known', Places' PROVE TypeInv'
  <2>1. {inbox'[r] : r \in Ranks} \cup {loaded'[r] : r \in Ranks} \subseteq Bag
    BY <1>b
  <2> HIDE DEF Bag, AllCopies, Plain
  <2>2. TypeOK'
    BY <1>b, <2>1 DEF TypeOK, Places, Bag, Plain
  <2> QED BY <1>b, <2>2 DEF TypeInv, Bag, AllCopies
<1>c. CASE UNCHANGED vars
  BY <1>a, <1>b, <1>c DEF vars, trainer, buffers, network, local, Places, Connected, TopologyFits
<1>d. CASE Next
  <2>p. Places'
    BY <1>a, <1>d, NextPlaces
  <2> HIDE DEF Bag, AllCopies, Plain
  <2> USE <1>a DEF trainer, buffers, network, local
  <2>1. CASE BuildGroup
    BY <1>b, <2>p, <2>1 DEF BuildGroup
  <2>2. CASE Fill
    <3> DEFINE p == Place(meta[0].bucket, next)
               c == [entry |-> p[Len(p)], buffer |-> send[0]]
    <3>1. meta[0].bucket \in Bucket /\ 0 \in Ranks /\ next \in Tensors /\ Fits(meta[0].bucket, next)
          /\ send[0] \in Buffers
      BY <2>2, RankKnown, Members DEF Fill
    <3>2. p \in Bucket /\ p[Len(p)] \in Entry
      BY <3>1, PlaceKnown
    <3>3. c \in SenderCopy
      BY <3>1, <3>2 DEF SenderCopy
    <3>4. meta' = [meta EXCEPT ![0].bucket = p] /\ copies' = [copies EXCEPT ![0] = Append(@, c)]
          /\ next' = next + 1 /\ UNCHANGED <<engine, pc, send, bufs, network, local>>
      BY <2>2 DEF Fill
    <3> HIDE DEF c, p
    <3>5. Append(copies[0], c) \in Seq(SenderCopy)
      BY <3>3, Appended
    <3>6. Append(copies[0], c) \in AllCopies
      BY <3>1, <3>3, Appended DEF AllCopies
    <3>7. copies' \in [Ranks -> AllCopies] /\ copies'[0] \in Seq(SenderCopy)
          /\ \A r \in Receivers : copies'[r] \in Seq(ReceiverCopy)
      BY <3>1, <3>4, <3>5, <3>6, Members
    <3>8. next' \in 1 .. Len(Sizes) + 1
      BY <3>1, <3>4, SizesKnown
    <3>9. meta' \in [Ranks -> [bucket: Bucket, last: BOOLEAN]]
      <4>1. meta' = [meta EXCEPT ![0].bucket = p] /\ meta \in [Ranks -> [bucket: Bucket, last: BOOLEAN]]
        BY <3>4
      <4> QED BY <3>2, <4>1
    <3> QED BY <1>b, <2>p, <3>4, <3>7, <3>8, <3>9
  <2>3. CASE Flush
    <3>1. Offer(0, Message(meta[0].bucket, FALSE)) /\ meta' = [meta EXCEPT ![0].bucket = <<>>]
          /\ send' = [send EXCEPT ![0] = 3 - @]
          /\ UNCHANGED <<engine, pc, trainer, buffers, xfer, local>>
      BY <2>3 DEF Flush, Swap
    <3>2. readable' \in [Ranks -> Buffers \cup {None}] /\ mail' \in [Ranks -> Seq(Offers)]
      BY <3>1, OfferTypes, RankKnown, Members
    <3>3. send' \in [Ranks -> Buffers]
      BY <3>1, RankKnown, Members DEF Recv
    <3>4. <<>> \in Bucket
      BY DEF Bucket
    <3>5. meta' \in [Ranks -> [bucket: Bucket, last: BOOLEAN]]
      <4>1. meta' = [meta EXCEPT ![0].bucket = <<>>]
            /\ meta \in [Ranks -> [bucket: Bucket, last: BOOLEAN]]
        BY <3>1
      <4> QED BY <3>4, <4>1
    <3> QED BY <1>b, <2>p, <3>1, <3>2, <3>3, <3>5
  <2>4. CASE FlushLast
    <3>1. Offer(0, Message(meta[0].bucket, TRUE))
          /\ UNCHANGED <<engine, send, meta, trainer, buffers, xfer, local>>
      BY <2>4 DEF FlushLast
    <3>2. readable' \in [Ranks -> Buffers \cup {None}] /\ mail' \in [Ranks -> Seq(Offers)]
      BY <3>1, OfferTypes, RankKnown, Members
    <3> QED BY <1>b, <2>p, <3>1, <3>2
  <2>5. CASE SendDone
    BY <1>b, <2>p, <2>5 DEF SendDone
  <2>r. ASSUME NEW r \in Receivers, xfer[r] # None, ~Moved(r), Connected
        PROVE  /\ CopyByte(r) \in [Buffers -> Plain]
               /\ [xfer[r] EXCEPT !.moved = @ + 1] \in Reads
    <3>1. TopologyFits /\ r \in Ranks /\ engine \in Engines
      BY <2>r, Members DEF Places
    <3>2. Source(r) \in Ranks
      BY <3>1, Topology
    <3>3. xfer[r] \in Reads /\ xfer[r].moved \in 0 .. BucketSize /\ xfer[r].message \in Offers
          /\ Recv(r) \in Buffers
      BY <2>r, <3>1, RankKnown
    <3>4. xfer[r].moved \in Bytes /\ xfer[r].moved + 1 \in 0 .. BucketSize
      <4>1. xfer[r].moved # BucketSize
        BY <2>r DEF Moved
      <4> DEFINE at == xfer[r].moved
      <4>2. at \in 0 .. BucketSize /\ at # BucketSize /\ BucketSize \in Nat
        BY <3>3, <4>1, SizesKnown
      <4> HIDE DEF at
      <4>3. at \in Bytes /\ at + 1 \in 0 .. BucketSize
        BY <4>2 DEF Bytes
      <4> QED BY <4>3 DEF at
    <3>5. xfer[r].message.buffer \in Buffers
      BY <3>3 DEF Offers
    <3>6. bufs[Source(r)][xfer[r].message.buffer][xfer[r].moved] \in 0 .. Len(Sizes)
      <4>1. bufs[Source(r)] \in [Buffers -> [Bytes -> 0 .. Len(Sizes)]]
        BY <3>2, RankKnown
      <4> QED BY <3>4, <3>5, <4>1
    <3>7. CopyByte(r) \in [Buffers -> Plain]
      <4>1. bufs[r] \in [Buffers -> [Bytes -> 0 .. Len(Sizes)]]
        BY <3>1, RankKnown
      <4> QED BY <3>6, <4>1 DEF CopyByte, Plain
    <3> QED BY <3>3, <3>4, <3>7 DEF Reads
  <2>6. CASE BroadcastByte
    <3>1. /\ \A r \in Receivers : xfer[r] # None /\ ~Moved(r)
          /\ bufs' = [r \in Ranks |-> IF r = 0 THEN bufs[0] ELSE CopyByte(r)]
          /\ xfer' = [r \in Ranks |-> IF r = 0 THEN None ELSE [xfer[r] EXCEPT !.moved = @ + 1]]
          /\ readable' \in {readable, [readable EXCEPT ![0] = None]}
          /\ engine = "nccl"
          /\ UNCHANGED <<engine, pc, send, meta, trainer, copies, mail, local>>
      BY <2>6 DEF BroadcastByte
    <3>2. Connected
      <4>1. 1 \in Receivers /\ Receivers \subseteq Ranks
        BY SizesKnown, Members DEF Receivers
      <4> QED BY <3>1, <4>1 DEF Places
    <3>3. readable' \in [Ranks -> Buffers \cup {None}]
      BY <3>1
    <3>4. bufs' \in [Ranks -> [Buffers -> Plain]] /\ xfer' \in [Ranks -> Reads \cup {None}]
      BY <2>r, <3>1, <3>2, Members
    <3> QED BY <1>b, <2>p, <3>1, <3>3, <3>4
  <2>7. ASSUME NEW r \in Receivers, ReadByte(r) PROVE TypeInv'
    <3>1. /\ xfer[r] # None /\ ~Moved(r)
          /\ bufs' = [bufs EXCEPT ![r] = CopyByte(r)]
          /\ xfer' = [xfer EXCEPT ![r] = [xfer[r] EXCEPT !.moved = @ + 1]]
          /\ readable' \in {readable, [readable EXCEPT ![Source(r)] = None]}
          /\ UNCHANGED <<engine, pc, send, meta, trainer, copies, mail, local>>
      BY <2>7 DEF ReadByte
    <3>2. Connected
      BY <2>7, <3>1, Members DEF Places
    <3>3. readable' \in [Ranks -> Buffers \cup {None}]
      BY <3>1
    <3>4. bufs' \in [Ranks -> [Buffers -> Plain]] /\ xfer' \in [Ranks -> Reads \cup {None}]
      BY <2>r, <2>7, <3>1, <3>2, Members
    <3> QED BY <1>b, <2>p, <3>1, <3>3, <3>4
  <2>8. ASSUME NEW r \in Receivers, BeginRead(r) PROVE TypeInv'
    <3>1. /\ mail[r] # <<>> /\ r \in Ranks
          /\ xfer' = [xfer EXCEPT ![r] = [message |-> Head(mail[r]), moved |-> 0]]
          /\ mail' = [mail EXCEPT ![r] = Tail(@)]
          /\ UNCHANGED <<engine, send, meta, trainer, buffers, readable, local>>
      BY <2>8, Members DEF BeginRead
    <3>2. mail[r] \in Seq(Offers)
      BY <3>1, RankKnown
    <3>3. Head(mail[r]) \in Offers /\ Tail(mail[r]) \in Seq(Offers)
      BY <3>1, <3>2, Behead
    <3>4. [message |-> Head(mail[r]), moved |-> 0] \in Reads
      BY <3>3, SizesKnown DEF Reads
    <3>5. xfer' \in [Ranks -> Reads \cup {None}] /\ mail' \in [Ranks -> Seq(Offers)]
      BY <3>1, <3>3, <3>4
    <3> QED BY <1>b, <2>p, <3>1, <3>5
  <2>9. ASSUME NEW r \in Receivers, FirstBucket(r) \/ NextBucket(r) PROVE TypeInv'
    <3>1. /\ Moved(r) /\ r \in Ranks
          /\ meta' = [meta EXCEPT ![r] = [bucket |-> xfer[r].message.bucket,
                                          last |-> xfer[r].message.last]]
          /\ yielded' = [yielded EXCEPT ![r] = 0] /\ xfer' = [xfer EXCEPT ![r] = None]
          /\ send' = [send EXCEPT ![r] = 3 - @]
          /\ UNCHANGED <<engine, trainer, buffers, readable, mail, ipc, inbox, loaded>>
      BY <2>9, Members DEF FirstBucket, NextBucket, TakeBucket, Swap
    <3>2. xfer[r].message \in Offers
      BY <3>1, RankKnown DEF Moved
    <3>3. [bucket |-> xfer[r].message.bucket, last |-> xfer[r].message.last]
            \in [bucket: Bucket, last: BOOLEAN]
      BY <3>2 DEF Offers
    <3>4. send' \in [Ranks -> Buffers]
      BY <3>1, RankKnown DEF Recv
    <3>5. meta' \in [Ranks -> [bucket: Bucket, last: BOOLEAN]] /\ yielded' \in [Ranks -> Nat]
          /\ xfer' \in [Ranks -> Reads \cup {None}]
      BY <3>1, <3>3
    <3> QED BY <1>b, <2>p, <3>1, <3>4, <3>5
  <2>10. ASSUME NEW r \in Receivers, OfferOn(r) PROVE TypeInv'
    <3>1. /\ Offer(r, Message(meta[r].bucket, meta[r].last)) \/ UNCHANGED <<readable, mail>>
          /\ UNCHANGED <<engine, send, meta, trainer, buffers, xfer, local>>
      BY <2>10 DEF OfferOn
    <3>2. readable' \in [Ranks -> Buffers \cup {None}] /\ mail' \in [Ranks -> Seq(Offers)]
      BY <3>1, OfferTypes, RankKnown, Members
    <3> QED BY <1>b, <2>p, <3>1, <3>2
  <2>11. ASSUME NEW r \in Receivers, EndOfWeights(r) \/ ReceiveDone(r) PROVE TypeInv'
    BY <1>b, <2>p, <2>11 DEF EndOfWeights, ReceiveDone
  <2>12. ASSUME NEW r \in Receivers, YieldTensor(r) PROVE TypeInv'
    <3> DEFINE up == Upcoming(r)
               p == Place(ipc[r].bucket, up.tensor)
               c == [entry |-> p[Len(p)], buffer |-> send[r], from |-> up.offset]
    <3>1. /\ yielded[r] < Len(meta[r].bucket) /\ Fits(ipc[r].bucket, up.tensor) /\ r \in Ranks
          /\ r # 0
          /\ ipc' = [ipc EXCEPT ![r].bucket = p] /\ copies' = [copies EXCEPT ![r] = Append(@, c)]
          /\ yielded' = [yielded EXCEPT ![r] = @ + 1]
          /\ UNCHANGED <<engine, pc, send, meta, trainer, bufs, network, inbox, loaded>>
      BY <2>12, Members DEF YieldTensor
    <3>2. /\ up \in Entry /\ up.tensor \in Tensors /\ up.offset \in Bytes
          /\ up.offset + Sizes[up.tensor] <= BucketSize
      <4>1. meta[r].bucket \in Bucket /\ yielded[r] \in Nat /\ Len(meta[r].bucket) \in Nat
        BY <3>1, RankKnown
      <4>2. yielded[r] + 1 \in DOMAIN meta[r].bucket
        BY <3>1, <4>1, Shape DEF Bucket
      <4>3. up \in Entry
        BY <4>1, <4>2, Shape DEF Upcoming, Bucket
      <4>4. End(up) <= BucketSize
        BY <4>2 DEF Laid, Upcoming
      <4> QED BY <4>3, <4>4 DEF Entry, End
    <3>3. ipc[r].bucket \in Bucket
      BY <3>1, RankKnown
    <3>4. p \in Bucket /\ p[Len(p)] \in Entry
      BY <3>1, <3>2, <3>3, PlaceKnown
    <3>5. c \in ReceiverCopy
      <4>1. send[r] \in Buffers /\ p[Len(p)].tensor = up.tensor
        <5>1. Len(p) = Len(ipc[r].bucket) + 1 /\ p[Len(ipc[r].bucket) + 1].tensor = up.tensor
          BY <3>1, <3>2, <3>3, PlaceKnown
        <5>2. send[r] \in Buffers
          BY <3>1, RankKnown
        <5> HIDE DEF p, up
        <5> QED BY <5>1, <5>2
      <4> HIDE DEF p, up
      <4> QED BY <3>2, <3>4, <4>1 DEF ReceiverCopy
    <3> HIDE DEF c, p, up
    <3>6. Append(copies[r], c) \in Seq(ReceiverCopy)
      BY <3>5, Appended
    <3>7. Append(copies[r], c) \in AllCopies
      BY <3>1, <3>5, Appended DEF AllCopies
    <3>8. copies' \in [Ranks -> AllCopies] /\ copies'[0] \in Seq(SenderCopy)
          /\ \A q \in Receivers : copies'[q] \in Seq(ReceiverCopy)
      BY <3>1, <3>6, <3>7, Members
    <3>9. ipc' \in [Ranks -> [bytes: Plain, bucket: Bucket]]
      BY <3>1, <3>4
    <3>10. yielded' \in [Ranks -> Nat]
      BY <3>1
    <3> QED BY <1>b, <2>p, <3>1, <3>8, <3>9, <3>10
  <2>13. ASSUME NEW r \in Receivers, HandOverFull(r) \/ HandOverLast(r) PROVE TypeInv'
    <3> DEFINE got == [i \in DOMAIN ipc[r].bucket |-> Found(ipc[r].bytes, ipc[r].bucket[i])]
    <3>1. /\ r \in Ranks /\ inbox' = [inbox EXCEPT ![r] = got]
          /\ ipc' = [ipc EXCEPT ![r].bucket = <<>>]
          /\ UNCHANGED <<engine, send, meta, trainer, buffers, network, yielded, loaded>>
      BY <2>13, Members DEF HandOverFull, HandOverLast, HandOver
    <3>2. /\ Len(ipc[r].bucket) \in Nat /\ DOMAIN ipc[r].bucket = 1 .. Len(ipc[r].bucket)
          /\ \A i \in DOMAIN ipc[r].bucket : ipc[r].bucket[i] \in Entry
      BY <3>1, RankKnown, Shape DEF Bucket
    <3>3. got \in Bag
      <4>1. \A i \in DOMAIN ipc[r].bucket : Found(ipc[r].bytes, ipc[r].bucket[i]) \in 0 .. Len(Sizes)
        <5>1. Tensors = 1 .. Len(Sizes) /\ Len(Sizes) \in Nat
          BY SizesKnown
        <5>2. \A i \in DOMAIN ipc[r].bucket : ipc[r].bucket[i].tensor \in 1 .. Len(Sizes)
          BY <3>2, <5>1, EntryKnown
        <5> QED BY <5>1, <5>2 DEF Found
      <4>2. got \in [1 .. Len(ipc[r].bucket) -> 0 .. Len(Sizes)]
        BY <3>2, <4>1
      <4> QED BY <3>2, <4>2, SeqDef DEF Bag
    <3> HIDE DEF got
    <3>4. inbox' \in [Ranks -> Bag]
      BY <3>1, <3>3
    <3>5. <<>> \in Bucket
      BY DEF Bucket
    <3>6. ipc' \in [Ranks -> [bytes: Plain, bucket: Bucket]]
      BY <3>1, <3>5
    <3> QED BY <1>b, <2>p, <3>1, <3>4, <3>6
  <2>14. ASSUME NEW r \in Receivers, Load(r) PROVE TypeInv'
    <3>1. /\ r \in Ranks /\ loaded' = [loaded EXCEPT ![r] = @ \o inbox[r]]
          /\ inbox' = [inbox EXCEPT ![r] = <<>>]
          /\ UNCHANGED <<engine, pc, send, meta, trainer, buffers, network, yielded, ipc>>
      BY <2>14, Members DEF Load
    <3>2. loaded[r] \o inbox[r] \in Bag /\ <<>> \in Bag
      BY <3>1, RankKnown, Joined DEF Bag
    <3>3. loaded' \in [Ranks -> Bag] /\ inbox' \in [Ranks -> Bag]
      BY <3>1, <3>2
    <3> QED BY <1>b, <2>p, <3>1, <3>3
  <2>15. ASSUME NEW r \in Ranks, StreamCopy(r) PROVE TypeInv'
    <3> DEFINE c == Head(copies[r])
    <3>1. /\ copies[r] # <<>> /\ copies' = [copies EXCEPT ![r] = Tail(@)]
          /\ UNCHANGED <<engine, pc, send, meta, trainer, network, yielded, inbox, loaded>>
      BY <2>15 DEF StreamCopy
    <3>2. /\ r = 0 => copies[r] \in Seq(SenderCopy)
          /\ r \in Receivers => copies[r] \in Seq(ReceiverCopy)
          /\ copies[r] \in AllCopies
      OBVIOUS
    <3>3. /\ r = 0 => Tail(copies[r]) \in Seq(SenderCopy) /\ c \in SenderCopy
          /\ r \in Receivers => Tail(copies[r]) \in Seq(ReceiverCopy) /\ c \in ReceiverCopy
          /\ Tail(copies[r]) \in AllCopies
      BY <3>1, <3>2, Behead DEF AllCopies
    <3>4. copies' \in [Ranks -> AllCopies] /\ copies'[0] \in Seq(SenderCopy)
          /\ \A q \in Receivers : copies'[q] \in Seq(ReceiverCopy)
      BY <3>1, <3>3, Members
    <3>5. CASE r = 0
      <4> DEFINE new == [b \in Bytes |-> IF b \in Extent(c.entry) THEN c.entry.tensor
                                         ELSE bufs[0][c.buffer][b]]
      <4>1. ipc' = ipc /\ bufs' = [bufs EXCEPT ![0][c.buffer] = new]
        BY <2>15, <3>5 DEF StreamCopy
      <4>2. c.buffer \in Buffers /\ c.entry \in Entry /\ bufs[0] \in [Buffers -> [Bytes -> 0 .. Len(Sizes)]]
        BY <3>3, <3>5, RankKnown DEF SenderCopy
      <4>3. c.entry.tensor \in 0 .. Len(Sizes)
        BY <4>2, EntryKnown, SizesKnown
      <4>4. new \in Plain
        BY <4>2, <4>3 DEF Plain
      <4> HIDE DEF new, c
      <4>5. bufs' \in [Ranks -> [Buffers -> Plain]]
        BY <4>1, <4>4
      <4> QED BY <1>b, <2>p, <3>1, <3>4, <4>1, <4>5
    <3>6. CASE r # 0
      <4> DEFINE new == [b \in Bytes |-> IF b \in Extent(c.entry)
                          THEN bufs[r][c.buffer][(b - c.entry.offset) + c.from]
                          ELSE ipc[r].bytes[b]]
      <4>1. bufs' = bufs /\ ipc' = [ipc EXCEPT ![r].bytes = new]
        BY <2>15, <3>6 DEF StreamCopy
      <4>2. new \in Plain
        <5>1. /\ c.buffer \in Buffers /\ c.entry \in Entry /\ c.from \in Nat /\ r \in Receivers
              /\ c.from + Sizes[c.entry.tensor] <= BucketSize
          BY <3>3, <3>6, Members, SizesKnown DEF ReceiverCopy, Bytes
        <5>2. \A b \in Extent(c.entry) : (b - c.entry.offset) + c.from \in Bytes
          <6> DEFINE e == c.entry
          <6>1. /\ e.offset \in Nat /\ Sizes[e.tensor] \in Nat
                /\ \A b \in Extent(e) : b \in Nat /\ e.offset <= b /\ b < e.offset + Sizes[e.tensor]
            BY <5>1, EntryKnown DEF End
          <6> HIDE DEF c, e
          <6>2. BucketSize \in Nat /\ c.from \in Nat /\ c.from + Sizes[e.tensor] <= BucketSize
            BY <5>1, SizesKnown DEF e
          <6>3. \A b \in Extent(e) : (b - e.offset) + c.from \in Bytes
            <7> SUFFICES ASSUME NEW b \in Extent(e) PROVE (b - e.offset) + c.from \in Bytes
              OBVIOUS
            <7>1. b \in Nat /\ e.offset <= b /\ b < e.offset + Sizes[e.tensor]
              BY <6>1
            <7> QED BY <6>1, <6>2, <7>1, StagedByte
          <6> QED BY <6>3 DEF e
        <5>3. bufs[r] \in [Buffers -> [Bytes -> 0 .. Len(Sizes)]]
              /\ ipc[r].bytes \in [Bytes -> 0 .. Len(Sizes)]
          BY RankKnown
        <5> HIDE DEF c
        <5> QED BY <5>1, <5>2, <5>3 DEF Plain
      <4> HIDE DEF new, c
      <4>3. ipc' \in [Ranks -> [bytes: Plain, bucket: Bucket]]
        BY <4>1, <4>2
      <4> QED BY <1>b, <2>p, <3>1, <3>4, <4>1, <4>3
    <3> QED BY <3>5, <3>6
  <2> QED BY <1>d, <2>1, <2>2, <2>3, <2>4, <2>5, <2>6, <2>7, <2>8, <2>9, <2>10, <2>11, <2>12,
             <2>13, <2>14, <2>15 DEF Next, RankStep
<1> QED BY <1>c, <1>d

-----------------------------------------------------------------------------
(* The flow: what a step of one rank leaves alone *)

Still(q) ==
  /\ pc'[q] = pc[q] /\ meta'[q] = meta[q] /\ yielded'[q] = yielded[q]
  /\ ipc'[q].bucket = ipc[q].bucket /\ inbox'[q] = inbox[q] /\ loaded'[q] = loaded[q]
Linked(q) ==
  /\ mail'[q] = mail[q] /\ (xfer'[q] = None <=> xfer[q] = None)
  /\ xfer[q] # None => xfer'[q].message = xfer[q].message
Supplied(q) == Offered(Upstream(q))' = Offered(Upstream(q)) /\ engine' = engine

LEMMA Counts ==
  ASSUME TypeInv, NEW r \in Ranks
  PROVE  /\ Got(r) \in Nat /\ Packed(r) \in Nat /\ Taken(r) \in Int /\ Begun(r) \in Int
         /\ Mailed(r) \in Int /\ Offered(r) \in Int
         /\ xfer[r] # None => /\ xfer[r].message.bucket \in Bucket
                              /\ Count(xfer[r].message.bucket) \in Nat
         /\ mail[r] # <<>> => mail[r][1].bucket \in Bucket /\ Count(mail[r][1].bucket) \in Nat
<1>1. /\ Count(loaded[r]) \in Nat /\ Count(inbox[r]) \in Nat /\ Count(ipc[r].bucket) \in Nat
      /\ Count(meta[r].bucket) \in Nat /\ yielded[r] \in Nat /\ next \in Nat
      /\ Count(meta[0].bucket) \in Nat
  BY RankKnown, Members
<1>2. \A bucket \in Bucket : Count(bucket) \in Nat
  BY Shape DEF Bucket, Count
<1>3. xfer[r] # None => xfer[r].message.bucket \in Bucket
  BY RankKnown DEF Offers
<1>4. mail[r] # <<>> => mail[r][1].bucket \in Bucket
  <2>1. mail[r] # <<>> => mail[r][1] \in Offers
    BY RankKnown, Behead
  <2> QED BY <2>1 DEF Offers
<1>5. Got(r) \in Nat
  BY <1>1 DEF Got
<1>6. Packed(r) \in Nat
  BY <1>1, <1>5 DEF Packed
<1>7. Taken(r) \in Int
  BY <1>1, <1>6 DEF Taken
<1>8. Begun(r) \in Int
  BY <1>2, <1>3, <1>7 DEF Begun
<1>9. Mailed(r) \in Int
  BY <1>2, <1>4, <1>8 DEF Mailed
<1>10. Offered(r) \in Int
  BY <1>1, <1>7 DEF Offered
<1> QED BY <1>2, <1>3, <1>4, <1>5, <1>6, <1>7, <1>8, <1>9, <1>10

LEMMA CountsKept ==
  ASSUME NEW q, Still(q)
  PROVE  /\ Got(q)' = Got(q) /\ Packed(q)' = Packed(q) /\ Taken(q)' = Taken(q)
         /\ q # 0 => Offered(q)' = Offered(q)
         /\ Linked(q) => Begun(q)' = Begun(q) /\ Mailed(q)' = Mailed(q)
<1>1. Got(q)' = Got(q)
  BY DEF Got, Still
<1>2. Packed(q)' = Packed(q)
  BY <1>1 DEF Packed, Still
<1>3. Taken(q)' = Taken(q)
  BY <1>2 DEF Taken, Still
<1>4. q # 0 => Offered(q)' = Offered(q)
  BY <1>3 DEF Offered, Still
<1>5. ASSUME Linked(q) PROVE Begun(q)' = Begun(q) /\ Mailed(q)' = Mailed(q)
  <2>1. Begun(q)' = Begun(q)
    BY <1>3, <1>5 DEF Begun, Linked
  <2> QED BY <1>5, <2>1 DEF Mailed, Linked
<1> QED BY <1>1, <1>2, <1>3, <1>4, <1>5

LEMMA ReceiverKept ==
  ASSUME NEW q \in Receivers, Receiver(q), Still(q), Linked(q), Supplied(q)
  PROVE  Receiver(q)'
<1>1. /\ Got(q)' = Got(q) /\ Packed(q)' = Packed(q) /\ Taken(q)' = Taken(q)
      /\ Begun(q)' = Begun(q) /\ Mailed(q)' = Mailed(q)
  BY CountsKept
<1>2. Offered(Upstream(q))' = Offered(Upstream(q))
  BY DEF Supplied
<1> QED BY <1>1, <1>2 DEF Receiver, Still, Linked, Run, Laid

LEMMA SenderKept ==
  ASSUME next' = next, meta'[0] = meta[0], Sender,
         pc'[0] \in {"last", "done"} <=> pc[0] \in {"last", "done"}
  PROVE  Sender' /\ Offered(0)' = Offered(0)
BY DEF Sender, Offered, Run, Laid

LEMMA UpstreamKnown ==
  ASSUME NEW q \in Receivers
  PROVE  Upstream(q) \in Ranks /\ Upstream(q) # q
BY SizesKnown DEF Upstream, Ranks, Receivers

LEMMA EndingKept ==
  ASSUME NEW q \in Receivers, Ending(q), Still(q), Linked(q)
  PROVE  Ending(q)'
<1>1. Taken(q)' = Taken(q) /\ Begun(q)' = Begun(q) /\ Mailed(q)' = Mailed(q)
  BY CountsKept
<1> QED BY <1>1 DEF Ending, Still, Linked

\* A step that leaves what the other ranks hold alone, and what is offered.
LEMMA FlowBy ==
  ASSUME Flow, Endings, engine' = engine, NEW r \in Ranks,
         \A q \in Receivers \ {r} : Still(q) /\ Linked(q),
         r = 0 => Sender',
         r # 0 => next' = next /\ meta'[0] = meta[0] /\ pc'[0] = pc[0]
                  /\ (Supplied(r) => Receiver(r)' /\ Ending(r)'),
         (\E q \in Receivers : Upstream(q) = r) => Offered(r)' = Offered(r)
  PROVE  Flow' /\ Endings'
<1>1. \A q \in Ranks \ {r} : Offered(q)' = Offered(q)
  <2>1. \A q \in Receivers \ {r} : Offered(q)' = Offered(q)
    BY CountsKept, Members
  <2>2. r # 0 => Offered(0)' = Offered(0)
    BY SenderKept DEF Flow
  <2> QED BY <2>1, <2>2, Members
<1>2. \A q \in Receivers : Supplied(q)
  <2> SUFFICES ASSUME NEW q \in Receivers PROVE Offered(Upstream(q))' = Offered(Upstream(q))
    BY DEF Supplied
  <2> DEFINE u == Upstream(q)
  <2>1. u \in Ranks /\ u' = u
    BY UpstreamKnown DEF Upstream
  <2>2. Offered(u)' = Offered(u)
    <3> PICK s \in Ranks : s = u
      BY <2>1
    <3> HIDE DEF u
    <3>1. Offered(s)' = Offered(s)
      BY <1>1 DEF u
    <3> QED BY <2>1, <3>1
  <2> QED BY <2>2
<1>3. \A q \in Receivers \ {r} : Receiver(q)' /\ Ending(q)'
  BY <1>2, ReceiverKept, EndingKept DEF Flow, Endings
<1>4. Sender'
  BY SenderKept DEF Flow
<1> QED BY <1>2, <1>3, <1>4, Members DEF Flow, Endings

LEMMA PlaceRun ==
  ASSUME NEW bucket \in Bucket, NEW t \in Tensors, Fits(bucket, t), NEW n \in Int,
         Run(bucket, n), t = (n + Count(bucket)) + 1
  PROVE  /\ Run(Place(bucket, t), n) /\ Count(Place(bucket, t)) = Count(bucket) + 1
         /\ Count(bucket) \in Nat
<1> DEFINE p == Place(bucket, t)
           k == Count(bucket)
<1>1. /\ Count(p) = k + 1 /\ k \in Nat /\ DOMAIN bucket = 1 .. k /\ DOMAIN p = 1 .. (k + 1)
      /\ p[k + 1].tensor = t
      /\ \A i \in 1 .. k : p[i] = bucket[i]
  BY PlaceKnown DEF Count
<1>2. \A i \in 1 .. k : bucket[i].tensor = n + i
  BY <1>1 DEF Run
<1>3. t <= Total /\ Total \in Nat
  BY SizesKnown DEF Total, Count
<1>4. t = (n + k) + 1
  OBVIOUS
<1> HIDE DEF p, k
<1>5. \A i \in 1 .. (k + 1) : p[i].tensor = n + i
  <2> SUFFICES ASSUME NEW i \in 1 .. (k + 1) PROVE p[i].tensor = n + i
    OBVIOUS
  <2>1. CASE i = k + 1
    <3>1. n + i = t
      BY <1>1, <1>4, <2>1
    <3> QED BY <1>1, <2>1, <3>1
  <2>2. CASE i # k + 1
    <3>1. i \in 1 .. k
      BY <1>1, <2>2
    <3> QED BY <1>1, <1>2, <3>1
  <2> QED BY <2>1, <2>2
<1>6. n + (k + 1) <= Total
  BY <1>1, <1>3, <1>4
<1> QED BY <1>1, <1>5, <1>6 DEF Run, p, k

LEMMA FlowFill ==
  ASSUME TypeInv, Flow, Endings, Fill
  PROVE  Flow' /\ Endings'
<1> DEFINE bucket == meta[0].bucket
           p == Place(bucket, next)
           n == (next - 1) - Count(bucket)
<1>1. /\ pc[0] = "fill" /\ next \in Tensors /\ Fits(bucket, next)
      /\ meta' = [meta EXCEPT ![0].bucket = p] /\ next' = next + 1
      /\ UNCHANGED <<engine, pc, send, bufs, network, local>>
  BY DEF Fill
<1>2. bucket \in Bucket /\ Count(bucket) \in Nat /\ next \in Nat
  BY RankKnown, Members
<1>3. Run(bucket, n) /\ Laid(bucket) /\ Count(bucket) < next
  BY DEF Flow, Sender
<1>4. n \in Int /\ next = (n + Count(bucket)) + 1
  BY <1>2
<1>5. Run(p, n) /\ Count(p) = Count(bucket) + 1 /\ Laid(p)
  <2> HIDE DEF bucket, n
  <2> QED BY <1>1, <1>2, <1>3, <1>4, PlaceRun, PlaceKnown
<1>6. meta'[0].bucket = p /\ pc'[0] = "fill"
  <2>1. meta \in [Ranks -> [bucket: Bucket, last: BOOLEAN]]
    BY DEF TypeInv, TypeOK
  <2> QED BY <1>1, <2>1, Members
<1> HIDE DEF bucket, p
<1>7. n = (next' - 1) - Count(p)
  BY <1>1, <1>2, <1>5
<1>8. Count(p) < next'
  BY <1>1, <1>2, <1>3, <1>5
<1>9. Sender'
  BY <1>5, <1>6, <1>7, <1>8 DEF Sender, Run, Laid
<1>10. Offered(0)' = Offered(0)
  BY <1>1, <1>6, <1>7 DEF Offered, bucket
<1>11. \A q \in Receivers : Still(q) /\ Linked(q)
  BY <1>1, Members DEF Still, Linked, network, local, TypeInv, TypeOK
<1> QED BY <1>1, <1>9, <1>10, <1>11, FlowBy, Members

\* What changes in a step of one receiver; the others are still.
LEMMA OthersStill ==
  ASSUME TypeInv, NEW r \in Ranks, UNCHANGED <<engine, next>>,
         \A q \in Ranks \ {r} : /\ pc'[q] = pc[q] /\ meta'[q] = meta[q] /\ yielded'[q] = yielded[q]
                                /\ ipc'[q] = ipc[q] /\ inbox'[q] = inbox[q] /\ loaded'[q] = loaded[q]
                                /\ mail'[q] = mail[q] /\ xfer'[q] = xfer[q]
  PROVE  /\ \A q \in Receivers \ {r} : Still(q) /\ Linked(q)
         /\ engine' = engine /\ next' = next
         /\ r # 0 => meta'[0] = meta[0] /\ pc'[0] = pc[0]
BY Members DEF Still, Linked

LEMMA FlowYield ==
  ASSUME TypeInv, Flow, Endings, NEW r \in Receivers, YieldTensor(r)
  PROVE  Flow' /\ Endings'
<1> DEFINE bucket == ipc[r].bucket
           up == Upcoming(r)
           p == Place(bucket, up.tensor)
           m == Count(meta[r].bucket)
<1>1. /\ pc[r] = "yield" /\ yielded[r] < Len(meta[r].bucket) /\ Fits(bucket, up.tensor)
      /\ ipc' = [ipc EXCEPT ![r].bucket = p]
      /\ yielded' = [yielded EXCEPT ![r] = @ + 1]
      /\ UNCHANGED <<engine, pc, send, meta, trainer, bufs, network, inbox, loaded>>
  BY DEF YieldTensor
<1>2. /\ r \in Ranks /\ bucket \in Bucket /\ meta[r].bucket \in Bucket /\ yielded[r] \in Nat
      /\ Count(bucket) \in Nat /\ m \in Nat /\ Got(r) \in Nat /\ Packed(r) \in Nat /\ Taken(r) \in Int
  BY RankKnown, Members, Counts
<1>3. Receiver(r) /\ Ending(r)
  BY DEF Flow, Endings
<1>4. yielded[r] + 1 \in DOMAIN meta[r].bucket /\ yielded[r] + 1 <= m
  <2>1. DOMAIN meta[r].bucket = 1 .. m /\ m = Len(meta[r].bucket)
    BY <1>2, Shape DEF Bucket, Count
  <2>2. yielded[r] < m
    BY <1>1, <2>1
  <2> HIDE DEF m
  <2> QED BY <1>2, <2>1, <2>2
<1>5. up \in Entry /\ up.tensor \in Tensors
  <2>1. up \in Entry
    BY <1>2, <1>4, Shape DEF Bucket, Upcoming
  <2> QED BY <2>1, EntryKnown
<1>6. up.tensor = Packed(r) + 1
  <2>1. up.tensor = (Taken(r) - m) + (yielded[r] + 1)
    BY <1>3, <1>4 DEF Receiver, Run, Upcoming
  <2>2. Taken(r) = (Packed(r) + m) - yielded[r]
    BY DEF Taken
  <2> HIDE DEF m, up
  <2> QED BY <1>2, <2>1, <2>2
<1>7. Run(p, Got(r)) /\ Count(p) = Count(bucket) + 1 /\ Laid(p)
  <2>1. up.tensor = (Got(r) + Count(bucket)) + 1
    BY <1>6 DEF Packed
  <2>2. Run(bucket, Got(r)) /\ Laid(bucket) /\ Got(r) \in Int
    BY <1>2, <1>3 DEF Receiver
  <2> HIDE DEF bucket, up
  <2> QED BY <1>1, <1>2, <1>5, <2>1, <2>2, PlaceRun, PlaceKnown
<1>8. /\ ipc'[r].bucket = p /\ yielded'[r] = yielded[r] + 1 /\ pc' = pc /\ meta' = meta
      /\ inbox' = inbox /\ loaded' = loaded /\ mail' = mail /\ xfer' = xfer
      /\ \A q \in Ranks \ {r} : ipc'[q] = ipc[q] /\ yielded'[q] = yielded[q]
      /\ UNCHANGED <<engine, next>>
  BY <1>1, <1>2 DEF network, trainer, TypeInv, TypeOK
<1>9. Got(r)' = Got(r)
  BY <1>8 DEF Got
<1>10. Packed(r)' = Packed(r) + 1
  <2> HIDE DEF bucket, p
  <2>1. Packed(r)' = Got(r) + Count(p) /\ Packed(r) = Got(r) + Count(bucket)
    BY <1>8, <1>9 DEF Packed, bucket
  <2> QED BY <1>2, <1>7, <2>1
<1>11. Taken(r)' = Taken(r)
  <2>1. Taken(r)' = ((Packed(r) + 1) + m) - (yielded[r] + 1) /\ Taken(r) = (Packed(r) + m) - yielded[r]
    BY <1>8, <1>10 DEF Taken
  <2> HIDE DEF m
  <2> QED BY <1>2, <2>1
<1>12. Begun(r)' = Begun(r) /\ Mailed(r)' = Mailed(r) /\ Offered(r)' = Offered(r)
  BY <1>2, <1>8, <1>11, Members DEF Begun, Mailed, Offered
<1>13. Supplied(r) => Receiver(r)'
  <2> HIDE DEF p, m
  <2> QED BY <1>3, <1>4, <1>7, <1>8, <1>9, <1>11, <1>12 DEF Receiver, Supplied, Run, Laid, m
<1>14. Ending(r)'
  BY <1>1, <1>3, <1>8, <1>11, <1>12 DEF Ending
<1> QED BY <1>2, <1>8, <1>12, <1>13, <1>14, OthersStill, FlowBy, Members

LEMMA FlowHandOver ==
  ASSUME TypeInv, Flow, Endings, NEW r \in Receivers, HandOverFull(r) \/ HandOverLast(r),
         Filled(ipc[r].bytes, ipc[r].bucket)
  PROVE  Flow' /\ Endings'
<1> DEFINE bucket == ipc[r].bucket
           got == [i \in DOMAIN bucket |-> Found(ipc[r].bytes, bucket[i])]
<1>1. /\ inbox[r] = <<>> /\ inbox' = [inbox EXCEPT ![r] = got]
      /\ ipc' = [ipc EXCEPT ![r].bucket = <<>>]
      /\ (pc[r] = "yield" /\ pc' = pc) \/ (pc[r] = "drain" /\ Go(r, "loading"))
      /\ UNCHANGED <<engine, send, meta, trainer, buffers, network, yielded, loaded>>
  BY DEF HandOverFull, HandOverLast, HandOver
<1>2. /\ r \in Ranks /\ bucket \in Bucket /\ Count(bucket) \in Nat /\ Got(r) \in Nat
      /\ Count(loaded[r]) \in Nat
  BY RankKnown, Members, Counts
<1>3. Receiver(r) /\ Ending(r)
  BY DEF Flow, Endings
<1>4. Got(r) = Count(loaded[r])
  <2>1. Count(<<>>) = 0
    BY DEF Count
  <2> QED BY <1>1, <1>2, <2>1 DEF Got
<1>5. \A i \in DOMAIN bucket : got[i] = Count(loaded[r]) + i
  <2> SUFFICES ASSUME NEW i \in DOMAIN bucket PROVE got[i] = Count(loaded[r]) + i
    OBVIOUS
  <2>1. Found(ipc[r].bytes, bucket[i]) = bucket[i].tensor
    BY HoldsFound DEF Filled
  <2> QED BY <1>3, <1>4, <2>1 DEF Receiver, Run
<1>6. got \in Seq({Found(ipc[r].bytes, bucket[i]) : i \in DOMAIN bucket})
      /\ DOMAIN bucket = 1 .. Count(bucket)
  <2>1. DOMAIN bucket = 1 .. Count(bucket) /\ Count(bucket) \in Nat
    BY <1>2, Shape DEF Bucket, Count
  <2>2. got \in [1 .. Count(bucket) -> {Found(ipc[r].bytes, bucket[i]) : i \in DOMAIN bucket}]
    BY <2>1
  <2> HIDE DEF got, bucket
  <2> QED BY <2>1, <2>2, SeqDef
<1>7. Count(got) = Count(bucket)
  <2>1. DOMAIN got = 1 .. Count(got) /\ Count(got) \in Nat
    BY <1>6, Shape DEF Count
  <2>2. DOMAIN got = DOMAIN bucket
    OBVIOUS
  <2> HIDE DEF got, bucket
  <2> QED BY <1>2, <1>6, <2>1, <2>2
<1>8. DOMAIN got = DOMAIN bucket
  OBVIOUS
<1> HIDE DEF got
<1>9. /\ inbox'[r] = got /\ ipc'[r].bucket = <<>> /\ loaded' = loaded /\ yielded' = yielded
      /\ meta' = meta /\ mail' = mail /\ xfer' = xfer
      /\ (pc'[r] = pc[r] /\ pc[r] = "yield") \/ (pc'[r] = "loading" /\ pc[r] = "drain")
      /\ \A q \in Ranks \ {r} : ipc'[q] = ipc[q] /\ inbox'[q] = inbox[q] /\ pc'[q] = pc[q]
      /\ UNCHANGED <<engine, next>>
  BY <1>1, <1>2 DEF network, trainer, TypeInv, TypeOK, Go
<1>10. Got(r)' = Packed(r) /\ Packed(r)' = Packed(r)
  <2>1. Count(<<>>) = 0
    BY DEF Count
  <2>2. Packed(r) = Got(r) + Count(bucket)
    BY DEF Packed
  <2>3. Got(r)' = Count(loaded[r]) + Count(got) /\ Packed(r)' = Got(r)' + 0
    BY <1>9, <2>1 DEF Got, Packed
  <2> HIDE DEF bucket
  <2> QED BY <1>2, <1>4, <1>7, <2>2, <2>3
<1>11. /\ Taken(r)' = Taken(r)
  BY <1>9, <1>10 DEF Taken
<1>12. Begun(r)' = Begun(r) /\ Mailed(r)' = Mailed(r) /\ Offered(r)' = Offered(r)
  BY <1>2, <1>9, <1>11, Members DEF Begun, Mailed, Offered
<1>13. Packed(r) <= Total
  BY <1>3 DEF Receiver, Run, Packed
<1>14. Run(<<>>, Packed(r)) /\ Laid(<<>>)
  <2>1. Count(<<>>) = 0 /\ DOMAIN <<>> = {}
    BY DEF Count
  <2>2. Packed(r) \in Nat
    BY <1>2, Counts
  <2> QED BY <1>13, <2>1, <2>2 DEF Run, Laid
<1>15. \A i \in DOMAIN inbox'[r] : inbox'[r][i] = Count(loaded'[r]) + i
  BY <1>5, <1>8, <1>9
<1>16. Supplied(r) => Receiver(r)'
  BY <1>3, <1>9, <1>10, <1>11, <1>12, <1>13, <1>14, <1>15 DEF Receiver, Supplied, Run, Laid
<1>17. Ending(r)'
  BY <1>3, <1>9, <1>11, <1>12 DEF Ending
<1> QED BY <1>2, <1>9, <1>12, <1>16, <1>17, OthersStill, FlowBy, Members

LEMMA FlowLoad ==
  ASSUME TypeInv, Flow, Endings, NEW r \in Receivers, Load(r)
  PROVE  Flow' /\ Endings'
<1> DEFINE new == loaded[r] \o inbox[r]
           l == Count(loaded[r])
           k == Count(inbox[r])
<1>1. /\ inbox[r] # <<>> /\ loaded' = [loaded EXCEPT ![r] = new]
      /\ inbox' = [inbox EXCEPT ![r] = <<>>]
      /\ UNCHANGED <<engine, pc, send, meta, trainer, buffers, network, yielded, ipc>>
  BY DEF Load
<1>2. /\ r \in Ranks /\ l \in Nat /\ k \in Nat
      /\ loaded[r] \in Seq(0 .. Len(Sizes)) /\ inbox[r] \in Seq(0 .. Len(Sizes))
  BY RankKnown, Members
<1>3. Receiver(r) /\ Ending(r)
  BY DEF Flow, Endings
<1>4. /\ Count(new) = l + k /\ DOMAIN new = 1 .. (l + k)
      /\ \A i \in 1 .. (l + k) : new[i] = IF i <= l THEN loaded[r][i] ELSE inbox[r][i - l]
      /\ DOMAIN loaded[r] = 1 .. l /\ DOMAIN inbox[r] = 1 .. k
  <2>1. /\ DOMAIN loaded[r] = 1 .. l /\ DOMAIN inbox[r] = 1 .. k
        /\ l = Len(loaded[r]) /\ k = Len(inbox[r])
    BY <1>2, Shape DEF Count
  <2>2. /\ Len(new) = Len(loaded[r]) + Len(inbox[r])
        /\ DOMAIN new = 1 .. (Len(loaded[r]) + Len(inbox[r]))
        /\ \A i \in DOMAIN new : new[i] = IF i <= Len(loaded[r]) THEN loaded[r][i]
                                          ELSE inbox[r][i - Len(loaded[r])]
    <3> DEFINE Bag == 0 .. Len(Sizes)
           s == loaded[r]
           t == inbox[r]
    <3>1. s \in Seq(Bag) /\ t \in Seq(Bag) /\ new = s \o t
      BY <1>2
    <3> HIDE DEF Bag, new, s, t
    <3>2. /\ Len(new) = Len(s) + Len(t) /\ DOMAIN new = 1 .. (Len(s) + Len(t))
          /\ \A i \in DOMAIN new : new[i] = IF i <= Len(s) THEN s[i] ELSE t[i - Len(s)]
      BY <3>1, Joined
    <3> QED BY <3>2 DEF s, t
  <2>3. Count(new) = Len(new)
    BY DEF Count
  <2> HIDE DEF new, l, k
  <2> QED BY <2>1, <2>2, <2>3
<1>5. \A i \in 1 .. l : loaded[r][i] = i
  BY <1>3, <1>4 DEF Receiver
<1>6. \A i \in 1 .. k : inbox[r][i] = l + i
  BY <1>3, <1>4 DEF Receiver
<1>7. Got(r) = l + k
  BY DEF Got
<1>8. /\ inbox'[r] = <<>> /\ loaded'[r] = new /\ pc' = pc /\ meta' = meta /\ yielded' = yielded
      /\ ipc' = ipc /\ mail' = mail /\ xfer' = xfer
      /\ \A q \in Ranks \ {r} : inbox'[q] = inbox[q] /\ loaded'[q] = loaded[q]
      /\ UNCHANGED <<engine, next>>
  BY <1>1, <1>2 DEF network, trainer, TypeInv
<1> HIDE DEF new, l, k
<1>9. \A i \in DOMAIN new : new[i] = i
  <2> SUFFICES ASSUME NEW i \in 1 .. (l + k) PROVE new[i] = i
    BY <1>4
  <2>1. CASE i <= l
    BY <1>2, <1>4, <1>5, <2>1
  <2>2. CASE ~(i <= l)
    <3>1. i - l \in 1 .. k /\ l + (i - l) = i
      BY <1>2, <2>2
    <3> QED BY <1>4, <1>6, <2>2, <3>1
  <2> QED BY <2>1, <2>2
<1>10. Got(r)' = Got(r)
  <2>1. Got(r)' = Count(new) + Count(<<>>) /\ Count(<<>>) = 0
    BY <1>8 DEF Got, Count
  <2> QED BY <1>2, <1>4, <1>7, <2>1
<1>11. Packed(r)' = Packed(r)
  BY <1>8, <1>10 DEF Packed
<1>12. Taken(r)' = Taken(r)
  BY <1>8, <1>11 DEF Taken
<1>13. Begun(r)' = Begun(r) /\ Mailed(r)' = Mailed(r) /\ Offered(r)' = Offered(r)
  BY <1>2, <1>8, <1>12, Members DEF Begun, Mailed, Offered
<1>14. Supplied(r) => Receiver(r)'
  BY <1>3, <1>8, <1>9, <1>10, <1>12, <1>13 DEF Receiver, Supplied, Run, Laid
<1>15. Ending(r)'
  BY <1>3, <1>8, <1>12, <1>13 DEF Ending
<1> QED BY <1>2, <1>8, <1>13, <1>14, <1>15, OthersStill, FlowBy, Members

LEMMA LoneMail ==
  ASSUME TypeInv, NEW r \in Ranks, Len(mail[r]) <= 1, mail[r] # <<>>
  PROVE  /\ Head(mail[r]) = mail[r][1] /\ Tail(mail[r]) = <<>> /\ mail[r][1] \in Offers
         /\ [message |-> mail[r][1], moved |-> 0] \in Reads
         /\ [message |-> mail[r][1], moved |-> 0] # None
<1>1. mail[r] \in Seq(Offers)
  BY RankKnown
<1>2. /\ Head(mail[r]) = mail[r][1] /\ mail[r][1] \in Offers /\ Tail(mail[r]) \in Seq(Offers)
      /\ Len(Tail(mail[r])) = Len(mail[r]) - 1 /\ Len(mail[r]) >= 1 /\ Len(mail[r]) \in Nat
  BY <1>1, Behead
<1>3. Len(Tail(mail[r])) = 0
  <2> DEFINE k == Len(mail[r])
             j == Len(Tail(mail[r]))
  <2>1. k <= 1 /\ k >= 1 /\ k \in Nat /\ j = k - 1
    BY <1>2
  <2> HIDE DEF k, j
  <2>2. j = 0
    BY <2>1
  <2> QED BY <2>2 DEF j
<1>4. Tail(mail[r]) = <<>>
  BY <1>2, <1>3, Shape
<1>5. [message |-> mail[r][1], moved |-> 0] \in Reads
  BY <1>2, SizesKnown DEF Reads
<1> QED BY <1>2, <1>4, <1>5, MarkAssumption

LEMMA FlowBegin ==
  ASSUME TypeInv, Flow, Endings, NEW r \in Receivers, BeginRead(r), Len(mail[r]) <= 1
  PROVE  Flow' /\ Endings'
<1> DEFINE m == mail[r][1]
           b == Count(m.bucket)
<1>1. /\ mail[r] # <<>> /\ xfer[r] = None
      /\ xfer' = [xfer EXCEPT ![r] = [message |-> Head(mail[r]), moved |-> 0]]
      /\ mail' = [mail EXCEPT ![r] = Tail(@)]
      /\ pc[r] = "metadata" => Go(r, "first")
      /\ pc[r] = "next_metadata" => Go(r, "yield")
      /\ pc[r] = "yield" => pc' = pc
      /\ pc[r] \in {"metadata", "next_metadata", "yield"}
      /\ UNCHANGED <<engine, send, meta, trainer, buffers, readable, local>>
  BY DEF BeginRead
<1>2. r \in Ranks /\ Receiver(r) /\ Ending(r)
  BY Members DEF Flow, Endings
<1>3. /\ xfer'[r] = [message |-> m, moved |-> 0] /\ xfer'[r] # None /\ mail'[r] = <<>>
      /\ meta' = meta /\ yielded' = yielded /\ ipc' = ipc /\ inbox' = inbox /\ loaded' = loaded
      /\ (pc[r] = "metadata" /\ pc'[r] = "first") \/ (pc[r] # "offer" /\ pc'[r] = "yield")
      /\ \A q \in Ranks \ {r} : xfer'[q] = xfer[q] /\ mail'[q] = mail[q] /\ pc'[q] = pc[q]
      /\ UNCHANGED <<engine, next>>
  BY <1>1, <1>2, LoneMail DEF trainer, local, TypeInv, TypeOK, Go
<1>4. Got(r)' = Got(r) /\ Taken(r)' = Taken(r) /\ Taken(r) \in Int /\ b \in Nat
  BY <1>1, <1>2, <1>3, Counts DEF Got, Packed, Taken
<1>5. Begun(r) = Taken(r) /\ Mailed(r) = Begun(r) + b
  BY <1>1 DEF Begun, Mailed
<1>6. Begun(r)' = Mailed(r)
  <2>1. xfer'[r].message.bucket = m.bucket
    BY <1>3
  <2>2. Begun(r)' = Taken(r) + b
    BY <1>3, <1>4, <2>1 DEF Begun
  <2> QED BY <1>5, <2>2
<1>7. Mailed(r)' = Mailed(r) /\ Offered(r)' = Offered(r)
  BY <1>2, <1>3, <1>4, <1>6, Members DEF Mailed, Offered
<1>8. Supplied(r) => Receiver(r)'
  <2>1. Run(m.bucket, Taken(r)) /\ Laid(m.bucket) /\ xfer'[r].message.bucket = m.bucket
    BY <1>1, <1>2, <1>3, <1>5 DEF Receiver
  <2> HIDE DEF m, b
  <2>2. (Run(xfer[r].message.bucket, Taken(r)) /\ Laid(xfer[r].message.bucket))'
    BY <1>4, <2>1 DEF Run, Laid
  <2> QED BY <1>2, <1>3, <1>4, <1>7, <2>2 DEF Receiver, Supplied, Run, Laid
<1>9. Ending(r)'
  BY <1>1, <1>2, <1>3, <1>4, <1>5, <1>6, <1>7 DEF Ending
<1> QED BY <1>2, <1>3, <1>7, <1>8, <1>9, OthersStill, FlowBy, Members

LEMMA FlowTake ==
  ASSUME TypeInv, Flow, Endings, NEW r \in Receivers, FirstBucket(r) \/ NextBucket(r)
  PROVE  Flow' /\ Endings' /\ yielded[r] = Count(meta[r].bucket) /\ ~meta[r].last
<1> DEFINE m == xfer[r].message
           b == Count(m.bucket)
<1>1. /\ xfer[r] # None /\ meta' = [meta EXCEPT ![r] = [bucket |-> m.bucket, last |-> m.last]]
      /\ yielded' = [yielded EXCEPT ![r] = 0] /\ xfer' = [xfer EXCEPT ![r] = None]
      /\ Go(r, IF engine = "nixl" THEN "offer" ELSE "yield")
      /\ UNCHANGED <<engine, trainer, buffers, readable, mail, ipc, inbox, loaded>>
  BY DEF FirstBucket, NextBucket, TakeBucket, Moved
<1>2. /\ r \in Ranks /\ Receiver(r) /\ Ending(r)
      /\ Packed(r) \in Nat /\ Taken(r) \in Int /\ b \in Nat /\ yielded[r] \in Nat
      /\ Count(meta[r].bucket) \in Nat /\ engine \in {"nixl", "nccl"}
  BY <1>1, Members, Counts, RankKnown, TransferAssumption DEF Flow, Endings, TypeInv, TypeOK
<1>3. yielded[r] = Count(meta[r].bucket) /\ ~meta[r].last /\ pc[r] # "offer"
  BY <1>2 DEF FirstBucket, NextBucket, Ending, Count
<1>4. Taken(r) = Packed(r) /\ Begun(r) = Taken(r) + b
  <2>1. Begun(r) = Taken(r) + b
    BY <1>1 DEF Begun
  <2>2. Taken(r) = (Packed(r) + Count(meta[r].bucket)) - yielded[r]
    BY DEF Taken
  <2> HIDE DEF b
  <2> QED BY <1>2, <1>3, <2>1, <2>2
<1>5. /\ meta'[r].bucket = m.bucket /\ meta'[r].last = m.last /\ yielded'[r] = 0 /\ xfer'[r] = None
      /\ pc'[r] = (IF engine = "nixl" THEN "offer" ELSE "yield")
      /\ ipc' = ipc /\ inbox' = inbox /\ loaded' = loaded /\ mail' = mail
      /\ \A q \in Ranks \ {r} : /\ xfer'[q] = xfer[q] /\ meta'[q] = meta[q]
                                /\ pc'[q] = pc[q] /\ yielded'[q] = yielded[q]
      /\ UNCHANGED <<engine, next>>
  BY <1>1, <1>2 DEF trainer, TypeInv, TypeOK, Go
<1>6. Got(r)' = Got(r) /\ Packed(r)' = Packed(r)
  BY <1>5 DEF Got, Packed
<1>7. Taken(r)' = Begun(r) /\ Begun(r)' = Begun(r) /\ Mailed(r)' = Mailed(r)
  <2>1. Taken(r)' = (Packed(r) + b) - 0
    BY <1>5, <1>6 DEF Taken
  <2>2. Taken(r)' = Begun(r)
    <3> HIDE DEF b
    <3> QED BY <1>2, <1>4, <2>1
  <2>3. Begun(r)' = Begun(r)
    BY <1>5, <2>2 DEF Begun
  <2> QED BY <1>5, <2>2, <2>3 DEF Mailed
<1>8. Taken(r)' - b = Taken(r)
  <2> HIDE DEF b
  <2> QED BY <1>2, <1>4, <1>7
<1>9. (\E q \in Receivers : Upstream(q) = r) => Offered(r)' = Offered(r)
  <2>1. CASE engine = "nixl"
    <3>1. Offered(r)' = Taken(r)' - b /\ Offered(r) = Taken(r)
      BY <1>2, <1>3, <1>5, <2>1, Members DEF Offered
    <3> QED BY <1>8, <3>1
  <2>2. CASE engine # "nixl"
    BY <2>2, Members DEF Upstream
  <2> QED BY <2>1, <2>2
<1>10. Supplied(r) => Receiver(r)'
  <2> SUFFICES ASSUME Supplied(r) PROVE Receiver(r)'
    OBVIOUS
  <2>1. Run(m.bucket, Taken(r)) /\ Laid(m.bucket)
    BY <1>1, <1>2 DEF Receiver
  <2>2. Count(meta'[r].bucket) = b
    BY <1>5
  <2>3. Run(meta[r].bucket, Taken(r) - Count(meta[r].bucket))' /\ Laid(meta[r].bucket)'
    BY <1>5, <1>8, <2>1, <2>2 DEF Run, Laid
  <2>4. yielded'[r] <= Count(meta'[r].bucket)
    BY <1>2, <1>5, <2>2
  <2> QED BY <1>2, <1>5, <1>6, <1>7, <2>3, <2>4 DEF Receiver, Supplied, Run, Laid
<1>11. Ending(r)'
  BY <1>1, <1>2, <1>5, <1>7 DEF Ending
<1> QED BY <1>2, <1>3, <1>5, <1>9, <1>10, <1>11, OthersStill, FlowBy, Members

\* A bucket is offered: it comes behind what the readers of the rank have.
LEMMA FlowOffer ==
  ASSUME TypeInv, Flow, Endings, Connected, engine' = engine, NEW r \in Ranks, NEW m \in Offers,
         \A q \in Ranks : mail'[q] = IF q \in Readers(r) THEN Append(mail[q], m) ELSE mail[q],
         \A q \in Receivers : Upstream(q) = r => mail[q] = <<>>,
         Run(m.bucket, Offered(r)), Laid(m.bucket), m.last => Offered(r)' = Total,
         Offered(r)' = Offered(r) + Count(m.bucket),
         \A q \in Receivers \ {r} : Still(q), xfer' = xfer,
         r = 0 => Sender',
         r # 0 => next' = next /\ meta'[0] = meta[0] /\ pc'[0] = pc[0]
                  /\ (Supplied(r) => Receiver(r)' /\ Ending(r)')
  PROVE  Flow' /\ Endings'
<1>1. \A q \in Ranks : q \in Readers(r) <=> q \in Receivers /\ Upstream(q) = r
  BY Topology DEF TypeInv, TypeOK, Places
<1>2. \A q \in Ranks \ {r} : Offered(q)' = Offered(q)
  <2>1. \A q \in Receivers \ {r} : Offered(q)' = Offered(q)
    BY CountsKept, Members
  <2>2. r # 0 => Offered(0)' = Offered(0)
    BY SenderKept DEF Flow
  <2> QED BY <2>1, <2>2, Members
<1>3. Sender'
  BY SenderKept DEF Flow
<1>4. ASSUME NEW q \in Receivers, Upstream(q) # r
      PROVE  Supplied(q) /\ (q # r => Receiver(q)' /\ Ending(q)')
  <2>1. Linked(q)
    BY <1>1, <1>4, Members DEF Linked
  <2>2. Supplied(q)
    <3> PICK s \in Ranks : s = Upstream(q)
      BY UpstreamKnown
    <3>1. Offered(s)' = Offered(s) /\ s = Upstream(q)
      BY <1>2, <1>4
    <3>2. Upstream(q)' = Upstream(q)
      BY DEF Upstream
    <3> QED BY <3>1, <3>2 DEF Supplied
  <2> QED BY <2>1, <2>2, ReceiverKept, EndingKept DEF Flow, Endings
<1>5. ASSUME NEW q \in Receivers, Upstream(q) = r PROVE Receiver(q)' /\ Ending(q)'
  <2>1. q \in Ranks /\ q # r /\ mail[q] = <<>> /\ mail'[q] = <<m>> /\ Still(q) /\ xfer'[q] = xfer[q]
    <3>1. q \in Ranks /\ q # r /\ mail[q] = <<>>
      BY <1>5, UpstreamKnown, Members
    <3>2. mail'[q] = Append(<<>>, m)
      BY <1>1, <1>5, <3>1
    <3> QED BY <3>1, <3>2
  <2>2. Receiver(q) /\ Ending(q)
    BY DEF Flow, Endings
  <2>3. /\ Got(q)' = Got(q) /\ Packed(q)' = Packed(q) /\ Taken(q)' = Taken(q)
    BY <2>1, CountsKept
  <2>4. Begun(q)' = Begun(q)
    BY <2>1, <2>3 DEF Begun
  <2>5. mail'[q] # <<>> /\ mail'[q][1] = m
    BY <2>1
  <2>6. Begun(q) = Offered(r)
    BY <1>5, <2>1, <2>2 DEF Receiver, Mailed
  <2>7. Mailed(q)' = Begun(q) + Count(m.bucket)
    BY <2>4, <2>5 DEF Mailed
  <2>8. Offered(Upstream(q))' = Mailed(q)'
    BY <1>5, <2>6, <2>7 DEF Upstream
  <2>9. (Run(mail[q][1].bucket, Begun(q)) /\ Laid(mail[q][1].bucket))'
    BY <2>4, <2>5, <2>6 DEF Run, Laid
  <2>10. Receiver(q)'
    BY <2>1, <2>2, <2>3, <2>4, <2>8, <2>9 DEF Receiver, Still, Run, Laid
  <2>11. m.last => Mailed(q)' = Total
    BY <2>6, <2>7
  <2> QED BY <2>1, <2>2, <2>3, <2>4, <2>5, <2>10, <2>11 DEF Ending, Still
<1>6. r \in Receivers => Receiver(r)' /\ Ending(r)'
  BY <1>4, UpstreamKnown, Members
<1> QED BY <1>3, <1>4, <1>5, <1>6 DEF Flow, Endings

LEMMA FlowFlush ==
  ASSUME TypeInv, Flow, Endings, Wire, Flush \/ FlushLast
  PROVE  Flow' /\ Endings'
<1> DEFINE bucket == meta[0].bucket
           b == Count(bucket)
           last == pc'[0] = "last"
<1>1. /\ pc[0] = "fill" /\ readable[0] = None /\ 0 \in Ranks
      /\ Flush => Offer(0, Message(bucket, FALSE)) /\ next \in Tensors /\ pc' = pc
                  /\ meta' = [meta EXCEPT ![0].bucket = <<>>]
      /\ FlushLast => Offer(0, Message(bucket, TRUE)) /\ next \notin Tensors /\ Go(0, "last")
                      /\ meta' = meta
      /\ UNCHANGED <<engine, trainer, buffers, xfer, local>>
  BY Members DEF Flush, FlushLast, ReadersDone
<1>2. Sender /\ bucket \in Bucket /\ b \in Nat /\ next \in Nat /\ Connected
  BY <1>1, RankKnown DEF Flow, TypeInv, Places, Connected
<1>3. Offered(0) = (next - 1) - b
  BY <1>1 DEF Offered
<1>4. /\ FlushLast => /\ last /\ meta' = meta
      /\ Flush => ~last /\ pc'[0] = "fill" /\ meta'[0].bucket = <<>>
      /\ \A q \in Ranks \ {0} : pc'[q] = pc[q] /\ meta'[q] = meta[q]
      /\ next' = next /\ xfer' = xfer /\ engine' = engine
      /\ yielded' = yielded /\ ipc' = ipc /\ inbox' = inbox /\ loaded' = loaded
  <2>1. meta \in [Ranks -> [bucket: Bucket, last: BOOLEAN]] /\ pc \in [Ranks -> Labels]
    BY DEF TypeInv, TypeOK
  <2>2. FlushLast => last /\ \A q \in Ranks \ {0} : pc'[q] = pc[q] /\ meta'[q] = meta[q]
    BY <1>1, <2>1 DEF Go
  <2>3. Flush => /\ pc'[0] = "fill" /\ meta'[0].bucket = <<>>
                 /\ \A q \in Ranks \ {0} : pc'[q] = pc[q] /\ meta'[q] = meta[q]
    BY <1>1, <2>1
  <2> QED BY <1>1, <2>2, <2>3 DEF trainer, local
<1>5. Offered(0)' = next - 1
  <2>1. Count(<<>>) = 0
    BY DEF Count
  <2>2. CASE Flush
    BY <1>2, <1>4, <2>1, <2>2 DEF Offered
  <2>3. CASE FlushLast
    BY <1>4, <2>3 DEF Offered
  <2> QED BY <2>2, <2>3
<1>6. Offered(0)' = Offered(0) + b
  <2> HIDE DEF b
  <2> QED BY <1>2, <1>3, <1>5
<1>7. FlushLast => next - 1 = Total /\ next = Total + 1
  <2>1. next \in 1 .. Total + 1 /\ Tensors = 1 .. Total /\ Total \in Nat
    BY SizesKnown DEF TypeInv, TypeOK, Total, Count
  <2> QED BY <1>1, <2>1
<1>8. Sender'
  <2>1. CASE Flush
    <3>1. Count(<<>>) = 0 /\ DOMAIN <<>> = {}
      BY DEF Count
    <3>2. next - 1 <= Total /\ next >= 1
      <4>1. next \in 1 .. Total /\ Total \in Nat
        BY <1>1, <2>1, SizesKnown DEF Total, Count
      <4> QED BY <4>1
    <3>3. Run(<<>>, (next - 1) - 0) /\ Laid(<<>>)
      BY <1>2, <3>1, <3>2 DEF Run, Laid
    <3> QED BY <1>2, <1>4, <2>1, <3>1, <3>2, <3>3 DEF Sender, Run, Laid
  <2>2. CASE FlushLast
    BY <1>2, <1>4, <1>7, <2>2 DEF Sender, Run, Laid
  <2> QED BY <2>1, <2>2
<1>9. Run(bucket, Offered(0)) /\ Laid(bucket)
  BY <1>2, <1>3 DEF Sender
<1>l. PICK l \in BOOLEAN : (Flush /\ l = FALSE) \/ (FlushLast /\ l = TRUE)
  OBVIOUS
<1>10. PICK m \in Offers :
         /\ m = [bucket |-> bucket, last |-> l, buffer |-> send[0]]
         /\ \A q \in Ranks : mail'[q] = IF q \in Readers(0) THEN Append(mail[q], m) ELSE mail[q]
  <2>1. Offer(0, Message(bucket, l))
    BY <1>1, <1>l
  <2> HIDE DEF bucket
  <2> QED BY <1>1, <1>2, <1>l, <2>1, OfferTypes
<1>11. m.bucket = bucket /\ (m.last => Offered(0)' = Total)
  BY <1>5, <1>7, <1>l, <1>10
<1>12. \A q \in Receivers : Upstream(q) = 0 => mail[q] = <<>>
  BY <1>1 DEF Wire, Wired
<1>13. \A q \in Receivers \ {0} : Still(q)
  BY <1>4, Members DEF Still
<1> HIDE DEF bucket, b
<1> QED BY <1>1, <1>2, <1>4, <1>6, <1>8, <1>9, <1>10, <1>11, <1>12, <1>13, FlowOffer DEF b

LEMMA ReadOn ==
  ASSUME TypeInv, NEW r \in Ranks, Reading(r)
  PROVE  LET x == [xfer[r] EXCEPT !.moved = @ + 1] IN
         /\ x \in Reads /\ x # None /\ x.message = xfer[r].message
         /\ x.moved = xfer[r].moved + 1 /\ xfer[r].moved \in Bytes
<1>1. xfer[r] \in Reads /\ xfer[r].moved \in 0 .. BucketSize /\ xfer[r].moved # BucketSize
  BY RankKnown DEF Reading, Moved
<1>2. xfer[r].moved + 1 \in 0 .. BucketSize /\ xfer[r].moved \in Bytes
  BY <1>1, SizesKnown DEF Bytes
<1> DEFINE x == [xfer[r] EXCEPT !.moved = @ + 1]
<1>3. x \in Reads /\ x.message = xfer[r].message /\ x.moved = xfer[r].moved + 1
  BY <1>1, <1>2 DEF Reads
<1> QED BY <1>2, <1>3, MarkAssumption

LEMMA FlowOfferOn ==
  ASSUME TypeInv, Flow, Endings, Wire, NEW r \in Receivers, OfferOn(r)
  PROVE  Flow' /\ Endings'
<1> DEFINE bucket == meta[r].bucket
           b == Count(bucket)
<1>1. /\ pc[r] = "offer" /\ r \in Ranks /\ r # 0
      /\ Readers(r) # {} => Offer(r, Message(bucket, meta[r].last))
      /\ Readers(r) = {} => UNCHANGED <<readable, mail>>
      /\ Go(r, IF meta[r].last THEN "yield" ELSE "next_metadata")
      /\ UNCHANGED <<engine, send, meta, trainer, buffers, xfer, local>>
  BY Members DEF OfferOn
<1>2. /\ Receiver(r) /\ Ending(r) /\ bucket \in Bucket /\ b \in Nat /\ Connected /\ Taken(r) \in Int
      /\ meta[r].last \in BOOLEAN /\ readable[r] = None
  BY <1>1, RankKnown, Counts DEF Flow, Endings, TypeInv, Places, Connected, Wire, Wired
<1>3. /\ pc'[r] \in {"yield", "next_metadata"}
      /\ \A q \in Ranks \ {r} : pc'[q] = pc[q]
      /\ next' = next /\ xfer' = xfer /\ engine' = engine /\ meta' = meta
      /\ yielded' = yielded /\ ipc' = ipc /\ inbox' = inbox /\ loaded' = loaded
  BY <1>1 DEF Go, TypeInv, TypeOK, trainer, local
<1>4. /\ Got(r)' = Got(r) /\ Packed(r)' = Packed(r) /\ Taken(r)' = Taken(r) /\ Begun(r)' = Begun(r)
  BY <1>3 DEF Got, Packed, Taken, Begun
<1>5. Offered(r) = Taken(r) - b /\ Offered(r)' = Taken(r)
  BY <1>1, <1>3, <1>4 DEF Offered
<1>6. Offered(r)' = Offered(r) + b
  <2> HIDE DEF b
  <2> QED BY <1>2, <1>5
<1>7. \A q \in Ranks : q \in Readers(r) <=> q \in Receivers /\ Upstream(q) = r
  BY <1>1, <1>2, Topology DEF TypeInv, TypeOK, Places
<1>8. ASSUME mail'[r] = mail[r] PROVE Supplied(r) => Receiver(r)' /\ Ending(r)'
  <2>1. Mailed(r)' = Mailed(r)
    BY <1>4, <1>8 DEF Mailed
  <2>2. Supplied(r) => Receiver(r)'
    BY <1>2, <1>3, <1>4, <1>8, <2>1 DEF Receiver, Supplied, Run, Laid
  <2>3. Ending(r)'
    BY <1>2, <1>3, <1>4, <1>8, <2>1 DEF Ending
  <2> QED BY <2>2, <2>3
<1>9. \A q \in Receivers \ {r} : Still(q)
  BY <1>3, Members DEF Still
<1>10. CASE Readers(r) = {}
  <2>1. mail' = mail /\ \A q \in Receivers : Upstream(q) # r
    BY <1>1, <1>7, <1>10, Members
  <2>2. \A q \in Receivers \ {r} : Linked(q)
    BY <1>3, <2>1 DEF Linked
  <2> QED BY <1>1, <1>3, <1>8, <1>9, <2>1, <2>2, FlowBy, Members
<1>11. CASE Readers(r) # {}
  <2>1. PICK m \in Offers :
          /\ m = [bucket |-> bucket, last |-> meta[r].last, buffer |-> send[r]]
          /\ \A q \in Ranks : mail'[q] = IF q \in Readers(r) THEN Append(mail[q], m) ELSE mail[q]
    <3> HIDE DEF bucket
    <3> QED BY <1>1, <1>2, <1>11, OfferTypes
  <2>2. mail'[r] = mail[r]
    BY <1>1, <1>7, <2>1, UpstreamKnown
  <2>3. m.bucket = bucket /\ (m.last => Offered(r)' = Total)
    BY <1>2, <1>5, <2>1 DEF Ending
  <2>4. Run(bucket, Offered(r)) /\ Laid(bucket)
    BY <1>2, <1>5 DEF Receiver
  <2>5. \A q \in Receivers : Upstream(q) = r => mail[q] = <<>>
    BY <1>2 DEF Wire, Wired
  <2> HIDE DEF bucket, b
  <2> QED BY <1>1, <1>2, <1>3, <1>6, <1>8, <1>9, <2>1, <2>2, <2>3, <2>4, <2>5, FlowOffer, Members DEF b
<1> QED BY <1>10, <1>11

\* The steps that only move bytes, or end something.
LEMMA FlowAway ==
  ASSUME TypeInv, Flow, Endings,
         \/ UNCHANGED vars \/ BuildGroup \/ SendDone \/ BroadcastByte
         \/ \E r \in Receivers : ReadByte(r) \/ EndOfWeights(r) \/ ReceiveDone(r)
         \/ \E r \in Ranks : StreamCopy(r)
  PROVE  Flow' /\ Endings'
<1> USE DEF trainer, buffers, network, local
<1>1. ASSUME engine' = engine, next' = next, meta' = meta, yielded' = yielded, mail' = mail,
             \A q \in Ranks : ipc'[q].bucket = ipc[q].bucket, inbox' = inbox, loaded' = loaded,
             \A q \in Receivers : pc'[q] = pc[q] /\ Linked(q),
             pc'[0] \in {"last", "done"} <=> pc[0] \in {"last", "done"}
      PROVE  Flow' /\ Endings'
  <2>1. \A q \in Receivers \ {0} : Still(q) /\ Linked(q)
    BY <1>1, Members DEF Still
  <2>2. Sender' /\ Offered(0)' = Offered(0)
    BY <1>1, SenderKept DEF Flow
  <2> QED BY <1>1, <2>1, <2>2, FlowBy, Members
<1>2. CASE UNCHANGED vars
  BY <1>1, <1>2 DEF vars, Linked
<1>3. CASE SendDone
  <2>1. pc[0] = "last" /\ pc'[0] = "done" /\ \A q \in Receivers : pc'[q] = pc[q]
    BY <1>3, Members DEF SendDone, Go, TypeInv, TypeOK
  <2> QED BY <1>1, <1>3, <2>1 DEF SendDone, Linked
<1>4. CASE BroadcastByte
  <2>1. \A q \in Receivers : Linked(q)
    <3> SUFFICES ASSUME NEW q \in Receivers PROVE Linked(q)
      OBVIOUS
    <3>1. Reading(q) /\ q \in Ranks /\ q # 0
      BY <1>4, Members DEF BroadcastByte, Reading
    <3>2. xfer'[q] = [xfer[q] EXCEPT !.moved = @ + 1] /\ mail' = mail
      BY <1>4, <3>1 DEF BroadcastByte
    <3> QED BY <3>1, <3>2, ReadOn DEF Linked, Reading
  <2> QED BY <1>1, <1>4, <2>1 DEF BroadcastByte
<1>5. ASSUME NEW r \in Receivers, ReadByte(r) PROVE Flow' /\ Endings'
  <2>1. Reading(r) /\ r \in Ranks
    BY <1>5, Members DEF ReadByte, Reading
  <2>2. /\ xfer'[r] = [xfer[r] EXCEPT !.moved = @ + 1] /\ mail' = mail
        /\ \A q \in Receivers \ {r} : xfer'[q] = xfer[q]
    BY <1>5, <2>1, Members DEF ReadByte, TypeInv, TypeOK
  <2>3. \A q \in Receivers : Linked(q)
    BY <2>1, <2>2, ReadOn DEF Linked, Reading
  <2> QED BY <1>1, <1>5, <2>3 DEF ReadByte
<1>6. ASSUME NEW r \in Ranks, StreamCopy(r) PROVE Flow' /\ Endings'
  <2>1. \A q \in Ranks : ipc'[q].bucket = ipc[q].bucket
    <3>1. PICK new : ipc' = ipc \/ ipc' = [ipc EXCEPT ![r].bytes = new]
      BY <1>6 DEF StreamCopy
    <3>2. ipc \in [Ranks -> [bytes: [Bytes -> 0 .. Len(Sizes)], bucket: Bucket]]
      BY DEF TypeInv, TypeOK
    <3> QED BY <3>1, <3>2
  <2> QED BY <1>1, <1>6, <2>1 DEF StreamCopy, Linked
<1>7. ASSUME NEW r \in Receivers, EndOfWeights(r) \/ ReceiveDone(r) PROVE Flow' /\ Endings'
  <2>1. /\ r \in Ranks /\ r # 0
        /\ \A q \in Ranks \ {r} : pc'[q] = pc[q]
        /\ pc[r] # "offer" /\ pc'[r] # "offer"
        /\ EndOfWeights(r) => pc'[r] = "drain" /\ meta[r].last /\ yielded[r] = Count(meta[r].bucket)
        /\ ReceiveDone(r) => pc[r] = "loading" /\ pc'[r] = "done" /\ inbox[r] = <<>>
        /\ UNCHANGED <<engine, send, meta, trainer, buffers, network, local>>
    BY <1>7, Members DEF EndOfWeights, ReceiveDone, Go, TypeInv, TypeOK, Count
  <2>2. /\ Got(r)' = Got(r) /\ Packed(r)' = Packed(r) /\ Taken(r)' = Taken(r) /\ Begun(r)' = Begun(r)
        /\ Mailed(r)' = Mailed(r)
    BY <2>1 DEF Got, Packed, Taken, Begun, Mailed
  <2>3. Offered(r)' = Offered(r)
    BY <2>1, <2>2 DEF Offered
  <2>4. Receiver(r) /\ Ending(r)
    BY DEF Flow, Endings
  <2>5. Supplied(r) => Receiver(r)'
    BY <2>1, <2>2, <2>4 DEF Receiver, Supplied, Run, Laid
  <2>6. Ending(r)'
    BY <1>7, <2>1, <2>2, <2>4 DEF Ending
  <2>7. \A q \in Receivers \ {r} : Still(q) /\ Linked(q)
    BY <2>1, Members DEF Still, Linked
  <2> QED BY <2>1, <2>3, <2>5, <2>6, <2>7, FlowBy, Members
<1>8. CASE BuildGroup
  <2>1. /\ \A q \in Ranks : pc[q] = "unconnected"
        /\ pc'[0] \in {"failed", "fill"}
        /\ \A q \in Receivers : pc'[q] \in {"failed", "metadata"}
        /\ UNCHANGED <<engine, send, meta, trainer, buffers, network, local>>
    BY <1>8, Members DEF BuildGroup
  <2>2. Sender' /\ Offered(0)' = Offered(0)
    BY <2>1, SenderKept, Members DEF Flow
  <2>3. ASSUME NEW q \in Receivers
        PROVE  /\ Got(q)' = Got(q) /\ Packed(q)' = Packed(q) /\ Taken(q)' = Taken(q)
               /\ Begun(q)' = Begun(q) /\ Mailed(q)' = Mailed(q) /\ Offered(q)' = Offered(q)
    <3>1. Got(q)' = Got(q) /\ Packed(q)' = Packed(q) /\ Taken(q)' = Taken(q)
          /\ Begun(q)' = Begun(q) /\ Mailed(q)' = Mailed(q)
      BY <2>1 DEF Got, Packed, Taken, Begun, Mailed
    <3> QED BY <2>1, <3>1, Members DEF Offered
  <2>4. \A q \in Receivers : Offered(Upstream(q))' = Offered(Upstream(q))
    <3> SUFFICES ASSUME NEW q \in Receivers PROVE Offered(Upstream(q))' = Offered(Upstream(q))
      OBVIOUS
    <3>1. PICK s \in Ranks : s = Upstream(q)
      BY UpstreamKnown
    <3>2. Offered(s)' = Offered(s)
      BY <2>2, <2>3, Members
    <3>3. Upstream(q)' = Upstream(q)
      BY <2>1 DEF Upstream
    <3> QED BY <3>1, <3>2, <3>3
  <2>5. ASSUME NEW q \in Receivers PROVE Receiver(q)' /\ Ending(q)'
    <3>1. Receiver(q) /\ Ending(q) /\ q \in Ranks
      BY Members DEF Flow, Endings
    <3>2. Receiver(q)'
      BY <2>1, <2>3, <2>4, <3>1 DEF Receiver, Run, Laid
    <3>3. Ending(q)'
      BY <2>1, <2>3, <3>1 DEF Ending
    <3> QED BY <3>2, <3>3
  <2> QED BY <2>2, <2>5 DEF Flow, Endings
<1> QED BY <1>2, <1>3, <1>4, <1>5, <1>6, <1>7, <1>8

LEMMA NextFlow ==
  ASSUME TypeInv, Flow, Endings, Wire, [Next]_vars,
         \A r \in Receivers : HandOverFull(r) \/ HandOverLast(r)
                                => Filled(ipc[r].bytes, ipc[r].bucket)
  PROVE  Flow' /\ Endings'
<1>1. \A r \in Receivers : Len(mail[r]) <= 1
  BY DEF Wire, Wired
<1> QED BY <1>1, FlowFill, FlowYield, FlowHandOver, FlowLoad, FlowBegin, FlowTake, FlowFlush,
           FlowOfferOn, FlowAway DEF Next, RankStep

-----------------------------------------------------------------------------
(* The wire: who reads what is offered *)

LEMMA WiredKept ==
  ASSUME NEW q \in Receivers, Wired(q), engine' = engine, mail'[q] = mail[q], xfer'[q] = xfer[q],
         readable'[Upstream(q)] = readable[Upstream(q)],
         readable'[q] = None
           \/ (readable'[q] = readable[q] /\ send'[q] = send[q] /\ pc'[q] \in {pc[q], "yield"}),
         Upstream(q) # 0 /\ (mail[q] # <<>> \/ Reading(q)) =>
           meta'[Upstream(q)].bucket = meta[Upstream(q)].bucket,
         engine = "nccl" /\ Reading(q) /\ xfer[q].moved > 0 =>
           \A r \in Receivers : Reading(r) => xfer'[r] = xfer[r]
  PROVE  Wired(q)'
<1>1. Upstream(q)' = Upstream(q)
  BY DEF Upstream
<1>2. Reading(q)' = Reading(q)
  BY DEF Reading, Moved
<1>3. readable'[Upstream(q)'] = readable[Upstream(q)] /\ readable'[q] # None => readable'[q] = send'[q] /\ pc'[q] \in {"next_metadata", "yield"}
  BY <1>1 DEF Wired
<1>4. engine' = "nccl" /\ Reading(q)' /\ xfer'[q].moved > 0 =>
        \A r \in Receivers : Reading(r)' /\ xfer'[r].moved = xfer'[q].moved
  BY <1>2 DEF Wired, Reading, Moved
<1>5. Upstream(q)' # 0 =>
        /\ mail'[q] # <<>> => mail'[q][1].bucket = meta'[Upstream(q)'].bucket
        /\ Reading(q)' => xfer'[q].message.bucket = meta'[Upstream(q)'].bucket
  BY <1>1, <1>2 DEF Wired
<1> QED BY <1>1, <1>2, <1>3, <1>4, <1>5 DEF Wired

LEMMA WireStill ==
  ASSUME Wire, UNCHANGED <<engine, mail, xfer, readable, send>>,
         \A q \in Receivers : pc'[q] \in {pc[q], "yield"} \/ readable[q] = None,
         \A q \in Receivers : meta'[q] = meta[q],
         pc'[0] \in {pc[0], "fill", "last"} \/ readable[0] = None
  PROVE  Wire'
<1>1. ASSUME NEW q \in Receivers PROVE Wired(q)'
  <2>1. Upstream(q) # 0 => meta'[Upstream(q)] = meta[Upstream(q)]
    BY UpstreamKnown, Members
  <2>2. /\ engine' = engine /\ mail'[q] = mail[q] /\ xfer' = xfer /\ readable' = readable
        /\ send'[q] = send[q] /\ Wired(q)
    BY DEF Wire
  <2>3. readable'[q] = None
           \/ (readable'[q] = readable[q] /\ send'[q] = send[q] /\ pc'[q] \in {pc[q], "yield"})
    BY <2>2
  <2> QED BY <2>1, <2>2, <2>3, WiredKept
<1> QED BY <1>1 DEF Wire

\* An offer reaches the ranks that read this one, who had nothing to read.
LEMMA WireOffer ==
  ASSUME TypeInv, Wire, Connected, engine' = engine, xfer' = xfer, NEW r \in Ranks, readable[r] = None,
         NEW m \in Offers, m.buffer = send[r], r # 0 => m.bucket = meta[r].bucket,
         \A q \in Ranks : mail'[q] = IF q \in Readers(r) THEN Append(mail[q], m) ELSE mail[q],
         readable' = [readable EXCEPT ![r] = send[r]],
         \A q \in Receivers : meta'[q] = meta[q] /\ send'[q] = send[q],
         \A q \in Receivers \ {r} : pc'[q] = pc[q],
         r = 0 => pc'[0] \in {"fill", "last"},
         r # 0 => pc'[0] = pc[0] /\ pc'[r] \in {"next_metadata", "yield"}
  PROVE  Wire'
<1>1. \A q \in Ranks : q \in Readers(r) <=> q \in Receivers /\ Upstream(q) = r
  BY Topology DEF TypeInv, TypeOK, Places
<1>2. /\ readable'[r] = send[r] /\ send[r] # None
      /\ \A q \in Ranks \ {r} : readable'[q] = readable[q]
  <2>1. send[r] \in Buffers /\ readable \in [Ranks -> Buffers \cup {None}]
    BY DEF TypeInv, TypeOK
  <2>2. None \notin Buffers
    BY MarkAssumption DEF Buffers
  <2> QED BY <2>1, <2>2
<1>3. mail'[0] = <<>> /\ xfer'[0] = None /\ (pc'[0] \in {"unconnected", "failed", "done"} => readable'[0] = None)
  BY <1>1, <1>2, Members DEF Wire
<1>4. ASSUME NEW q \in Receivers PROVE Wired(q)'
  <2>1. /\ Wired(q) /\ Upstream(q) \in Ranks /\ Upstream(q)' = Upstream(q) /\ q \in Ranks /\ q # 0
        /\ Reading(q)' = Reading(q) /\ Upstream(q) # q
    BY Members, UpstreamKnown DEF Wire, Upstream, Reading, Moved
  <2>2. readable'[q] # None => readable'[q] = send'[q] /\ pc'[q] \in {"next_metadata", "yield"}
    BY <1>2, <2>1 DEF Wired
  <2>3. CASE Upstream(q) = r
    <3>1. mail[q] = <<>> /\ ~Reading(q)
      BY <2>1, <2>3 DEF Wired
    <3>2. mail'[q] = <<m>>
      <4>1. mail'[q] = Append(<<>>, m)
        BY <1>1, <2>1, <2>3, <3>1
      <4> QED BY <4>1
    <3>3. Len(mail'[q]) <= 1 /\ mail'[q] # <<>> /\ mail'[q][1] = m
      BY <3>2
    <3>4. readable'[Upstream(q)'] = send[r] /\ (r # 0 => meta'[Upstream(q)'].bucket = m.bucket)
      BY <1>2, <2>1, <2>3, Members
    <3> QED BY <1>2, <2>1, <2>2, <2>3, <3>1, <3>3, <3>4 DEF Wired
  <2>4. CASE Upstream(q) # r
    <3>1. mail'[q] = mail[q] /\ readable'[Upstream(q)] = readable[Upstream(q)]
      BY <1>1, <1>2, <2>1, <2>4
    <3>2. Upstream(q) # 0 => meta'[Upstream(q)] = meta[Upstream(q)]
      BY <2>1, Members
    <3>3. Upstream(q)' # 0 =>
            /\ mail'[q] # <<>> => mail'[q][1].bucket = meta'[Upstream(q)'].bucket
            /\ Reading(q)' => xfer'[q].message.bucket = meta'[Upstream(q)'].bucket
      BY <2>1, <3>1, <3>2 DEF Wired
    <3>4. engine' = "nccl" /\ Reading(q)' /\ xfer'[q].moved > 0 =>
            \A s \in Receivers : Reading(s)' /\ xfer'[s].moved = xfer'[q].moved
      BY <2>1 DEF Wired, Reading, Moved
    <3> QED BY <2>1, <2>2, <3>1, <3>3, <3>4 DEF Wired
  <2> QED BY <2>3, <2>4
<1> QED BY <1>3, <1>4 DEF Wire

LEMMA WireBegin ==
  ASSUME TypeInv, Wire, NEW r \in Receivers, BeginRead(r)
  PROVE  Wire'
<1> DEFINE m == mail[r][1]
<1>1. /\ mail[r] # <<>> /\ xfer[r] = None /\ r \in Ranks /\ r # 0
      /\ xfer' = [xfer EXCEPT ![r] = [message |-> Head(mail[r]), moved |-> 0]]
      /\ mail' = [mail EXCEPT ![r] = Tail(@)]
      /\ pc[r] \in {"metadata", "next_metadata", "yield"}
      /\ pc[r] = "metadata" => Go(r, "first")
      /\ pc[r] = "next_metadata" => Go(r, "yield")
      /\ pc[r] = "yield" => pc' = pc
      /\ UNCHANGED <<engine, send, meta, trainer, buffers, readable, local>>
  BY Members DEF BeginRead
<1>2. /\ Wired(r) /\ ~Reading(r) /\ readable[Upstream(r)] # None
      /\ Upstream(r) \in Ranks /\ Upstream(r)' = Upstream(r)
  BY <1>1, UpstreamKnown DEF Wire, Wired, Reading, Upstream
<1>3. /\ xfer'[r] = [message |-> m, moved |-> 0] /\ xfer'[r] # None /\ mail'[r] = <<>>
      /\ \A q \in Ranks \ {r} : xfer'[q] = xfer[q] /\ mail'[q] = mail[q] /\ pc'[q] = pc[q]
      /\ pc'[r] \in {pc[r], "yield"} \/ pc[r] = "metadata"
  <2>1. Head(mail[r]) = m /\ Tail(mail[r]) = <<>> /\ [message |-> m, moved |-> 0] # None
    BY <1>1, <1>2, LoneMail DEF Wired
  <2>2. /\ xfer \in [Ranks -> Reads \cup {None}] /\ mail \in [Ranks -> Seq(Offers)]
        /\ pc \in [Ranks -> Labels]
    BY DEF TypeInv, TypeOK
  <2> HIDE DEF m
  <2>3. /\ xfer'[r] = [message |-> m, moved |-> 0] /\ mail'[r] = <<>>
        /\ \A q \in Ranks \ {r} : xfer'[q] = xfer[q] /\ mail'[q] = mail[q]
    BY <1>1, <2>1, <2>2
  <2>4. \A q \in Ranks \ {r} : pc'[q] = pc[q]
    BY <1>1, <2>2 DEF Go
  <2>5. pc'[r] \in {pc[r], "yield"} \/ pc[r] = "metadata"
    BY <1>1, <2>2 DEF Go
  <2> QED BY <2>1, <2>3, <2>4, <2>5
<1>4. Reading(r)' /\ xfer'[r].moved = 0 /\ xfer'[r].message = m
  BY <1>3, SizesKnown DEF Reading, Moved
<1>5. Wired(r)'
  <2>1. Len(<<>>) <= 1
    OBVIOUS
  <2>2. readable'[r] # None => readable'[r] = send'[r] /\ pc'[r] \in {"next_metadata", "yield"}
    BY <1>1, <1>2, <1>3 DEF Wired
  <2> HIDE DEF m
  <2>3. m = mail[r][1] /\ m.buffer = readable[Upstream(r)]
        /\ (Upstream(r) # 0 => m.bucket = meta[Upstream(r)].bucket)
    BY <1>1, <1>2 DEF Wired, m
  <2> QED BY <1>1, <1>2, <1>3, <1>4, <2>1, <2>2, <2>3 DEF Wired
<1>6. ASSUME NEW q \in Receivers, q # r PROVE Wired(q)'
  <2>1. q \in Ranks /\ Wired(q)
    BY Members DEF Wire
  <2>2. \A s \in Receivers : Reading(s) => xfer'[s] = xfer[s]
    BY <1>2, <1>3, Members
  <2> QED BY <1>1, <1>3, <1>6, <2>1, <2>2, WiredKept
<1> QED BY <1>1, <1>3, <1>5, <1>6, Members DEF Wire

LEMMA WireTake ==
  ASSUME TypeInv, Wire, NEW r \in Receivers, FirstBucket(r) \/ NextBucket(r)
  PROVE  Wire' /\ readable[r] = None
<1>1. /\ Moved(r) /\ r \in Ranks /\ r # 0
      /\ meta' = [meta EXCEPT ![r] = [bucket |-> xfer[r].message.bucket,
                                      last |-> xfer[r].message.last]]
      /\ xfer' = [xfer EXCEPT ![r] = None]
      /\ send' = [send EXCEPT ![r] = 3 - @]
      /\ Go(r, IF engine = "nixl" THEN "offer" ELSE "yield")
      /\ UNCHANGED <<engine, readable, mail>>
  BY Members DEF FirstBucket, NextBucket, TakeBucket, Swap
<1>2. readable[r] = None /\ Wired(r) /\ ~Reading(r)
  BY <1>1 DEF FirstBucket, NextBucket, ReadersDone, Wire, Wired, Reading
<1>3. /\ xfer'[r] = None
      /\ \A q \in Ranks \ {r} : /\ xfer'[q] = xfer[q] /\ send'[q] = send[q]
                                /\ meta'[q] = meta[q] /\ pc'[q] = pc[q]
  BY <1>1 DEF TypeInv, TypeOK, Go
<1>4. ASSUME NEW q \in Receivers, q # r PROVE Wired(q)'
  <2>1. q \in Ranks /\ Wired(q)
    BY Members DEF Wire
  <2>2. \A s \in Receivers : Reading(s) => xfer'[s] = xfer[s]
    BY <1>2, <1>3, Members
  <2>3. Upstream(q) # 0 /\ (mail[q] # <<>> \/ Reading(q)) =>
          meta'[Upstream(q)].bucket = meta[Upstream(q)].bucket
    <3>1. CASE Upstream(q) = r
      BY <1>2, <2>1, <3>1 DEF Wired
    <3>2. CASE Upstream(q) # r
      BY <1>3, <3>2, UpstreamKnown
    <3> QED BY <3>1, <3>2
  <2> QED BY <1>1, <1>3, <1>4, <2>1, <2>2, <2>3, WiredKept
<1>5. Wired(r)'
  <2>1. ~Reading(r)' /\ Upstream(r)' = Upstream(r)
    BY <1>1, <1>3 DEF Reading, Moved, Upstream
  <2>2. Upstream(r) \in Ranks /\ Upstream(r) # r
    BY UpstreamKnown
  <2>3. Upstream(r) # 0 => meta'[Upstream(r)] = meta[Upstream(r)]
    BY <1>3, <2>2
  <2> QED BY <1>1, <1>2, <1>3, <2>1, <2>2, <2>3 DEF Wired
<1> QED BY <1>1, <1>2, <1>3, <1>4, <1>5, Members DEF Wire

LEMMA WireRead ==
  ASSUME TypeInv, Wire, NEW r \in Receivers, ReadByte(r)
  PROVE  Wire'
<1> DEFINE u == Upstream(r)
<1>1. /\ engine = "nixl" /\ Reading(r) /\ r \in Ranks /\ r # 0
      /\ xfer' = [xfer EXCEPT ![r].moved = @ + 1]
      /\ readable' = IF Moved(r)' THEN [readable EXCEPT ![Source(r)] = None] ELSE readable
      /\ UNCHANGED <<engine, pc, send, meta, mail>>
  BY Members DEF ReadByte, Reading
<1>2. Source(r) = u /\ u \in Ranks /\ u # r /\ u = r - 1
  <2>1. Connected
    BY <1>1 DEF TypeInv, Places, Reading
  <2> QED BY <1>1, <2>1, Topology DEF TypeInv, TypeOK, Places, Upstream
<1>3. /\ Wired(r) /\ mail[r] = <<>> /\ readable[u] # None
  BY <1>1 DEF Wire, Wired
<1>4. /\ xfer'[r] # None /\ xfer'[r].message = xfer[r].message
      /\ \A q \in Ranks \ {r} : xfer'[q] = xfer[q]
  BY <1>1, ReadOn DEF TypeInv, TypeOK
<1>5. \A q \in Receivers : Upstream(q)' = Upstream(q) /\ (q # r => Upstream(q) # u)
  BY <1>1, SizesKnown DEF Upstream, Receivers
<1>6. Moved(r)' <=> ~Reading(r)'
  BY <1>4 DEF Reading, Moved
<1> HIDE DEF u
<1>7. /\ readable'[u] = (IF Reading(r)' THEN readable[u] ELSE None)
      /\ \A q \in Ranks \ {u} : readable'[q] = readable[q]
  <2>1. readable \in [Ranks -> Buffers \cup {None}]
    BY DEF TypeInv, TypeOK
  <2> QED BY <1>1, <1>2, <1>6, <2>1
<1>8. ASSUME NEW q \in Receivers, q # r PROVE Wired(q)'
  <2>1. q \in Ranks /\ Wired(q) /\ Upstream(q) \in Ranks
    BY Members, UpstreamKnown DEF Wire
  <2>2. readable'[Upstream(q)] = readable[Upstream(q)]
    BY <1>5, <1>7, <1>8, <2>1
  <2>3. readable'[q] = None \/ readable'[q] = readable[q]
    BY <1>7, <2>1
  <2> QED BY <1>1, <1>4, <1>8, <2>1, <2>2, <2>3, WiredKept
<1>9. Wired(r)'
  <2>1. readable'[r] = readable[r]
    BY <1>1, <1>2, <1>7
  <2>2. Upstream(r)' = u /\ Upstream(r) = u
    BY <1>5 DEF u
  <2> QED BY <1>1, <1>3, <1>4, <1>7, <2>1, <2>2 DEF Wired
<1>10. readable'[0] \in {readable[0], None}
  BY <1>2, <1>7, Members
<1> QED BY <1>1, <1>4, <1>8, <1>9, <1>10, Members DEF Wire

LEMMA WireBroadcast ==
  ASSUME TypeInv, Wire, BroadcastByte
  PROVE  Wire'
<1>1. /\ engine = "nccl"
      /\ \A r \in Receivers : Reading(r) /\ r \in Ranks /\ r # 0
      /\ xfer' = [r \in Ranks |-> IF r = 0 THEN None ELSE [xfer[r] EXCEPT !.moved = @ + 1]]
      /\ readable' = IF \A r \in Receivers : Moved(r)'
                       THEN [readable EXCEPT ![0] = None] ELSE readable
      /\ UNCHANGED <<engine, pc, send, meta, mail>>
  BY Members DEF BroadcastByte, Reading
<1>2. /\ 1 \in Receivers /\ 0 \in Ranks
      /\ \A r \in Receivers : Upstream(r) = 0 /\ Upstream(r)' = 0 /\ Wired(r)
  BY <1>1, SizesKnown, Members DEF Receivers, Upstream, Wire
<1>3. /\ readable[0] # None
      /\ \A r \in Receivers : mail[r] = <<>>
  BY <1>1, <1>2 DEF Wired
<1> DEFINE n == xfer[1].moved
<1>4. \A r \in Receivers : xfer[r].moved = n
  <2>1. \A r \in Receivers : xfer[r].moved \in Nat
    BY <1>1, ReadOn DEF Bytes
  <2>2. \A q, r \in Receivers : xfer[q].moved > 0 => xfer[r].moved = xfer[q].moved
    BY <1>1, <1>2 DEF Wired
  <2> QED BY <1>2, <2>1, <2>2
<1> HIDE DEF n
<1>5. \A r \in Receivers : /\ xfer'[r] # None /\ xfer'[r].message = xfer[r].message
                           /\ xfer'[r].moved = n + 1
  BY <1>1, <1>4, ReadOn
<1>6. \A r \in Receivers : Reading(r)' <=> n + 1 # BucketSize
  BY <1>5 DEF Reading, Moved
<1>7. (\A r \in Receivers : Moved(r)') <=> n + 1 = BucketSize
  BY <1>2, <1>5 DEF Moved
<1>8. /\ readable'[0] = IF n + 1 = BucketSize THEN None ELSE readable[0]
      /\ \A r \in Receivers : readable'[r] = readable[r]
  <2>1. readable \in [Ranks -> Buffers \cup {None}]
    BY DEF TypeInv, TypeOK
  <2> QED BY <1>1, <1>2, <1>7, <2>1
<1>9. ASSUME NEW r \in Receivers PROVE Wired(r)'
  <2>1. mail'[r] = <<>> /\ Len(<<>>) <= 1
    BY <1>1, <1>3
  <2>2. readable'[0] = None => ~Reading(r)'
    BY <1>3, <1>6, <1>8
  <2>3. readable'[0] # None => Reading(r)' /\ readable'[0] = readable[0]
    BY <1>6, <1>8
  <2>4. Reading(r)' => xfer'[r].message.buffer = readable'[0]
    BY <1>1, <1>2, <1>5, <1>6, <1>8 DEF Wired
  <2>5. readable'[r] # None => readable'[r] = send'[r] /\ pc'[r] \in {"next_metadata", "yield"}
    BY <1>1, <1>2, <1>8 DEF Wired
  <2>6. \A q \in Receivers : Reading(r)' => Reading(q)' /\ xfer'[q].moved = xfer'[r].moved
    BY <1>5, <1>6
  <2> QED BY <1>2, <2>1, <2>2, <2>3, <2>4, <2>5, <2>6 DEF Wired
<1> QED BY <1>1, <1>2, <1>8, <1>9 DEF Wire

LEMMA NextWire ==
  ASSUME TypeInv, Wire, Endings, [Next]_vars
  PROVE  Wire'
<1> USE DEF trainer, buffers, network, local
<1>1. CASE UNCHANGED vars
  BY <1>1, WireStill DEF vars
<1>2. CASE BuildGroup
  <2>1. readable[0] = None /\ \A r \in Receivers : readable[r] = None
    BY <1>2, Members DEF BuildGroup, Wire, Wired
  <2> QED BY <1>2, <2>1, WireStill DEF BuildGroup
<1>3. CASE Fill
  <2>1. \A q \in Receivers : meta'[q] = meta[q]
    BY <1>3, Members DEF Fill, TypeInv, TypeOK
  <2> QED BY <1>3, <2>1, WireStill DEF Fill
<1>4. CASE Flush \/ FlushLast
  <2> DEFINE bucket == meta[0].bucket
  <2>1. PICK l \in BOOLEAN : Offer(0, Message(bucket, l))
    BY <1>4 DEF Flush, FlushLast
  <2>2. /\ pc[0] = "fill" /\ readable[0] = None /\ 0 \in Ranks /\ bucket \in Bucket
        /\ xfer' = xfer /\ engine' = engine /\ Connected
        /\ pc'[0] \in {"fill", "last"}
        /\ \A q \in Ranks \ {0} : pc'[q] = pc[q] /\ meta'[q] = meta[q] /\ send'[q] = send[q]
    BY <1>4, Members, RankKnown DEF Flush, FlushLast, ReadersDone, Swap, Go, TypeInv, TypeOK, Places, Connected
  <2> HIDE DEF bucket
  <2>3. PICK m \in Offers :
          /\ m = [bucket |-> bucket, last |-> l, buffer |-> send[0]]
          /\ \A q \in Ranks : mail'[q] = IF q \in Readers(0) THEN Append(mail[q], m) ELSE mail[q]
    BY <2>1, <2>2, OfferTypes
  <2>4. readable' = [readable EXCEPT ![0] = send[0]]
    BY <2>1, <2>2, OfferTypes
  <2>5. m.buffer = send[0]
    BY <2>3
  <2> QED BY <2>2, <2>3, <2>4, <2>5, WireOffer, Members
<1>5. CASE SendDone
  <2>1. \A q \in Receivers : pc'[q] = pc[q]
    BY <1>5, Members DEF SendDone, Go, TypeInv, TypeOK
  <2> QED BY <1>5, <2>1, WireStill DEF SendDone, ReadersDone
<1>6. CASE BroadcastByte
  BY <1>6, WireBroadcast
<1>7. ASSUME NEW r \in Receivers, RankStep(r) \/ Load(r) PROVE Wire'
  <2>0. r \in Ranks /\ r # 0 /\ Wired(r)
    BY Members DEF Wire
  <2>1. CASE BeginRead(r)
    BY <2>1, WireBegin
  <2>2. CASE ReadByte(r)
    BY <2>2, WireRead
  <2>3. CASE FirstBucket(r) \/ NextBucket(r)
    BY <2>3, WireTake
  <2>4. CASE OfferOn(r)
    <3>1. /\ pc[r] = "offer" /\ readable[r] = None /\ Connected
          /\ pc'[r] \in {"next_metadata", "yield"}
          /\ \A q \in Ranks \ {r} : pc'[q] = pc[q]
          /\ UNCHANGED <<engine, send, meta, xfer>>
          /\ meta[r].bucket \in Bucket /\ meta[r].last \in BOOLEAN
      BY <2>0, <2>4, RankKnown DEF OfferOn, Go, TypeInv, TypeOK, Places, Connected, Wired
    <3>2. CASE Readers(r) = {}
      BY <2>4, <3>1, <3>2, WireStill, Members DEF OfferOn
    <3>3. CASE Readers(r) # {}
      <4> DEFINE bucket == meta[r].bucket
      <4>1. Offer(r, Message(bucket, meta[r].last))
        BY <2>4, <3>3 DEF OfferOn
      <4>2. bucket \in Bucket
        BY <3>1
      <4> HIDE DEF bucket
      <4>3. PICK m \in Offers :
              /\ m = [bucket |-> bucket, last |-> meta[r].last, buffer |-> send[r]]
              /\ \A q \in Ranks : mail'[q] = IF q \in Readers(r) THEN Append(mail[q], m) ELSE mail[q]
        BY <2>0, <3>1, <4>1, <4>2, OfferTypes
      <4>4. readable' = [readable EXCEPT ![r] = send[r]]
        BY <2>0, <3>1, <4>1, <4>2, OfferTypes
      <4>5. m.buffer = send[r] /\ m.bucket = meta[r].bucket
        BY <4>3 DEF bucket
      <4> QED BY <2>0, <3>1, <4>3, <4>4, <4>5, WireOffer, Members
    <3> QED BY <3>2, <3>3
  <2>5. CASE EndOfWeights(r) \/ HandOverLast(r) \/ ReceiveDone(r)
    <3>1. readable[r] = None /\ \A q \in Ranks \ {r} : pc'[q] = pc[q]
      BY <2>0, <2>5 DEF EndOfWeights, HandOverLast, ReceiveDone, ReadersDone, Wired, Go, TypeInv, TypeOK
    <3> QED BY <2>0, <2>5, <3>1, WireStill, Members DEF EndOfWeights, HandOverLast, HandOver, ReceiveDone
  <2>6. CASE YieldTensor(r) \/ HandOverFull(r) \/ Load(r)
    BY <2>6, WireStill DEF YieldTensor, HandOverFull, HandOver, Load
  <2> QED BY <1>7, <2>1, <2>2, <2>3, <2>4, <2>5, <2>6 DEF RankStep
<1>8. ASSUME NEW r \in Ranks, StreamCopy(r) PROVE Wire'
  BY <1>8, WireStill DEF StreamCopy
<1> QED BY <1>1, <1>2, <1>3, <1>4, <1>5, <1>6, <1>7, <1>8 DEF Next

-----------------------------------------------------------------------------
(* The content of the buffers *)

\* What is offered to a rank is in the buffer that is offered.
LEMMA Offering ==
  ASSUME Wire, Content, NEW q \in Receivers
  PROVE  /\ mail[q] # <<>> =>
              Filled(bufs[Upstream(q)][mail[q][1].buffer], mail[q][1].bucket)
         /\ Reading(q) =>
              Filled(bufs[Upstream(q)][xfer[q].message.buffer], xfer[q].message.bucket)
<1>1. Wired(q) /\ ReceiverContent(q)
  BY DEF Wire, Content
<1>2. CASE Upstream(q) = 0
  BY <1>1, <1>2 DEF Wired, ReceiverContent, Sent
<1>3. CASE Upstream(q) # 0
  <2>1. PICK u \in Receivers : u = Upstream(q)
    BY <1>3, UpstreamKnown, Members
  <2>2. Wired(u) /\ ReceiverContent(u)
    BY DEF Wire, Content
  <2>3. readable[u] # None => readable[u] = send[u]
    BY <2>2 DEF Wired
  <2>4. Filled(bufs[u][send[u]], meta[u].bucket)
    BY <2>2 DEF ReceiverContent
  <2>5. mail[q] # <<>> => mail[q][1].buffer = send[u] /\ mail[q][1].bucket = meta[u].bucket
    BY <1>1, <1>3, <2>1, <2>3 DEF Wired
  <2>6. Reading(q) => xfer[q].message.buffer = send[u] /\ xfer[q].message.bucket = meta[u].bucket
    BY <1>1, <1>3, <2>1, <2>3 DEF Wired
  <2> QED BY <2>1, <2>4, <2>5, <2>6
<1> QED BY <1>2, <1>3

LEMMA SentKept ==
  ASSUME NEW q \in Receivers, Sent(q), Wired(q)', engine' = engine, mail'[q] = mail[q],
         Reading(q)' => Reading(q) /\ xfer'[q].message = xfer[q].message,
         readable'[0] \in {readable[0], None},
         readable'[0] # None => bufs'[0][readable[0]] = bufs[0][readable[0]]
  PROVE  Sent(q)'
<1>1. Upstream(q)' = Upstream(q)
  BY DEF Upstream
<1>2. SUFFICES ASSUME Upstream(q) = 0
               PROVE  /\ mail'[q] # <<>> => Filled(bufs'[0][readable'[0]], mail'[q][1].bucket)
                      /\ Reading(q)' => Filled(bufs'[0][readable'[0]], xfer'[q].message.bucket)
  BY <1>1 DEF Sent
<1>3. CASE readable'[0] = None
  BY <1>1, <1>2, <1>3 DEF Wired
<1>4. CASE readable'[0] # None
  <2>1. readable'[0] = readable[0] /\ bufs'[0][readable'[0]] = bufs[0][readable[0]]
    BY <1>4
  <2> QED BY <1>2, <2>1 DEF Sent
<1> QED BY <1>3, <1>4

LEMMA BufferKnown ==
  ASSUME TypeInv, NEW r \in Ranks
  PROVE  send[r] # None
<1>1. send[r] \in Buffers
  BY DEF TypeInv, TypeOK
<1>2. None \notin Buffers
  BY MarkAssumption DEF Buffers
<1> QED BY <1>1, <1>2

LEMMA SenderStill ==
  ASSUME TypeInv, SenderContent, bufs'[0] = bufs[0], send'[0] = send[0], meta'[0] = meta[0],
         copies'[0] = copies[0], pc'[0] = pc[0], readable'[0] \in {readable[0], None}
  PROVE  SenderContent'
<1>1. send[0] # None
  BY BufferKnown, Members
<1> QED BY <1>1 DEF SenderContent

LEMMA ReceiverStill ==
  ASSUME NEW q \in Receivers, ReceiverContent(q), Wired(q)', engine' = engine,
         ipc'[q] = ipc[q], copies'[q] = copies[q], send'[q] = send[q], meta'[q] = meta[q],
         bufs'[q] = bufs[q], mail'[q] = mail[q], xfer'[q] = xfer[q],
         readable'[0] \in {readable[0], None},
         readable'[0] # None => bufs'[0][readable[0]] = bufs[0][readable[0]]
  PROVE  ReceiverContent(q)'
<1>1. Sent(q)'
  BY SentKept DEF ReceiverContent, Reading, Moved
<1>2. Packing(q)'
  BY DEF ReceiverContent, Packing
<1>3. Read(q)' /\ Filled(bufs[q][send[q]], meta[q].bucket)'
  BY DEF ReceiverContent, Read, Recv
<1> QED BY <1>1, <1>2, <1>3 DEF ReceiverContent

\* A step of one receiver
LEMMA ContentBy ==
  ASSUME TypeInv, Content, Wire', engine' = engine, NEW r \in Receivers, ReceiverContent(r)',
         pc'[0] = pc[0], readable'[0] \in {readable[0], None},
         \A q \in Ranks \ {r} :
           /\ ipc'[q] = ipc[q] /\ copies'[q] = copies[q] /\ send'[q] = send[q]
           /\ meta'[q] = meta[q] /\ bufs'[q] = bufs[q] /\ mail'[q] = mail[q] /\ xfer'[q] = xfer[q]
  PROVE  Content'
<1>1. SenderContent'
  BY SenderStill, Members DEF Content
<1>2. ASSUME NEW q \in Receivers, q # r PROVE ReceiverContent(q)'
  BY <1>2, ReceiverStill, Members DEF Content, Wire
<1> QED BY <1>1, <1>2 DEF Content

\* Nothing of this moves.
LEMMA ContentStill ==
  ASSUME TypeInv, Content, Wire',
         UNCHANGED <<engine, ipc, copies, send, meta, bufs, mail, xfer, readable>>,
         \/ pc'[0] = pc[0]
         \/ pc[0] = "last" /\ pc'[0] = "done"
         \/ pc[0] = "unconnected" /\ readable[0] = None
  PROVE  Content'
<1>1. send[0] # None
  BY BufferKnown, Members
<1>2. SenderContent'
  BY <1>1 DEF Content, SenderContent
<1>3. ASSUME NEW q \in Receivers PROVE ReceiverContent(q)'
  BY <1>3, ReceiverStill DEF Content, Wire
<1> QED BY <1>2, <1>3 DEF Content

LEMMA ContentFill ==
  ASSUME TypeInv, Content, Wire', Fill
  PROVE  Content'
<1> DEFINE bucket == meta[0].bucket
           p == Place(bucket, next)
           c == [entry |-> p[Len(p)], buffer |-> send[0]]
           bytes == bufs[0][send[0]]
<1>1. /\ pc[0] = "fill" /\ next \in Tensors /\ Fits(bucket, next)
      /\ meta' = [meta EXCEPT ![0].bucket = p]
      /\ copies' = [copies EXCEPT ![0] = Append(@, c)]
      /\ UNCHANGED <<engine, pc, send, bufs, network, local>>
  BY DEF Fill
<1>2. /\ 0 \in Ranks /\ bucket \in Bucket /\ copies[0] \in Seq(SenderCopy) /\ send[0] \in Buffers
  BY Members, RankKnown DEF TypeInv
<1>3. /\ p \in Bucket /\ Len(p) = Len(bucket) + 1 /\ p[Len(bucket) + 1] \in Entry
      /\ \A i \in DOMAIN bucket : p[i] = bucket[i]
  BY <1>1, <1>2, PlaceKnown
<1>4. c \in SenderCopy /\ c.entry = p[Len(p)] /\ c.buffer = send[0]
  BY <1>2, <1>3 DEF SenderCopy
<1>5. /\ meta'[0].bucket = p /\ copies'[0] = Append(copies[0], c)
      /\ \A q \in Ranks \ {0} : meta'[q] = meta[q] /\ copies'[q] = copies[q]
      /\ UNCHANGED <<engine, pc, send, bufs, readable, mail, xfer, ipc>>
  <2>1. meta \in [Ranks -> [bucket: Bucket, last: BOOLEAN]]
        /\ copies \in [Ranks -> Seq(SenderCopy \cup ReceiverCopy)]
    BY DEF TypeInv, TypeOK
  <2> HIDE DEF c, p
  <2> QED BY <1>1, <1>2, <2>1 DEF network, local
<1> HIDE DEF c, p, bytes
<1>6. /\ Staged(bytes, bucket, copies[0]) /\ readable[0] # send[0]
      /\ \A j \in DOMAIN copies[0] : copies[0][j].buffer = send[0]
  BY <1>1 DEF Content, SenderContent, bytes
<1>7. Staged(bytes, p, Append(copies[0], c))
  <2> HIDE DEF bucket
  <2> QED BY <1>2, <1>3, <1>4, <1>6, StagedAppend
<1>8. \A j \in DOMAIN copies'[0] : copies'[0][j].buffer = send'[0]
  <2>1. /\ DOMAIN copies[0] = 1 .. Len(copies[0]) /\ Len(copies[0]) \in Nat
        /\ DOMAIN Append(copies[0], c) = 1 .. (Len(copies[0]) + 1)
        /\ \A j \in DOMAIN copies[0] : Append(copies[0], c)[j] = copies[0][j]
        /\ Append(copies[0], c)[Len(copies[0]) + 1] = c
    BY <1>2, <1>4, Appended
  <2> SUFFICES ASSUME NEW j \in 1 .. (Len(copies[0]) + 1) PROVE Append(copies[0], c)[j].buffer = send[0]
    BY <1>5, <2>1
  <2>2. CASE j = Len(copies[0]) + 1
    BY <1>4, <2>1, <2>2
  <2>3. CASE j # Len(copies[0]) + 1
    <3>1. j \in DOMAIN copies[0]
      BY <2>1, <2>3
    <3> QED BY <1>6, <2>1, <3>1
  <2> QED BY <2>2, <2>3
<1>9. SenderContent'
  BY <1>1, <1>5, <1>6, <1>7, <1>8 DEF SenderContent, bytes
<1>10. ASSUME NEW q \in Receivers PROVE ReceiverContent(q)'
  BY <1>5, <1>10, ReceiverStill, Members DEF Content, Wire
<1> QED BY <1>9, <1>10 DEF Content

LEMMA ContentFlush ==
  ASSUME TypeInv, Content, Wire', Connected, Flush \/ FlushLast
  PROVE  Content'
<1> DEFINE bucket == meta[0].bucket
           bytes == bufs[0][send[0]]
<1>1. /\ pc[0] = "fill" /\ copies[0] = <<>>
      /\ Flush => pc' = pc /\ meta' = [meta EXCEPT ![0].bucket = <<>>] /\ Swap(0)
      /\ FlushLast => Go(0, "last") /\ meta' = meta /\ send' = send
      /\ UNCHANGED <<engine, bufs, copies, xfer, ipc>>
  BY DEF Flush, FlushLast, Synchronized, buffers, local
<1>2. /\ 0 \in Ranks /\ bucket \in Bucket /\ send[0] \in Buffers
      /\ meta \in [Ranks -> [bucket: Bucket, last: BOOLEAN]]
      /\ send \in [Ranks -> Buffers] /\ pc \in [Ranks -> Labels]
      /\ readable \in [Ranks -> Buffers \cup {None}]
  BY Members, RankKnown DEF TypeInv, TypeOK
<1>3. Staged(bytes, bucket, <<>>)
  BY <1>1 DEF Content, SenderContent
<1>4. Filled(bytes, bucket)
  <2> HIDE DEF bytes, bucket
  <2> QED BY <1>2, <1>3, StagedDone
<1>l. PICK l \in BOOLEAN : Offer(0, Message(bucket, l))
  BY DEF Flush, FlushLast
<1>5. PICK m \in Offers :
        /\ m = [bucket |-> bucket, last |-> l, buffer |-> send[0]]
        /\ \A q \in Ranks : mail'[q] = IF q \in Readers(0) THEN Append(mail[q], m) ELSE mail[q]
  <2> HIDE DEF bucket
  <2> QED BY <1>2, <1>l, OfferTypes
<1>6. readable'[0] = send[0] /\ \A q \in Ranks \ {0} : readable'[q] = readable[q]
  <2>1. readable' = [readable EXCEPT ![0] = send[0]]
    <3> HIDE DEF bucket
    <3> QED BY <1>2, <1>l, OfferTypes
  <2> QED BY <1>2, <2>1
<1>7. /\ \A q \in Ranks \ {0} : meta'[q] = meta[q] /\ send'[q] = send[q]
      /\ pc'[0] \in {"fill", "last"}
      /\ Flush => meta'[0].bucket = <<>> /\ send'[0] # send[0]
      /\ FlushLast => pc'[0] = "last" /\ meta'[0] = meta[0] /\ send'[0] = send[0]
  <2>1. 3 - send[0] # send[0]
    BY <1>2 DEF Buffers
  <2> QED BY <1>1, <1>2, <2>1 DEF Swap, Go
<1>8. SenderContent'
  <2>1. Staged(bufs'[0][send'[0]], <<>>, <<>>)
    BY DEF Staged
  <2>2. CASE Flush
    BY <1>1, <1>6, <1>7, <2>1, <2>2 DEF SenderContent
  <2>3. CASE FlushLast
    BY <1>1, <1>3, <1>7, <2>3 DEF SenderContent
  <2> QED BY <2>2, <2>3
<1>9. ASSUME NEW q \in Receivers PROVE ReceiverContent(q)'
  <2>1. /\ q \in Ranks /\ q # 0 /\ ReceiverContent(q) /\ Wired(q)'
    BY Members DEF Content, Wire
  <2>2. Packing(q)' /\ Read(q)' /\ Filled(bufs[q][send[q]], meta[q].bucket)'
    BY <1>1, <1>7, <2>1 DEF ReceiverContent, Packing, Read, Recv
  <2>3. Sent(q)'
    <3>1. SUFFICES ASSUME Upstream(q) = 0
                   PROVE  /\ mail'[q] # <<>> => Filled(bytes, mail'[q][1].bucket)
                          /\ ~Reading(q)'
      BY <1>1, <1>6 DEF Sent, Upstream
    <3>2. q \in Readers(0)
      BY <1>2, <2>1, <3>1, Topology DEF TypeInv, TypeOK, Places
    <3>3. mail'[q] = Append(mail[q], m)
      BY <1>5, <2>1, <3>2
    <3>4. mail[q] \in Seq(Offers) /\ Len(mail[q]) \in Nat
      BY <2>1, RankKnown
    <3>5. /\ Len(mail'[q]) = Len(mail[q]) + 1 /\ mail'[q][Len(mail[q]) + 1] = m
      BY <3>3, <3>4, Appended
    <3>6. Len(mail'[q]) <= 1
      BY <2>1 DEF Wired
    <3> DEFINE k == Len(mail[q])
               k2 == Len(mail'[q])
    <3>7. k \in Nat /\ k2 = k + 1 /\ k2 <= 1 /\ mail'[q][k + 1] = m
      BY <3>4, <3>5, <3>6
    <3> HIDE DEF k, k2
    <3>8. k = 0 /\ mail'[q][1] = m
      <4>1. k = 0
        BY <3>7
      <4> QED BY <3>7, <4>1
    <3>9. mail[q] = <<>>
      BY <3>4, <3>8, Shape DEF k
    <3>10. mail'[q] # <<>>
      BY <3>3, <3>9
    <3>11. ~Reading(q)'
      BY <1>1, <1>6, <2>1, <3>1, <3>10, <1>2, MarkAssumption DEF Wired, Upstream, Buffers
    <3> QED BY <1>4, <1>5, <3>8, <3>11
  <2> QED BY <2>2, <2>3 DEF ReceiverContent
<1> QED BY <1>8, <1>9 DEF Content

\* The sender's stream executes a copy: a buffer that is offered is another.
LEMMA ContentSenderCopy ==
  ASSUME TypeInv, Flow, Content, Wire', StreamCopy(0)
  PROVE  Content'
<1> DEFINE c == Head(copies[0])
           bucket == meta[0].bucket
           old == bufs[0][send[0]]
           new == [b \in Bytes |-> IF b \in Extent(c.entry) THEN c.entry.tensor ELSE bufs[0][c.buffer][b]]
<1>1. /\ copies[0] # <<>> /\ bufs' = [bufs EXCEPT ![0][c.buffer] = new]
      /\ copies' = [copies EXCEPT ![0] = Tail(@)]
      /\ UNCHANGED <<ipc, engine, pc, send, meta, trainer, network, yielded, inbox, loaded>>
  BY DEF StreamCopy
<1>2. /\ 0 \in Ranks /\ bucket \in Bucket /\ copies[0] \in Seq(SenderCopy) /\ send[0] \in Buffers
      /\ bufs \in [Ranks -> [Buffers -> [Bytes -> 0 .. Len(Sizes)]]]
      /\ copies \in [Ranks -> Seq(SenderCopy \cup ReceiverCopy)]
  BY Members, RankKnown DEF TypeInv, TypeOK
<1>3. /\ pc[0] = "fill" /\ readable[0] # send[0] /\ Staged(old, bucket, copies[0]) /\ Laid(bucket)
      /\ \A j \in DOMAIN copies[0] : copies[0][j].buffer = send[0]
  BY <1>1 DEF Content, SenderContent, Flow, Sender
<1>4. /\ DOMAIN copies[0] = 1 .. Len(copies[0]) /\ Len(copies[0]) \in Nat /\ Len(copies[0]) >= 1
      /\ c = copies[0][1] /\ c \in SenderCopy
      /\ DOMAIN Tail(copies[0]) = 1 .. (Len(copies[0]) - 1)
      /\ \A j \in 1 .. (Len(copies[0]) - 1) : Tail(copies[0])[j] = copies[0][j + 1]
  BY <1>1, <1>2, Behead
<1> HIDE DEF c
<1>5. c.buffer = send[0] /\ c.entry \in Entry
  <2>1. 1 \in DOMAIN copies[0]
    BY <1>4
  <2> QED BY <1>3, <1>4, <2>1 DEF SenderCopy
<1>6. bufs'[0][send[0]] = new /\ (\A b \in Buffers : b # send[0] => bufs'[0][b] = bufs[0][b])
      /\ copies'[0] = Tail(copies[0])
      /\ \A q \in Ranks \ {0} : bufs'[q] = bufs[q] /\ copies'[q] = copies[q]
  <2> HIDE DEF new
  <2> QED BY <1>1, <1>2, <1>5
<1>7. Staged(new, bucket, Tail(copies[0]))
  <2>1. Extent(c.entry) \subseteq Bytes
    <3>1. /\ Len(bucket) \in Nat /\ DOMAIN bucket = 1 .. Len(bucket)
          /\ Len(copies[0]) <= Len(bucket)
          /\ c.entry = bucket[(Len(bucket) - Len(copies[0])) + 1]
      <4>1. 1 \in DOMAIN copies[0]
        BY <1>4
      <4> QED BY <1>2, <1>3, <1>4, <4>1, RankKnown, Shape DEF Staged, Bucket
    <3> DEFINE n == Len(bucket)
               k == Len(copies[0])
    <3>2. n \in Nat /\ k \in Nat /\ k >= 1 /\ k <= n /\ DOMAIN bucket = 1 .. n /\ c.entry = bucket[(n - k) + 1]
      BY <1>4, <3>1
    <3> HIDE DEF n, k, bucket
    <3>3. (n - k) + 1 \in DOMAIN bucket
      BY <3>2
    <3>4. End(c.entry) <= BucketSize
      BY <1>3, <3>2, <3>3 DEF Laid
    <3> QED BY <1>5, <3>4, EntryKnown, SizesKnown DEF Bytes
  <2>2. Holds(new, c.entry)
    BY <2>1 DEF Holds
  <2>3. \A b \in Bytes : b \notin Extent(c.entry) => new[b] = old[b]
    BY <1>5
  <2> HIDE DEF new, old, bucket
  <2> QED BY <1>1, <1>2, <1>3, <2>2, <2>3, StagedCopy DEF c
<1>8. \A j \in DOMAIN Tail(copies[0]) : Tail(copies[0])[j].buffer = send[0]
  <2> SUFFICES ASSUME NEW j \in 1 .. (Len(copies[0]) - 1) PROVE copies[0][j + 1].buffer = send[0]
    BY <1>4
  <2> DEFINE k == Len(copies[0])
  <2>1. k \in Nat /\ j \in 1 .. (k - 1) /\ DOMAIN copies[0] = 1 .. k
    BY <1>4
  <2> HIDE DEF k
  <2>2. j + 1 \in DOMAIN copies[0]
    BY <2>1
  <2> QED BY <1>3, <2>2
<1> HIDE DEF new
<1>9. SenderContent'
  BY <1>1, <1>3, <1>6, <1>7, <1>8 DEF SenderContent, network
<1>10. ASSUME NEW q \in Receivers PROVE ReceiverContent(q)'
  <2>1. /\ q \in Ranks /\ q # 0 /\ ReceiverContent(q) /\ Wired(q)'
        /\ ipc' = ipc /\ copies'[q] = copies[q] /\ send' = send /\ meta' = meta /\ bufs'[q] = bufs[q]
        /\ mail' = mail /\ xfer' = xfer /\ readable' = readable /\ engine' = engine
    BY <1>1, <1>6, Members DEF Content, Wire, network
  <2>2. readable[0] \in Buffers \cup {None}
    BY Members, RankKnown
  <2>3. readable'[0] # None => bufs'[0][readable[0]] = bufs[0][readable[0]]
    BY <1>3, <1>6, <2>1, <2>2
  <2> QED BY <2>1, <2>3, ReceiverStill
<1> QED BY <1>9, <1>10 DEF Content

\* A receiver's stream executes a copy: the tensor is still in send_buf.
LEMMA ContentReceiverCopy ==
  ASSUME TypeInv, Flow, Content, Wire', NEW r \in Receivers, StreamCopy(r)
  PROVE  Content'
<1> DEFINE c == Head(copies[r])
           bucket == ipc[r].bucket
           old == ipc[r].bytes
           new == [b \in Bytes |-> IF b \in Extent(c.entry)
                     THEN bufs[r][c.buffer][(b - c.entry.offset) + c.from] ELSE ipc[r].bytes[b]]
           queue == copies[r]
<1>1. /\ queue # <<>> /\ r \in Ranks /\ r # 0
      /\ ipc' = [ipc EXCEPT ![r].bytes = new] /\ bufs' = bufs
      /\ copies' = [copies EXCEPT ![r] = Tail(@)]
      /\ UNCHANGED <<engine, pc, send, meta, trainer, network, yielded, inbox, loaded>>
  BY Members DEF StreamCopy
<1>2. /\ bucket \in Bucket /\ queue \in Seq(ReceiverCopy) /\ send[r] \in Buffers
      /\ ipc \in [Ranks -> [bytes: [Bytes -> 0 .. Len(Sizes)], bucket: Bucket]]
      /\ copies \in [Ranks -> Seq(SenderCopy \cup ReceiverCopy)]
      /\ meta[r].bucket \in Bucket
  BY <1>1, RankKnown DEF TypeInv, TypeOK
<1>3. /\ ReceiverContent(r) /\ Packing(r) /\ Filled(bufs[r][send[r]], meta[r].bucket)
      /\ Laid(bucket) /\ Staged(old, bucket, queue)
  BY DEF Content, ReceiverContent, Packing, Flow, Receiver
<1> DEFINE k == Len(queue)
<1>4. /\ DOMAIN queue = 1 .. k /\ k \in Nat /\ k >= 1
      /\ c = queue[1] /\ c \in ReceiverCopy
      /\ DOMAIN Tail(queue) = 1 .. (k - 1)
      /\ \A j \in 1 .. (k - 1) : Tail(queue)[j] = queue[j + 1]
  BY <1>1, <1>2, Behead
<1> HIDE DEF c, k
<1>5. /\ c.buffer = send[r] /\ c.entry \in Entry /\ c.from \in Bytes
      /\ \E i \in DOMAIN meta[r].bucket : meta[r].bucket[i].tensor = c.entry.tensor
                                         /\ meta[r].bucket[i].offset = c.from
  <2>1. 1 \in DOMAIN queue
    BY <1>4
  <2> QED BY <1>3, <1>4, <2>1 DEF Packing, ReceiverCopy
<1>6. /\ ipc'[r].bytes = new /\ ipc'[r].bucket = bucket /\ copies'[r] = Tail(queue)
      /\ \A q \in Ranks \ {r} : ipc'[q] = ipc[q] /\ copies'[q] = copies[q]
  <2> HIDE DEF new
  <2> QED BY <1>1, <1>2
<1>7. Extent(c.entry) \subseteq Bytes
  <2> DEFINE n == Len(bucket)
  <2>1. n \in Nat /\ k <= n /\ DOMAIN bucket = 1 .. n /\ c.entry = bucket[(n - k) + 1]
    <3>1. 1 \in DOMAIN queue
      BY <1>4
    <3> QED BY <1>2, <1>3, <1>4, <3>1, Shape DEF Staged, Bucket, k
  <2> HIDE DEF n, bucket
  <2>2. (n - k) + 1 \in DOMAIN bucket
    BY <1>4, <2>1
  <2>3. End(c.entry) <= BucketSize
    BY <1>3, <2>1, <2>2 DEF Laid
  <2> QED BY <1>5, <2>3, EntryKnown, SizesKnown DEF Bytes
<1>8. Holds(new, c.entry)
  <2> SUFFICES ASSUME NEW b \in Extent(c.entry) PROVE new[b] = c.entry.tensor
    BY DEF Holds
  <2>1. new[b] = bufs[r][send[r]][(b - c.entry.offset) + c.from]
    BY <1>5, <1>7
  <2> DEFINE e == c.entry
  <2>2. PICK i \in DOMAIN meta[r].bucket : meta[r].bucket[i].tensor = e.tensor
                                           /\ meta[r].bucket[i].offset = c.from
    BY <1>5
  <2> DEFINE d == meta[r].bucket[i]
  <2>3. d \in Entry /\ e \in Entry /\ d.tensor = e.tensor /\ d.offset = c.from
    BY <1>2, <1>5, <2>2, Shape DEF Bucket
  <2>4. b \in Extent(e)
    OBVIOUS
  <2> HIDE DEF d, e, new
  <2>5. (b - e.offset) + c.from \in Extent(d)
    <3>1. /\ e.offset \in Nat /\ b \in Nat /\ e.offset <= b /\ b < End(e)
          /\ End(e) = e.offset + Sizes[e.tensor] /\ Sizes[e.tensor] \in Nat
      BY <2>3, <2>4, EntryKnown DEF End
    <3>2. /\ d.offset \in Nat /\ Extent(d) = {x \in Nat : d.offset <= x /\ x < End(d)}
          /\ End(d) = d.offset + Sizes[e.tensor]
      BY <2>3, EntryKnown DEF End
    <3> QED BY <2>3, <3>1, <3>2
  <2>6. Holds(bufs[r][send[r]], d)
    BY <1>3, <2>2 DEF Filled, d
  <2>7. bufs[r][send[r]][(b - e.offset) + c.from] = d.tensor
    BY <2>5, <2>6 DEF Holds
  <2> QED BY <2>1, <2>3, <2>7 DEF e
<1>9. Staged(new, bucket, Tail(queue))
  <2>1. \A b \in Bytes : b \notin Extent(c.entry) => new[b] = old[b]
    OBVIOUS
  <2> HIDE DEF new, old, bucket, queue
  <2>2. Holds(new, Head(queue).entry)
        /\ \A b \in Bytes : b \notin Extent(Head(queue).entry) => new[b] = old[b]
    BY <1>8, <2>1 DEF c, queue
  <2> QED BY <1>1, <1>2, <1>3, <2>2, StagedCopy
<1>10. \A j \in DOMAIN Tail(queue) : /\ Tail(queue)[j].buffer = send[r]
         /\ \E i \in DOMAIN meta[r].bucket : /\ meta[r].bucket[i].tensor = Tail(queue)[j].entry.tensor
                                             /\ meta[r].bucket[i].offset = Tail(queue)[j].from
  <2> TAKE j \in DOMAIN Tail(queue)
  <2>1. j \in 1 .. (k - 1) /\ Tail(queue)[j] = queue[j + 1]
    BY <1>4
  <2>2. j + 1 \in DOMAIN queue
    BY <1>4, <2>1
  <2> QED BY <1>3, <2>1, <2>2 DEF Packing
<1> HIDE DEF new, old
<1>11. Packing(r)'
  <2> DEFINE rest == Tail(queue)
  <2>1. /\ ipc'[r].bytes = new /\ ipc'[r].bucket = bucket /\ copies'[r] = rest
        /\ send' = send /\ meta' = meta
    BY <1>1, <1>6
  <2>2. /\ Staged(new, bucket, rest)
        /\ \A j \in DOMAIN rest : /\ rest[j].buffer = send[r]
             /\ \E i \in DOMAIN meta[r].bucket : /\ meta[r].bucket[i].tensor = rest[j].entry.tensor
                                                 /\ meta[r].bucket[i].offset = rest[j].from
    BY <1>9, <1>10
  <2> HIDE DEF rest, bucket
  <2> QED BY <2>1, <2>2 DEF Packing
<1> HIDE DEF queue
<1>12. /\ mail' = mail /\ xfer' = xfer /\ readable' = readable /\ engine' = engine
       /\ bufs' = bufs /\ send' = send /\ meta' = meta
  BY <1>1 DEF network
<1>13. Sent(r)' /\ Read(r)' /\ Filled(bufs[r][send[r]], meta[r].bucket)'
  <2>1. Sent(r)'
    BY <1>3, <1>12, SentKept DEF ReceiverContent, Reading, Moved, Wire
  <2> QED BY <1>3, <1>12, <2>1 DEF ReceiverContent, Read, Recv
<1>14. ReceiverContent(r)'
  BY <1>11, <1>13 DEF ReceiverContent
<1> QED BY <1>1, <1>6, <1>12, <1>14, ContentBy

LEMMA ContentYield ==
  ASSUME TypeInv, Flow, Content, Wire', NEW r \in Receivers, YieldTensor(r)
  PROVE  Content'
<1> DEFINE bucket == ipc[r].bucket
           up == Upcoming(r)
           p == Place(bucket, up.tensor)
           c == [entry |-> p[Len(p)], buffer |-> send[r], from |-> up.offset]
           queue == copies[r]
           bytes == ipc[r].bytes
<1>1. /\ yielded[r] < Len(meta[r].bucket) /\ Fits(bucket, up.tensor)
      /\ ipc' = [ipc EXCEPT ![r].bucket = p]
      /\ copies' = [copies EXCEPT ![r] = Append(@, c)]
      /\ UNCHANGED <<engine, pc, send, meta, trainer, bufs, network, inbox, loaded>>
  BY DEF YieldTensor
<1>2. /\ r \in Ranks /\ r # 0 /\ bucket \in Bucket /\ queue \in Seq(ReceiverCopy) /\ send[r] \in Buffers
      /\ ipc \in [Ranks -> [bytes: [Bytes -> 0 .. Len(Sizes)], bucket: Bucket]]
      /\ copies \in [Ranks -> Seq(SenderCopy \cup ReceiverCopy)]
      /\ meta[r].bucket \in Bucket /\ yielded[r] \in Nat /\ Len(meta[r].bucket) \in Nat
  BY Members, RankKnown DEF TypeInv, TypeOK
<1>3. /\ ReceiverContent(r) /\ Packing(r) /\ Laid(meta[r].bucket) /\ Staged(bytes, bucket, queue)
  BY DEF Content, ReceiverContent, Packing, Flow, Receiver
<1>4. yielded[r] + 1 \in DOMAIN meta[r].bucket
  BY <1>1, <1>2, Shape DEF Bucket
<1>5. /\ up \in Entry /\ up.tensor \in Tensors /\ up.offset \in Bytes
      /\ up.offset + Sizes[up.tensor] <= BucketSize
  <2>1. up \in Entry
    BY <1>2, <1>4, Shape DEF Upcoming, Bucket
  <2>2. End(up) <= BucketSize
    BY <1>3, <1>4 DEF Laid, Upcoming
  <2> QED BY <2>1, <2>2 DEF Entry, End
<1> HIDE DEF up
<1>6. /\ p \in Bucket /\ Len(p) = Len(bucket) + 1 /\ p[Len(bucket) + 1] \in Entry
      /\ p[Len(bucket) + 1].tensor = up.tensor
      /\ \A i \in DOMAIN bucket : p[i] = bucket[i]
  BY <1>1, <1>2, <1>5, PlaceKnown
<1> HIDE DEF p, bucket, queue, bytes
<1>7. /\ c \in ReceiverCopy /\ c.entry = p[Len(p)] /\ c.buffer = send[r] /\ c.from = up.offset
      /\ c.entry.tensor = up.tensor
  BY <1>2, <1>5, <1>6 DEF ReceiverCopy
<1> HIDE DEF c
<1>8. /\ ipc'[r].bytes = bytes /\ ipc'[r].bucket = p /\ copies'[r] = Append(queue, c)
      /\ \A q \in Ranks \ {r} : ipc'[q] = ipc[q] /\ copies'[q] = copies[q]
  BY <1>1, <1>2 DEF bytes, queue
<1>9. Staged(bytes, p, Append(queue, c))
  BY <1>2, <1>3, <1>6, <1>7, StagedAppend
<1> DEFINE k == Len(queue)
<1>10. /\ DOMAIN queue = 1 .. k /\ k \in Nat /\ DOMAIN Append(queue, c) = 1 .. (k + 1)
       /\ \A j \in DOMAIN queue : Append(queue, c)[j] = queue[j]
       /\ Append(queue, c)[k + 1] = c
  BY <1>2, <1>7, Appended
<1> HIDE DEF k
<1>11. \A j \in DOMAIN Append(queue, c) : /\ Append(queue, c)[j].buffer = send[r]
         /\ \E i \in DOMAIN meta[r].bucket :
              /\ meta[r].bucket[i].tensor = Append(queue, c)[j].entry.tensor
              /\ meta[r].bucket[i].offset = Append(queue, c)[j].from
  <2> TAKE j \in DOMAIN Append(queue, c)
  <2>1. CASE j = k + 1
    <3>1. up = meta[r].bucket[yielded[r] + 1]
      BY DEF up, Upcoming
    <3> QED BY <1>4, <1>7, <1>10, <2>1, <3>1
  <2>2. CASE j # k + 1
    <3>1. j \in DOMAIN queue
      BY <1>10, <2>2
    <3> QED BY <1>3, <1>10, <3>1 DEF Packing, queue
  <2> QED BY <2>1, <2>2
<1>12. /\ mail' = mail /\ xfer' = xfer /\ readable' = readable /\ engine' = engine
       /\ bufs' = bufs /\ send' = send /\ meta' = meta /\ pc' = pc
  BY <1>1 DEF network
<1>13. Packing(r)'
  BY <1>8, <1>9, <1>11, <1>12 DEF Packing
<1>14. Sent(r)' /\ Read(r)' /\ Filled(bufs[r][send[r]], meta[r].bucket)'
  <2>1. Sent(r)'
    BY <1>3, <1>12, SentKept DEF ReceiverContent, Reading, Moved, Wire
  <2> QED BY <1>3, <1>12, <2>1 DEF ReceiverContent, Read, Recv
<1>15. ReceiverContent(r)'
  BY <1>13, <1>14 DEF ReceiverContent
<1> QED BY <1>2, <1>8, <1>12, <1>15, ContentBy

\* When the stream has been waited for, the sender's buffer is whole.
LEMMA Waited ==
  ASSUME TypeInv, Content, NEW r \in Receivers, copies[r] = <<>>
  PROVE  Filled(ipc[r].bytes, ipc[r].bucket)
<1>1. Staged(ipc[r].bytes, ipc[r].bucket, <<>>)
  BY DEF Content, ReceiverContent, Packing
<1> QED BY <1>1, StagedDone, RankKnown, Members

LEMMA ContentHandOver ==
  ASSUME TypeInv, Content, Wire', NEW r \in Receivers, HandOverFull(r) \/ HandOverLast(r)
  PROVE  Content'
<1>1. /\ copies[r] = <<>> /\ ipc' = [ipc EXCEPT ![r].bucket = <<>>]
      /\ UNCHANGED <<engine, send, meta, trainer, buffers, network, yielded, loaded>>
      /\ pc' = pc \/ Go(r, "loading")
  BY DEF HandOverFull, HandOverLast, HandOver, Synchronized
<1>2. r \in Ranks /\ r # 0 /\ ReceiverContent(r)
  BY Members DEF Content
<1>3. /\ ipc'[r].bytes = ipc[r].bytes /\ ipc'[r].bucket = <<>> /\ copies' = copies
      /\ \A q \in Ranks \ {r} : ipc'[q] = ipc[q]
      /\ mail' = mail /\ xfer' = xfer /\ readable' = readable /\ engine' = engine
      /\ bufs' = bufs /\ send' = send /\ meta' = meta /\ pc'[0] = pc[0]
  BY <1>1, <1>2, Members DEF network, buffers, TypeInv, TypeOK, Go
<1>4. Packing(r)'
  <2>1. Staged(ipc'[r].bytes, <<>>, <<>>)
    BY DEF Staged
  <2>2. DOMAIN copies'[r] = {}
    BY <1>1, <1>3
  <2> QED BY <1>1, <1>3, <2>1, <2>2 DEF Packing
<1>5. Sent(r)'
  BY <1>2, <1>3, SentKept DEF ReceiverContent, Reading, Moved, Wire
<1>6. Read(r)' /\ Filled(bufs[r][send[r]], meta[r].bucket)'
  BY <1>2, <1>3 DEF ReceiverContent, Read, Recv
<1>7. ReceiverContent(r)'
  BY <1>4, <1>5, <1>6 DEF ReceiverContent
<1> QED BY <1>3, <1>7, ContentBy

\* One more byte of recv_buf holds what the metadata says.
LEMMA ByteRead ==
  ASSUME TypeInv, Wire, Content, Wire', Connected, NEW r \in Receivers, Reading(r),
         bufs'[r] = CopyByte(r), xfer'[r] = [xfer[r] EXCEPT !.moved = @ + 1],
         UNCHANGED <<engine, send, meta, copies, mail, ipc>>,
         bufs'[0] = bufs[0], readable'[0] \in {readable[0], None}
  PROVE  ReceiverContent(r)'
<1> DEFINE m == xfer[r].message
           u == Upstream(r)
           n == xfer[r].moved
           source == bufs[u][m.buffer]
<1>1. /\ r \in Ranks /\ ReceiverContent(r) /\ m \in Offers /\ n \in Bytes
      /\ send[r] \in Buffers /\ Recv(r) \in Buffers /\ Recv(r) # send[r]
      /\ bufs[r] \in [Buffers -> [Bytes -> 0 .. Len(Sizes)]]
  BY Members, RankKnown, ReadOn DEF Content, Reading
<1>2. Source(r) = u
  BY Topology DEF TypeInv, TypeOK, Places
<1>3. Filled(source, m.bucket)
  BY Offering
<1>4. /\ xfer'[r] # None /\ xfer'[r].message = m /\ xfer'[r].moved = n + 1 /\ xfer[r] # None
  BY <1>1, ReadOn DEF Reading
<1>5. /\ bufs'[r][send[r]] = bufs[r][send[r]]
      /\ bufs'[r][Recv(r)] = [bufs[r][Recv(r)] EXCEPT ![n] = source[n]]
      /\ bufs[r][Recv(r)] \in [Bytes -> 0 .. Len(Sizes)]
  BY <1>1, <1>2 DEF CopyByte
<1> HIDE DEF m, n, source
<1>6. Packing(r)'
  BY <1>1 DEF ReceiverContent, Packing
<1>7. Filled(bufs[r][send[r]], meta[r].bucket)'
  BY <1>1, <1>5 DEF ReceiverContent
<1>8. Sent(r)'
  <2>1. Reading(r)' => Reading(r) /\ xfer'[r].message = xfer[r].message
    BY <1>4 DEF m
  <2>2. Sent(r) /\ Wired(r)'
    BY <1>1 DEF ReceiverContent, Wire
  <2> QED BY <2>1, <2>2, SentKept
<1>9. ASSUME NEW i \in DOMAIN m.bucket, NEW b \in Extent(m.bucket[i]), b < n + 1
      PROVE  bufs'[r][Recv(r)][b] = m.bucket[i].tensor
  <2>1. m.bucket[i] \in Entry /\ b \in Nat /\ n \in Nat
    <3>1. m.bucket \in Bucket
      BY <1>1 DEF Offers
    <3>2. m.bucket[i] \in Entry
      BY <3>1, Shape DEF Bucket
    <3> QED BY <1>1, <3>2, EntryKnown DEF Bytes
  <2>2. CASE b = n
    <3>1. source[b] = m.bucket[i].tensor
      BY <1>3 DEF Filled, Holds
    <3> QED BY <1>1, <1>5, <2>2, <3>1
  <2>3. CASE b # n
    <3>1. b < n
      BY <1>9, <2>1, <2>3
    <3>2. bufs[r][Recv(r)][b] = m.bucket[i].tensor
      BY <1>1, <1>4, <3>1 DEF ReceiverContent, Read, m, n
    <3>3. b \in Bytes
      BY <1>1, <2>1, <3>1, SizesKnown DEF Bytes
    <3> QED BY <1>5, <2>3, <3>2, <3>3
  <2> QED BY <2>2, <2>3
<1>10. Read(r)'
  <2>1. Recv(r)' = Recv(r)
    BY DEF Recv
  <2> QED BY <1>4, <1>9, <2>1 DEF Read
<1> QED BY <1>6, <1>7, <1>8, <1>10 DEF ReceiverContent

LEMMA ContentRead ==
  ASSUME TypeInv, Wire, Content, Wire', NEW r \in Receivers, ReadByte(r)
  PROVE  Content'
<1>1. /\ Reading(r) /\ r \in Ranks /\ r # 0
      /\ bufs' = [bufs EXCEPT ![r] = CopyByte(r)]
      /\ xfer' = [xfer EXCEPT ![r].moved = @ + 1]
      /\ readable' = [readable EXCEPT ![Source(r)] = None] \/ readable' = readable
      /\ UNCHANGED <<engine, pc, send, meta, trainer, copies, mail, local>>
  BY Members DEF ReadByte, Reading
<1>2. Connected
  BY <1>1 DEF TypeInv, Places, Reading
<1>3. /\ bufs'[r] = CopyByte(r) /\ xfer'[r] = [xfer[r] EXCEPT !.moved = @ + 1]
      /\ \A q \in Ranks \ {r} : bufs'[q] = bufs[q] /\ xfer'[q] = xfer[q]
      /\ ipc' = ipc
  BY <1>1 DEF TypeInv, TypeOK, local
<1>4. readable'[0] \in {readable[0], None}
  <2>1. readable \in [Ranks -> Buffers \cup {None}] /\ 0 \in Ranks
    BY Members DEF TypeInv, TypeOK
  <2> QED BY <1>1, <2>1
<1>5. ReceiverContent(r)'
  BY <1>1, <1>2, <1>3, <1>4, ByteRead, Members
<1> QED BY <1>1, <1>3, <1>4, <1>5, ContentBy

LEMMA ContentBroadcast ==
  ASSUME TypeInv, Wire, Content, Wire', BroadcastByte
  PROVE  Content'
<1>1. /\ \A r \in Receivers : Reading(r) /\ r \in Ranks /\ r # 0
      /\ bufs' = [r \in Ranks |-> IF r = 0 THEN bufs[0] ELSE CopyByte(r)]
      /\ xfer' = [r \in Ranks |-> IF r = 0 THEN None ELSE [xfer[r] EXCEPT !.moved = @ + 1]]
      /\ readable' = [readable EXCEPT ![0] = None] \/ readable' = readable
      /\ UNCHANGED <<engine, pc, send, meta, trainer, copies, mail, local>>
  BY Members DEF BroadcastByte, Reading
<1>2. Connected
  <2>1. 1 \in Receivers
    BY SizesKnown DEF Receivers
  <2> QED BY <1>1, <2>1 DEF TypeInv, Places, Reading
<1>3. readable'[0] \in {readable[0], None} /\ bufs'[0] = bufs[0] /\ ipc' = ipc
  <2>1. readable \in [Ranks -> Buffers \cup {None}] /\ 0 \in Ranks
    BY Members DEF TypeInv, TypeOK
  <2> QED BY <1>1, <2>1 DEF local
<1>4. SenderContent'
  BY <1>1, <1>3, SenderStill DEF Content
<1>5. ASSUME NEW r \in Receivers PROVE ReceiverContent(r)'
  <2>1. bufs'[r] = CopyByte(r) /\ xfer'[r] = [xfer[r] EXCEPT !.moved = @ + 1]
    BY <1>1
  <2> QED BY <1>1, <1>2, <1>3, <2>1, ByteRead
<1> QED BY <1>4, <1>5 DEF Content

\* The buffer that was read becomes send_buf; no copy still needs the old one.
LEMMA ContentTake ==
  ASSUME TypeInv, Flow, Endings, Content, Wire', NEW r \in Receivers, FirstBucket(r) \/ NextBucket(r)
  PROVE  Content'
<1> DEFINE m == xfer[r].message
<1>1. /\ Moved(r) /\ r \in Ranks /\ r # 0
      /\ meta' = [meta EXCEPT ![r] = [bucket |-> m.bucket, last |-> m.last]]
      /\ xfer' = [xfer EXCEPT ![r] = None]
      /\ send' = [send EXCEPT ![r] = 3 - @]
      /\ Go(r, IF engine = "nixl" THEN "offer" ELSE "yield")
      /\ UNCHANGED <<engine, bufs, copies, readable, mail, ipc>>
  BY Members DEF FirstBucket, NextBucket, TakeBucket, Swap, buffers
<1>2. /\ xfer'[r] = None /\ send'[r] = Recv(r) /\ meta'[r].bucket = m.bucket /\ pc'[0] = pc[0]
      /\ \A q \in Ranks \ {r} : xfer'[q] = xfer[q] /\ send'[q] = send[q] /\ meta'[q] = meta[q]
  BY <1>1, Members DEF TypeInv, TypeOK, Go, Recv
<1>3. /\ xfer[r] # None /\ xfer[r].moved = BucketSize /\ m \in Offers
      /\ ReceiverContent(r) /\ Receiver(r) /\ Ending(r) /\ Laid(m.bucket)
  BY <1>1, RankKnown DEF Moved, Content, Flow, Endings, Receiver
<1>4. copies[r] = <<>>
  <2>1. CASE NextBucket(r)
    BY <2>1 DEF NextBucket, Synchronized
  <2>2. CASE FirstBucket(r)
    <3>1. ipc[r].bucket = <<>>
      BY <1>3, <2>2 DEF FirstBucket, Ending
    <3>2. Len(copies[r]) <= Len(<<>>) /\ Len(<<>>) = 0
      BY <1>3, <3>1 DEF ReceiverContent, Packing, Staged
    <3>3. Len(copies[r]) \in Nat /\ copies[r] \in Seq(SenderCopy \cup ReceiverCopy)
      BY <1>1, RankKnown
    <3> DEFINE k == Len(copies[r])
    <3>4. k \in Nat /\ k <= 0
      BY <3>2, <3>3
    <3> HIDE DEF k
    <3>5. k = 0
      BY <3>4
    <3> QED BY <3>3, <3>5, Shape DEF k
  <2> QED BY <2>1, <2>2
<1>5. Packing(r)'
  <2>1. Staged(ipc[r].bytes, ipc[r].bucket, <<>>)
    BY <1>3, <1>4 DEF ReceiverContent, Packing
  <2>2. DOMAIN copies'[r] = {}
    BY <1>1, <1>4
  <2> QED BY <1>1, <1>4, <2>1, <2>2 DEF Packing
<1>6. Filled(bufs[r][Recv(r)], m.bucket)
  <2> SUFFICES ASSUME NEW i \in DOMAIN m.bucket, NEW b \in Extent(m.bucket[i])
               PROVE  bufs[r][Recv(r)][b] = m.bucket[i].tensor
    BY DEF Filled, Holds
  <2>1. m.bucket \in Bucket
    BY <1>3 DEF Offers
  <2>2. m.bucket[i] \in Entry /\ End(m.bucket[i]) <= BucketSize
    BY <1>3, <2>1, Shape DEF Bucket, Laid
  <2>3. b < BucketSize
    BY <2>2, EntryKnown, SizesKnown
  <2> QED BY <1>3, <2>3 DEF ReceiverContent, Read
<1> HIDE DEF m
<1>7. Filled(bufs[r][send[r]], meta[r].bucket)'
  BY <1>1, <1>2, <1>6
<1>8. Read(r)'
  BY <1>2 DEF Read
<1>9. Sent(r)'
  <2>1. ~Reading(r)'
    BY <1>2 DEF Reading
  <2>2. Sent(r) /\ Wired(r)'
    BY <1>3 DEF ReceiverContent, Wire
  <2> QED BY <1>1, <2>1, <2>2, SentKept
<1>10. ReceiverContent(r)'
  BY <1>5, <1>7, <1>8, <1>9 DEF ReceiverContent
<1> QED BY <1>1, <1>2, <1>10, ContentBy

LEMMA ContentBegin ==
  ASSUME TypeInv, Wire, Content, Wire', NEW r \in Receivers, BeginRead(r)
  PROVE  Content'
<1> DEFINE m == mail[r][1]
<1>1. /\ mail[r] # <<>> /\ xfer[r] = None /\ r \in Ranks /\ r # 0
      /\ xfer' = [xfer EXCEPT ![r] = [message |-> Head(mail[r]), moved |-> 0]]
      /\ mail' = [mail EXCEPT ![r] = Tail(@)]
      /\ pc' = pc \/ Go(r, "first") \/ Go(r, "yield")
      /\ UNCHANGED <<engine, send, meta, trainer, buffers, readable, local>>
  BY Members DEF BeginRead
<1>2. /\ xfer'[r] = [message |-> m, moved |-> 0] /\ mail'[r] = <<>> /\ m \in Offers
      /\ \A q \in Ranks \ {r} : xfer'[q] = xfer[q] /\ mail'[q] = mail[q]
      /\ pc'[0] = pc[0] /\ ipc' = ipc /\ copies' = copies /\ bufs' = bufs
  <2>1. Head(mail[r]) = m /\ Tail(mail[r]) = <<>> /\ m \in Offers
    BY <1>1, LoneMail DEF Wire, Wired
  <2>2. /\ xfer \in [Ranks -> Reads \cup {None}] /\ mail \in [Ranks -> Seq(Offers)]
        /\ pc \in [Ranks -> Labels]
    BY DEF TypeInv, TypeOK
  <2> HIDE DEF m
  <2>3. /\ xfer'[r] = [message |-> m, moved |-> 0] /\ mail'[r] = <<>>
        /\ \A q \in Ranks \ {r} : xfer'[q] = xfer[q] /\ mail'[q] = mail[q]
    BY <1>1, <2>1, <2>2
  <2>4. pc'[0] = pc[0]
    BY <1>1, <2>2, Members DEF Go
  <2> QED BY <1>1, <2>1, <2>3, <2>4 DEF local, buffers
<1>3. ReceiverContent(r)
  BY DEF Content
<1>4. xfer'[r].message = m /\ xfer'[r].moved = 0
  BY <1>2
<1> HIDE DEF m
<1>5. Packing(r)' /\ Filled(bufs[r][send[r]], meta[r].bucket)'
  BY <1>1, <1>2, <1>3 DEF ReceiverContent, Packing
<1>6. Read(r)'
  <2>1. ASSUME NEW i \in DOMAIN m.bucket, NEW b \in Extent(m.bucket[i]) PROVE ~(b < 0)
    <3>1. m.bucket[i] \in Entry
      BY <1>2, Shape DEF Offers, Bucket
    <3> QED BY <3>1, EntryKnown
  <2> QED BY <1>4, <2>1 DEF Read
<1>7. Sent(r)'
  BY <1>1, <1>2, <1>3, <1>4 DEF Sent, ReceiverContent, Upstream, m
<1>8. ReceiverContent(r)'
  BY <1>5, <1>6, <1>7 DEF ReceiverContent
<1> QED BY <1>1, <1>2, <1>8, ContentBy

LEMMA ContentOfferOn ==
  ASSUME TypeInv, Content, Wire', NEW r \in Receivers, OfferOn(r)
  PROVE  Content'
<1>1. /\ pc[r] = "offer" /\ r \in Ranks /\ r # 0
      /\ Readers(r) # {} => Offer(r, Message(meta[r].bucket, meta[r].last))
      /\ Readers(r) = {} => UNCHANGED <<readable, mail>>
      /\ UNCHANGED <<engine, send, meta, xfer, bufs, copies, ipc>>
  BY Members DEF OfferOn, buffers, local
<1>2. pc'[0] = pc[0]
  BY <1>1, Members DEF OfferOn, Go, TypeInv, TypeOK
<1>3. \A q \in Ranks : q \in Readers(r) <=> q \in Receivers /\ Upstream(q) = r
  <2>1. Connected
    BY <1>1 DEF TypeInv, Places, Connected
  <2> QED BY <1>1, <2>1, Topology DEF TypeInv, TypeOK, Places
<1>4. /\ readable'[0] = readable[0]
      /\ \A q \in Receivers : Upstream(q) # r => mail'[q] = mail[q]
  <2> DEFINE bucket == meta[r].bucket
  <2>1. CASE Readers(r) # {}
    <3>1. bucket \in Bucket /\ meta[r].last \in BOOLEAN /\ Offer(r, Message(bucket, meta[r].last))
      BY <1>1, <2>1, RankKnown
    <3> HIDE DEF bucket
    <3>2. readable' = [readable EXCEPT ![r] = send[r]]
      BY <1>1, <3>1, OfferTypes
    <3>3. \A q \in Ranks : q \notin Readers(r) => mail'[q] = mail[q]
      BY <1>1, <3>1, OfferTypes
    <3> QED BY <1>1, <1>3, <3>2, <3>3, Members DEF TypeInv, TypeOK
  <2>2. CASE Readers(r) = {}
    BY <1>1, <2>2
  <2> QED BY <2>1, <2>2
<1>5. SenderContent'
  BY <1>1, <1>2, <1>4, SenderStill DEF Content
<1>6. ASSUME NEW q \in Receivers PROVE ReceiverContent(q)'
  <2>1. ReceiverContent(q)
    BY DEF Content
  <2>2. Packing(q)' /\ Read(q)' /\ Filled(bufs[q][send[q]], meta[q].bucket)'
    BY <1>1, <2>1 DEF ReceiverContent, Packing, Read, Recv
  <2>3. Sent(q)'
    BY <1>1, <1>4, <2>1 DEF ReceiverContent, Sent, Upstream, Reading, Moved
  <2> QED BY <2>2, <2>3 DEF ReceiverContent
<1> QED BY <1>5, <1>6 DEF Content

LEMMA NextContent ==
  ASSUME TypeInv, Flow, Endings, Wire, Content, Wire', [Next]_vars
  PROVE  Content'
<1> USE DEF trainer, buffers, network, local
<1>1. CASE UNCHANGED vars
  BY <1>1, ContentStill DEF vars
<1>2. CASE BuildGroup
  <2>1. pc[0] = "unconnected" /\ readable[0] = None
    BY <1>2, Members DEF BuildGroup, Wire
  <2> QED BY <1>2, <2>1, ContentStill DEF BuildGroup
<1>3. CASE Fill
  BY <1>3, ContentFill
<1>4. CASE Flush \/ FlushLast
  <2>1. Connected
    BY <1>4, Members DEF Flush, FlushLast, TypeInv, Places, Connected
  <2> QED BY <1>4, <2>1, ContentFlush
<1>5. CASE SendDone
  <2>1. pc[0] = "last" /\ pc'[0] = "done"
    BY <1>5, Members DEF SendDone, Go, TypeInv, TypeOK
  <2> QED BY <1>5, <2>1, ContentStill DEF SendDone
<1>6. CASE BroadcastByte
  BY <1>6, ContentBroadcast
<1>7. ASSUME NEW r \in Receivers, RankStep(r) \/ Load(r) PROVE Content'
  <2>1. CASE BeginRead(r)
    BY <2>1, ContentBegin
  <2>2. CASE ReadByte(r)
    BY <2>2, ContentRead
  <2>3. CASE FirstBucket(r) \/ NextBucket(r)
    BY <2>3, ContentTake
  <2>4. CASE OfferOn(r)
    BY <2>4, ContentOfferOn
  <2>5. CASE EndOfWeights(r) \/ ReceiveDone(r) \/ Load(r)
    <3>1. pc'[0] = pc[0]
      BY <2>5, Members DEF EndOfWeights, ReceiveDone, Load, Go, TypeInv, TypeOK
    <3> QED BY <2>5, <3>1, ContentStill DEF EndOfWeights, ReceiveDone, Load
  <2>6. CASE HandOverFull(r) \/ HandOverLast(r)
    BY <2>6, ContentHandOver
  <2>7. CASE YieldTensor(r)
    BY <2>7, ContentYield
  <2> QED BY <1>7, <2>1, <2>2, <2>3, <2>4, <2>5, <2>6, <2>7 DEF RankStep
<1>8. ASSUME NEW r \in Ranks, StreamCopy(r) PROVE Content'
  BY <1>8, ContentSenderCopy, ContentReceiverCopy, Members
<1> QED BY <1>1, <1>2, <1>3, <1>4, <1>5, <1>6, <1>7, <1>8 DEF Next

-----------------------------------------------------------------------------
(* The invariant, and what follows from it *)

TransferInv == TypeInv /\ Flow /\ Endings /\ Wire /\ Content /\ inbox[0] = <<>>

LEMMA InitInv == Init => TransferInv
<1> SUFFICES ASSUME Init PROVE TransferInv
  OBVIOUS
<1>1. TypeInv
  BY InitTypes
<1>2. /\ pc = [r \in Ranks |-> "unconnected"] /\ meta = [r \in Ranks |-> [bucket |-> <<>>, last |-> FALSE]]
      /\ next = 1 /\ copies = [r \in Ranks |-> <<>>] /\ readable = [r \in Ranks |-> None]
      /\ mail = [r \in Ranks |-> <<>>] /\ xfer = [r \in Ranks |-> None]
      /\ yielded = [r \in Ranks |-> 0] /\ ipc = [r \in Ranks |-> [bytes |-> EmptyBuffer, bucket |-> <<>>]]
      /\ inbox = [r \in Ranks |-> <<>>] /\ loaded = [r \in Ranks |-> <<>>]
  BY DEF Init
<1>3. \A r \in Ranks :
        /\ pc[r] = "unconnected" /\ meta[r].bucket = <<>> /\ ~meta[r].last /\ copies[r] = <<>>
        /\ readable[r] = None /\ mail[r] = <<>> /\ xfer[r] = None /\ yielded[r] = 0
        /\ ipc[r].bucket = <<>> /\ inbox[r] = <<>> /\ loaded[r] = <<>>
  BY <1>2
<1>4. Count(<<>>) = 0 /\ DOMAIN <<>> = {} /\ Len(<<>>) = 0
  BY DEF Count
<1>5. Total \in Nat
  BY SizesKnown DEF Total, Count
<1>6. Run(<<>>, 0) /\ Laid(<<>>)
  BY <1>4, <1>5 DEF Run, Laid
<1>7. Sender /\ Offered(0) = 0
  <2>1. pc[0] = "unconnected" /\ meta[0].bucket = <<>> /\ next = 1
    BY <1>2, <1>3, Members
  <2>2. (next - 1) - Count(meta[0].bucket) = 0
    BY <1>4, <2>1
  <2> QED BY <1>4, <1>6, <2>1, <2>2 DEF Sender, Offered
<1>8. ASSUME NEW r \in Receivers
      PROVE  Got(r) = 0 /\ Packed(r) = 0 /\ Taken(r) = 0 /\ Begun(r) = 0 /\ Mailed(r) = 0 /\ Offered(r) = 0
  <2>1. r \in Ranks /\ r # 0
    BY Members
  <2>2. Got(r) = 0
    BY <1>3, <1>4, <2>1 DEF Got
  <2>3. Packed(r) = 0
    BY <1>3, <1>4, <2>1, <2>2 DEF Packed
  <2>4. Taken(r) = 0
    BY <1>3, <1>4, <2>1, <2>3 DEF Taken
  <2> QED BY <1>3, <2>1, <2>2, <2>3, <2>4 DEF Begun, Mailed, Offered
<1>9. Flow
  <2>1. ASSUME NEW r \in Receivers PROVE Receiver(r)
    <3>1. Offered(Upstream(r)) = 0
      <4>1. PICK u \in Ranks : u = Upstream(r)
        BY UpstreamKnown
      <4>2. Offered(u) = 0
        BY <1>7, <1>8, Members
      <4> QED BY <4>1, <4>2
    <3>2. r \in Ranks
      BY Members
    <3>3. 0 <= Total /\ 0 - Count(<<>>) = 0
      BY <1>4, <1>5
    <3> QED BY <1>3, <1>4, <1>6, <1>8, <3>1, <3>2, <3>3 DEF Receiver
  <2> QED BY <1>7, <2>1 DEF Flow
<1>10. Endings
  <2>1. ASSUME NEW r \in Receivers PROVE Ending(r)
    BY <1>3, <1>4, Members DEF Ending
  <2> QED BY <2>1 DEF Endings
<1>11. \A r \in Receivers : Wired(r)
  BY <1>3, <1>4, UpstreamKnown, Members DEF Wired, Reading
<1>12. Wire
  BY <1>3, <1>11, Members DEF Wire
<1>13. Content
  <2>1. \A bytes : Staged(bytes, <<>>, <<>>) /\ Filled(bytes, <<>>)
    BY <1>4 DEF Staged, Filled
  <2>2. SenderContent
    BY <1>3, <1>4, <2>1, Members DEF SenderContent
  <2>3. ASSUME NEW r \in Receivers PROVE ReceiverContent(r)
    BY <1>3, <1>4, <2>1, Members DEF ReceiverContent, Packing, Read, Sent, Reading
  <2> QED BY <2>2, <2>3 DEF Content
<1> QED BY <1>1, <1>3, <1>9, <1>10, <1>12, <1>13, Members DEF TransferInv

\* Only an engine has an inbox.
LEMMA NoInbox ==
  ASSUME TypeInv, inbox[0] = <<>>, [Next]_vars
  PROVE  inbox'[0] = <<>>
<1>1. ASSUME NEW r \in Receivers, HandOver(r) \/ Load(r) PROVE inbox'[0] = <<>>
  BY <1>1, Members DEF HandOver, Load, TypeInv
<1>2. CASE inbox' = inbox
  BY <1>2
<1>3. inbox' = inbox \/ \E r \in Receivers : HandOver(r) \/ Load(r)
  <2>1. ASSUME NEW r \in Receivers, RankStep(r)
        PROVE  inbox' = inbox \/ HandOver(r)
    BY <2>1 DEF RankStep, BeginRead, ReadByte, FirstBucket, OfferOn, NextBucket, TakeBucket,
                EndOfWeights, YieldTensor, HandOverFull, HandOverLast, ReceiveDone, local
  <2>2. BuildGroup \/ Fill \/ Flush \/ FlushLast \/ SendDone \/ BroadcastByte => inbox' = inbox
    BY DEF BuildGroup, Fill, Flush, FlushLast, SendDone, BroadcastByte, local
  <2>3. \A r \in Ranks : StreamCopy(r) => inbox' = inbox
    BY DEF StreamCopy
  <2> QED BY <2>1, <2>2, <2>3 DEF Next, vars, local
<1> QED BY <1>1, <1>2, <1>3

LEMMA NextInv == TransferInv /\ [Next]_vars => TransferInv'
<1> SUFFICES ASSUME TransferInv, [Next]_vars PROVE TransferInv'
  OBVIOUS
<1>1. TypeInv /\ Flow /\ Endings /\ Wire /\ Content /\ inbox[0] = <<>>
  BY DEF TransferInv
<1>2. TypeInv'
  <2>1. \A r \in Receivers : Laid(meta[r].bucket)
    BY <1>1 DEF Flow, Receiver
  <2> QED BY <1>1, <2>1, NextTypes
<1>3. Flow' /\ Endings'
  <2>1. \A r \in Receivers : HandOverFull(r) \/ HandOverLast(r) => Filled(ipc[r].bytes, ipc[r].bucket)
    BY <1>1, Waited DEF HandOverFull, HandOverLast, HandOver, Synchronized
  <2> QED BY <1>1, <2>1, NextFlow
<1>4. Wire'
  BY <1>1, NextWire
<1>5. Content'
  BY <1>1, <1>4, NextContent
<1>6. inbox'[0] = <<>>
  BY <1>1, NoInbox
<1> QED BY <1>2, <1>3, <1>4, <1>5, <1>6 DEF TransferInv

LEMMA TransferInvariant == Spec => []TransferInv
BY InitInv, NextInv, PTL DEF Spec

(* Types: whatever the engine, the number of workers and the tensors, the  *)
(* variables keep their types; no copy reads or writes outside a buffer.   *)
THEOREM TransferTypes == Spec => []TypeOK
<1>1. TransferInv => TypeOK
  BY DEF TransferInv, TypeInv
<1> QED BY <1>1, TransferInvariant, PTL

(* Every engine gets every tensor once, whole and in order: a receiver's   *)
(* loaded and cloned tensors are the first ones of the generator.          *)
THEOREM WeightsWhole == Spec => []WeightsIntact
<1>1. TransferInv => WeightsIntact
  <2> SUFFICES ASSUME TransferInv, NEW r \in Receivers
               PROVE  LET got == loaded[r] \o inbox[r] IN
                        got = [i \in 1 .. Len(got) |-> i] /\ Len(got) <= Len(Sizes)
    BY DEF WeightsIntact
  <2> DEFINE got == loaded[r] \o inbox[r]
             l == Count(loaded[r])
             k == Count(inbox[r])
             Bag == 0 .. Len(Sizes)
  <2>1. Receiver(r) /\ r \in Ranks /\ TypeInv
    BY Members DEF TransferInv, Flow
  <2>2. /\ loaded[r] \in Seq(Bag) /\ inbox[r] \in Seq(Bag) /\ l \in Nat /\ k \in Nat
        /\ Len(loaded[r]) = l /\ Len(inbox[r]) = k
    BY <2>1, RankKnown DEF Count
  <2>3. /\ got \in Seq(Bag) /\ Len(got) = l + k /\ DOMAIN got = 1 .. (l + k)
        /\ \A i \in DOMAIN got : got[i] = IF i <= l THEN loaded[r][i] ELSE inbox[r][i - l]
        /\ DOMAIN loaded[r] = 1 .. l /\ DOMAIN inbox[r] = 1 .. k
    <3> HIDE DEF Bag, l, k
    <3>1. /\ got \in Seq(Bag) /\ Len(got) = Len(loaded[r]) + Len(inbox[r])
          /\ DOMAIN got = 1 .. (Len(loaded[r]) + Len(inbox[r]))
          /\ \A i \in DOMAIN got : got[i] = IF i <= Len(loaded[r]) THEN loaded[r][i]
                                            ELSE inbox[r][i - Len(loaded[r])]
      BY <2>2, Joined
    <3>2. DOMAIN loaded[r] = 1 .. Len(loaded[r]) /\ DOMAIN inbox[r] = 1 .. Len(inbox[r])
      BY <2>2, Shape
    <3> HIDE DEF got
    <3> QED BY <2>2, <3>1, <3>2
  <2>4. /\ \A i \in DOMAIN loaded[r] : loaded[r][i] = i
        /\ \A i \in DOMAIN inbox[r] : inbox[r][i] = l + i
        /\ l + k <= Total
    BY <2>1 DEF Receiver, Got
  <2>5. Total = Len(Sizes)
    BY DEF Total, Count
  <2> DEFINE n == Len(got)
  <2> HIDE DEF got, l, k, Bag
  <2>6. \A i \in 1 .. (l + k) : got[i] = i
    <3> SUFFICES ASSUME NEW i \in 1 .. (l + k) PROVE got[i] = i
      OBVIOUS
    <3>1. CASE i <= l
      <4>1. i \in DOMAIN loaded[r] /\ i \in DOMAIN got
        BY <2>2, <2>3, <3>1
      <4>2. loaded[r][i] = i /\ got[i] = loaded[r][i]
        BY <2>3, <2>4, <3>1, <4>1
      <4> QED BY <4>2
    <3>2. CASE ~(i <= l)
      <4>1. i - l \in DOMAIN inbox[r] /\ l + (i - l) = i /\ i \in DOMAIN got
        BY <2>2, <2>3, <3>2
      <4>2. inbox[r][i - l] = l + (i - l) /\ got[i] = inbox[r][i - l]
        BY <2>3, <2>4, <3>2, <4>1
      <4> QED BY <4>1, <4>2
    <3> QED BY <3>1, <3>2
  <2>7. n = l + k /\ n <= Len(Sizes)
    BY <2>3, <2>4, <2>5
  <2>8. got = [i \in 1 .. n |-> got[i]]
    <3>1. got = [i \in DOMAIN got |-> got[i]]
      BY <2>3, SeqDef
    <3> HIDE DEF n
    <3> QED BY <2>3, <2>7, <3>1
  <2> HIDE DEF n
  <2>9. got = [i \in 1 .. n |-> i] /\ n <= Len(Sizes)
    BY <2>6, <2>7, <2>8
  <2> QED BY <2>9 DEF n, got
<1> QED BY <1>1, TransferInvariant, PTL

(* What is offered stays in its buffer until the last reader is done.      *)
THEOREM OffersStable == Spec => []OfferedIsStable
<1>1. TransferInv => OfferedIsStable
  <2> SUFFICES ASSUME TransferInv, NEW r \in Ranks, NEW q \in Receivers,
                      readable[r] # None, q \in Readers(r),
                      NEW m \in {mail[q][i] : i \in DOMAIN mail[q]} \cup
                                (IF xfer[q] # None /\ ~Moved(q) THEN {xfer[q].message} ELSE {}),
                      NEW i \in DOMAIN m.bucket
               PROVE  Found(bufs[r][m.buffer], m.bucket[i]) = m.bucket[i].tensor
    BY DEF OfferedIsStable
  <2>1. TypeInv /\ Wire /\ Content /\ Wired(q) /\ q \in Ranks
    BY Members DEF TransferInv, Wire
  <2>2. Connected
    <3>1. pc[r] \notin {"unconnected", "failed"}
      BY <2>1, Members DEF Wire, Wired
    <3> QED BY <2>1, <3>1 DEF TypeInv, Places, Connected
  <2>3. Upstream(q) = r
    BY <2>1, <2>2, Topology DEF TypeInv, TypeOK, Places
  <2>4. CASE m \in {mail[q][j] : j \in DOMAIN mail[q]}
    <3>1. PICK j \in DOMAIN mail[q] : m = mail[q][j]
      BY <2>4
    <3>2. DOMAIN mail[q] = 1 .. Len(mail[q]) /\ Len(mail[q]) \in Nat
      BY <2>1, RankKnown, Shape
    <3> DEFINE k == Len(mail[q])
    <3>3. k \in Nat /\ k <= 1 /\ j \in 1 .. k
      BY <2>1, <3>1, <3>2 DEF Wired
    <3> HIDE DEF k
    <3>4. j = 1 /\ k = 1
      BY <3>3
    <3>5. mail[q] # <<>>
      BY <2>1, <3>4, RankKnown, Shape DEF k
    <3>6. Filled(bufs[r][m.buffer], m.bucket)
      BY <2>1, <2>3, <3>1, <3>4, <3>5, Offering
    <3> QED BY <3>6, HoldsFound DEF Filled
  <2>5. CASE m \notin {mail[q][j] : j \in DOMAIN mail[q]}
    <3>1. Reading(q) /\ m = xfer[q].message
      BY <2>5 DEF Reading
    <3>2. Filled(bufs[r][m.buffer], m.bucket)
      BY <2>1, <2>3, <3>1, Offering
    <3> QED BY <3>2, HoldsFound DEF Filled
  <2> QED BY <2>4, <2>5
<1> QED BY <1>1, TransferInvariant, PTL

(* When every rank has returned, no message, offer, copy or clone is left, *)
(* and every engine has loaded as many tensors as there are.               *)
THEOREM FinishesClean == Spec => []CleanFinish
<1>1. TransferInv => CleanFinish
  <2> SUFFICES ASSUME TransferInv, AllDone, NEW r \in Ranks
               PROVE  /\ mail[r] = <<>> /\ readable[r] = None /\ (xfer[r] = None \/ Moved(r))
                      /\ copies[r] = <<>> /\ inbox[r] = <<>>
                      /\ r \in Receivers => Len(loaded[r]) = Len(Sizes)
    BY DEF CleanFinish
  <2>1. TypeInv /\ Wire /\ Content /\ Flow /\ Endings /\ \A q \in Ranks : pc[q] = "done"
    BY DEF TransferInv, AllDone
  <2>2. \A q \in Ranks : readable[q] = None
    BY <2>1, Members DEF Wire, Wired
  <2>3. \A q \in Receivers : mail[q] = <<>> /\ ~Reading(q)
    BY <2>1, <2>2, UpstreamKnown DEF Wire, Wired
  <2>4. CASE r = 0
    <3>1. mail[0] = <<>> /\ xfer[0] = None /\ copies[0] = <<>>
      BY <2>1, Members DEF Wire, Content, SenderContent
    <3>2. inbox[0] = <<>>
      BY DEF TransferInv
    <3> QED BY <2>2, <2>4, <3>1, <3>2, Members
  <2>5. CASE r \in Receivers
    <3>1. Ending(r) /\ ReceiverContent(r)
      BY <2>1, <2>5 DEF Endings, Content
    <3>2. ipc[r].bucket = <<>> /\ inbox[r] = <<>> /\ meta[r].last /\ yielded[r] = Count(meta[r].bucket)
          /\ Taken(r) = Total
      BY <2>1, <3>1 DEF Ending
    <3> DEFINE k == Len(copies[r])
    <3>3. k \in Nat /\ copies[r] \in Seq(SenderCopy \cup ReceiverCopy)
      BY <2>1, RankKnown
    <3>4. k <= 0
      <4>1. Staged(ipc[r].bytes, <<>>, copies[r])
        BY <3>1, <3>2 DEF ReceiverContent, Packing
      <4>2. Len(copies[r]) <= Len(<<>>) /\ Len(<<>>) = 0
        BY <4>1 DEF Staged
      <4> QED BY <4>2
    <3> HIDE DEF k
    <3>5. k = 0
      BY <3>3, <3>4
    <3>6. copies[r] = <<>>
      BY <3>3, <3>5, Shape DEF k
    <3>7. Count(loaded[r]) = Total
      <4>1. /\ Count(loaded[r]) \in Nat /\ Count(meta[r].bucket) \in Nat /\ Count(<<>>) = 0
        BY <2>1, RankKnown DEF Count
      <4>2. Taken(r) = (((Count(loaded[r]) + 0) + 0) + Count(meta[r].bucket)) - Count(meta[r].bucket)
        BY <3>2, <4>1 DEF Taken, Packed, Got
      <4> QED BY <3>2, <4>1, <4>2
    <3>8. Len(loaded[r]) = Len(Sizes)
      BY <3>7 DEF Count, Total
    <3> QED BY <2>2, <2>3, <2>5, <3>2, <3>6, <3>8 DEF Reading
  <2> QED BY <2>4, <2>5, Members
<1> QED BY <1>1, TransferInvariant, PTL
=============================================================================

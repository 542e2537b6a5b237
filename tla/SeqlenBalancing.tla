--------------------------- MODULE SeqlenBalancing ---------------------------
(***************************************************************************)
(* Splitting sequences by their length (utils/seqlen_balancing.py): the    *)
(* Karmarkar-Karp differencing method that balances the data parallel      *)
(* ranks and the micro-batches, the order the parts are put in, and the    *)
(* way back to the original order.                                         *)
(*                                                                         *)
(* Indices count from 1.  A bin is the code's class Set, a state of the    *)
(* method a sequence of k bins, and the heap a set of states.              *)
(***************************************************************************)
EXTENDS Integers, Sequences, FiniteSets, SequencesExt

calculate_workload(len) == 24576 * len + len * len

CeilDiv(a, b) == (a + b - 1) \div b

\* The sequence f itself, which TLC then evaluates once.
Listed(f) == <<>> \o f

\* The elements of S in a strict order.
SortedBy(S, Before(_, _)) ==
  Listed([i \in 1 .. Cardinality(S) |->
            CHOOSE x \in S : Cardinality({y \in S : Before(y, x)}) = i - 1])

\* b.__lt__(a): by sum, then by number of items, then by the first item, which
\* no two bins share.
Heavier(a, b) ==
  \/ a.sum > b.sum
  \/ a.sum = b.sum /\ Len(a.items) > Len(b.items)
  \/ /\ a.sum = b.sum /\ Len(a.items) = Len(b.items) /\ a.items # <<>>
     /\ Head(a.items) > Head(b.items)

\* sorted(sets, reverse=True), which keeps the order of equal ones.
Decreasing(bins) ==
  LET Before(i, j) == Heavier(bins[i], bins[j]) \/ (~Heavier(bins[j], bins[i]) /\ i < j)
      order == SortedBy(DOMAIN bins, Before)
  IN Listed([i \in DOMAIN bins |-> bins[order[i]]])

\* sorted_seqlen_list, as indices.
Increasing(w) ==
  LET Before(i, j) == w[i] < w[j] \/ (w[i] = w[j] /\ i < j)
  IN SortedBy(DOMAIN w, Before)

Single(w, i) == [sum |-> w[i], items |-> <<i>>]
NoItem       == [sum |-> 0, items |-> <<>>]

\* The states before any merge: k consecutive items, or one item, per state.
FirstStates(w, k, equal_size) ==
  IF equal_size
  THEN LET order == Increasing(w)
           items == {[i \in 1 .. k |-> Single(w, order[b * k + i])] : b \in 0 .. (Len(w) \div k) - 1}
       IN {Decreasing(bins) : bins \in items}
  ELSE {[i \in 1 .. k |-> IF i = 1 THEN Single(w, x) ELSE NoItem] : x \in DOMAIN w}

Spread(state) == state[1].sum - state[Len(state)].sum

\* The order of the heap: the larger spread first, then the larger first bin.
PopsBefore(s, t) ==
  \/ Spread(s) > Spread(t)
  \/ Spread(s) = Spread(t) /\ Heavier(s[1], t[1])
IsTop(s, heap) == s \in heap /\ \A t \in heap \ {s} : PopsBefore(s, t)

Joined(a, b) == [sum |-> a.sum + b.sum, items |-> a.items \o b.items]

\* The largest bin of one state takes the largest bin of the other.
MergedLargest(s, t) == Decreasing(Listed([i \in DOMAIN s |-> Joined(s[i], t[i])]))
\* The largest bin of one state takes the smallest of the other.
Merged(s, t) == Decreasing(Listed([i \in DOMAIN s |-> Joined(s[i], t[Len(s) + 1 - i])]))

MergedTop(heap) ==
  LET s == CHOOSE s \in heap : IsTop(s, heap)
      t == CHOOSE t \in heap : IsTop(t, heap \ {s})
  IN (heap \ {s, t}) \cup {Merged(s, t)}

\* get_seqlen_balanced_partitions: the items of each bin, in order.
Ascending(S)  == SortedBy(S, <)
ItemsOf(bin)  == {bin.items[i] : i \in DOMAIN bin.items}
PartsOf(state) == Listed([i \in DOMAIN state |-> Ascending(ItemsOf(state[i]))])
Partitions(w, k, equal_size) ==
  LET first == FirstStates(w, k, equal_size)
      last  == FoldLeft(LAMBDA heap, i : MergedTop(heap), first,
                        [i \in 1 .. Cardinality(first) - 1 |-> i])
  IN PartsOf(CHOOSE s \in last : TRUE)

-----------------------------------------------------------------------------
(* The order of the parts and of the items in them.                         *)

Evens(s) == [i \in 1 .. (Len(s) + 1) \div 2 |-> s[2 * i - 1]]  \* s[::2]
Odds(s)  == [i \in 1 .. Len(s) \div 2 |-> s[2 * i]]            \* s[1::2]

\* Within a rank: the small ones at both ends.
SmallAtEnds(part, w) ==
  LET order == Increasing([j \in DOMAIN part |-> w[part[j]]])
      up    == Listed([i \in DOMAIN part |-> part[order[i]]])
  IN Evens(up) \o Reverse(Odds(up))

TotalOf(part, w) == FoldLeft(LAMBDA sum, x : sum + w[x], 0, part)

\* rearrange_micro_batches once the number of micro-batches is agreed on.
MicroBatches(lens, k) ==
  LET w     == Listed([i \in DOMAIN lens |-> calculate_workload(lens[i])])
      parts == Partitions(w, k, FALSE)
      bins  == Listed([i \in DOMAIN parts |->
                         [sum |-> TotalOf(parts[i], w), items |-> SubSeq(parts[i], 1, 1)]])
      Before(i, j) == Heavier(bins[i], bins[j])
      order == SortedBy(DOMAIN parts, Before)
      down  == Listed([i \in DOMAIN parts |-> parts[order[i]]])
  IN Reverse(Evens(down)) \o Odds(down)

\* The number of micro-batches one rank asks for.
WantedMicroBatches(lens, max_token_len) ==
  LET needed == CeilDiv(TotalOf([i \in DOMAIN lens |-> i], lens), max_token_len)
  IN IF needed < Len(lens) THEN needed ELSE Len(lens)

get_reverse_idx(idx) == [i \in DOMAIN idx |-> CHOOSE j \in DOMAIN idx : idx[j] = i]

restore_dynamic_batch(data, parts) ==
  LET back == get_reverse_idx(FlattenSeq(parts)) IN [i \in DOMAIN data |-> data[back[i]]]
=============================================================================

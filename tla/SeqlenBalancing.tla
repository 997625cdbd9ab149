--------------------------- MODULE SeqlenBalancing ---------------------------
(***************************************************************************)
(* utils/seqlen_balancing.py and RayPPOTrainer._balance_batch: which row   *)
(* of a batch goes to which data-parallel rank or micro-batch, and how the *)
(* rows come back.  Rows are numbered from 1; a partition is a sequence of *)
(* sequences of row numbers.                                               *)
(***************************************************************************)
EXTENDS Orders, SequencesExt, FiniteSetsExt

\* calculate_workload of one length.
Workload(len) == 24576 * len + len * len
Workloads(lengths) == [i \in DOMAIN lengths |-> Workload(lengths[i])]

SumOf(items, weight) == SumFunction([i \in DOMAIN items |-> weight[items[i]]])

CeilDiv(a, b) == (a + b - 1) \div b
RoundupDivisible(a, b) == CeilDiv(a, b) * b

-----------------------------------------------------------------------------
(* karmarkar_karp.  A Set has its rows in the order they were added and    *)
(* their sum; a State is a sequence of k Sets, the largest first.          *)

NoRows == [items |-> <<>>, sum |-> 0]
OneRow(i, weight) == [items |-> <<i>>, sum |-> weight[i]]
MergeSets(a, b) == [items |-> a.items \o b.items, sum |-> a.sum + b.sum]

LexLess(a, b) ==
  \E i \in DOMAIN a : a[i] < b[i] /\ \A j \in 1 .. i - 1 : a[j] = b[j]

\* Set.__lt__.
SetLess(a, b) ==
  \/ a.sum < b.sum
  \/ /\ a.sum = b.sum
     /\ \/ Len(a.items) < Len(b.items)
        \/ Len(a.items) = Len(b.items) /\ LexLess(a.items, b.items)

SortSets(sets) ==
  SortedBy(sets, {p \in Positions(sets) : SetLess(sets[p[2]], sets[p[1]])})

Spread(state) == state[1].sum - state[Len(state)].sum

\* State.__lt__: the one that is popped first.
StateLess(s, t) ==
  \/ Spread(s) > Spread(t)
  \/ Spread(s) = Spread(t) /\ SetLess(t[1], s[1])

\* Mutation: the largest sets are merged with the largest.
Mut_MergeInOrder(s, t) == SortSets([i \in DOMAIN s |-> MergeSets(s[i], t[i])])

\* State.merge: the largest sets of one with the smallest of the other.
MergeStates(s, t) ==
  SortSets([i \in DOMAIN s |-> MergeSets(s[i], t[Len(s) + 1 - i])])

\* What the heap pops: nothing in it is less.
Top(heap) == CHOOSE s \in heap : \A t \in heap : ~StateLess(t, s)

\* Two states are popped, merged and pushed.
MergeTop(heap) ==
  LET first == Top(heap)
      second == Top(heap \ {first})
  IN (heap \ {first, second}) \cup {MergeStates(first, second)}

\* As long as there are two.
Difference(heap) ==
  LET merges == Cardinality(heap) - 1
      after[i \in 0 .. merges] == IF i = 0 THEN heap ELSE MergeTop(after[i - 1])
  IN CHOOSE s \in after[merges] : TRUE

\* Rows by increasing weight, ties by row.
SortedRows(weight) ==
  SortedBy([i \in DOMAIN weight |-> i],
           {p \in Positions(weight) : weight[p[1]] < weight[p[2]]})

\* The states pushed first: k rows that follow each other in that order, or
\* one row alone.
GroupState(rows, g, k, weight) ==
  [i \in 1 .. k |-> OneRow(rows[(g - 1) * k + i], weight)]
RowState(i, k, weight) ==
  [j \in 1 .. k |-> IF j = 1 THEN OneRow(i, weight) ELSE NoRows]

FirstStates(weight, k, equalSize) ==
  LET rows == SortedRows(weight)
  IN IF equalSize
     THEN {SortSets(GroupState(rows, g, k, weight)) : g \in 1 .. Len(weight) \div k}
     ELSE {SortSets(RowState(i, k, weight)) : i \in 1 .. Len(weight)}

KarmarkarKarp(weight, k, equalSize) ==
  LET final == Difference(FirstStates(weight, k, equalSize))
  IN [p \in 1 .. k |-> final[p].items]

\* What get_seqlen_balanced_partitions asserts of its arguments.
CanPartition(weight, k, equalSize) ==
  k \in 1 .. Len(weight) /\ (equalSize => Len(weight) % k = 0)

InRowOrder(part) ==
  SortedBy(part, {p \in Positions(part) : part[p[1]] < part[p[2]]})
EachInOrder(parts) == [p \in DOMAIN parts |-> InRowOrder(parts[p])]

\* get_seqlen_balanced_partitions: each partition in row order.
BalancedPartitions(weight, k, equalSize) ==
  EachInOrder(KarmarkarKarp(weight, k, equalSize))

\* Rows are balanced in groups: the weight of each group, and the rows of
\* each part.
GroupWork(groups, work) == [g \in DOMAIN groups |-> SumOf(groups[g], work)]
RowsOfParts(parts, groups) ==
  [p \in DOMAIN parts |->
     FlattenSeq([g \in DOMAIN parts[p] |-> groups[parts[p][g]]])]

\* Rows that follow each other with one uid.
UidGroups(uids) ==
  LET Starts(i) == i = 1 \/ uids[i] # uids[i - 1]
      firsts == InOrder({i \in DOMAIN uids : Starts(i)})
      End(g) == IF g = Len(firsts) THEN Len(uids) ELSE firsts[g + 1] - 1
  IN [g \in DOMAIN firsts |-> [j \in 1 .. End(g) + 1 - firsts[g] |-> firsts[g] + j - 1]]

\* get_group_balanced_partitions, of the lengths' workloads and UidGroups.
GroupBalancedPartitions(work, groups, k) ==
  EachInOrder(RowsOfParts(BalancedPartitions(GroupWork(groups, work), k, TRUE),
                          groups))

-----------------------------------------------------------------------------
(* rearrange_micro_batches and restore_dynamic_batch.                      *)

Odds(seq) == [i \in 1 .. CeilDiv(Len(seq), 2) |-> seq[2 * i - 1]]
Evens(seq) == [i \in 1 .. Len(seq) \div 2 |-> seq[2 * i]]

\* The number of micro-batches; atLeast is the larger of
\* min_num_micro_batch and what the other ranks ask for.
NumMicroBatches(lengths, maxTokens, size, atLeast, dividedBy) ==
  LET total == SumFunction(lengths)
      own == Min({Len(lengths) \div size, CeilDiv(total, maxTokens)})
  IN RoundupDivisible(Max({own, atLeast}), dividedBy)

\* force_group_size = size: the groups are of size rows.
Units(n, size) ==
  [g \in 1 .. n \div size |-> [j \in 1 .. size |-> (g - 1) * size + j]]

HeaviestFirst(parts, work) ==
  LET Heavier(a, b) ==
        \/ SumOf(a, work) > SumOf(b, work)
        \/ SumOf(a, work) = SumOf(b, work) /\ a[1] > b[1]
  IN SortedBy(parts, {p \in Positions(parts) : Heavier(parts[p[1]], parts[p[2]])})

InsideOut(parts) == Reverse(Odds(parts)) \o Evens(parts)

MicroBatchesOf(work, units, num) ==
  InsideOut(HeaviestFirst(
    RowsOfParts(BalancedPartitions(GroupWork(units, work), num, FALSE), units), work))

MicroBatches(lengths, size, num) ==
  MicroBatchesOf(Workloads(lengths), Units(Len(lengths), size), num)

\* Mutation: the index map itself is taken for its inverse.
Mut_ReverseIdx(idx) == idx

\* get_reverse_idx, of a permutation.
ReverseIdx(idx) == [j \in DOMAIN idx |-> CHOOSE i \in DOMAIN idx : idx[i] = j]

\* restore_dynamic_batch.
Permuted(data, idx) == [j \in DOMAIN data |-> data[idx[j]]]
RestoreDynamicBatch(data, micro) == Permuted(data, ReverseIdx(FlattenSeq(micro)))

-----------------------------------------------------------------------------
(* _balance_batch.                                                         *)

\* The heavy rows in the middle.
OutsideIn(rows) == Odds(rows) \o Reverse(Evens(rows))

\* Within each rank, by increasing workload.
Lighter(i, j, work) == work[i] < work[j] \/ (work[i] = work[j] /\ i < j)
LightestFirst(part, work) ==
  SortedBy(part, {p \in Positions(part) : Lighter(part[p[1]], part[p[2]], work)})
HeavyInside(parts, work) ==
  [p \in DOMAIN parts |-> OutsideIn(LightestFirst(parts[p], work))]

\* global_idx, the new order of the rows; uids is <<>> unless the prefix
\* grouper is used.
BalancedOrder(lengths, uids, dpSize) ==
  IF uids # <<>>
  THEN FlattenSeq(GroupBalancedPartitions(Workloads(lengths), UidGroups(uids), dpSize))
  ELSE FlattenSeq(HeavyInside(BalancedPartitions(Workloads(lengths), dpSize, TRUE),
                              Workloads(lengths)))
=============================================================================

--------------------------- MODULE BatchAlgorithms ---------------------------
(***************************************************************************)
(* The pure algorithms a training batch goes through, over all bounded     *)
(* inputs: a behaviour builds, one element at a time, either the lengths   *)
(* of a batch to be balanced, or the scored rows of a batch, or the tokens *)
(* of one response, and every state is an input.                           *)
(***************************************************************************)
EXTENDS SeqlenBalancing, DataProto, Advantages

CONSTANTS
  MaxLength, MaxBatch,         \* bounds: lengths, rows to balance
  Uids, Scores, MaxScored,     \* prompts, outcome rewards, bound: scored rows
  Rewards, Values, MaxTokens,  \* of a token; bound: tokens of a response
  MaxRanks                     \* bound: ranks of a worker group

ASSUME InputAssumption ==
  /\ MaxLength \in Nat \ {0} /\ MaxBatch \in Nat /\ MaxScored \in Nat
  /\ MaxTokens \in Nat /\ MaxRanks \in Nat
  /\ Scores \subseteq Int /\ Rewards \subseteq Int /\ Values \subseteq Int

VARIABLES
  lengths,   \* valid tokens of each row
  scored,    \* rows with the uid of their prompt, their length and score
  response   \* tokens of one response

vars == <<lengths, scored, response>>

Init == lengths = <<>> /\ scored = <<>> /\ response = <<>>

AddLength ==
  /\ scored = <<>> /\ response = <<>> /\ Len(lengths) < MaxBatch
  /\ \E len \in 0 .. MaxLength : lengths' = Append(lengths, len)
  /\ UNCHANGED <<scored, response>>

AddRow ==
  /\ lengths = <<>> /\ response = <<>> /\ Len(scored) < MaxScored
  /\ \E uid \in Uids, len \in {1, 3}, score \in Scores :
       scored' = Append(scored, [uid |-> uid, length |-> len, score |-> score])
  /\ UNCHANGED <<lengths, response>>

\* An observation token has a value, but no reward.
AddToken ==
  /\ lengths = <<>> /\ scored = <<>> /\ Len(response) < MaxTokens
  /\ \E mask \in BOOLEAN, reward \in Rewards, value \in Values :
       /\ mask \/ reward = 0
       /\ response' = Append(response,
                        [mask |-> mask, reward |-> reward, value |-> value])
  /\ UNCHANGED <<lengths, scored>>

Next == AddLength \/ AddRow \/ AddToken

Spec == Init /\ [][Next]_vars

(***************************************************************************)
(* Properties.                                                             *)
(***************************************************************************)

\* Every row in exactly one part.
IsPartition(parts, n) ==
  LET rows == FlattenSeq(parts)
  IN Len(rows) = n /\ ToSet(rows) = 1 .. n

\* The heaviest part's sum less the lightest one's.
Imbalance(parts) ==
  LET sums == {SumOf(parts[p], lengths) : p \in DOMAIN parts}
  IN Max(sums) - Min(sums)

SortedLengths == LET rows == SortedRows(lengths)
                 IN [i \in DOMAIN rows |-> lengths[rows[i]]]

\* Spreads of the rows that are dealt out together.
Dealt(sorted, k, equalSize) ==
  IF equalSize
  THEN {sorted[g * k] - sorted[g * k - k + 1] : g \in 1 .. Len(sorted) \div k}
  ELSE ToSet(sorted)

\* get_seqlen_balanced_partitions never fails its own assertions, lengths of
\* zero included: an exact partition into k parts, none empty, of equal
\* sizes when asked.  And it balances: no two parts differ by more than the
\* heaviest row, or, with equal sizes, than the rows dealt out together.
PartitionsBalanced ==
  \A k \in 1 .. Len(lengths), equalSize \in BOOLEAN :
    CanPartition(lengths, k, equalSize) =>
      \A parts \in {BalancedPartitions(lengths, k, equalSize)} :
        /\ Len(parts) = k /\ IsPartition(parts, Len(lengths))
        /\ \A p \in 1 .. k :
             IF equalSize THEN Len(parts[p]) * k = Len(lengths) ELSE parts[p] # <<>>
        /\ Imbalance(parts) <= Max(Dealt(SortedLengths, k, equalSize))

\* Dynamic batching is undone by restore_dynamic_batch: whatever the limits,
\* the outputs of the micro-batches come back in the order of the batch, no
\* micro-batch is empty, and rows forced together are in one micro-batch,
\* next to each other.
MicroBatchesRestore ==
  \A size \in {1, 2} :
    \A num \in {NumMicroBatches(lengths, MaxLength, size, atLeast, dividedBy) :
                  atLeast \in 1 .. 3, dividedBy \in {1, 2}} :
      Len(lengths) % size = 0 /\ num <= Len(lengths) \div size =>
        \A micro \in {MicroBatches(lengths, size, num)} :
          /\ Len(micro) = num /\ IsPartition(micro, Len(lengths))
          /\ \A m \in 1 .. num : micro[m] # <<>>
          /\ \A outputs \in {FlattenSeq(micro)} :
               /\ RestoreDynamicBatch(outputs, micro) = [i \in DOMAIN lengths |-> i]
               /\ \A j \in 1 .. Len(lengths) - 1 :
                    outputs[j] % size = 1 => outputs[j + 1] = outputs[j] + 1

\* The batch of the scored rows, and the rows of a batch.
BatchOf(rows) ==
  Proto([i \in DOMAIN rows |-> [row |-> i, length |-> rows[i].length,
                                score |-> rows[i].score]],
        [i \in DOMAIN rows |-> rows[i].uid])
RowsOf(data) ==
  [i \in 1 .. Rows(data) |-> [uid |-> data.nonTensor[i],
                              length |-> data.batch[i].length,
                              score |-> data.batch[i].score]]

\* Ranks of a mesh of dp times tp, the dp rank being the slow dimension or
\* the fast one.
DpRank(dp, tp, slow) ==
  [r \in 1 .. dp * tp |-> IF slow THEN (r - 1) \div tp ELSE (r - 1) % dp]
IsCollected(dp, tp, slow) ==
  [r \in 1 .. dp * tp |-> IF slow THEN (r - 1) % tp = tp - 1 ELSE r > dp * (tp - 1)]

\* Every uid has one group of consecutive rows, all of one size.
EqualGroups(uids) ==
  LET groups == UidGroups(uids)
  IN /\ Len(groups) = Cardinality(ToSet(uids))
     /\ \A g, h \in DOMAIN groups : Len(groups[g]) = Len(groups[h])

ScoredLengths == [i \in DOMAIN scored |-> scored[i].length]

\* Through the padding of either kind.
ComesBack(data, n) ==
  /\ DpCollect(DpDispatch(data, n), PadSize(Rows(data), n)) = data
  /\ \A padded \in {PadToDivisor(data, n)} :
       Rows(padded) % n = 0 /\ Unpad(padded, PadSize(Rows(data), n)) = data

SameAdvantages(moved) ==
  \A i \in DOMAIN scored :
    Rloo(RowsOf(moved), i) = Rloo(scored, moved.batch[i].row)

NoUidOnTwoRanks(parts) ==
  \A p, q \in DOMAIN parts :
    p # q => ToSet(parts[p].nonTensor) \cap ToSet(parts[q].nonTensor) = {}

\* A batch comes back from the ranks row by row, with its uids, through the
\* padding of either kind and through both layouts of a mesh; and the order
\* balancing gives it moves each row's uid with it, so that every row keeps
\* its advantage.  With the prefix grouper, and groups of one size that
\* follow each other, the rows of a prompt are on one rank.
RowsReachRanks ==
  scored # <<>> =>
    \A data \in {BatchOf(scored)}, n \in 1 .. MaxRanks :
      /\ ComesBack(data, n)
      /\ Rows(data) % n = 0 =>
           /\ \A tp \in 1 .. 2, slow \in BOOLEAN :
                NdCollect(NdDispatch(data, DpRank(n, tp, slow)),
                          IsCollected(n, tp, slow)) = data
           /\ SameAdvantages(Reorder(data, BalancedOrder(ScoredLengths, <<>>, n)))
      /\ EqualGroups(data.nonTensor) /\ Len(UidGroups(data.nonTensor)) % n = 0 =>
           NoUidOnTwoRanks(
             Chunk(Reorder(data, BalancedOrder(ScoredLengths, data.nonTensor, n)), n))

\* Mean of others' scores.
LeaveOneOut(batch, i) ==
  LET others == Group(batch, i) \ {i}
  IN Fraction(Cardinality(others) * batch[i].score - Total(batch, others),
              Cardinality(others))

\* The estimators are what their papers say, in every group of two or more:
\* RLOO subtracts the mean of the other rows, alone or vectorised; GRPO's
\* advantages cancel out in a group, OPO's do when weighted by length; and
\* which of several best rows pass@k takes makes no difference.
OutcomeAdvantages ==
  \A i \in DOMAIN scored :
    LET group == Group(scored, i)
    IN Cardinality(group) > 1 =>
         /\ Equal(Rloo(scored, i), LeaveOneOut(scored, i))
         /\ Equal(Rloo(scored, i), RlooVectorized(scored, i))
         /\ SumFunction([j \in group |-> Grpo(scored, j).num]) = 0
         /\ SumFunction([j \in group |-> scored[j].length * Opo(scored, j).num]) = 0
         /\ \A a, b \in group :
              IsBest(scored, a) /\ IsBest(scored, b) =>
                PassK(scored, a, i) = PassK(scored, b, i)

\* Sum of Gamma^k times the k-th element, for k from 0.
Discounted(seq, rate) ==
  LET power[k \in Nat] == IF k = 0 THEN 1 ELSE rate * power[k - 1]
  IN SumFunction([k \in DOMAIN seq |-> power[k - 1] * seq[k]])

\* With the observation tokens cut out of a response, the advantages of the
\* others stay what they are: the discounted sums of the one-step errors of
\* the tokens the model wrote, whatever values the critic gives in between.
ReturnsSkipObservations ==
  LET places == InOrder({t \in DOMAIN response : response[t].mask})
      written == [k \in DOMAIN places |-> response[places[k]]]
      Error(k) ==
        written[k].reward - written[k].value
          + (IF k = Len(written) THEN 0 ELSE Gamma * written[k + 1].value)
  IN \A k \in DOMAIN written :
       Gae(response)[places[k]] =
         Discounted([j \in 1 .. Len(written) + 1 - k |-> Error(k + j - 1)], Gamma * Lam)
=============================================================================

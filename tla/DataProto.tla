------------------------------ MODULE DataProto ------------------------------
(***************************************************************************)
(* protocol.py's batches and single_controller's dispatch of them: padding *)
(* and its removal, chunks, concatenation, reordering, and the way of a    *)
(* batch through the ranks of a worker group and back.  A batch is a       *)
(* record of two sequences of equal length, the rows of its tensors and    *)
(* those of its non-tensor data (uid).                                     *)
(***************************************************************************)
EXTENDS Orders, SequencesExt

Proto(tensors, objects) == [batch |-> tensors, nonTensor |-> objects]
Rows(data) == Len(data.batch)

Slice(data, first, last) ==
  Proto(SubSeq(data.batch, first, last), SubSeq(data.nonTensor, first, last))

Concat(list) ==
  Proto(FlattenSeq([i \in DOMAIN list |-> list[i].batch]),
        FlattenSeq([i \in DOMAIN list |-> list[i].nonTensor]))

\* Mutation: only the tensors are reordered.
Mut_ReorderTensors(data, indices) ==
  Proto([i \in DOMAIN indices |-> data.batch[indices[i]]], data.nonTensor)

Reorder(data, indices) ==
  Proto([i \in DOMAIN indices |-> data.batch[indices[i]]],
        [i \in DOMAIN indices |-> data.nonTensor[indices[i]]])

\* Rows missing to a multiple of n.
PadSize(len, n) == IF len % n = 0 THEN 0 ELSE n - (len % n)

\* pad_dataproto_to_divisor: whole copies of the batch, then a part of one.
PadBy(data, pad) ==
  Concat(<<data>> \o [i \in 1 .. pad \div Rows(data) |-> data]
                  \o <<Slice(data, 1, pad % Rows(data))>>)
PadToDivisor(data, n) == PadBy(data, PadSize(Rows(data), n))

\* unpad_dataproto.
Unpad(data, pad) == Slice(data, 1, Rows(data) - pad)

\* DataProto.padding with its default candidate, the last row.
Padding(data, pad) ==
  Concat(<<data>> \o [i \in 1 .. pad |-> Slice(data, Rows(data), Rows(data))])

\* DataProto.chunk of a divisible batch.
Chunk(data, chunks) ==
  LET size == Rows(data) \div chunks
  IN [c \in 1 .. chunks |-> Slice(data, (c - 1) * size + 1, c * size)]

-----------------------------------------------------------------------------
(* A batch's way to the ranks of a worker group and back.                  *)

\* dispatch_dp_compute_data_proto with auto padding: the part of each rank.
DpDispatch(data, worldSize) ==
  Chunk(Padding(data, PadSize(Rows(data), worldSize)), worldSize)

\* collect_dp_compute_data_proto, and func_generator's removal of the padding.
DpCollect(output, pad) == Unpad(Concat(output), pad)

\* The lazy dispatch over a mesh: every rank gets the part of the dp rank it
\* registered; only the ranks with the collect mask give their output.
PartsOfRanks(parts, dpRank) == [r \in DOMAIN dpRank |-> parts[dpRank[r] + 1]]
NdDispatch(data, dpRank) ==
  PartsOfRanks(Chunk(data, 1 + Max({dpRank[r] : r \in DOMAIN dpRank})), dpRank)

NdCollect(output, collect) ==
  LET ranks == InOrder({r \in DOMAIN output : collect[r]})
  IN Concat([i \in DOMAIN ranks |-> output[ranks[i]]])
=============================================================================

------------------------ MODULE WeightTransfer_proofs ------------------------
(***************************************************************************)
(* Proofs about WeightTransfer, for any number of workers and of trainer   *)
(* ranks, any tensors, any sizes of the buckets and any set of engines.    *)
(*                                                                         *)
(* Nothing is written while it is in use.  The generator of a worker yields*)
(* from send_buf until the device has copied it: FromBuf says that what is *)
(* still to be copied lies there.  In the broadcast the transport writes   *)
(* into the other buffer, and rank 0 fills a buffer it does not broadcast. *)
(* In the chain one bucket is under way to the next rank at most, and that *)
(* rank says it has read it before the next one is announced (Flight); it  *)
(* reads from the buffer sent last (FromSent), and nobody announces        *)
(* anything before he has a bucket (Unsent).                               *)
(***************************************************************************)
EXTENDS WeightTransfer, FiniteSetTheorems, SequenceTheorems, TLAPS

\* Workers of the update.
N == Cardinality(Workers)

\* How many workers there are; the ranks of the chain.
LEMMA WorkersAre == N \in Nat \ {0} /\ Workers = 1 .. N /\ Nixl!NumWorkers = N /\ Nixl!Rank = 0 .. N
<1>1. N \in Nat
  BY TransferAssumption, FS_CardinalityType DEF N
<1>2. Workers = 1 .. N /\ Workers # {}
  BY TransferAssumption DEF N
<1>3. N # 0
  BY <1>2
<1>4. Nixl!NumWorkers = N /\ Nixl!Rank = 0 .. N
  <2>1. Nixl!Cardinality(Workers) = Cardinality(Workers)
    BY Zenon DEF Nixl!Cardinality, Cardinality
  <2> QED BY <2>1 DEF N, Nixl!NumWorkers, Nixl!Rank
<1> QED BY <1>1, <1>2, <1>3, <1>4

\* The ring of a chain: who is before and behind whom.
LEMMA Prev == \A w \in Workers : Nixl!PrevAgents[w] = w - 1
<1> DEFINE T == TrainerWorldSize
           meta0 == Nixl!Metadata
           tail == Nixl!From(meta0, -N)
<1>0. N \in Nat \ {0} /\ Workers = 1 .. N /\ Nixl!NumWorkers = N /\ T \in Nat \ {0}
  BY WorkersAre, BackendAssumption
<1>1. meta0 \in Seq(Int) /\ Len(meta0) = T + N /\ meta0[1] = 0
      /\ \A i \in 1 .. N : meta0[T + i] = i
  BY <1>0 DEF Nixl!Metadata
<1> HIDE DEF meta0
<1>2. tail = SubSeq(meta0, T + 1, T + N)
  BY <1>0, <1>1 DEF Nixl!From
<1> HIDE DEF tail
<1>3. tail \in Seq(Int) /\ Len(tail) = N /\ \A i \in 1 .. N : tail[i] = i
  BY <1>0, <1>1, <1>2
<1>4. Nixl!PrevAgents = <<0>> \o SubSeq(tail, 1, N - 1)
  BY <1>0, <1>1, <1>3 DEF Nixl!PrevAgents, Nixl!Front, tail, meta0
<1>5. SubSeq(tail, 1, N - 1) \in Seq(Int) /\ Len(SubSeq(tail, 1, N - 1)) = N - 1
      /\ \A i \in 1 .. N - 1 : SubSeq(tail, 1, N - 1)[i] = i
  BY <1>0, <1>3
<1> QED BY <1>0, <1>4, <1>5

\* The ring without the trainer's: rank 0 is followed by 1, the last rank by nobody.
LEMMA NextIs ==
  ASSUME N # 1
  PROVE  /\ Nixl!NextRank(0) = 1
         /\ \A w \in Workers : Nixl!NextRank(w) = IF w = N THEN -1 ELSE w + 1
<1> DEFINE T == TrainerWorldSize
           meta0 == Nixl!Metadata
           tail == Nixl!From(meta0, -N)
           rest == Nixl!From(meta0, 1 - N)
<1>0. N \in Nat /\ N > 1 /\ Workers = 1 .. N /\ Nixl!NumWorkers = N /\ T \in Nat \ {0}
  BY WorkersAre, BackendAssumption
<1>1. meta0 \in Seq(Int) /\ Len(meta0) = T + N
      /\ \A i \in 1 .. N : meta0[T + i] = i
  BY <1>0 DEF Nixl!Metadata
<1> HIDE DEF meta0
<1>2. tail = SubSeq(meta0, T + 1, T + N) /\ rest = SubSeq(meta0, T + 2, T + N)
  BY <1>0, <1>1 DEF Nixl!From
<1> HIDE DEF tail, rest
<1>3. tail[1] = 1
  BY <1>0, <1>1, <1>2
<1>4. rest \in Seq(Int) /\ Len(rest) = N - 1 /\ \A i \in 1 .. N - 1 : rest[i] = i + 1
  BY <1>0, <1>1, <1>2
<1>5. Nixl!NextAgents = Append(rest, -1)
  BY <1>0 DEF Nixl!NextAgents, rest, meta0
<1>6. \A w \in 1 .. N : Nixl!NextAgents[w] = IF w = N THEN -1 ELSE w + 1
  BY <1>0, <1>4, <1>5
<1> QED BY <1>0, <1>3, <1>6 DEF Nixl!NextRank, tail, meta0

\* With one worker, build_process_group raises.
LEMMA BuiltMany == Nixl!BuildProcessGroup /\ group' = "built" => N # 1
<1> SUFFICES ASSUME Nixl!BuildProcessGroup, group' = "built", N = 1 PROVE FALSE
  OBVIOUS
<1> DEFINE T == TrainerWorldSize
           meta0 == Nixl!Metadata
           rest == Nixl!From(meta0, 1 - N)
<1>0. Nixl!NumWorkers = 1 /\ T \in Nat \ {0}
  BY WorkersAre, BackendAssumption
<1>1. meta0 \in Seq(Int) /\ Len(meta0) = T + 1
  BY <1>0 DEF Nixl!Metadata
<1> HIDE DEF meta0
<1>2. rest \in Seq(Int) /\ Len(rest) = T + 1
  BY <1>0, <1>1 DEF Nixl!From
<1>3. Len(Nixl!NextAgents) = 1
  BY <1>0 DEF Nixl!BuildProcessGroup
<1>4. Nixl!NextAgents = Append(rest, -1)
  BY <1>0 DEF Nixl!NextAgents, meta0
<1> HIDE DEF rest
<1> QED BY <1>0, <1>2, <1>3, <1>4

-----------------------------------------------------------------------------
(* Types.                                                                  *)

\* Where a worker's tensors come from: the trainer's generator, or a buffer.
Place == [buf : 0 .. 1, place : Nat]
Source == IF backend = "naive" THEN Tensors ELSE Place
Copies == [from : Source, to : Nat]

IpcTypes ==
  /\ ipc \in [Workers -> {"pull", "full", "last", "done"}]
  /\ held \in [Workers -> {<<>>} \cup (Tensors \X Source)]
  /\ \A w \in Workers : ipc[w] = "full" => held[w] \in Tensors \X Source
  /\ ipcMeta \in [Workers -> Seq(Tensors)]
  /\ ipcBuf \in [Workers -> Seq(Nat)]
  /\ copies \in [Workers -> Seq(Copies)]
  /\ link \in [Workers -> {"init", "reply", "bucket", "loaded"}]
  /\ loads \in [Workers -> Seq(Nat)] /\ loaded \in [Workers -> Seq(Nat)]

Buckets == [tensors : Seq(Tensors), last : BOOLEAN]
PackCopies == [tensor : Tensors, buf : 0 .. 1, first : BOOLEAN]
Packs == [next : 1 .. NumTensors + 1, fill : 0 .. 1, meta : Seq(Tensors),
          copies : Seq(PackCopies), at : {"pack", "last", "done"}]

Metas == [bucket : Buckets, yielded : Nat]
Pairs == [send : 0 .. 1, data : [0 .. 1 -> Seq(Tensors)]]
Ops == [stage : {"metadata", "joined", "arriving", "done"},
        bucket : Buckets, data : Seq(Tensors)]

NcclTypes ==
  /\ pack \in Packs /\ buf0 \in [0 .. 1 -> Seq(Tensors)]
  /\ op0 \in [stage : {"new", "published", "done"}, fill : 0 .. 1, bucket : Buckets]
  /\ topic \in [Workers -> Seq(Buckets)]
  /\ gen \in [Workers -> {"first", "yield", "last", "done"}]
  /\ meta \in [Workers -> Metas]
  /\ \A w \in Workers : meta[w].yielded <= Len(meta[w].bucket.tensors)
  /\ bufs \in [Workers -> Pairs]
  /\ op \in [Workers -> Ops]

Messages == [from : 0 .. 1, tensors : Seq(Tensors), last : BOOLEAN]

ChainMetas == [tensors : Seq(Tensors), last : BOOLEAN, yielded : Nat, send : 0 .. 1]
Reads == [stage : {"none", "reading", "done"}, from : 0 .. 1,
          tensors : Seq(Tensors), last : BOOLEAN]

NixlTypes ==
  /\ group \in {"none", "built", "raised"}
  /\ chainPack \in Packs /\ data \in [0 .. N -> [0 .. 1 -> Seq(Tensors)]]
  /\ readable \in [0 .. N -> {"none", "announced", "read"}]
  /\ messages \in [Workers -> Seq(Messages)]
  /\ chainGen \in [Workers -> {"first", "firstRead", "next", "yield", "last", "done"}]
  /\ chainMeta \in [Workers -> ChainMetas]
  /\ \A w \in Workers : chainMeta[w].yielded <= Len(chainMeta[w].tensors)
  /\ read \in [Workers -> Reads]

NaiveTypes == next \in [Workers -> 1 .. NumTensors + 1]

TypeOK ==
  /\ backend \in {"naive", "nccl", "nixl"}
  /\ IpcTypes /\ NaiveTypes /\ NcclTypes /\ NixlTypes

\* The first state has its types.
LEMMA InitTypes == Init => TypeOK
<1> SUFFICES ASSUME Init PROVE TypeOK
  OBVIOUS
<1>0. <<>> \in Seq(Tensors) /\ <<>> \in Seq(Nat) /\ <<>> \in Seq(Buckets)
      /\ <<>> \in Seq(Messages) /\ <<>> \in Seq(Copies) /\ 1 \in 1 .. NumTensors + 1
      /\ <<>> \in Seq(PackCopies) /\ Len(<<>>) = 0
  BY TransferAssumption
<1>1. backend \in {"naive", "nccl", "nixl"}
  BY BackendAssumption DEF Init
<1>2. IpcTypes
  BY <1>0 DEF Init, Naive!Init, Naive!IpcInit, IpcTypes
<1>3. NaiveTypes
  BY <1>0 DEF Init, Naive!Init, NaiveTypes
<1>4. NcclTypes
  BY <1>0 DEF Init, Nccl!Init, Nccl!NoBucket, Nccl!Bucket, NcclTypes, Packs, Metas, Pairs, Ops,
              Buckets
<1>5. NixlTypes
  BY <1>0, WorkersAre DEF Init, Nixl!Init, NixlTypes, Packs, ChainMetas, Reads
<1> QED BY <1>1, <1>2, <1>3, <1>4, <1>5 DEF TypeOK

\* What a step does to the link, whatever the bucket's size.
Starts(w, m, pending, t, from) ==
  /\ ipcMeta' = [ipcMeta EXCEPT ![w] = Append(m, t)]
  /\ copies' = [copies EXCEPT ![w] = Append(pending, [from |-> from, to |-> Len(m) + 1])]

Pulls(w, t, from) ==
  /\ ipc[w] = "pull" /\ link[w] = "reply"
  /\ \/ Starts(w, ipcMeta[w], copies[w], t, from) /\ UNCHANGED <<ipc, held>>
     \/ /\ ipc' = [ipc EXCEPT ![w] = "full"] /\ held' = [held EXCEPT ![w] = <<t, from>>]
        /\ UNCHANGED <<ipcMeta, copies>>
  /\ UNCHANGED <<ipcBuf, link, loads, loaded>>

PullEnds(w) ==
  /\ ipc[w] = "pull" /\ link[w] = "reply" /\ ipc' = [ipc EXCEPT ![w] = "last"]
  /\ UNCHANGED <<held, ipcMeta, ipcBuf, copies, link, loads, loaded>>

Copied(w) ==
  /\ copies[w] # <<>> /\ copies' = [copies EXCEPT ![w] = Tail(@)]
  /\ \E value \in Nat : ipcBuf' = [ipcBuf EXCEPT ![w] = Written(@, Head(copies[w]).to, value)]
  /\ UNCHANGED <<ipc, held, ipcMeta, link, loads, loaded>>

\* A pull keeps the types of the link.
LEMMA PullsTypes ==
  ASSUME TypeOK, NEW w \in Workers, NEW t \in Tensors, NEW from \in Source, Pulls(w, t, from),
         backend' = backend
  PROVE  IpcTypes'
<1>0. IpcTypes /\ Source' = Source /\ Copies' = Copies
  BY DEF TypeOK, Source, Copies
<1>1. CASE Starts(w, ipcMeta[w], copies[w], t, from) /\ UNCHANGED <<ipc, held>>
  <2>1. ipcMeta[w] \in Seq(Tensors) /\ copies[w] \in Seq(Copies)
    BY <1>0 DEF IpcTypes
  <2>2. [from |-> from, to |-> Len(ipcMeta[w]) + 1] \in Copies
    BY <2>1 DEF Copies
  <2>3. /\ Append(ipcMeta[w], t) \in Seq(Tensors)
        /\ Append(copies[w], [from |-> from, to |-> Len(ipcMeta[w]) + 1]) \in Seq(Copies)
    BY <2>1, <2>2
  <2> QED BY <1>0, <1>1, <2>3 DEF IpcTypes, Pulls, Starts
<1>2. CASE /\ ipc' = [ipc EXCEPT ![w] = "full"] /\ held' = [held EXCEPT ![w] = <<t, from>>]
           /\ UNCHANGED <<ipcMeta, copies>>
  BY <1>0, <1>2 DEF IpcTypes, Pulls
<1> QED BY <1>1, <1>2 DEF Pulls

\* So does the end of the generator.
LEMMA PullEndsTypes ==
  ASSUME TypeOK, NEW w \in Workers, PullEnds(w), backend' = backend
  PROVE  IpcTypes'
BY DEF TypeOK, IpcTypes, PullEnds, Source, Copies

\* Writing into a buffer of tensors leaves a buffer of tensors.
LEMMA WrittenType ==
  ASSUME NEW q \in Seq(Nat), NEW place \in Nat, NEW value \in Nat
  PROVE  Written(q, place, value) \in Seq(Nat)
<1> DEFINE n == IF place > Len(q) THEN place ELSE Len(q)
<1>1. n \in Nat
  OBVIOUS
<1>2. \A i \in 1 .. n :
        (IF i = place THEN value ELSE IF i > Len(q) THEN 0 ELSE q[i]) \in Nat
  OBVIOUS
<1> QED BY <1>1, <1>2 DEF Written

\* What is at a place of one.
LEMMA AtType ==
  ASSUME NEW q \in Seq(Tensors), NEW place
  PROVE  At(q, place) \in Nat
<1>1. ASSUME place \in DOMAIN q PROVE q[place] \in Nat
  <2>1. q[place] \in Tensors
    BY <1>1
  <2> QED BY <2>1 DEF Tensors
<1> QED BY <1>1 DEF At

\* A copy keeps the types of the link.
LEMMA CopiedTypes ==
  ASSUME TypeOK, NEW w \in Workers, Copied(w), backend' = backend
  PROVE  IpcTypes'
<1>0. IpcTypes /\ Source' = Source /\ Copies' = Copies
  BY DEF TypeOK, Source, Copies
<1>1. copies[w] \in Seq(Copies) /\ copies[w] # <<>> /\ ipcBuf[w] \in Seq(Nat)
  BY <1>0 DEF IpcTypes, Copied
<1>2. Tail(copies[w]) \in Seq(Copies) /\ Head(copies[w]) \in Copies
  BY <1>1
<1>3. Head(copies[w]).to \in Nat
  BY <1>2 DEF Copies
<1>4. PICK value \in Nat : ipcBuf' = [ipcBuf EXCEPT ![w] = Written(@, Head(copies[w]).to, value)]
  BY DEF Copied
<1>5. Written(ipcBuf[w], Head(copies[w]).to, value) \in Seq(Nat)
  BY <1>1, <1>3, WrittenType
<1> QED BY <1>0, <1>2, <1>4, <1>5 DEF IpcTypes, Copied

\* So do the other steps of the link.
LEMMA IpcStepTypes ==
  ASSUME TypeOK, NEW w \in Workers, IpcStep(w), backend' = backend
  PROVE  IpcTypes'
<1>0. IpcTypes /\ Source' = Source /\ Copies' = Copies
  BY DEF TypeOK, Source, Copies
<1>1. CASE InitBuffer(w) \/ SendBucket(w)
  BY <1>0, <1>1 DEF IpcTypes, InitBuffer, SendBucket
<1>2. CASE Load(w)
  <2>1. loads[w] \in Seq(Nat) /\ ipcMeta[w] \in Seq(Tensors)
    BY <1>0 DEF IpcTypes
  <2>2. Append(loads[w], Len(ipcMeta[w])) \in Seq(Nat)
    BY <2>1
  <2> QED BY <1>0, <1>2, <2>2 DEF IpcTypes, Load
<1>4. CASE RunLoad(w)
  <2>1. /\ loads[w] \in Seq(Nat) /\ loads[w] # <<>>
        /\ loaded[w] \in Seq(Nat) /\ ipcBuf[w] \in Seq(Nat)
    BY <1>0, <1>4 DEF IpcTypes, RunLoad
  <2>2. Head(loads[w]) \in Nat /\ Tail(loads[w]) \in Seq(Nat)
    BY <2>1
  <2>3. \A i \in 1 .. Head(loads[w]) : At(ipcBuf[w], i) \in Nat
    BY <2>1 DEF At
  <2>4. Received(w, Head(loads[w])) \in Seq(Nat)
    BY <2>2, <2>3 DEF Received
  <2>5. loaded[w] \o Received(w, Head(loads[w])) \in Seq(Nat)
    BY <2>1, <2>4
  <2> QED BY <1>0, <1>4, <2>2, <2>5 DEF IpcTypes, RunLoad
<1>3. CASE Reply(w)
  <2>1. CASE ipc[w] = "full"
    <3>1. held[w] \in Tensors \X Source /\ copies[w] \in Seq(Copies)
      BY <1>0, <2>1 DEF IpcTypes
    <3>2. held[w][1] \in Tensors /\ held[w][2] \in Source
      BY <3>1
    <3>3. [from |-> held[w][2], to |-> Len(<<>>) + 1] \in Copies
      BY <3>2 DEF Copies
    <3>4. /\ Append(<<>>, held[w][1]) \in Seq(Tensors)
          /\ Append(copies[w], [from |-> held[w][2], to |-> Len(<<>>) + 1]) \in Seq(Copies)
      BY <3>1, <3>2, <3>3
    <3> QED BY <1>0, <1>3, <2>1, <3>4 DEF IpcTypes, Reply, StartCopy
  <2>2. CASE ipc[w] # "full"
    BY <1>0, <1>3, <2>2 DEF IpcTypes, Reply
  <2> QED BY <2>1, <2>2
<1> QED BY <1>1, <1>2, <1>3, <1>4 DEF IpcStep

\* Pull and Copy of each engine's module are those of this one.
LEMMA NaiveLink ==
  ASSUME NEW w \in Workers
  PROVE  /\ \A t, from : Naive!Pull(w, t, from) => Pulls(w, t, from)
         /\ Naive!PullEnd(w) => PullEnds(w)
         /\ \A v \in Nat : Naive!Copy(w, v) => Copied(w)
         /\ Naive!IpcStep(w) => IpcStep(w)
<1>1. \A t, from : Naive!Pull(w, t, from) => Pulls(w, t, from)
  BY DEF Naive!Pull, Naive!StartCopy, Pulls, Starts
<1>2. Naive!PullEnd(w) => PullEnds(w)
  BY DEF Naive!PullEnd, PullEnds
<1>3. \A v \in Nat : Naive!Copy(w, v) => Copied(w)
  BY DEF Naive!Copy, Copied, Naive!Written, Written
<1>4. Naive!IpcStep(w) => IpcStep(w)
  BY DEF Naive!IpcStep, Naive!InitBuffer, Naive!SendBucket, Naive!Load, Naive!RunLoad,
         Naive!LoadsDone, Naive!Reply, Naive!Synchronized, Naive!Received, Naive!At,
         Naive!StartCopy,
         IpcStep, InitBuffer, SendBucket, Load, RunLoad, LoadsDone, Reply, Synchronized,
         Received, At, StartCopy
<1> QED BY <1>1, <1>2, <1>3, <1>4

\* The same for the generator of the broadcast.
LEMMA NcclLink ==
  ASSUME NEW w \in Workers
  PROVE  /\ \A t, from : Nccl!Pull(w, t, from) => Pulls(w, t, from)
         /\ Nccl!PullEnd(w) => PullEnds(w)
         /\ \A v \in Nat : Nccl!Copy(w, v) => Copied(w)
         /\ Nccl!IpcStep(w) => IpcStep(w)
<1>1. \A t, from : Nccl!Pull(w, t, from) => Pulls(w, t, from)
  BY DEF Nccl!Pull, Nccl!StartCopy, Pulls, Starts
<1>2. Nccl!PullEnd(w) => PullEnds(w)
  BY DEF Nccl!PullEnd, PullEnds
<1>3. \A v \in Nat : Nccl!Copy(w, v) => Copied(w)
  BY DEF Nccl!Copy, Copied, Nccl!Written, Written
<1>4. Nccl!IpcStep(w) => IpcStep(w)
  BY DEF Nccl!IpcStep, Nccl!InitBuffer, Nccl!SendBucket, Nccl!Load, Nccl!RunLoad,
         Nccl!LoadsDone, Nccl!Reply, Nccl!Synchronized, Nccl!Received, Nccl!At, Nccl!StartCopy,
         IpcStep, InitBuffer, SendBucket, Load, RunLoad, LoadsDone, Reply, Synchronized,
         Received, At, StartCopy
<1> QED BY <1>1, <1>2, <1>3, <1>4

\* The same for the generator of the chain.
LEMMA NixlLink ==
  ASSUME NEW w \in Workers
  PROVE  /\ \A t, from : Nixl!Pull(w, t, from) => Pulls(w, t, from)
         /\ Nixl!PullEnd(w) => PullEnds(w)
         /\ \A v \in Nat : Nixl!Copy(w, v) => Copied(w)
         /\ Nixl!IpcStep(w) => IpcStep(w)
<1>1. \A t, from : Nixl!Pull(w, t, from) => Pulls(w, t, from)
  BY DEF Nixl!Pull, Nixl!StartCopy, Pulls, Starts
<1>2. Nixl!PullEnd(w) => PullEnds(w)
  BY DEF Nixl!PullEnd, PullEnds
<1>3. \A v \in Nat : Nixl!Copy(w, v) => Copied(w)
  BY DEF Nixl!Copy, Copied, Nixl!Written, Written
<1>4. Nixl!IpcStep(w) => IpcStep(w)
  BY DEF Nixl!IpcStep, Nixl!InitBuffer, Nixl!SendBucket, Nixl!Load, Nixl!RunLoad,
         Nixl!LoadsDone, Nixl!Reply, Nixl!Synchronized, Nixl!Received, Nixl!At, Nixl!StartCopy,
         IpcStep, InitBuffer, SendBucket, Load, RunLoad, LoadsDone, Reply, Synchronized,
         Received, At, StartCopy
<1> QED BY <1>1, <1>2, <1>3, <1>4

\* The parts of a worker's state, by type.
LEMMA PartTypes ==
  /\ \A o \in Ops : o.stage \in {"metadata", "joined", "arriving", "done"}
                    /\ o.bucket \in Buckets /\ o.data \in Seq(Tensors)
  /\ \A p \in Pairs : p.send \in 0 .. 1 /\ 1 - p.send \in 0 .. 1
                      /\ p.data \in [0 .. 1 -> Seq(Tensors)]
  /\ \A b \in Buckets : b.tensors \in Seq(Tensors) /\ b.last \in BOOLEAN
                        /\ Len(b.tensors) \in Nat
  /\ \A m \in Metas : m.bucket \in Buckets /\ m.yielded \in Nat
BY DEF Ops, Pairs, Buckets, Metas

\* The records of a broadcast stay in their sets when a field changes.
LEMMA OpUpdate ==
  ASSUME NEW o \in Ops, NEW b \in Buckets
  PROVE  /\ [o EXCEPT !.stage = "joined", !.bucket = b] \in Ops
         /\ [o EXCEPT !.stage = "done", !.data = <<>>] \in Ops
         /\ [o EXCEPT !.stage = "metadata"] \in Ops
         /\ \A q \in Seq(Tensors) : [o EXCEPT !.stage = "arriving", !.data = q] \in Ops
<1>1. <<>> \in Seq(Tensors)
  OBVIOUS
<1>2. \A q \in Seq(Tensors), t \in {"done", "arriving"} :
        [o EXCEPT !.stage = t, !.data = q] \in Ops
  BY DEF Ops
<1>3. [o EXCEPT !.stage = "joined", !.bucket = b] \in Ops
  BY DEF Ops
<1>4. [o EXCEPT !.stage = "metadata"] \in Ops
  BY DEF Ops
<1> QED BY <1>1, <1>2, <1>3, <1>4

\* The two buffers of a worker, one of them overwritten.
LEMMA PairUpdate ==
  ASSUME NEW p \in Pairs, NEW b \in 0 .. 1, NEW q \in Seq(Tensors)
  PROVE  /\ [p EXCEPT !.data[b] = q] \in Pairs
         /\ [p EXCEPT !.send = b] \in Pairs
BY DEF Pairs

\* The fields of the chain's records.
LEMMA ChainPartTypes ==
  /\ \A m \in Messages : m.from \in 0 .. 1 /\ m.tensors \in Seq(Tensors) /\ m.last \in BOOLEAN
  /\ \A m \in ChainMetas :
       /\ m.tensors \in Seq(Tensors) /\ m.last \in BOOLEAN /\ m.yielded \in Nat
       /\ m.send \in 0 .. 1 /\ 1 - m.send \in 0 .. 1 /\ Len(m.tensors) \in Nat
  /\ \A m \in Reads :
       /\ m.stage \in {"none", "reading", "done"} /\ m.from \in 0 .. 1
       /\ m.tensors \in Seq(Tensors) /\ m.last \in BOOLEAN /\ Len(m.tensors) \in Nat
BY DEF Messages, ChainMetas, Reads

\* The buffers of the chain, one of them overwritten.
LEMMA ChainData ==
  NixlTypes => \A r \in 0 .. N, b \in 0 .. 1 : data[r][b] \in Seq(Tensors)
<1> SUFFICES ASSUME NixlTypes, NEW r \in 0 .. N, NEW b \in 0 .. 1
             PROVE  data[r][b] \in Seq(Tensors)
  OBVIOUS
<1>1. data[r] \in [0 .. 1 -> Seq(Tensors)]
  BY DEF NixlTypes
<1> QED BY <1>1

\* Announcing a bucket adds a message to the next rank, if there is one.
LEMMA Announced ==
  ASSUME TypeOK, NEW r \in 0 .. N, NEW b \in 0 .. 1, NEW q \in Seq(Tensors),
         NEW last \in BOOLEAN, Nixl!Announce(r, b, q, last)
  PROVE  /\ messages' \in [Workers -> Seq(Messages)]
         /\ readable' \in [0 .. N -> {"none", "announced", "read"}]
<1>0. messages \in [Workers -> Seq(Messages)]
      /\ readable \in [0 .. N -> {"none", "announced", "read"}]
  BY DEF TypeOK, NixlTypes
<1>1. CASE Nixl!NextRank(r) \in Workers
  <2>1. [from |-> b, tensors |-> q, last |-> last] \in Messages
    BY DEF Messages
  <2>2. Append(messages[Nixl!NextRank(r)], [from |-> b, tensors |-> q, last |-> last])
          \in Seq(Messages)
    BY <1>0, <1>1, <2>1
  <2> QED BY <1>0, <1>1, <2>2 DEF Nixl!Announce
<1>2. CASE Nixl!NextRank(r) \notin Workers
  BY <1>0, <1>2 DEF Nixl!Announce
<1> QED BY <1>1, <1>2

-----------------------------------------------------------------------------
(* What a step does, for each engine.                                      *)

\* The colocated hand-over.
LEMMA NaiveCases ==
  ASSUME TypeOK, NEW w \in Workers, Naive!Worker(w) \/ Naive!RunCopy(w), backend = "naive"
  PROVE  \/ /\ next[w] \in Tensors /\ Pulls(w, next[w], next[w])
            /\ next' = [next EXCEPT ![w] = @ + 1]
         \/ /\ next[w] \notin Tensors /\ PullEnds(w) /\ UNCHANGED next
         \/ IpcStep(w) /\ UNCHANGED next
         \/ Copied(w) /\ UNCHANGED next
<1>1. CASE Naive!Worker(w)
  BY <1>1, NaiveLink DEF Naive!Worker, Naive!Yield, Naive!Tensors, Tensors
<1>2. CASE Naive!RunCopy(w)
  <2>1. copies[w] # <<>> /\ copies[w] \in Seq(Copies)
    BY <1>2 DEF Naive!RunCopy, Naive!Copy, TypeOK, IpcTypes
  <2>h. Head(copies[w]) \in Copies /\ Source = Tensors
    BY <2>1 DEF Source
  <2>2. Head(copies[w]).from \in Tensors
    BY <2>h DEF Copies
  <2>3. Head(copies[w]).from \in Nat
    BY <2>2 DEF Tensors
  <2> QED BY <1>2, <2>3, NaiveLink DEF Naive!RunCopy
<1> QED BY <1>1, <1>2

\* A worker of NcclBroadcast.
NcclYields(w) ==
  /\ gen[w] \in {"yield", "last"} /\ meta[w].yielded < Len(meta[w].bucket.tensors)
  /\ Pulls(w, meta[w].bucket.tensors[meta[w].yielded + 1],
           [buf |-> bufs[w].send, place |-> meta[w].yielded + 1])
  /\ meta' = [meta EXCEPT ![w].yielded = @ + 1]
  /\ UNCHANGED <<pack, buf0, op0, topic, gen, bufs, op>>

NcclEnds(w) ==
  /\ gen[w] = "last" /\ meta[w].yielded = Len(meta[w].bucket.tensors) /\ PullEnds(w)
  /\ gen' = [gen EXCEPT ![w] = "done"]
  /\ UNCHANGED <<pack, buf0, op0, topic, meta, bufs, op>>

\* The steps of a worker of the broadcast, one by one.
LEMMA NcclWorkerCases ==
  ASSUME TypeOK, NEW w \in Workers, Nccl!Worker(w)
  PROVE  \/ Nccl!NextBucket(w) \/ NcclYields(w) \/ NcclEnds(w)
         \/ IpcStep(w) /\ UNCHANGED ncclVars
<1>0. NcclTypes
  BY DEF TypeOK
<1>1. CASE Nccl!Yield(w)
  <2>1. /\ meta[w].yielded <= Len(meta[w].bucket.tensors) /\ meta[w].yielded \in Nat
        /\ Len(meta[w].bucket.tensors) \in Nat
    <3>1. meta[w] \in Metas /\ meta[w].yielded <= Len(meta[w].bucket.tensors)
      BY <1>0 DEF NcclTypes
    <3> QED BY <3>1, PartTypes
  <2>2. meta[w].yielded < Len(meta[w].bucket.tensors)
    BY <1>1, <2>1 DEF Nccl!Yield, Nccl!AllYielded
  <2> QED BY <1>1, <2>2, NcclLink DEF Nccl!Yield, NcclYields, Nccl!senderVars
<1>2. CASE Nccl!EndOfWeights(w)
  BY <1>2, NcclLink DEF Nccl!EndOfWeights, Nccl!AllYielded, NcclEnds, Nccl!senderVars
<1>3. CASE Nccl!IpcStep(w) /\ UNCHANGED <<Nccl!senderVars, Nccl!receiverVars>>
  BY <1>3, NcclLink DEF Nccl!senderVars, Nccl!receiverVars, ncclVars
<1> QED BY <1>1, <1>2, <1>3 DEF Nccl!Worker

\* The same with the copies of its device.
LEMMA NcclCases ==
  ASSUME TypeOK, NEW w \in Workers, Nccl!Worker(w) \/ Nccl!RunCopy(w), backend = "nccl"
  PROVE  \/ Nccl!NextBucket(w) \/ NcclYields(w) \/ NcclEnds(w)
         \/ (IpcStep(w) \/ Copied(w)) /\ UNCHANGED ncclVars
<1>0. NcclTypes /\ IpcTypes
  BY DEF TypeOK
<1>1. CASE Nccl!RunCopy(w)
  <2>1. copies[w] # <<>> /\ copies[w] \in Seq(Copies)
    BY <1>0, <1>1 DEF Nccl!RunCopy, IpcTypes
  <2>h. Head(copies[w]) \in Copies /\ Source = Place
    BY <2>1 DEF Source
  <2>2. Head(copies[w]).from \in Place
    BY <2>h DEF Copies
  <2>3. bufs[w].data[Head(copies[w]).from.buf] \in Seq(Tensors)
    <3>1. bufs[w] \in Pairs /\ Head(copies[w]).from.buf \in 0 .. 1
      BY <1>0, <2>2 DEF NcclTypes, Place
    <3> QED BY <3>1, PartTypes
  <2>4. Nccl!At(bufs[w].data[Head(copies[w]).from.buf], Head(copies[w]).from.place) \in Nat
    BY <2>3, AtType DEF Nccl!At, At
  <2> QED BY <1>1, <2>4, NcclLink DEF Nccl!RunCopy, Nccl!senderVars, Nccl!receiverVars, ncclVars
<1> QED BY <1>1, NcclWorkerCases

\* A worker of NixlChain.
NixlYields(w) ==
  /\ chainGen[w] \in {"yield", "last"} /\ chainMeta[w].yielded < Len(chainMeta[w].tensors)
  /\ Pulls(w, chainMeta[w].tensors[chainMeta[w].yielded + 1],
           [buf |-> chainMeta[w].send, place |-> chainMeta[w].yielded + 1])
  /\ chainMeta' = [chainMeta EXCEPT ![w].yielded = @ + 1]
  /\ UNCHANGED <<group, chainPack, data, readable, messages, chainGen, read>>

NixlEnds(w) ==
  /\ chainGen[w] = "last" /\ chainMeta[w].yielded = Len(chainMeta[w].tensors)
  /\ readable[w] # "announced" /\ PullEnds(w)
  /\ chainGen' = [chainGen EXCEPT ![w] = "done"]
  /\ UNCHANGED <<group, chainPack, data, readable, messages, chainMeta, read>>

\* The steps of a rank of the chain, one by one.
LEMMA NixlWorkerCases ==
  ASSUME TypeOK, NEW w \in Workers, Nixl!Worker(w)
  PROVE  \/ Nixl!BeginRead(w) \/ Nixl!NextBucket(w) \/ NixlYields(w) \/ NixlEnds(w)
         \/ IpcStep(w) /\ UNCHANGED nixlVars
<1>0. NixlTypes
  BY DEF TypeOK
<1>1. CASE Nixl!Yield(w)
  <2>1. /\ chainMeta[w].yielded <= Len(chainMeta[w].tensors) /\ chainMeta[w].yielded \in Nat
        /\ Len(chainMeta[w].tensors) \in Nat
    <3>1. chainMeta[w] \in ChainMetas /\ chainMeta[w].yielded <= Len(chainMeta[w].tensors)
      BY <1>0 DEF NixlTypes
    <3> QED BY <3>1, ChainPartTypes
  <2>2. chainMeta[w].yielded < Len(chainMeta[w].tensors)
    BY <1>1, <2>1 DEF Nixl!Yield, Nixl!AllYielded
  <2> QED BY <1>1, <2>2, NixlLink DEF Nixl!Yield, NixlYields
<1>2. CASE Nixl!EndOfWeights(w)
  BY <1>2, NixlLink DEF Nixl!EndOfWeights, Nixl!AllYielded, Nixl!ReadByNext, NixlEnds
<1>3. CASE Nixl!IpcStep(w) /\ UNCHANGED <<group, chainPack, data, readable, messages, chainGen,
                                         chainMeta, read>>
  BY <1>3, NixlLink DEF nixlVars
<1> QED BY <1>1, <1>2, <1>3 DEF Nixl!Worker

\* The same with the copies of its device.
LEMMA NixlCases ==
  ASSUME TypeOK, NEW w \in Workers, Nixl!Worker(w) \/ Nixl!RunCopy(w), backend = "nixl"
  PROVE  \/ Nixl!BeginRead(w) \/ Nixl!NextBucket(w) \/ NixlYields(w) \/ NixlEnds(w)
         \/ (IpcStep(w) \/ Copied(w)) /\ UNCHANGED nixlVars
<1>0. NixlTypes /\ IpcTypes
  BY DEF TypeOK
<1>1. CASE Nixl!RunCopy(w)
  <2>1. copies[w] # <<>> /\ copies[w] \in Seq(Copies)
    BY <1>0, <1>1 DEF Nixl!RunCopy, IpcTypes
  <2>h. Head(copies[w]) \in Copies /\ Source = Place
    BY <2>1 DEF Source
  <2>2. Head(copies[w]).from \in Place
    BY <2>h DEF Copies
  <2>3. data[w][Head(copies[w]).from.buf] \in Seq(Tensors)
    <3>1. w \in 0 .. N /\ Head(copies[w]).from.buf \in 0 .. 1
      BY <2>2, WorkersAre DEF Place
    <3> QED BY <1>0, <3>1, ChainData
  <2>4. Nixl!At(data[w][Head(copies[w]).from.buf], Head(copies[w]).from.place) \in Nat
    BY <2>3, AtType DEF Nixl!At, At
  <2> QED BY <1>1, <2>4, NixlLink DEF Nixl!RunCopy, nixlVars
<1> QED BY <1>1, NixlWorkerCases

-----------------------------------------------------------------------------
(* Every step preserves the types.                                         *)

\* The fields of rank 0's records.
LEMMA PackTypes ==
  ASSUME NEW p \in Packs, p.next \in Tensors
  PROVE  /\ [p EXCEPT !.next = @ + 1, !.meta = Append(@, p.next),
                      !.copies = Append(@, [tensor |-> p.next, buf |-> p.fill,
                                            first |-> p.meta = <<>>])] \in Packs
         /\ [p EXCEPT !.fill = 1 - @, !.meta = <<>>] \in Packs
<1>1. p.next + 1 \in 1 .. NumTensors + 1 /\ 1 - p.fill \in 0 .. 1
  BY TransferAssumption DEF Packs, Tensors
<1>2. Append(p.meta, p.next) \in Seq(Tensors) /\ <<>> \in Seq(Tensors)
  BY DEF Packs
<1>3. [tensor |-> p.next, buf |-> p.fill, first |-> p.meta = <<>>] \in PackCopies
  BY DEF Packs, PackCopies
<1>4. Append(p.copies, [tensor |-> p.next, buf |-> p.fill, first |-> p.meta = <<>>])
        \in Seq(PackCopies)
  BY <1>3 DEF Packs
<1> QED BY <1>1, <1>2, <1>4 DEF Packs

\* The oldest of its copies.
LEMMA PackCopyTypes ==
  ASSUME NEW p \in Packs, p.copies # <<>>
  PROVE  /\ [p EXCEPT !.copies = Tail(@)] \in Packs
         /\ Head(p.copies).tensor \in Tensors /\ Head(p.copies).buf \in 0 .. 1
<1>1. p.copies \in Seq(PackCopies)
  BY DEF Packs
<1>2. Tail(p.copies) \in Seq(PackCopies) /\ Head(p.copies) \in PackCopies
  BY <1>1
<1> QED BY <1>2 DEF Packs, PackCopies

\* The engine without buckets keeps the types.
LEMMA NaiveTypesStep ==
  ASSUME TypeOK, backend = "naive", backend' = backend, UNCHANGED <<ncclVars, nixlVars>>,
         NEW w \in Workers, Naive!Worker(w) \/ Naive!RunCopy(w)
  PROVE  TypeOK'
<1>0. NcclTypes' /\ NixlTypes'
  BY DEF TypeOK, NcclTypes, NixlTypes, ncclVars, nixlVars
<1>1. next[w] \in 1 .. NumTensors + 1 /\ NumTensors \in Nat
  BY TransferAssumption DEF TypeOK, NaiveTypes
<1>2. CASE next[w] \in Tensors /\ Pulls(w, next[w], next[w]) /\ next' = [next EXCEPT ![w] = @ + 1]
  <2>1. IpcTypes'
    BY <1>2, PullsTypes DEF Source
  <2>2. next[w] + 1 \in 1 .. NumTensors + 1
    BY <1>1, <1>2 DEF Tensors
  <2>3. NaiveTypes'
    BY <1>2, <2>2 DEF TypeOK, NaiveTypes
  <2> QED BY <1>0, <2>1, <2>3 DEF TypeOK
<1>3. CASE (PullEnds(w) \/ IpcStep(w) \/ Copied(w)) /\ UNCHANGED next
  <2>1. IpcTypes'
    BY <1>3, PullEndsTypes, IpcStepTypes, CopiedTypes
  <2> QED BY <1>0, <1>3, <2>1 DEF TypeOK, NaiveTypes
<1> QED BY <1>2, <1>3, NaiveCases

\* The broadcast keeps the types.
LEMMA NcclTypesStep ==
  ASSUME TypeOK, backend = "nccl", backend' = backend, UNCHANGED <<naiveVars, nixlVars>>,
         \/ Nccl!Sender \/ Nccl!Publish \/ Nccl!Broadcast
         \/ \E w \in Workers : Nccl!Worker(w) \/ Nccl!Thread(w) \/ Nccl!RunCopy(w)
  PROVE  TypeOK'
<1>0. /\ NaiveTypes' /\ NixlTypes' /\ NcclTypes /\ IpcTypes
      /\ backend' \in {"naive", "nccl", "nixl"} /\ Source = Place
  BY DEF TypeOK, NaiveTypes, NixlTypes, naiveVars, nixlVars, Source
<1>i. UNCHANGED ipcVars => IpcTypes'
  BY <1>0 DEF IpcTypes, ipcVars, Source, Copies
<1>e. <<>> \in Seq(Tensors) /\ Len(<<>>) = 0
  OBVIOUS
<1>w. \A w \in Workers : op[w] \in Ops /\ bufs[w] \in Pairs /\ meta[w] \in Metas
                          /\ topic[w] \in Seq(Buckets)
  BY <1>0 DEF NcclTypes
<1> SUFFICES IpcTypes' /\ NcclTypes'
  BY <1>0 DEF TypeOK
<1>1. CASE Nccl!Pack
  <2>1. UNCHANGED ipcVars /\ UNCHANGED <<buf0, op0, topic, gen, meta, bufs, op>>
        /\ pack.next \in Tensors
    BY <1>1 DEF Nccl!Pack, Nccl!ipcVars, ipcVars, Nccl!receiverVars, Nccl!Tensors, Tensors
  <2>2. pack' \in Packs
    BY <1>0, <1>1, <2>1, PackTypes DEF Nccl!Pack, NcclTypes
  <2> QED BY <1>0, <1>i, <2>1, <2>2 DEF NcclTypes
<1>11. CASE Nccl!RunPack
  <2>1. UNCHANGED ipcVars /\ UNCHANGED <<op0, topic, gen, meta, bufs, op>> /\ pack.copies # <<>>
    BY <1>11 DEF Nccl!RunPack, Nccl!ipcVars, ipcVars, Nccl!receiverVars
  <2>2. pack' \in Packs /\ Head(pack.copies).tensor \in Tensors /\ Head(pack.copies).buf \in 0 .. 1
    BY <1>0, <1>11, <2>1, PackCopyTypes DEF Nccl!RunPack, NcclTypes
  <2>3. buf0' \in [0 .. 1 -> Seq(Tensors)]
    <3>1. buf0[Head(pack.copies).buf] \in Seq(Tensors)
      BY <1>0, <2>2 DEF NcclTypes
    <3>2. /\ Append(<<>>, Head(pack.copies).tensor) \in Seq(Tensors)
          /\ Append(buf0[Head(pack.copies).buf], Head(pack.copies).tensor) \in Seq(Tensors)
      BY <1>e, <2>2, <3>1
    <3> QED BY <1>0, <1>11, <2>2, <3>2 DEF Nccl!RunPack, NcclTypes
  <2> QED BY <1>0, <1>i, <2>1, <2>2, <2>3 DEF NcclTypes
<1>2. CASE Nccl!StartBroadcast
  <2>1. UNCHANGED ipcVars /\ UNCHANGED <<buf0, topic, gen, meta, bufs, op>>
    BY <1>2 DEF Nccl!StartBroadcast, Nccl!ipcVars, ipcVars, Nccl!receiverVars
  <2>2. pack' \in Packs
    <3>1. [pack EXCEPT !.at = "last"] \in Packs
      BY <1>0 DEF NcclTypes, Packs
    <3>2. pack.next \in Tensors => [pack EXCEPT !.fill = 1 - @, !.meta = <<>>] \in Packs
      BY <1>0, PackTypes DEF NcclTypes
    <3> QED BY <1>2, <3>1, <3>2 DEF Nccl!StartBroadcast, Nccl!Other, Nccl!Tensors, Tensors
  <2>3. op0' \in [stage : {"new", "published", "done"}, fill : 0 .. 1, bucket : Buckets]
    <3>1. pack.fill \in 0 .. 1 /\ pack.meta \in Seq(Tensors)
      BY <1>0 DEF NcclTypes, Packs
    <3>2. Nccl!Bucket(pack.meta, pack.next \notin Nccl!Tensors) \in Buckets
      BY <3>1 DEF Nccl!Bucket, Buckets
    <3> QED BY <1>2, <3>1, <3>2 DEF Nccl!StartBroadcast
  <2> QED BY <1>0, <1>i, <2>1, <2>2, <2>3 DEF NcclTypes
<1>3. CASE Nccl!Return
  <2>1. UNCHANGED ipcVars /\ UNCHANGED <<buf0, op0, topic, gen, meta, bufs, op>>
    BY <1>3 DEF Nccl!Return, Nccl!ipcVars, ipcVars, Nccl!receiverVars
  <2>2. pack' \in Packs
    BY <1>0, <1>3 DEF Nccl!Return, NcclTypes, Packs
  <2> QED BY <1>0, <1>i, <2>1, <2>2 DEF NcclTypes
<1>4. CASE Nccl!Publish
  <2>1. UNCHANGED ipcVars /\ UNCHANGED <<pack, buf0, gen, meta, bufs, op>>
    BY <1>4 DEF Nccl!Publish, Nccl!ipcVars, ipcVars, Nccl!receiverVars
  <2>2. \A w \in Workers : Append(topic[w], op0.bucket) \in Seq(Buckets)
    BY <1>0 DEF NcclTypes
  <2>3. topic' \in [Workers -> Seq(Buckets)]
    BY <1>4, <2>2 DEF Nccl!Publish
  <2>4. op0' \in [stage : {"new", "published", "done"}, fill : 0 .. 1, bucket : Buckets]
    BY <1>0, <1>4 DEF Nccl!Publish, NcclTypes
  <2> QED BY <1>0, <1>i, <2>1, <2>3, <2>4 DEF NcclTypes
<1>5. CASE Nccl!Broadcast
  <2>1. UNCHANGED ipcVars /\ UNCHANGED <<pack, buf0, topic, gen, meta, bufs>>
    BY <1>5 DEF Nccl!Broadcast, Nccl!ipcVars, ipcVars
  <2>2. buf0[op0.fill] \in Seq(Tensors)
    BY <1>0 DEF NcclTypes
  <2>3. /\ op0' \in [stage : {"new", "published", "done"}, fill : 0 .. 1, bucket : Buckets]
        /\ op' \in [Workers -> Ops]
    <3>1. \A w \in Workers :
            [op[w] EXCEPT !.stage = "arriving", !.data = buf0[op0.fill]] \in Ops
      <4>1. \A w \in Workers : op[w].bucket \in Buckets
        BY <1>w, PartTypes
      <4> QED BY <1>w, <2>2, <4>1, OpUpdate
    <3>2. op' = [w \in Workers |->
                   [op[w] EXCEPT !.stage = "arriving", !.data = buf0[op0.fill]]]
      BY <1>5 DEF Nccl!Broadcast
    <3>3. op0' \in [stage : {"new", "published", "done"}, fill : 0 .. 1, bucket : Buckets]
      BY <1>0, <1>5 DEF Nccl!Broadcast, NcclTypes
    <3> QED BY <3>1, <3>2, <3>3
  <2> QED BY <1>0, <1>i, <2>1, <2>3 DEF NcclTypes
<1>6. ASSUME NEW w \in Workers, Nccl!Join(w) \/ Nccl!Arrive(w) PROVE IpcTypes' /\ NcclTypes'
  <2>1. UNCHANGED ipcVars /\ UNCHANGED <<pack, buf0, op0, gen, meta>>
    BY <1>6 DEF Nccl!Join, Nccl!Arrive, Nccl!ipcVars, ipcVars, Nccl!senderVars
  <2>r. Nccl!Recv(w) \in 0 .. 1
    BY <1>w, PartTypes DEF Nccl!Recv, Nccl!Other
  <2>2. topic' \in [Workers -> Seq(Buckets)]
        /\ (Nccl!Join(w) => Head(topic[w]) \in Buckets)
    <3>0. topic \in [Workers -> Seq(Buckets)]
      BY <1>0 DEF NcclTypes
    <3>1. CASE Nccl!Join(w)
      <4>1. topic[w] # <<>> /\ topic' = [topic EXCEPT ![w] = Tail(@)]
        BY <3>1 DEF Nccl!Join
      <4>2. Tail(topic[w]) \in Seq(Buckets) /\ Head(topic[w]) \in Buckets
        BY <1>w, <4>1
      <4> QED BY <3>0, <4>1, <4>2
    <3>2. CASE ~Nccl!Join(w)
      <4>1. topic' = topic
        BY <1>6, <3>2 DEF Nccl!Arrive, Nccl!senderVars
      <4> QED BY <3>0, <3>2, <4>1
    <3> QED BY <3>1, <3>2
  <2>3. op' \in [Workers -> Ops]
    <3>1. CASE Nccl!Join(w)
      <4>1. op' = [op EXCEPT ![w] = [op[w] EXCEPT !.stage = "joined", !.bucket = Head(topic[w])]]
        BY <1>0, <3>1 DEF Nccl!Join, NcclTypes
      <4>2. [op[w] EXCEPT !.stage = "joined", !.bucket = Head(topic[w])] \in Ops
        BY <1>w, <2>2, <3>1, OpUpdate
      <4> QED BY <1>0, <4>1, <4>2 DEF NcclTypes
    <3>2. CASE Nccl!Arrive(w)
      <4>1. op' = [op EXCEPT ![w] = [op[w] EXCEPT !.stage = "done", !.data = <<>>]]
        BY <1>0, <3>2 DEF Nccl!Arrive, NcclTypes
      <4>2. [op[w] EXCEPT !.stage = "done", !.data = <<>>] \in Ops
        <5>1. op[w].bucket \in Buckets
          BY <1>w, PartTypes
        <5> QED BY <1>w, <5>1, OpUpdate
      <4> QED BY <1>0, <4>1, <4>2 DEF NcclTypes
    <3> QED BY <1>6, <3>1, <3>2
  <2>4. bufs' \in [Workers -> Pairs]
    <3>1. op[w].data \in Seq(Tensors)
      BY <1>w, PartTypes
    <3>2. PICK q \in Seq(Tensors) : bufs' = [bufs EXCEPT ![w].data[Nccl!Recv(w)] = q]
      BY <1>e, <1>6, <3>1 DEF Nccl!Join, Nccl!Arrive
    <3>3. bufs' = [bufs EXCEPT ![w] = [bufs[w] EXCEPT !.data[Nccl!Recv(w)] = q]]
      BY <1>0, <3>2 DEF NcclTypes
    <3>4. [bufs[w] EXCEPT !.data[Nccl!Recv(w)] = q] \in Pairs
      BY <1>w, <2>r, PairUpdate
    <3> QED BY <1>0, <3>3, <3>4 DEF NcclTypes
  <2> QED BY <1>0, <1>i, <2>1, <2>2, <2>3, <2>4 DEF NcclTypes
<1>7. ASSUME NEW w \in Workers, Nccl!NextBucket(w) PROVE IpcTypes' /\ NcclTypes'
  <2>1. UNCHANGED ipcVars /\ UNCHANGED <<pack, buf0, op0, topic>>
    BY <1>7 DEF Nccl!NextBucket, Nccl!ipcVars, ipcVars, Nccl!senderVars
  <2>2. op[w].bucket \in Buckets /\ Len(op[w].bucket.tensors) \in Nat
    BY <1>w, PartTypes
  <2>3. /\ meta' \in [Workers -> Metas]
        /\ \A v \in Workers : meta'[v].yielded <= Len(meta'[v].bucket.tensors)
    <3>1. [bucket |-> op[w].bucket, yielded |-> 0] \in Metas
      BY <2>2 DEF Metas
    <3>2. meta' = [meta EXCEPT ![w] = [bucket |-> op[w].bucket, yielded |-> 0]]
      BY <1>7 DEF Nccl!NextBucket
    <3> QED BY <1>0, <2>2, <3>1, <3>2 DEF NcclTypes
  <2>4. /\ gen' \in [Workers -> {"first", "yield", "last", "done"}]
        /\ op' \in [Workers -> Ops]
    <3>1. [op[w] EXCEPT !.stage = "metadata"] \in Ops
      BY <1>w, <2>2, OpUpdate
    <3>2. op' = op \/ op' = [op EXCEPT ![w] = [op[w] EXCEPT !.stage = "metadata"]]
      BY <1>0, <1>7 DEF Nccl!NextBucket, NcclTypes
    <3>3. op' \in [Workers -> Ops]
      BY <1>0, <3>1, <3>2 DEF NcclTypes
    <3>4. gen' \in [Workers -> {"first", "yield", "last", "done"}]
      BY <1>0, <1>7 DEF Nccl!NextBucket, NcclTypes
    <3> QED BY <3>3, <3>4
  <2>5. bufs' \in [Workers -> Pairs]
    <3>1. 1 - bufs[w].send \in 0 .. 1
      BY <1>w, PartTypes
    <3>2. bufs' = [bufs EXCEPT ![w] = [bufs[w] EXCEPT !.send = 1 - bufs[w].send]]
      BY <1>0, <1>7 DEF Nccl!NextBucket, Nccl!Other, NcclTypes
    <3>3. [bufs[w] EXCEPT !.send = 1 - bufs[w].send] \in Pairs
      BY <1>w, <1>e, <3>1, PairUpdate
    <3> QED BY <1>0, <3>2, <3>3 DEF NcclTypes
  <2> QED BY <1>0, <1>i, <2>1, <2>3, <2>4, <2>5 DEF NcclTypes
<1>8. ASSUME NEW w \in Workers, NcclYields(w) PROVE IpcTypes' /\ NcclTypes'
  <2>1. /\ meta[w].bucket.tensors \in Seq(Tensors) /\ meta[w].yielded \in Nat
        /\ meta[w].yielded + 1 \in 1 .. Len(meta[w].bucket.tensors)
    <3>1. /\ meta[w].bucket.tensors \in Seq(Tensors) /\ meta[w].yielded \in Nat
          /\ Len(meta[w].bucket.tensors) \in Nat
      BY <1>w, PartTypes
    <3> QED BY <1>8, <3>1 DEF NcclYields
  <2>2. /\ meta[w].bucket.tensors[meta[w].yielded + 1] \in Tensors
        /\ [buf |-> bufs[w].send, place |-> meta[w].yielded + 1] \in Source
    <3>1. bufs[w].send \in 0 .. 1
      BY <1>w, PartTypes
    <3> QED BY <1>0, <2>1, <3>1 DEF Place
  <2>3. IpcTypes'
    BY <1>8, <2>2, PullsTypes DEF NcclYields
  <2>4. /\ meta' \in [Workers -> Metas]
        /\ \A v \in Workers : meta'[v].yielded <= Len(meta'[v].bucket.tensors)
    <3>1. [meta[w] EXCEPT !.yielded = @ + 1] \in Metas
      BY <1>w, <2>1 DEF Metas
    <3>2. meta' = [meta EXCEPT ![w] = [meta[w] EXCEPT !.yielded = @ + 1]]
      BY <1>0, <1>8 DEF NcclYields, NcclTypes
    <3>3. [meta[w] EXCEPT !.yielded = @ + 1].bucket = meta[w].bucket
          /\ [meta[w] EXCEPT !.yielded = @ + 1].yielded = meta[w].yielded + 1
      BY <1>w DEF Metas
    <3>4. meta[w].yielded + 1 <= Len(meta[w].bucket.tensors)
      BY <2>1
    <3> QED BY <1>0, <3>1, <3>2, <3>3, <3>4 DEF NcclTypes
  <2> QED BY <1>0, <1>8, <2>3, <2>4 DEF NcclYields, NcclTypes
<1>9. ASSUME NEW w \in Workers, NcclEnds(w) PROVE IpcTypes' /\ NcclTypes'
  BY <1>0, <1>9, PullEndsTypes DEF NcclEnds, NcclTypes
<1>10. ASSUME NEW w \in Workers, (IpcStep(w) \/ Copied(w)) /\ UNCHANGED ncclVars
       PROVE  IpcTypes' /\ NcclTypes'
  <2>1. IpcTypes'
    BY <1>10, IpcStepTypes, CopiedTypes
  <2> QED BY <1>0, <1>10, <2>1 DEF ncclVars, NcclTypes
<1> QED BY <1>1, <1>2, <1>3, <1>4, <1>5, <1>6, <1>7, <1>8, <1>9, <1>10, <1>11, NcclCases
    DEF Nccl!Sender, Nccl!Thread

\* A buffer of the chain, extended by a tensor.
LEMMA DataUpdate ==
  ASSUME NixlTypes, NEW r \in 0 .. N, NEW b \in 0 .. 1, NEW q \in Seq(Tensors)
  PROVE  [data EXCEPT ![r][b] = q] \in [0 .. N -> [0 .. 1 -> Seq(Tensors)]]
<1>1. data[r] \in [0 .. 1 -> Seq(Tensors)]
  BY DEF NixlTypes
<1>2. [data[r] EXCEPT ![b] = q] \in [0 .. 1 -> Seq(Tensors)]
  BY <1>1
<1>3. [data EXCEPT ![r][b] = q] = [data EXCEPT ![r] = [data[r] EXCEPT ![b] = q]]
  BY DEF NixlTypes
<1> QED BY <1>2, <1>3 DEF NixlTypes

\* The chain keeps the types.
LEMMA NixlTypesStep ==
  ASSUME TypeOK, backend = "nixl", backend' = backend, UNCHANGED <<naiveVars, ncclVars>>,
         \/ Nixl!BuildProcessGroup \/ Nixl!Sender
         \/ \E w \in Workers : Nixl!Worker(w) \/ Nixl!Transfer(w) \/ Nixl!RunCopy(w)
  PROVE  TypeOK'
<1>0. /\ NaiveTypes' /\ NcclTypes' /\ NixlTypes /\ IpcTypes
      /\ backend' \in {"naive", "nccl", "nixl"} /\ Source = Place
  BY DEF TypeOK, NaiveTypes, NcclTypes, naiveVars, ncclVars, Source
<1>i. UNCHANGED ipcVars => IpcTypes'
  BY <1>0 DEF IpcTypes, ipcVars, Source, Copies
<1>e. <<>> \in Seq(Tensors) /\ Len(<<>>) = 0
  OBVIOUS
<1>w. \A w \in Workers : /\ read[w] \in Reads /\ chainMeta[w] \in ChainMetas
                         /\ messages[w] \in Seq(Messages) /\ w \in 0 .. N
  BY <1>0, WorkersAre DEF NixlTypes
<1>z. 0 \in 0 .. N
  BY WorkersAre
<1> SUFFICES IpcTypes' /\ NixlTypes'
  BY <1>0 DEF TypeOK
<1>1. CASE Nixl!BuildProcessGroup
  <2>1. UNCHANGED ipcVars /\ group' \in {"built", "raised"}
        /\ UNCHANGED <<chainPack, data, readable, messages, chainGen, chainMeta, read>>
    BY <1>1 DEF Nixl!BuildProcessGroup, Nixl!ipcVars, ipcVars
  <2> QED BY <1>0, <1>i, <2>1 DEF NixlTypes
<1>2. CASE Nixl!Pack
  <2>1. UNCHANGED ipcVars /\ chainPack.next \in Tensors
        /\ UNCHANGED <<group, data, readable, messages, chainGen, chainMeta, read>>
    BY <1>2 DEF Nixl!Pack, Nixl!ipcVars, ipcVars, Nixl!Tensors, Tensors
  <2>2. chainPack' \in Packs
    BY <1>0, <1>2, <2>1, PackTypes DEF Nixl!Pack, NixlTypes
  <2> QED BY <1>0, <1>i, <2>1, <2>2 DEF NixlTypes
<1>11. CASE Nixl!RunPack
  <2>1. UNCHANGED ipcVars /\ UNCHANGED <<group, readable, messages, chainGen, chainMeta, read>>
        /\ chainPack.copies # <<>>
    BY <1>11 DEF Nixl!RunPack, Nixl!ipcVars, ipcVars
  <2>2. /\ chainPack' \in Packs
        /\ Head(chainPack.copies).tensor \in Tensors /\ Head(chainPack.copies).buf \in 0 .. 1
    BY <1>0, <1>11, <2>1, PackCopyTypes DEF Nixl!RunPack, NixlTypes
  <2>3. data' \in [0 .. N -> [0 .. 1 -> Seq(Tensors)]]
    <3>1. data[0][Head(chainPack.copies).buf] \in Seq(Tensors)
      BY <1>0, <1>z, <2>2, ChainData
    <3>2. /\ Append(<<>>, Head(chainPack.copies).tensor) \in Seq(Tensors)
          /\ Append(data[0][Head(chainPack.copies).buf], Head(chainPack.copies).tensor)
               \in Seq(Tensors)
      BY <1>e, <2>2, <3>1
    <3>3. PICK q \in Seq(Tensors) : data' = [data EXCEPT ![0][Head(chainPack.copies).buf] = q]
      BY <1>11, <3>2 DEF Nixl!RunPack
    <3> QED BY <1>0, <1>z, <2>2, <3>3, DataUpdate
  <2> QED BY <1>0, <1>i, <2>1, <2>2, <2>3 DEF NixlTypes
<1>3. CASE Nixl!SendPacked
  <2>1. UNCHANGED ipcVars /\ UNCHANGED <<group, data, chainGen, chainMeta, read>>
    BY <1>3 DEF Nixl!SendPacked, Nixl!ipcVars, ipcVars
  <2>2. chainPack' \in Packs
    <3>1. [chainPack EXCEPT !.at = "last"] \in Packs
      BY <1>0 DEF NixlTypes, Packs
    <3>2. chainPack.next \in Tensors => [chainPack EXCEPT !.fill = 1 - @, !.meta = <<>>] \in Packs
      BY <1>0, PackTypes DEF NixlTypes
    <3> QED BY <1>3, <3>1, <3>2 DEF Nixl!SendPacked, Nixl!Other, Nixl!Tensors, Tensors
  <2>3. /\ messages' \in [Workers -> Seq(Messages)]
        /\ readable' \in [0 .. N -> {"none", "announced", "read"}]
    <3>1. chainPack.fill \in 0 .. 1 /\ chainPack.meta \in Seq(Tensors)
          /\ (chainPack.next \notin Nixl!Tensors) \in BOOLEAN
      BY <1>0 DEF NixlTypes, Packs
    <3> QED BY <1>3, <1>z, <3>1, Announced DEF Nixl!SendPacked
  <2> QED BY <1>0, <1>i, <2>1, <2>2, <2>3 DEF NixlTypes
<1>4. CASE Nixl!Return
  <2>1. UNCHANGED ipcVars
        /\ UNCHANGED <<group, data, readable, messages, chainGen, chainMeta, read>>
    BY <1>4 DEF Nixl!Return, Nixl!ipcVars, ipcVars
  <2>2. chainPack' \in Packs
    BY <1>0, <1>4 DEF Nixl!Return, NixlTypes, Packs
  <2> QED BY <1>0, <1>i, <2>1, <2>2 DEF NixlTypes
<1>5. ASSUME NEW w \in Workers, Nixl!BeginRead(w) PROVE IpcTypes' /\ NixlTypes'
  <2>1. UNCHANGED ipcVars /\ UNCHANGED <<group, chainPack, readable, chainMeta>>
    BY <1>5 DEF Nixl!BeginRead, Nixl!ipcVars, ipcVars
  <2>2. messages[w] \in Seq(Messages) /\ messages[w] # <<>>
    BY <1>5, <1>w DEF Nixl!BeginRead
  <2>3. Head(messages[w]) \in Messages /\ Tail(messages[w]) \in Seq(Messages)
    BY <2>2
  <2>4. read' \in [Workers -> Reads]
    <3>1. [stage |-> "reading", from |-> Head(messages[w]).from,
           tensors |-> Head(messages[w]).tensors, last |-> Head(messages[w]).last] \in Reads
      BY <2>3, ChainPartTypes DEF Reads
    <3> QED BY <1>0, <1>5, <3>1 DEF Nixl!BeginRead, NixlTypes
  <2>5. data' \in [0 .. N -> [0 .. 1 -> Seq(Tensors)]]
    <3>1. Nixl!Recv(w) \in 0 .. 1
      BY <1>w, ChainPartTypes DEF Nixl!Recv, Nixl!Other
    <3> QED BY <1>0, <1>5, <1>e, <1>w, <3>1, DataUpdate DEF Nixl!BeginRead
  <2>6. /\ messages' \in [Workers -> Seq(Messages)]
        /\ chainGen' \in [Workers -> {"first", "firstRead", "next", "yield", "last", "done"}]
    BY <1>0, <1>5, <2>3 DEF Nixl!BeginRead, NixlTypes
  <2> QED BY <1>0, <1>i, <2>1, <2>4, <2>5, <2>6 DEF NixlTypes
<1>6. ASSUME NEW w \in Workers, Nixl!Transfer(w) PROVE IpcTypes' /\ NixlTypes'
  <2>1. UNCHANGED ipcVars /\ UNCHANGED <<group, chainPack, messages, chainGen, chainMeta>>
    BY <1>6 DEF Nixl!Transfer, Nixl!ipcVars, ipcVars
  <2>2. Nixl!PrevAgents[w] = w - 1 /\ w - 1 \in 0 .. N
    BY Prev, WorkersAre
  <2>3. data' \in [0 .. N -> [0 .. 1 -> Seq(Tensors)]]
    <3>1. Nixl!Recv(w) \in 0 .. 1 /\ read[w].from \in 0 .. 1
      BY <1>w, ChainPartTypes DEF Nixl!Recv, Nixl!Other
    <3>2. data[w - 1][read[w].from] \in Seq(Tensors)
      BY <1>0, <2>2, <3>1, ChainData
    <3> QED BY <1>0, <1>6, <1>w, <2>2, <3>1, <3>2, DataUpdate DEF Nixl!Transfer
  <2>4. readable' \in [0 .. N -> {"none", "announced", "read"}]
    BY <1>0, <1>6, <2>2 DEF Nixl!Transfer, NixlTypes
  <2>5. read' \in [Workers -> Reads]
    <3>1. [read[w] EXCEPT !.stage = "done"] \in Reads
      BY <1>w DEF Reads
    <3>2. read' = [read EXCEPT ![w] = [read[w] EXCEPT !.stage = "done"]]
      BY <1>0, <1>6 DEF Nixl!Transfer, NixlTypes
    <3> QED BY <1>0, <3>1, <3>2 DEF NixlTypes
  <2> QED BY <1>0, <1>i, <2>1, <2>3, <2>4, <2>5 DEF NixlTypes
<1>7. ASSUME NEW w \in Workers, Nixl!NextBucket(w) PROVE IpcTypes' /\ NixlTypes'
  <2>1. UNCHANGED ipcVars /\ UNCHANGED <<group, chainPack, data>>
    BY <1>7 DEF Nixl!NextBucket, Nixl!ipcVars, ipcVars
  <2>2. Nixl!Recv(w) \in 0 .. 1
    BY <1>w, ChainPartTypes DEF Nixl!Recv, Nixl!Other
  <2>r. /\ read[w].tensors \in Seq(Tensors) /\ read[w].last \in BOOLEAN
        /\ Len(read[w].tensors) \in Nat
    BY <1>w, ChainPartTypes
  <2>3. /\ messages' \in [Workers -> Seq(Messages)]
        /\ readable' \in [0 .. N -> {"none", "announced", "read"}]
    BY <1>7, <1>w, <2>2, <2>r, Announced DEF Nixl!NextBucket
  <2>4. /\ chainMeta' \in [Workers -> ChainMetas]
        /\ \A v \in Workers : chainMeta'[v].yielded <= Len(chainMeta'[v].tensors)
    <3> DEFINE m == [tensors |-> read[w].tensors, last |-> read[w].last,
                     yielded |-> 0, send |-> Nixl!Recv(w)]
    <3>1. m \in ChainMetas /\ m.yielded <= Len(m.tensors)
      BY <2>2, <2>r DEF ChainMetas
    <3>2. chainMeta' = [chainMeta EXCEPT ![w] = m]
      BY <1>7 DEF Nixl!NextBucket
    <3> HIDE DEF m
    <3> QED BY <1>0, <3>1, <3>2 DEF NixlTypes
  <2>5. read' \in [Workers -> Reads]
    <3>1. [read[w] EXCEPT !.stage = "none"] \in Reads
      BY <1>w DEF Reads
    <3>2. read' = [read EXCEPT ![w] = [read[w] EXCEPT !.stage = "none"]]
      BY <1>0, <1>7 DEF Nixl!NextBucket, NixlTypes
    <3> QED BY <1>0, <3>1, <3>2 DEF NixlTypes
  <2>6. chainGen' \in [Workers -> {"first", "firstRead", "next", "yield", "last", "done"}]
    BY <1>0, <1>7 DEF Nixl!NextBucket, NixlTypes
  <2> QED BY <1>0, <1>i, <2>1, <2>3, <2>4, <2>5, <2>6 DEF NixlTypes
<1>8. ASSUME NEW w \in Workers, NixlYields(w) PROVE IpcTypes' /\ NixlTypes'
  <2>0. /\ chainMeta[w].tensors \in Seq(Tensors) /\ chainMeta[w].yielded \in Nat
        /\ Len(chainMeta[w].tensors) \in Nat /\ chainMeta[w].send \in 0 .. 1
    BY <1>w, ChainPartTypes
  <2>1. chainMeta[w].yielded + 1 \in 1 .. Len(chainMeta[w].tensors)
    BY <1>8, <2>0 DEF NixlYields
  <2>2. /\ chainMeta[w].tensors[chainMeta[w].yielded + 1] \in Tensors
        /\ [buf |-> chainMeta[w].send, place |-> chainMeta[w].yielded + 1] \in Source
    BY <1>0, <2>0, <2>1 DEF Place
  <2>3. IpcTypes'
    BY <1>8, <2>2, PullsTypes DEF NixlYields
  <2>4. /\ chainMeta' \in [Workers -> ChainMetas]
        /\ \A v \in Workers : chainMeta'[v].yielded <= Len(chainMeta'[v].tensors)
    <3>1. [chainMeta[w] EXCEPT !.yielded = @ + 1] \in ChainMetas
      BY <1>w, <2>1 DEF ChainMetas
    <3>2. chainMeta' = [chainMeta EXCEPT ![w] = [chainMeta[w] EXCEPT !.yielded = @ + 1]]
      BY <1>0, <1>8 DEF NixlYields, NixlTypes
    <3>3. [chainMeta[w] EXCEPT !.yielded = @ + 1].tensors = chainMeta[w].tensors
          /\ [chainMeta[w] EXCEPT !.yielded = @ + 1].yielded = chainMeta[w].yielded + 1
      BY <1>w DEF ChainMetas
    <3>4. chainMeta[w].yielded + 1 <= Len(chainMeta[w].tensors)
      BY <2>1
    <3> QED BY <1>0, <3>1, <3>2, <3>3, <3>4 DEF NixlTypes
  <2> QED BY <1>0, <1>8, <2>3, <2>4 DEF NixlYields, NixlTypes
<1>9. ASSUME NEW w \in Workers, NixlEnds(w) PROVE IpcTypes' /\ NixlTypes'
  BY <1>0, <1>9, PullEndsTypes DEF NixlEnds, NixlTypes
<1>10. ASSUME NEW w \in Workers, (IpcStep(w) \/ Copied(w)) /\ UNCHANGED nixlVars
       PROVE  IpcTypes' /\ NixlTypes'
  <2>1. IpcTypes'
    BY <1>10, IpcStepTypes, CopiedTypes
  <2> QED BY <1>0, <1>10, <2>1 DEF nixlVars, NixlTypes
<1> QED BY <1>1, <1>2, <1>3, <1>4, <1>5, <1>6, <1>7, <1>8, <1>9, <1>10, <1>11, NixlCases
    DEF Nixl!Sender

\* Every variable keeps its type.
LEMMA TypeStep == TypeOK /\ [Next]_vars => TypeOK'
<1> SUFFICES ASSUME TypeOK, [Next]_vars PROVE TypeOK'
  OBVIOUS
<1>1. CASE \E w \in Workers : ByNaive(Naive!Worker(w)) \/ ByNaive(Naive!RunCopy(w))
  BY <1>1, NaiveTypesStep DEF ByNaive
<1>2. CASE \/ ByNccl(Nccl!Sender) \/ ByNccl(Nccl!Publish) \/ ByNccl(Nccl!Broadcast)
           \/ \E w \in Workers : \/ ByNccl(Nccl!Worker(w)) \/ ByNccl(Nccl!Thread(w))
                                 \/ ByNccl(Nccl!RunCopy(w))
  BY <1>2, NcclTypesStep DEF ByNccl
<1>3. CASE \/ ByNixl(Nixl!BuildProcessGroup) \/ ByNixl(Nixl!Sender)
           \/ \E w \in Workers : \/ ByNixl(Nixl!Worker(w)) \/ ByNixl(Nixl!Transfer(w))
                                 \/ ByNixl(Nixl!RunCopy(w))
  BY <1>3, NixlTypesStep DEF ByNixl
<1>4. CASE UNCHANGED vars
  BY <1>4 DEF vars, ipcVars, naiveVars, ncclVars, nixlVars, TypeOK, IpcTypes, NaiveTypes,
              NcclTypes, NixlTypes, Source, Copies
<1> QED BY <1>1, <1>2, <1>3, <1>4
    DEF Next, Group, Sender, Publish, Broadcast, Worker, Transport, RunCopy

\* Every variable of the three engines keeps its type, in every update.
THEOREM TypeCorrect == Spec => []TypeOK
BY InitTypes, TypeStep, PTL DEF Spec

-----------------------------------------------------------------------------
(* No buffer is written while it is read.                                  *)

\* What is still to be copied is in buffer b.
FromBuf(w, b) ==
  /\ \A i \in 1 .. Len(copies[w]) : copies[w][i].from.buf = b
  /\ ipc[w] = "full" => held[w][2].buf = b

\* The same of worker w in the next state.
FromBufNext(w, b) ==
  /\ \A i \in 1 .. Len(copies'[w]) : copies'[w][i].from.buf = b
  /\ ipc'[w] = "full" => held'[w][2].buf = b

\* A step of one link leaves the others alone.
LEMMA LinkFrame ==
  ASSUME TypeOK, NEW w \in Workers, NEW v \in Workers, w # v,
         \/ \E t \in Tensors, from \in Source : Pulls(w, t, from)
         \/ PullEnds(w) \/ IpcStep(w) \/ Copied(w)
  PROVE  /\ ipc'[v] = ipc[v] /\ held'[v] = held[v] /\ ipcMeta'[v] = ipcMeta[v]
         /\ ipcBuf'[v] = ipcBuf[v] /\ copies'[v] = copies[v] /\ link'[v] = link[v]
         /\ loads'[v] = loads[v] /\ loaded'[v] = loaded[v]
<1> USE DEF TypeOK, IpcTypes
<1>1. ASSUME NEW t \in Tensors, NEW from \in Source, Pulls(w, t, from)
      PROVE  /\ ipc'[v] = ipc[v] /\ held'[v] = held[v] /\ ipcMeta'[v] = ipcMeta[v]
             /\ ipcBuf'[v] = ipcBuf[v] /\ copies'[v] = copies[v] /\ link'[v] = link[v]
             /\ loads'[v] = loads[v] /\ loaded'[v] = loaded[v]
  BY <1>1 DEF Pulls, Starts
<1>2. CASE PullEnds(w) \/ Copied(w)
  BY <1>2 DEF PullEnds, Copied
<1>3. CASE IpcStep(w)
  BY <1>3 DEF IpcStep, InitBuffer, SendBucket, Load, RunLoad, Reply, StartCopy
<1> QED BY <1>1, <1>2, <1>3

\* A step of the link keeps it so, if what is pulled is in that buffer.
LEMMA LinkFrom ==
  ASSUME TypeOK, Source = Place, NEW w \in Workers, NEW v \in Workers, NEW b, FromBuf(v, b),
         \/ \E t \in Tensors, from \in Place : Pulls(w, t, from) /\ (w = v => from.buf = b)
         \/ PullEnds(w) \/ IpcStep(w) \/ Copied(w)
  PROVE  FromBufNext(v, b)
<1> USE DEF FromBufNext
<1>0. /\ copies \in [Workers -> Seq(Copies)] /\ copies[v] \in Seq(Copies)
      /\ held \in [Workers -> {<<>>} \cup (Tensors \X Source)]
      /\ ipc \in [Workers -> {"pull", "full", "last", "done"}]
  BY DEF TypeOK, IpcTypes
<1>1. CASE w # v
  <2>1. copies'[v] = copies[v] /\ ipc'[v] = ipc[v] /\ held'[v] = held[v]
    BY <1>1, LinkFrame
  <2> QED BY <2>1 DEF FromBuf
<1>a. ASSUME NEW from, NEW to, from.buf = b
      PROVE  \A i \in 1 .. Len(Append(copies[v], [from |-> from, to |-> to])) :
               Append(copies[v], [from |-> from, to |-> to])[i].from.buf = b
  <2> DEFINE c == [from |-> from, to |-> to]
  <2>1. c.from.buf = b
    BY <1>a
  <2> HIDE DEF c
  <2>2. ASSUME NEW i \in 1 .. Len(Append(copies[v], c)) PROVE Append(copies[v], c)[i].from.buf = b
    <3>1. /\ Append(copies[v], c)[i] = IF i = Len(copies[v]) + 1 THEN c ELSE copies[v][i]
          /\ (i # Len(copies[v]) + 1 => i \in 1 .. Len(copies[v]))
      BY <1>0
    <3> QED BY <2>1, <3>1 DEF FromBuf
  <2> QED BY <2>2 DEF c
<1>2. ASSUME w = v, NEW t \in Tensors, NEW from \in Place, Pulls(v, t, from), from.buf = b
      PROVE  /\ \A i \in 1 .. Len(copies'[v]) : copies'[v][i].from.buf = b
             /\ ipc'[v] = "full" => held'[v][2].buf = b
  <2>1. CASE Starts(v, ipcMeta[v], copies[v], t, from) /\ UNCHANGED <<ipc, held>>
    <3>1. copies'[v] = Append(copies[v], [from |-> from, to |-> Len(ipcMeta[v]) + 1])
      BY <1>0, <2>1 DEF Starts
    <3>2. \A i \in 1 .. Len(copies'[v]) : copies'[v][i].from.buf = b
      BY <1>2, <1>a, <3>1
    <3>3. ipc'[v] # "full"
      BY <1>2, <2>1 DEF Pulls
    <3> QED BY <3>2, <3>3
  <2>2. CASE /\ ipc' = [ipc EXCEPT ![v] = "full"] /\ held' = [held EXCEPT ![v] = <<t, from>>]
             /\ UNCHANGED <<ipcMeta, copies>>
    BY <1>0, <1>2, <2>2 DEF FromBuf
  <2> QED BY <1>2, <2>1, <2>2 DEF Pulls
<1>3. CASE w = v /\ (\/ PullEnds(v) \/ InitBuffer(v) \/ SendBucket(v)
                     \/ Load(v) \/ RunLoad(v))
  <2>1. copies' = copies /\ (ipc'[v] = "full" => ipc[v] = "full" /\ held' = held)
    BY <1>0, <1>3 DEF PullEnds, InitBuffer, SendBucket, Load, RunLoad
  <2> QED BY <2>1 DEF FromBuf
<1>4. CASE w = v /\ Reply(v)
  <2>1. ipc'[v] # "full"
    BY <1>0, <1>4 DEF Reply
  <2>2. CASE ipc[v] = "full"
    <3>1. copies'[v] = Append(copies[v], [from |-> held[v][2], to |-> Len(<<>>) + 1])
      BY <1>0, <1>4, <2>2 DEF Reply, StartCopy
    <3>2. held[v][2].buf = b
      BY <2>2 DEF FromBuf
    <3> QED BY <1>a, <2>1, <3>1, <3>2
  <2>3. CASE ipc[v] # "full"
    BY <1>4, <2>1, <2>3 DEF Reply, FromBuf
  <2> QED BY <2>2, <2>3
<1>5. CASE w = v /\ Copied(v)
  <2>1. copies[v] # <<>> /\ copies'[v] = Tail(copies[v]) /\ UNCHANGED <<ipc, held>>
    BY <1>0, <1>5 DEF Copied
  <2>2. \A i \in 1 .. Len(Tail(copies[v])) :
          i + 1 \in 1 .. Len(copies[v]) /\ Tail(copies[v])[i] = copies[v][i + 1]
    BY <1>0, <2>1
  <2> QED BY <2>1, <2>2 DEF FromBuf
<1> QED BY <1>1, <1>2, <1>3, <1>4, <1>5 DEF IpcStep

\* What rank 0's device has still to copy goes into the buffer rank 0 fills.
QueueOk(p) ==
  /\ p.at # "pack" => p.copies = <<>>
  /\ \A i \in 1 .. Len(p.copies) : p.copies[i].buf = p.fill

\* So it stays when a copy is added and when one is carried out.
LEMMA QueueSteps ==
  ASSUME NEW p \in Packs, QueueOk(p)
  PROVE  /\ p.at = "pack" =>
              QueueOk([p EXCEPT !.next = @ + 1, !.meta = Append(@, p.next),
                                !.copies = Append(@, [tensor |-> p.next, buf |-> p.fill,
                                                      first |-> p.meta = <<>>])])
         /\ p.copies # <<>> => QueueOk([p EXCEPT !.copies = Tail(@)])
<1>0. p.copies \in Seq(PackCopies)
  BY DEF Packs
<1>1. ASSUME p.at = "pack", NEW c, c.buf = p.fill, NEW q, q.at = p.at, q.fill = p.fill,
             q.copies = Append(p.copies, c)
      PROVE  QueueOk(q)
  <2>1. ASSUME NEW i \in 1 .. Len(Append(p.copies, c)) PROVE Append(p.copies, c)[i].buf = p.fill
    <3>1. /\ Append(p.copies, c)[i] = IF i = Len(p.copies) + 1 THEN c ELSE p.copies[i]
          /\ (i # Len(p.copies) + 1 => i \in 1 .. Len(p.copies))
      BY <1>0
    <3> QED BY <1>1, <3>1 DEF QueueOk
  <2> QED BY <1>1, <2>1 DEF QueueOk
<1>2. ASSUME p.copies # <<>>, NEW q, q.at = p.at, q.fill = p.fill, q.copies = Tail(p.copies)
      PROVE  QueueOk(q)
  <2>1. \A i \in 1 .. Len(Tail(p.copies)) :
          i + 1 \in 1 .. Len(p.copies) /\ Tail(p.copies)[i] = p.copies[i + 1]
    BY <1>0, <1>2
  <2> QED BY <1>2, <2>1 DEF QueueOk
<1> DEFINE c == [tensor |-> p.next, buf |-> p.fill, first |-> p.meta = <<>>]
           q1 == [p EXCEPT !.next = @ + 1, !.meta = Append(@, p.next),
                           !.copies = Append(@, c)]
           q2 == [p EXCEPT !.copies = Tail(@)]
<1>3. c.buf = p.fill /\ q1.at = p.at /\ q1.fill = p.fill /\ q1.copies = Append(p.copies, c)
  BY DEF Packs
<1>4. q2.at = p.at /\ q2.fill = p.fill /\ q2.copies = Tail(p.copies)
  BY DEF Packs
<1>5. p.at = "pack" => QueueOk(q1)
  <2> HIDE DEF c, q1
  <2> QED BY <1>1, <1>3
<1>6. p.copies # <<>> => QueueOk(q2)
  <2> HIDE DEF q2
  <2> QED BY <1>2, <1>4
<1> QED BY <1>5, <1>6

\* Broadcasts: what is still to be copied is in send_buf; and the buffer that
\* is broadcast is not the one rank 0 fills.
NcclInv ==
  /\ QueueOk(pack)
  /\ op0.stage # "done" /\ pack.at = "pack" => op0.fill # pack.fill
  /\ \A w \in Workers : /\ FromBuf(w, bufs[w].send)
                        /\ gen[w] = "first" => copies[w] = <<>> /\ ipc[w] # "full"

\* Every step of the broadcast keeps its part of the invariant.
LEMMA NcclInvStep ==
  ASSUME TypeOK, NcclInv, backend = "nccl",
         \/ Nccl!Sender \/ Nccl!Publish \/ Nccl!Broadcast
         \/ \E w \in Workers : Nccl!Worker(w) \/ Nccl!Thread(w) \/ Nccl!RunCopy(w)
  PROVE  NcclInv'
<1>0. /\ NcclTypes /\ IpcTypes /\ Source = Place
      /\ copies \in [Workers -> Seq(Copies)]
      /\ gen \in [Workers -> {"first", "yield", "last", "done"}]
      /\ ipc \in [Workers -> {"pull", "full", "last", "done"}]
  BY DEF TypeOK, Source, NcclTypes, IpcTypes
<1>w. \A w \in Workers : op[w] \in Ops /\ bufs[w] \in Pairs /\ meta[w] \in Metas
  BY <1>0 DEF NcclTypes
<1>f. pack.fill \in 0 .. 1 /\ op0.fill \in 0 .. 1
  BY <1>0 DEF NcclTypes, Packs
<1>g. ASSUME QueueOk(pack'), op0'.stage # "done" /\ pack'.at = "pack" => op0'.fill # pack'.fill,
             \A w \in Workers :
               /\ FromBufNext(w, bufs'[w].send)
               /\ gen'[w] = "first" => copies'[w] = <<>> /\ ipc'[w] # "full"
      PROVE  NcclInv'
  BY <1>g DEF NcclInv, FromBuf, FromBufNext
<1>1. ASSUME UNCHANGED <<copies, ipc, held>>, QueueOk(pack'),
             \A w \in Workers : bufs'[w].send = bufs[w].send /\ gen'[w] = gen[w],
             op0'.stage # "done" /\ pack'.at = "pack" => op0'.fill # pack'.fill
      PROVE  NcclInv'
  <2>1. ASSUME NEW w \in Workers
        PROVE  /\ FromBufNext(w, bufs'[w].send)
               /\ gen'[w] = "first" => copies'[w] = <<>> /\ ipc'[w] # "full"
    BY <1>1 DEF NcclInv, FromBuf, FromBufNext
  <2> QED BY <1>1, <1>g, <2>1
<1>q. QueueOk(pack) /\ (pack' = pack => QueueOk(pack'))
  BY DEF NcclInv
<1>2. CASE Nccl!Pack \/ Nccl!RunPack \/ Nccl!StartBroadcast \/ Nccl!Return
  <2>1. UNCHANGED <<copies, ipc, held, bufs, gen>>
    BY <1>2 DEF Nccl!Pack, Nccl!RunPack, Nccl!StartBroadcast, Nccl!Return, Nccl!ipcVars,
                Nccl!receiverVars
  <2>2. op0'.stage # "done" /\ pack'.at = "pack" => op0'.fill # pack'.fill
    <3>1. CASE Nccl!Pack \/ Nccl!RunPack
      <4>1. op0' = op0 /\ pack'.fill = pack.fill /\ pack'.at = pack.at
        BY <1>0, <3>1 DEF Nccl!Pack, Nccl!RunPack, NcclTypes, Packs
      <4> QED BY <4>1 DEF NcclInv
    <3>2. CASE Nccl!StartBroadcast
      <4>1. op0'.fill = pack.fill /\ (pack'.at = "pack" => pack'.fill = 1 - pack.fill)
        BY <1>0, <3>2 DEF Nccl!StartBroadcast, Nccl!Other, NcclTypes, Packs
      <4> QED BY <1>f, <4>1
    <3>3. CASE Nccl!Return
      BY <1>0, <3>3 DEF Nccl!Return, NcclTypes, Packs
    <3> QED BY <1>2, <3>1, <3>2, <3>3
  <2>3. QueueOk(pack')
    <3>p. pack \in Packs
      BY <1>0 DEF NcclTypes
    <3>1. CASE Nccl!Pack
      BY <1>q, <3>p, <3>1, QueueSteps DEF Nccl!Pack
    <3>2. CASE Nccl!RunPack
      BY <1>q, <3>p, <3>2, QueueSteps DEF Nccl!RunPack
    <3>3. CASE Nccl!StartBroadcast \/ Nccl!Return
      <4>1. pack'.copies = <<>>
        BY <1>q, <3>p, <3>3 DEF Nccl!StartBroadcast, Nccl!Packed, Nccl!Return, QueueOk, Packs
      <4> QED BY <4>1 DEF QueueOk
    <3> QED BY <1>2, <3>1, <3>2, <3>3
  <2> QED BY <1>1, <2>1, <2>2, <2>3
<1>3. CASE Nccl!Publish \/ Nccl!Broadcast
  <2>1. UNCHANGED <<copies, ipc, held, bufs, gen, pack>> /\ op0'.fill = op0.fill
        /\ op0.stage # "done"
    BY <1>0, <1>3 DEF Nccl!Publish, Nccl!Broadcast, Nccl!ipcVars, Nccl!receiverVars, NcclTypes
  <2> QED BY <1>1, <1>q, <2>1 DEF NcclInv
<1>4. ASSUME NEW w \in Workers, Nccl!Join(w) \/ Nccl!Arrive(w) PROVE NcclInv'
  <2>1. UNCHANGED <<copies, ipc, held, gen, pack, op0>>
    BY <1>4 DEF Nccl!Join, Nccl!Arrive, Nccl!ipcVars, Nccl!senderVars
  <2>2. \A v \in Workers : bufs'[v].send = bufs[v].send
    <3>1. PICK q : bufs' = [bufs EXCEPT ![w].data[Nccl!Recv(w)] = q]
      BY <1>4 DEF Nccl!Join, Nccl!Arrive
    <3> QED BY <1>0, <1>w, <3>1 DEF NcclTypes, Pairs
  <2> QED BY <1>1, <1>q, <2>1, <2>2 DEF NcclInv
<1>5. ASSUME NEW w \in Workers, Nccl!NextBucket(w) PROVE NcclInv'
  <2>1. /\ UNCHANGED <<copies, ipc, held, pack, op0>> /\ ipc[w] = "pull"
        /\ gen[w] = "first" \/ copies[w] = <<>>
        /\ gen'[w] # "first" /\ \A v \in Workers : v # w => gen'[v] = gen[v] /\ bufs'[v] = bufs[v]
    BY <1>0, <1>5 DEF Nccl!NextBucket, Nccl!ipcVars, Nccl!senderVars, Nccl!ViewsCopied,
                      Nccl!Synchronized, NcclTypes
  <2>2. copies[w] = <<>>
    BY <2>1 DEF NcclInv
  <2>3. ASSUME NEW v \in Workers
        PROVE  /\ FromBufNext(v, bufs'[v].send)
               /\ gen'[v] = "first" => copies'[v] = <<>> /\ ipc'[v] # "full"
    <3>1. CASE v = w
      BY <2>1, <2>2, <3>1 DEF FromBufNext
    <3>2. CASE v # w
      BY <2>1, <3>2 DEF NcclInv, FromBuf, FromBufNext
    <3> QED BY <3>1, <3>2
  <2>4. op0'.stage # "done" /\ pack'.at = "pack" => op0'.fill # pack'.fill
    BY <2>1 DEF NcclInv
  <2> QED BY <1>g, <1>q, <2>1, <2>3, <2>4
<1>6. ASSUME NEW w \in Workers, UNCHANGED <<pack, op0, bufs>>,
             \A v \in Workers : gen'[v] = "first" => gen[v] = "first",
             \/ \E t \in Tensors, from \in Place :
                  Pulls(w, t, from) /\ from.buf = bufs[w].send /\ gen[w] # "first"
             \/ PullEnds(w) \/ IpcStep(w) \/ Copied(w)
      PROVE  NcclInv'
  <2>1. ASSUME NEW v \in Workers PROVE FromBufNext(v, bufs'[v].send)
    <3>1. FromBuf(v, bufs[v].send) /\ bufs' = bufs
      BY <1>6 DEF NcclInv
    <3>2. FromBufNext(v, bufs[v].send)
      <4>1. CASE PullEnds(w) \/ IpcStep(w) \/ Copied(w)
        BY <1>0, <3>1, <4>1, LinkFrom
      <4>2. ASSUME NEW t \in Tensors, NEW from \in Place, Pulls(w, t, from),
                   from.buf = bufs[w].send
            PROVE  FromBufNext(v, bufs[v].send)
        <5>1. w = v => from.buf = bufs[v].send
          BY <4>2
        <5> QED BY <1>0, <3>1, <4>2, <5>1, LinkFrom
      <4> QED BY <1>6, <4>1, <4>2
    <3> QED BY <3>1, <3>2
  <2>2. ASSUME NEW v \in Workers, gen'[v] = "first" PROVE copies'[v] = <<>> /\ ipc'[v] # "full"
    <3>1. gen[v] = "first" /\ copies[v] = <<>> /\ ipc[v] # "full"
      BY <1>6, <2>2 DEF NcclInv
    <3>2. CASE v # w
      BY <1>0, <1>6, <3>1, <3>2, LinkFrame
    <3>3. CASE v = w
      <4>1. PullEnds(v) \/ IpcStep(v) \/ Copied(v)
        BY <1>6, <3>1, <3>3
      <4> QED BY <1>0, <3>1, <4>1
          DEF PullEnds, IpcStep, Copied, InitBuffer, SendBucket, Load, RunLoad, Reply
    <3> QED BY <3>2, <3>3
  <2>3. op0'.stage # "done" /\ pack'.at = "pack" => op0'.fill # pack'.fill
    BY <1>6 DEF NcclInv
  <2> QED BY <1>6, <1>g, <1>q, <2>1, <2>2, <2>3
<1>7. ASSUME NEW w \in Workers, NcclYields(w) PROVE NcclInv'
  <2>1. /\ meta[w].bucket.tensors \in Seq(Tensors) /\ meta[w].yielded \in Nat
        /\ Len(meta[w].bucket.tensors) \in Nat /\ bufs[w].send \in 0 .. 1
    BY <1>w, PartTypes
  <2>2. meta[w].yielded + 1 \in 1 .. Len(meta[w].bucket.tensors)
    BY <1>7, <2>1 DEF NcclYields
  <2>3. /\ meta[w].bucket.tensors[meta[w].yielded + 1] \in Tensors
        /\ [buf |-> bufs[w].send, place |-> meta[w].yielded + 1] \in Place
    BY <2>1, <2>2 DEF Place
  <2>4. gen[w] # "first" /\ UNCHANGED <<pack, op0, bufs, gen>>
    BY <1>7 DEF NcclYields
  <2> QED BY <1>6, <1>7, <2>3, <2>4 DEF NcclYields
<1>8. ASSUME NEW w \in Workers, NcclEnds(w) PROVE NcclInv'
  <2>1. UNCHANGED <<pack, op0, bufs>> /\ PullEnds(w)
        /\ \A v \in Workers : gen'[v] = "first" => gen[v] = "first"
    BY <1>0, <1>8 DEF NcclEnds
  <2> QED BY <1>6, <2>1
<1>9. ASSUME NEW w \in Workers, (IpcStep(w) \/ Copied(w)) /\ UNCHANGED ncclVars PROVE NcclInv'
  BY <1>6, <1>9 DEF ncclVars
<1> QED BY <1>2, <1>3, <1>4, <1>5, <1>7, <1>8, <1>9, NcclCases DEF Nccl!Sender, Nccl!Thread

\* The chain: between a rank and the next one there is one bucket at most, in
\* the buffer the rank sent last.
Flight(w) ==
  /\ Len(messages[w]) <= 1
  /\ read[w].stage = "reading" => messages[w] = <<>>
  /\ readable[w - 1] # "announced" => messages[w] = <<>> /\ read[w].stage # "reading"

Sent(w) == IF w = 1 THEN 1 - chainPack.fill ELSE chainMeta[w - 1].send

\* Once rank 0 has sent its last bucket, it does not fill another.
FromSent(w) ==
  w # 1 \/ chainPack.at = "pack" =>
    /\ messages[w] # <<>> => messages[w][1].from = Sent(w)
    /\ read[w].stage = "reading" => read[w].from = Sent(w)

\* Before its first bucket a worker has announced and yielded nothing.
Unsent(w) ==
  chainGen[w] \in {"first", "firstRead"} =>
    readable[w] = "none" /\ copies[w] = <<>> /\ ipc[w] # "full"

NixlIdle == \A w \in Workers : messages[w] = <<>> /\ read[w].stage = "none"

NixlInv ==
  /\ QueueOk(chainPack)
  /\ group = "built" => N # 1
  /\ N = 1 => NixlIdle
  /\ \A w \in Workers :
       Flight(w) /\ FromSent(w) /\ Unsent(w) /\ FromBuf(w, chainMeta[w].send)

\* A sequence of one item at most, when there is one.
LEMMA OneItem ==
  ASSUME NEW S, NEW q \in Seq(S), q # <<>>, Len(q) <= 1
  PROVE  Tail(q) = <<>> /\ Head(q) = q[1]
<1>1. Len(q) \in Nat /\ Len(q) # 0
  BY EmptySeq
<1>2. Len(q) = 1
  BY <1>1
<1>3. Tail(q) \in Seq(S) /\ Len(Tail(q)) = 0
  BY <1>2, HeadTailProperties
<1>4. Tail(q) = <<>>
  BY <1>3, EmptySeq
<1> QED BY <1>4

\* Whom a rank announces a bucket to.
LEMMA AnnounceIs ==
  ASSUME N # 1, NEW r \in 0 .. N, NEW b, NEW q, NEW last, Nixl!Announce(r, b, q, last)
  PROVE  IF r = N THEN UNCHANGED <<messages, readable>>
         ELSE /\ messages' = [messages EXCEPT ![r + 1] =
                                Append(@, [from |-> b, tensors |-> q, last |-> last])]
              /\ readable' = [readable EXCEPT ![r] = "announced"]
<1>0. N \in Nat \ {0} /\ Workers = 1 .. N
  BY WorkersAre
<1>1. Nixl!NextRank(r) = IF r = N THEN -1 ELSE r + 1
  <2>1. CASE r = 0
    BY <1>0, <2>1, NextIs
  <2>2. CASE r # 0
    <3>1. r \in Workers
      BY <1>0, <2>2
    <3> QED BY <3>1, NextIs
  <2> QED BY <2>1, <2>2
<1>2. Nixl!NextRank(r) \in Workers <=> r # N
  BY <1>0, <1>1
<1> QED BY <1>1, <1>2 DEF Nixl!Announce

\* The link's steps keep what the chain needs.
LEMMA NixlLinkStep ==
  ASSUME TypeOK, NixlInv, backend = "nixl", NEW w \in Workers,
         UNCHANGED <<group, messages, read, readable, chainPack>>,
         \A v \in Workers : chainMeta'[v].send = chainMeta[v].send,
         \A v \in Workers : chainGen'[v] \in {"first", "firstRead"} => chainGen'[v] = chainGen[v],
         \/ \E t \in Tensors, from \in Place :
              /\ Pulls(w, t, from) /\ from.buf = chainMeta[w].send
              /\ chainGen[w] \notin {"first", "firstRead"}
         \/ PullEnds(w) \/ IpcStep(w) \/ Copied(w)
  PROVE  NixlInv'
<1>0. IpcTypes /\ Source = Place
  BY DEF TypeOK, Source
<1>1. ASSUME NEW v \in Workers PROVE FromBuf(v, chainMeta[v].send)'
  <2>1. FromBuf(v, chainMeta[v].send)
    BY DEF NixlInv
  <2>2. FromBufNext(v, chainMeta[v].send)
    <3>1. CASE PullEnds(w) \/ IpcStep(w) \/ Copied(w)
      BY <1>0, <2>1, <3>1, LinkFrom
    <3>2. ASSUME NEW t \in Tensors, NEW from \in Place, Pulls(w, t, from),
                 from.buf = chainMeta[w].send
          PROVE  FromBufNext(v, chainMeta[v].send)
      <4>1. w = v => from.buf = chainMeta[v].send
        BY <3>2
      <4> QED BY <1>0, <2>1, <3>2, <4>1, LinkFrom
    <3> QED BY <3>1, <3>2
  <2> QED BY <2>2 DEF FromBuf, FromBufNext
<1>2. ASSUME NEW v \in Workers PROVE Unsent(v)'
  <2> SUFFICES ASSUME chainGen'[v] \in {"first", "firstRead"}
               PROVE  readable'[v] = "none" /\ copies'[v] = <<>> /\ ipc'[v] # "full"
    BY DEF Unsent
  <2>1. /\ chainGen[v] \in {"first", "firstRead"}
        /\ readable[v] = "none" /\ copies[v] = <<>> /\ ipc[v] # "full"
    BY DEF NixlInv, Unsent
  <2>2. CASE v # w
    BY <1>0, <2>1, <2>2, LinkFrame
  <2>3. CASE v = w
    <3>1. PullEnds(v) \/ IpcStep(v) \/ Copied(v)
      BY <2>1, <2>3
    <3> QED BY <1>0, <2>1, <3>1
        DEF PullEnds, IpcStep, Copied, InitBuffer, SendBucket, Load, RunLoad, Reply, IpcTypes
  <2> QED BY <2>2, <2>3
<1>3. ASSUME NEW v \in Workers PROVE Flight(v)' /\ FromSent(v)'
  <2>1. Flight(v) /\ FromSent(v) /\ (v # 1 => v - 1 \in Workers)
    BY WorkersAre DEF NixlInv
  <2>2. Sent(v)' = Sent(v)
    BY <2>1 DEF Sent
  <2> QED BY <2>1, <2>2 DEF Flight, FromSent
<1>4. (group = "built" => N # 1)' /\ (N = 1 => NixlIdle)' /\ QueueOk(chainPack)'
  BY DEF NixlInv, NixlIdle, N, QueueOk
<1> QED BY <1>1, <1>2, <1>3, <1>4 DEF NixlInv

\* Every step of the chain keeps its part.
LEMMA NixlInvStep ==
  ASSUME TypeOK, NixlInv, backend = "nixl",
         \/ Nixl!BuildProcessGroup \/ Nixl!Sender
         \/ \E w \in Workers : Nixl!Worker(w) \/ Nixl!Transfer(w) \/ Nixl!RunCopy(w)
  PROVE  NixlInv'
<1>0. /\ NixlTypes /\ IpcTypes /\ Source = Place
      /\ copies \in [Workers -> Seq(Copies)]
      /\ readable \in [0 .. N -> {"none", "announced", "read"}]
      /\ messages \in [Workers -> Seq(Messages)]
      /\ read \in [Workers -> Reads] /\ chainMeta \in [Workers -> ChainMetas]
      /\ chainGen \in [Workers -> {"first", "firstRead", "next", "yield", "last", "done"}]
      /\ chainPack \in Packs
  BY DEF TypeOK, Source, NixlTypes, IpcTypes
<1>n. N \in Nat \ {0} /\ Workers = 1 .. N
  BY WorkersAre
<1>w. \A w \in Workers : /\ read[w] \in Reads /\ chainMeta[w] \in ChainMetas
                         /\ messages[w] \in Seq(Messages) /\ Len(messages[w]) \in Nat
                         /\ w \in 0 .. N /\ w - 1 \in 0 .. N
  BY <1>0, <1>n
<1>i. \A w \in Workers :
        Flight(w) /\ FromSent(w) /\ Unsent(w) /\ FromBuf(w, chainMeta[w].send)
  BY DEF NixlInv
<1>l. UNCHANGED <<copies, ipc, held>>
        => \A w \in Workers : chainMeta'[w].send = chainMeta[w].send
                                => FromBuf(w, chainMeta[w].send)'
  BY <1>i DEF FromBuf
<1>1. CASE Nixl!BuildProcessGroup
  <2>1. UNCHANGED <<ipcVars, chainPack, data, readable, messages, chainGen, chainMeta, read>>
        /\ (group' = "built" => N # 1)
    BY <1>1, BuiltMany DEF Nixl!BuildProcessGroup, Nixl!ipcVars, ipcVars
  <2> QED BY <2>1
      DEF NixlInv, NixlIdle, Flight, FromSent, Sent, Unsent, FromBuf, ipcVars, N, QueueOk
<1>q. QueueOk(chainPack) /\ (chainPack' = chainPack => QueueOk(chainPack)')
  BY DEF NixlInv, QueueOk
<1>2. CASE Nixl!Pack \/ Nixl!RunPack \/ Nixl!Return
  <2>1. UNCHANGED <<ipcVars, group, readable, messages, chainGen, chainMeta, read>>
    BY <1>2 DEF Nixl!Pack, Nixl!RunPack, Nixl!Return, Nixl!ipcVars, ipcVars
  <2>2. chainPack'.fill = chainPack.fill /\ (chainPack'.at = "pack" => chainPack.at = "pack")
    BY <1>0, <1>2 DEF Nixl!Pack, Nixl!RunPack, Nixl!Return, Packs
  <2>3. QueueOk(chainPack')
    <3>1. CASE Nixl!Pack
      BY <1>0, <1>q, <3>1, QueueSteps DEF Nixl!Pack
    <3>2. CASE Nixl!RunPack
      BY <1>0, <1>q, <3>2, QueueSteps DEF Nixl!RunPack
    <3>3. CASE Nixl!Return
      <4>1. chainPack'.copies = <<>>
        BY <1>0, <1>q, <3>3 DEF Nixl!Return, QueueOk, Packs
      <4> QED BY <4>1 DEF QueueOk
    <3> QED BY <1>2, <3>1, <3>2, <3>3
  <2>4. QueueOk(chainPack)'
    BY <2>3 DEF QueueOk
  <2> QED BY <2>1, <2>2, <2>4
      DEF NixlInv, NixlIdle, Flight, FromSent, Sent, Unsent, FromBuf, ipcVars, N
<1>3. CASE Nixl!SendPacked
  <2>1. UNCHANGED <<ipcVars, group, chainGen, chainMeta, read>> /\ readable[0] # "announced"
        /\ N # 1 /\ 1 \in Workers
    BY <1>3, <1>n DEF Nixl!SendPacked, Nixl!ipcVars, ipcVars, Nixl!ReadByNext, NixlInv
  <2> DEFINE m == [from |-> chainPack.fill, tensors |-> chainPack.meta,
                   last |-> chainPack.next \notin Nixl!Tensors]
  <2>2. /\ messages' = [messages EXCEPT ![1] = Append(@, m)]
        /\ readable' = [readable EXCEPT ![0] = "announced"]
    <3>1. 0 \in 0 .. N /\ 0 # N /\ 0 + 1 = 1
      BY <1>n
    <3> QED BY <1>3, <2>1, <3>1, AnnounceIs DEF Nixl!SendPacked
  <2>3. m.from = chainPack.fill
    OBVIOUS
  <2> HIDE DEF m
  <2>4. messages[1] = <<>> /\ read[1].stage # "reading"
    <3>1. Flight(1) /\ 1 - 1 = 0
      BY <1>i, <2>1
    <3> QED BY <2>1, <3>1 DEF Flight
  <2>5. messages'[1] = <<m>> /\ Len(<<m>>) = 1 /\ <<m>>[1] = m
    BY <1>0, <2>1, <2>2, <2>4
  <2>6. \A v \in Workers : v # 1 => messages'[v] = messages[v] /\ readable'[v - 1] = readable[v - 1]
    BY <1>0, <1>w, <2>2
  <2>7. \A v \in Workers : readable'[v] = readable[v]
    BY <1>0, <1>w, <1>n, <2>2
  <2>8. readable'[0] = "announced"
    BY <1>0, <1>n, <2>2
  <2>9. chainPack'.at = "pack" => chainPack'.fill = 1 - chainPack.fill
    BY <1>0, <1>3 DEF Nixl!SendPacked, Nixl!Other, Packs
  <2>10. ASSUME NEW v \in Workers
         PROVE  Flight(v)' /\ FromSent(v)' /\ Unsent(v)' /\ FromBuf(v, chainMeta[v].send)'
    <3>1. Unsent(v)' /\ FromBuf(v, chainMeta[v].send)'
      BY <1>i, <2>1, <2>7 DEF Unsent, FromBuf, ipcVars
    <3>2. CASE v = 1
      <4>1. Flight(v)'
        <5>1. Len(messages'[v]) = 1
          BY <2>5, <3>2
        <5>2. read'[v].stage # "reading"
          BY <2>1, <2>4, <3>2
        <5>3. v - 1 = 0
          BY <3>2
        <5>4. readable'[v - 1] = "announced"
          BY <2>8, <5>3
        <5> QED BY <5>1, <5>2, <5>4 DEF Flight
      <4>2. chainPack.fill \in 0 .. 1
        BY <1>0 DEF Packs
      <4>3. chainPack'.at = "pack" => m.from = 1 - chainPack'.fill
        BY <2>3, <2>9, <4>2
      <4>4. FromSent(v)'
        BY <2>1, <2>4, <2>5, <3>2, <4>3 DEF FromSent, Sent
      <4> QED BY <3>1, <4>1, <4>4
    <3>3. CASE v # 1
      <4>1. Flight(v)' /\ FromSent(v)'
        BY <1>i, <2>1, <2>6, <3>3 DEF Flight, FromSent, Sent
      <4> QED BY <3>1, <4>1
    <3> QED BY <3>2, <3>3
  <2>11. QueueOk(chainPack)'
    <3>1. chainPack'.copies = <<>>
      BY <1>0, <1>3 DEF Nixl!SendPacked, Nixl!Packed, Packs
    <3> QED BY <3>1 DEF QueueOk
  <2> QED BY <2>1, <2>10, <2>11 DEF NixlInv, N
<1>4. ASSUME NEW w \in Workers, Nixl!BeginRead(w) PROVE NixlInv'
  <2>1. /\ UNCHANGED <<ipcVars, group, chainPack, readable, chainMeta>> /\ messages[w] # <<>>
        /\ messages' = [messages EXCEPT ![w] = Tail(@)]
    BY <1>4 DEF Nixl!BeginRead, Nixl!ipcVars, ipcVars
  <2>2. N # 1
    BY <2>1 DEF NixlInv, NixlIdle
  <2>3. /\ messages'[w] = <<>> /\ Head(messages[w]) = messages[w][1]
        /\ readable[w - 1] = "announced"
    <3>1. Len(messages[w]) <= 1 /\ messages[w] \in Seq(Messages)
      BY <1>i, <1>w DEF Flight
    <3>3. messages'[w] = Tail(messages[w])
      BY <1>0, <2>1
    <3>4. Tail(messages[w]) = <<>> /\ Head(messages[w]) = messages[w][1]
      BY <2>1, <3>1, OneItem
    <3>5. readable[w - 1] = "announced"
      BY <1>i, <2>1 DEF Flight
    <3> QED BY <3>3, <3>4, <3>5
  <2>4. read'[w].stage = "reading" /\ read'[w].from = messages[w][1].from
    BY <1>0, <1>4, <2>3 DEF Nixl!BeginRead
  <2>5. \A v \in Workers : v # w => messages'[v] = messages[v] /\ read'[v] = read[v]
    BY <1>0, <1>4, <2>1 DEF Nixl!BeginRead
  <2>6. \A v \in Workers : chainGen'[v] \in {"first", "firstRead"}
                             => chainGen[v] \in {"first", "firstRead"}
    BY <1>0, <1>4 DEF Nixl!BeginRead
  <2>7. ASSUME NEW v \in Workers
        PROVE  Flight(v)' /\ FromSent(v)' /\ Unsent(v)' /\ FromBuf(v, chainMeta[v].send)'
    <3>1. Unsent(v)' /\ FromBuf(v, chainMeta[v].send)'
      BY <1>i, <2>1, <2>6 DEF Unsent, FromBuf, ipcVars
    <3>2. CASE v = w
      <4>1. Flight(v)'
        <5>1. messages'[v] = <<>> /\ Len(<<>>) = 0
          BY <2>3, <3>2
        <5>2. readable'[v - 1] = "announced"
          BY <2>1, <2>3, <3>2
        <5> QED BY <5>1, <5>2 DEF Flight
      <4>2. FromSent(v)'
        BY <1>i, <2>1, <2>3, <2>4, <3>2 DEF FromSent, Sent
      <4> QED BY <3>1, <4>1, <4>2
    <3>3. CASE v # w
      <4>1. Flight(v)' /\ FromSent(v)'
        BY <1>i, <2>1, <2>5, <3>3 DEF Flight, FromSent, Sent
      <4> QED BY <3>1, <4>1
    <3> QED BY <3>2, <3>3
  <2> QED BY <1>q, <2>1, <2>2, <2>7 DEF NixlInv, N
<1>5. ASSUME NEW w \in Workers, Nixl!Transfer(w) PROVE NixlInv'
  <2>1. /\ UNCHANGED <<ipcVars, group, chainPack, messages, chainGen, chainMeta>>
        /\ read[w].stage = "reading"
        /\ readable' = [readable EXCEPT ![w - 1] = "read"]
    BY <1>5, Prev DEF Nixl!Transfer, Nixl!ipcVars, ipcVars
  <2>2. N # 1
    BY <2>1 DEF NixlInv, NixlIdle
  <2>3. messages[w] = <<>> /\ readable[w - 1] = "announced"
    BY <1>i, <2>1 DEF Flight
  <2>4. /\ read'[w].stage = "done" /\ \A v \in Workers : v # w => read'[v] = read[v]
    BY <1>0, <1>w, <1>5 DEF Nixl!Transfer, Reads
  <2>5. \A v \in Workers : v # w => readable'[v - 1] = readable[v - 1]
    BY <1>0, <1>w, <1>n, <2>1
  <2>6. \A v \in Workers : v # w - 1 => readable'[v] = readable[v]
    BY <1>0, <1>w, <1>n, <2>1
  <2>7. ASSUME NEW v \in Workers
        PROVE  Flight(v)' /\ FromSent(v)' /\ Unsent(v)' /\ FromBuf(v, chainMeta[v].send)'
    <3>1. FromBuf(v, chainMeta[v].send)'
      BY <1>i, <2>1 DEF FromBuf, ipcVars
    <3>2. Unsent(v)'
      <4>1. CASE v = w - 1
        BY <1>i, <2>1, <2>3, <4>1 DEF Unsent, ipcVars
      <4>2. CASE v # w - 1
        BY <1>i, <2>1, <2>6, <4>2 DEF Unsent, ipcVars
      <4> QED BY <4>1, <4>2
    <3>3. CASE v = w
      <4>1. Flight(v)'
        BY <2>1, <2>3, <2>4, <3>3 DEF Flight
      <4>2. FromSent(v)'
        BY <2>1, <2>3, <2>4, <3>3 DEF FromSent, Sent
      <4> QED BY <3>1, <3>2, <4>1, <4>2
    <3>4. CASE v # w
      <4>1. Flight(v)' /\ FromSent(v)'
        BY <1>i, <2>1, <2>4, <2>5, <3>4 DEF Flight, FromSent, Sent
      <4> QED BY <3>1, <3>2, <4>1
    <3> QED BY <3>3, <3>4
  <2> QED BY <1>q, <2>1, <2>2, <2>7 DEF NixlInv, N
<1>6. ASSUME NEW w \in Workers, Nixl!NextBucket(w) PROVE NixlInv'
  <2>1. /\ UNCHANGED <<ipcVars, group, chainPack>> /\ read[w].stage = "done"
        /\ chainGen[w] = "firstRead"
           \/ (ipc[w] = "pull" /\ readable[w] # "announced" /\ copies[w] = <<>>)
    BY <1>6 DEF Nixl!NextBucket, Nixl!ipcVars, ipcVars, Nixl!ReadByNext, Nixl!ViewsCopied,
                Nixl!Synchronized
  <2>2. N # 1
    BY <2>1 DEF NixlInv, NixlIdle
  <2>3. ipc[w] # "full" /\ readable[w] # "announced" /\ copies[w] = <<>>
    BY <1>i, <2>1 DEF Unsent
  <2>s. Nixl!Recv(w) \in 0 .. 1
    BY <1>w, ChainPartTypes DEF Nixl!Recv, Nixl!Other
  <2>4. /\ chainMeta'[w].send = Nixl!Recv(w) /\ read'[w].stage = "none"
        /\ chainGen'[w] \notin {"first", "firstRead"}
        /\ \A v \in Workers : v # w =>
             chainMeta'[v] = chainMeta[v] /\ read'[v] = read[v] /\ chainGen'[v] = chainGen[v]
    BY <1>0, <1>6 DEF Nixl!NextBucket, Reads
  <2> DEFINE m == [from |-> Nixl!Recv(w), tensors |-> read[w].tensors, last |-> read[w].last]
  <2>5. IF w = N THEN UNCHANGED <<messages, readable>>
        ELSE /\ messages' = [messages EXCEPT ![w + 1] = Append(@, m)]
             /\ readable' = [readable EXCEPT ![w] = "announced"]
    BY <1>6, <1>w, <2>2, AnnounceIs DEF Nixl!NextBucket
  <2>6. m.from = Nixl!Recv(w)
    OBVIOUS
  <2> HIDE DEF m
  <2>7. \A v \in Workers : v # w + 1 =>
          messages'[v] = messages[v] /\ readable'[v - 1] = readable[v - 1]
    <3>1. \A v \in Workers : v # w + 1 => messages'[v] = messages[v]
      BY <1>0, <2>5
    <3>2. \A r \in 0 .. N : r # w => readable'[r] = readable[r]
      BY <1>0, <2>5
    <3>3. \A v \in Workers : v # w + 1 => v - 1 \in 0 .. N /\ v - 1 # w
      BY <1>w, <1>n
    <3> QED BY <3>1, <3>2, <3>3
  <2>8. \A v \in Workers : v # w => readable'[v] = readable[v]
    BY <1>0, <1>w, <1>n, <2>5
  <2>9. ASSUME NEW v \in Workers
        PROVE  Flight(v)' /\ FromSent(v)' /\ Unsent(v)' /\ FromBuf(v, chainMeta[v].send)'
    <3>1. Unsent(v)' /\ FromBuf(v, chainMeta[v].send)'
      <4>1. CASE v = w
        BY <2>1, <2>3, <2>4, <4>1 DEF Unsent, FromBuf, ipcVars
      <4>2. CASE v # w
        BY <1>i, <2>1, <2>4, <2>8, <4>2 DEF Unsent, FromBuf, ipcVars
      <4> QED BY <4>1, <4>2
    <3>2. CASE v = w + 1
      <4>1. w # N /\ v # 1 /\ v - 1 = w /\ v # w
        BY <1>n, <3>2
      <4>2. messages[v] = <<>> /\ read[v].stage # "reading"
        BY <1>i, <2>3, <4>1 DEF Flight
      <4>3. messages'[v] = <<m>> /\ Len(<<m>>) = 1 /\ <<m>>[1] = m
        BY <1>0, <2>5, <3>2, <4>1, <4>2
      <4>4. readable'[v - 1] = "announced"
        BY <1>0, <1>w, <2>5, <4>1
      <4>5. Flight(v)'
        BY <2>4, <4>1, <4>2, <4>3, <4>4 DEF Flight
      <4>6. FromSent(v)'
        BY <2>4, <2>6, <4>1, <4>2, <4>3 DEF FromSent, Sent
      <4> QED BY <3>1, <4>5, <4>6
    <3>3. CASE v # w + 1
      <4>1. messages'[v] = messages[v] /\ readable'[v - 1] = readable[v - 1]
            /\ (read'[v].stage = "reading" => read[v].stage = "reading" /\ read'[v] = read[v])
        BY <2>4, <2>7, <3>3
      <4>2. Sent(v)' = Sent(v)
        <5>1. v # 1 => v - 1 \in Workers /\ v - 1 # w
          BY <1>n, <3>3
        <5> QED BY <2>1, <2>4, <5>1 DEF Sent
      <4>3. Flight(v)' /\ FromSent(v)'
        BY <1>i, <2>1, <4>1, <4>2 DEF Flight, FromSent
      <4> QED BY <3>1, <4>3
    <3> QED BY <3>2, <3>3
  <2> QED BY <1>q, <2>1, <2>2, <2>9 DEF NixlInv, N
<1>7. ASSUME NEW w \in Workers, NixlYields(w) PROVE NixlInv'
  <2>1. /\ chainMeta[w].tensors \in Seq(Tensors) /\ chainMeta[w].yielded \in Nat
        /\ Len(chainMeta[w].tensors) \in Nat /\ chainMeta[w].send \in 0 .. 1
    BY <1>w, ChainPartTypes
  <2>2. chainMeta[w].yielded + 1 \in 1 .. Len(chainMeta[w].tensors)
    BY <1>7, <2>1 DEF NixlYields
  <2>3. /\ chainMeta[w].tensors[chainMeta[w].yielded + 1] \in Tensors
        /\ [buf |-> chainMeta[w].send, place |-> chainMeta[w].yielded + 1] \in Place
    BY <2>1, <2>2 DEF Place
  <2>4. \A v \in Workers : chainMeta'[v].send = chainMeta[v].send
    BY <1>0, <1>w, <1>7 DEF NixlYields, ChainMetas
  <2>5. /\ chainGen[w] \notin {"first", "firstRead"} /\ chainGen' = chainGen
        /\ UNCHANGED <<group, messages, read, readable, chainPack>>
    BY <1>7 DEF NixlYields
  <2> QED BY <1>7, <2>3, <2>4, <2>5, NixlLinkStep DEF NixlYields
<1>8. ASSUME NEW w \in Workers, NixlEnds(w) PROVE NixlInv'
  <2>1. /\ UNCHANGED <<group, messages, read, readable, chainPack, chainMeta>> /\ PullEnds(w)
        /\ \A v \in Workers : chainGen'[v] \in {"first", "firstRead"} => chainGen'[v] = chainGen[v]
    BY <1>0, <1>8 DEF NixlEnds
  <2> QED BY <2>1, NixlLinkStep
<1>9. ASSUME NEW w \in Workers, (IpcStep(w) \/ Copied(w)) /\ UNCHANGED nixlVars PROVE NixlInv'
  <2>1. UNCHANGED <<group, messages, read, readable, chainPack, chainMeta, chainGen>>
    BY <1>9 DEF nixlVars
  <2> QED BY <1>9, <2>1, NixlLinkStep
<1> QED BY <1>1, <1>2, <1>3, <1>4, <1>5, <1>6, <1>7, <1>8, <1>9, NixlCases DEF Nixl!Sender

\* Engines that are not used do nothing.
NcclIdle == op0.stage = "done" /\ \A w \in Workers : op[w].stage = "metadata"

RaceInv ==
  /\ backend = "nccl" => NcclInv
  /\ backend # "nccl" => NcclIdle
  /\ backend = "nixl" => NixlInv
  /\ backend # "nixl" => NixlIdle

\* The invariant holds at first.
LEMMA InitRaceInv == Init => RaceInv
<1> SUFFICES ASSUME Init PROVE RaceInv
  OBVIOUS
<1>0. Len(<<>>) = 0
  OBVIOUS
<1>1. NcclIdle /\ NixlIdle
  BY DEF Init, Nccl!Init, Nixl!Init, NcclIdle, NixlIdle
<1>2. \A w \in Workers : copies[w] = <<>> /\ ipc[w] = "pull"
  BY DEF Init, Naive!Init, Naive!IpcInit
<1>3. \A w \in Workers, b \in 0 .. 1 : FromBuf(w, b)
  BY <1>0, <1>2 DEF FromBuf
<1>q. QueueOk(pack) /\ QueueOk(chainPack)
  BY <1>0 DEF Init, Nccl!Init, Nixl!Init, QueueOk
<1>4. NcclInv
  BY <1>1, <1>2, <1>3, <1>q DEF NcclInv, NcclIdle, Init, Nccl!Init
<1>5. NixlInv
  <2>1. /\ group = "none" /\ \A w \in Workers : chainMeta[w].send = 0 /\ readable[w] = "none"
    BY WorkersAre DEF Init, Nixl!Init
  <2> QED BY <1>0, <1>1, <1>2, <1>3, <1>q, <2>1 DEF NixlInv, NixlIdle, Flight, FromSent, Unsent
<1> QED BY <1>1, <1>4, <1>5 DEF RaceInv

\* Every step keeps it.
LEMMA RaceInvStep == TypeOK /\ RaceInv /\ [Next]_vars => RaceInv'
<1> SUFFICES ASSUME TypeOK, RaceInv, [Next]_vars PROVE RaceInv'
  OBVIOUS
<1>k. UNCHANGED ncclVars => (NcclIdle => NcclIdle')
  BY DEF ncclVars, NcclIdle
<1>x. UNCHANGED nixlVars => (NixlIdle => NixlIdle')
  BY DEF nixlVars, NixlIdle
<1>1. CASE \E w \in Workers : ByNaive(Naive!Worker(w)) \/ ByNaive(Naive!RunCopy(w))
  BY <1>1, <1>k, <1>x DEF ByNaive, RaceInv
<1>2. CASE \/ ByNccl(Nccl!Sender) \/ ByNccl(Nccl!Publish) \/ ByNccl(Nccl!Broadcast)
           \/ \E w \in Workers : \/ ByNccl(Nccl!Worker(w)) \/ ByNccl(Nccl!Thread(w))
                                 \/ ByNccl(Nccl!RunCopy(w))
  BY <1>2, <1>x, NcclInvStep DEF ByNccl, RaceInv
<1>3. CASE \/ ByNixl(Nixl!BuildProcessGroup) \/ ByNixl(Nixl!Sender)
           \/ \E w \in Workers : \/ ByNixl(Nixl!Worker(w)) \/ ByNixl(Nixl!Transfer(w))
                                 \/ ByNixl(Nixl!RunCopy(w))
  BY <1>3, <1>k, NixlInvStep DEF ByNixl, RaceInv
<1>4. CASE UNCHANGED vars
  BY <1>4 DEF vars, ipcVars, naiveVars, ncclVars, nixlVars, RaceInv, NcclInv, NcclIdle, NixlInv,
              NixlIdle, Flight, FromSent, Sent, Unsent, FromBuf, N, QueueOk
<1> QED BY <1>1, <1>2, <1>3, <1>4
    DEF Next, Group, Sender, Publish, Broadcast, Worker, Transport, RunCopy

\* Both engines pass on one buffer while they fill the other, for any number
\* of workers and tensors, any sizes and any interleaving of their threads.
THEOREM BuffersApart == Spec => []NoDataRace
<1>1. TypeOK /\ RaceInv => NoDataRace
  <2> SUFFICES ASSUME TypeOK, RaceInv PROVE Nccl!NoDataRace /\ Nixl!NoDataRace
    BY DEF NoDataRace
  <2>1. Nccl!NoDataRace
    <3>1. CASE backend = "nccl"
      <4>1. ASSUME NEW w \in Workers, NEW i \in DOMAIN copies[w]
            PROVE  copies[w][i].from.buf # Nccl!Recv(w)
        <5>1. bufs[w] \in Pairs /\ copies[w] \in Seq(Copies)
          BY DEF TypeOK, NcclTypes, IpcTypes
        <5>2. bufs[w].send \in 0 .. 1 /\ i \in 1 .. Len(copies[w])
          BY <5>1, PartTypes
        <5>3. copies[w][i].from.buf = bufs[w].send
          BY <3>1, <5>2 DEF RaceInv, NcclInv, FromBuf
        <5> QED BY <5>2, <5>3 DEF Nccl!Recv, Nccl!Other
      <4>2. ASSUME op0.stage # "done", NEW i \in DOMAIN pack.copies
            PROVE  pack.copies[i].buf # op0.fill
        <5>1. pack.copies \in Seq(PackCopies)
          BY DEF TypeOK, NcclTypes, Packs
        <5>2. i \in 1 .. Len(pack.copies) /\ pack.copies # <<>>
          BY <5>1
        <5>3. QueueOk(pack) /\ NcclInv
          BY <3>1 DEF RaceInv, NcclInv
        <5>4. pack.copies[i].buf = pack.fill /\ pack.at = "pack"
          BY <5>2, <5>3 DEF QueueOk
        <5> QED BY <4>2, <5>3, <5>4 DEF NcclInv
      <4> QED BY <3>1, <4>1, <4>2 DEF RaceInv, NcclInv, Nccl!NoDataRace
    <3>2. CASE backend # "nccl"
      BY <3>2 DEF RaceInv, NcclIdle, Nccl!NoDataRace
    <3> QED BY <3>1, <3>2
  <2>2. Nixl!NoDataRace
    <3>1. CASE backend = "nixl"
      <4>t. \A w \in Workers : /\ chainMeta[w].send \in 0 .. 1
                               /\ copies[w] \in Seq(Copies) /\ messages[w] \in Seq(Messages)
        <5>1. \A w \in Workers : /\ chainMeta[w] \in ChainMetas
                                 /\ copies[w] \in Seq(Copies) /\ messages[w] \in Seq(Messages)
          BY DEF TypeOK, NixlTypes, IpcTypes
        <5> QED BY <5>1, ChainPartTypes
      <4>1. ASSUME NEW w \in Workers, NEW i \in DOMAIN copies[w]
            PROVE  copies[w][i].from.buf # Nixl!Recv(w)
        <5>1. i \in 1 .. Len(copies[w])
          BY <4>t
        <5>2. copies[w][i].from.buf = chainMeta[w].send
          BY <3>1, <5>1 DEF RaceInv, NixlInv, FromBuf
        <5> QED BY <4>t, <5>2 DEF Nixl!Recv, Nixl!Other
      <4>2. ASSUME NEW w \in Workers, w # 1 \/ chainPack.at = "pack",
                   NEW b \in {messages[w][i].from : i \in DOMAIN messages[w]}
                      \cup (IF read[w].stage = "reading" THEN {read[w].from} ELSE {})
            PROVE  b = Sent(w)
        <5>1. Flight(w) /\ FromSent(w)
          BY <3>1 DEF RaceInv, NixlInv
        <5>2. CASE b \in {messages[w][i].from : i \in DOMAIN messages[w]}
          <6>1. PICK i \in DOMAIN messages[w] : b = messages[w][i].from
            BY <5>2
          <6>2. i \in 1 .. Len(messages[w]) /\ Len(messages[w]) \in Nat
            BY <4>t
          <6>3. i = 1 /\ messages[w] # <<>>
            BY <5>1, <6>2 DEF Flight
          <6> QED BY <4>2, <5>1, <6>1, <6>3 DEF FromSent
        <5>3. CASE b \in (IF read[w].stage = "reading" THEN {read[w].from} ELSE {})
          BY <4>2, <5>1, <5>3 DEF FromSent
        <5> QED BY <5>2, <5>3
      <4>3. ASSUME NEW w \in Workers
            PROVE  LET r == Nixl!PrevAgents[w]
                       inUse == {messages[w][i].from : i \in DOMAIN messages[w]}
                          \cup (IF read[w].stage = "reading" THEN {read[w].from} ELSE {})
                   IN IF r = 0
                      THEN /\ chainPack.at = "pack" => chainPack.fill \notin inUse
                           /\ \A i \in DOMAIN chainPack.copies :
                                chainPack.copies[i].buf \notin inUse
                      ELSE read[r].stage = "reading" => Nixl!Recv(r) \notin inUse
        <5>1. Nixl!PrevAgents[w] = w - 1 /\ (w # 1 => w - 1 \in Workers) /\ w \in Nat
          BY Prev, WorkersAre
        <5>2. chainPack.fill \in 0 .. 1
          BY DEF TypeOK, NixlTypes, Packs
        <5>q. ASSUME NEW i \in DOMAIN chainPack.copies
              PROVE  chainPack.copies[i].buf = chainPack.fill /\ chainPack.at = "pack"
          <6>1. chainPack.copies \in Seq(PackCopies)
            BY DEF TypeOK, NixlTypes, Packs
          <6>2. i \in 1 .. Len(chainPack.copies) /\ chainPack.copies # <<>>
            BY <6>1
          <6>3. QueueOk(chainPack)
            BY <3>1 DEF RaceInv, NixlInv
          <6> QED BY <6>2, <6>3 DEF QueueOk
        <5>3. CASE w = 1
          <6>1. Sent(w) # chainPack.fill
            BY <5>2, <5>3 DEF Sent
          <6>2. chainPack.at = "pack" =>
                  chainPack.fill \notin {messages[w][i].from : i \in DOMAIN messages[w]}
                     \cup (IF read[w].stage = "reading" THEN {read[w].from} ELSE {})
            BY <4>2, <6>1
          <6> QED BY <5>q, <5>1, <5>3, <6>2
        <5>4. CASE w # 1
          <6>1. Sent(w) # Nixl!Recv(w - 1)
            BY <4>t, <5>1, <5>4 DEF Sent, Nixl!Recv, Nixl!Other
          <6> QED BY <4>2, <5>1, <5>4, <6>1
        <5> QED BY <5>3, <5>4
      <4> QED BY <4>1, <4>3 DEF Nixl!NoDataRace
    <3>2. CASE backend # "nixl"
      <4>1. \A w \in Workers : messages[w] = <<>> /\ read[w].stage = "none"
        BY <3>2 DEF RaceInv, NixlIdle
      <4> QED BY <4>1 DEF Nixl!NoDataRace
    <3> QED BY <3>1, <3>2
  <2> QED BY <2>1, <2>2
<1> QED BY <1>1, InitTypes, TypeStep, InitRaceInv, RaceInvStep, PTL DEF Spec
=============================================================================

------------------------------ MODULE NixlChain ------------------------------
(***************************************************************************)
(* NIXLCheckpointEngine: rank 0 of the trainer and the rollout workers,    *)
(* ranks 1, 2, ... , form a chain along which buckets are handed: a rank   *)
(* announces a bucket to the next one (ReadableOperation), which reads it  *)
(* out of the rank's memory by itself (ReadOperation, the transfer is      *)
(* external) and so notifies the rank.  Every rank has two buffers: rank 0 *)
(* packs one while the other is read; a worker yields the tensors of one   *)
(* to its inference worker (BucketedTransfer), and lets the next rank read *)
(* it, while it reads the next bucket into the other.                      *)
(***************************************************************************)
EXTENDS BucketedTransfer

CONSTANT TrainerWorldSize  \* at least 1

VARIABLES
  group,     \* build_process_group: "none", "built", or "raised"
  pack,      \* rank 0: next tensor, buffer it packs, bucket_meta, copies not
             \* carried out yet, and whether it has come to its last bucket
  data,      \* the two buffers of each rank
  readable,  \* its readable operation: whether the next rank has read
  messages,  \* announcements on the way to each worker
  gen,       \* receive_weights of each worker
  meta,      \* the bucket a worker yields, how much of it is yielded, and
             \* which buffer is send_buf
  read       \* its read operation, and the bucket it reads

vars == <<ipcVars, group, pack, data, readable, messages, gen, meta, read>>

Rank == 0 .. Cardinality(Workers)
NumWorkers == Cardinality(Workers)

Init ==
  /\ IpcInit
  /\ group = "none"
  /\ pack = [next |-> 1, fill |-> 0, meta |-> <<>>, copies |-> <<>>, at |-> "pack"]
  /\ data = [r \in Rank |-> [b \in 0 .. 1 |-> <<>>]]
  /\ readable = [r \in Rank |-> "none"]
  /\ messages = [w \in Workers |-> <<>>]
  /\ gen = [w \in Workers |-> "first"]
  /\ meta = [w \in Workers |-> [tensors |-> <<>>, last |-> FALSE, yielded |-> 0, send |-> 0]]
  /\ read = [w \in Workers |-> [stage |-> "none", from |-> 0, tensors |-> <<>>, last |-> FALSE]]

-----------------------------------------------------------------------------
(* CheckpointEngineManager.build_process_group and build_topology.         *)

\* What Python takes for a slice: metadata[k:], k negative from the end.
From(seq, k) == IF k < 0 THEN SubSeq(seq, Len(seq) + k + 1, Len(seq))
                ELSE SubSeq(seq, k + 1, Len(seq))

\* The agents of all ranks, trainers first; those of the trainer but the
\* first one take no part.
Metadata == [i \in 1 .. TrainerWorldSize + NumWorkers |->
               IF i > TrainerWorldSize THEN i - TrainerWorldSize
               ELSE IF i = 1 THEN 0 ELSE -i]

\* next_agent_metadata and prev_agent_metadata of the rollout workers; None
\* is -1.
NextAgents == Append(From(Metadata, 1 - NumWorkers), -1)
PrevAgents == <<Metadata[1]>> \o Front(From(Metadata, -NumWorkers))

BuildProcessGroup ==
  /\ group = "none"
  /\ group' = IF Len(NextAgents) = NumWorkers /\ Len(PrevAgents) = NumWorkers
              THEN "built" ELSE "raised"
  /\ UNCHANGED <<ipcVars, pack, data, readable, messages, gen, meta, read>>

NextRank(r) == IF r = 0 THEN From(Metadata, -NumWorkers)[1] ELSE NextAgents[r]

-----------------------------------------------------------------------------

\* send_buf, recv_buf = recv_buf, send_buf
Other(b) == 1 - b

\* ReadableOperation: the bucket in buffer b of rank r is announced.
Announce(r, b, tensors, last) ==
  IF NextRank(r) \in Workers
  THEN /\ messages' = [messages EXCEPT ![NextRank(r)] =
                         Append(@, [from |-> b, tensors |-> tensors, last |-> last])]
       /\ readable' = [readable EXCEPT ![r] = "announced"]
  ELSE UNCHANGED <<messages, readable>>

\* Mutation: the next rank may still be reading.
Mut_ReadByNext(r) == TRUE

\* ReadableOperation.wait_for_complete returns, if there is one.
ReadByNext(r) == readable[r] # "announced"

-----------------------------------------------------------------------------
(* Rank 0: send_weights.                                                   *)

\* A tensor is to be copied into the bucket.
Pack ==
  /\ group = "built" /\ pack.at = "pack" /\ pack.next \in Tensors
  /\ Fits(pack.meta, pack.next, BucketSize)
  /\ pack' = [pack EXCEPT !.next = @ + 1, !.meta = Append(@, pack.next),
                          !.copies = Append(@, [tensor |-> pack.next, buf |-> pack.fill,
                                                first |-> pack.meta = <<>>])]
  /\ UNCHANGED <<ipcVars, group, data, readable, messages, gen, meta, read>>

\* The device carries out the oldest copy; the first one of a bucket starts
\* the buffer again.
RunPack ==
  /\ pack.copies # <<>>
  /\ LET copy == Head(pack.copies)
     IN data' = [data EXCEPT ![0][copy.buf] = Append(IF copy.first THEN <<>> ELSE @, copy.tensor)]
  /\ pack' = [pack EXCEPT !.copies = Tail(@)]
  /\ UNCHANGED <<ipcVars, group, readable, messages, gen, meta, read>>

\* synchronize, before the bucket is announced.
Packed == pack.copies = <<>>

\* A full bucket, or the last one, is announced once it is packed and the one
\* before it has been read.
SendPacked ==
  /\ group = "built" /\ pack.at = "pack" /\ Packed /\ ReadByNext(0)
  /\ pack.next \in Tensors => ~Fits(pack.meta, pack.next, BucketSize)
  /\ Announce(0, pack.fill, pack.meta, pack.next \notin Tensors)
  /\ pack' = IF pack.next \in Tensors
             THEN [pack EXCEPT !.fill = Other(@), !.meta = <<>>]
             ELSE [pack EXCEPT !.at = "last"]
  /\ UNCHANGED <<ipcVars, group, data, gen, meta, read>>

Return ==
  /\ pack.at = "last" /\ ReadByNext(0)
  /\ pack' = [pack EXCEPT !.at = "done"]
  /\ UNCHANGED <<ipcVars, group, data, readable, messages, gen, meta, read>>

-----------------------------------------------------------------------------
(* A rollout worker: receive_weights.                                      *)

Recv(w) == Other(meta[w].send)

\* read_metadata returns, and begin_read starts: what recv_buf holds is being
\* replaced from now on.
BeginRead(w) ==
  /\ gen[w] \in {"first", "next"} /\ link[w] # "init" /\ messages[w] # <<>>
  /\ LET message == Head(messages[w])
     IN read' = [read EXCEPT ![w] = [stage |-> "reading", from |-> message.from,
                                     tensors |-> message.tensors, last |-> message.last]]
  /\ messages' = [messages EXCEPT ![w] = Tail(@)]
  /\ data' = [data EXCEPT ![w][Recv(w)] = <<>>]
  /\ gen' = [gen EXCEPT ![w] = IF @ = "first" THEN "firstRead" ELSE "yield"]
  /\ UNCHANGED <<ipcVars, group, pack, readable, meta>>

\* The transfer ends; the rank that was read from is notified.
Transfer(w) ==
  /\ read[w].stage = "reading"
  /\ data' = [data EXCEPT ![w][Recv(w)] = data[PrevAgents[w]][read[w].from]]
  /\ read' = [read EXCEPT ![w].stage = "done"]
  /\ readable' = [readable EXCEPT ![PrevAgents[w]] = "read"]
  /\ UNCHANGED <<ipcVars, group, pack, messages, gen, meta>>

AllYielded(w) == meta[w].yielded = Len(meta[w].tensors)

\* synchronize, before the buffers are swapped.
ViewsCopied(w) == Synchronized(w)

\* The bucket is there, and the one before it yielded and read: the buffers
\* are swapped, and it is announced to the next rank.
NextBucket(w) ==
  /\ read[w].stage = "done"
  /\ \/ gen[w] = "firstRead"
     \/ gen[w] = "yield" /\ AllYielded(w) /\ ipc[w] = "pull"
        /\ ReadByNext(w) /\ ViewsCopied(w)
  /\ Announce(w, Recv(w), read[w].tensors, read[w].last)
  /\ meta' = [meta EXCEPT ![w] = [tensors |-> read[w].tensors, last |-> read[w].last,
                                  yielded |-> 0, send |-> Recv(w)]]
  /\ read' = [read EXCEPT ![w].stage = "none"]
  /\ gen' = [gen EXCEPT ![w] = IF read[w].last THEN "last" ELSE "next"]
  /\ UNCHANGED <<ipcVars, group, pack, data>>

Yield(w) ==
  /\ gen[w] \in {"yield", "last"} /\ ~AllYielded(w)
  /\ LET place == meta[w].yielded + 1
     IN Pull(w, meta[w].tensors[place], [buf |-> meta[w].send, place |-> place])
  /\ meta' = [meta EXCEPT ![w].yielded = @ + 1]
  /\ UNCHANGED <<group, pack, data, readable, messages, gen, read>>

EndOfWeights(w) ==
  /\ gen[w] = "last" /\ AllYielded(w) /\ ReadByNext(w) /\ PullEnd(w)
  /\ gen' = [gen EXCEPT ![w] = "done"]
  /\ UNCHANGED <<group, pack, data, readable, messages, meta, read>>

RunCopy(w) ==
  /\ copies[w] # <<>>
  /\ LET from == Head(copies[w]).from
     IN Copy(w, At(data[w][from.buf], from.place))
  /\ UNCHANGED <<group, pack, data, readable, messages, gen, meta, read>>

Sender == Pack \/ RunPack \/ SendPacked \/ Return
Worker(w) ==
  \/ BeginRead(w) \/ NextBucket(w) \/ Yield(w) \/ EndOfWeights(w)
  \/ IpcStep(w) /\ UNCHANGED <<group, pack, data, readable, messages, gen, meta, read>>

-----------------------------------------------------------------------------
\* No buffer is written while it is read: while a bucket is announced and not
\* read yet, its rank neither packs it nor has a copy into it left, nor reads
\* into it; and a worker does not read into a buffer from which a tensor is
\* still to be copied.
NoDataRace ==
  /\ \A w \in Workers :
       LET r == PrevAgents[w]
           inUse == {messages[w][i].from : i \in DOMAIN messages[w]}
                      \cup (IF read[w].stage = "reading" THEN {read[w].from} ELSE {})
       IN IF r = 0 THEN /\ pack.at = "pack" => pack.fill \notin inUse
                        /\ \A i \in DOMAIN pack.copies : pack.copies[i].buf \notin inUse
          ELSE read[r].stage = "reading" => Recv(r) \notin inUse
  /\ \A w \in Workers : read[w].stage = "reading" =>
       \A i \in DOMAIN copies[w] : copies[w][i].from.buf # Recv(w)
=============================================================================

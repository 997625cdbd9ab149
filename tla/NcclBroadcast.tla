---------------------------- MODULE NcclBroadcast ----------------------------
(***************************************************************************)
(* NCCLCheckpointEngine: rank 0 of the trainer broadcasts its tensors in   *)
(* buckets to the rollout workers, each of which hands them on to its      *)
(* inference worker (BucketedTransfer).  Every process has two buffers:    *)
(* rank 0 packs one while the other is broadcast, a rollout worker yields  *)
(* the tensors of one while the other is received.  A broadcast runs in a  *)
(* thread of its own: first the bucket's metadata over PUB/SUB, then the   *)
(* data in a collective (both external), which is over for nobody before   *)
(* everybody has joined it.                                                *)
(***************************************************************************)
EXTENDS BucketedTransfer

VARIABLES
  pack,    \* rank 0: next tensor, buffer it packs, bucket_meta, copies not
           \* carried out yet, and whether it has come to its last bucket
  buf0,    \* its buffers
  op0,     \* its broadcast operation
  topic,   \* metadata on the way to each worker
  gen,     \* receive_weights of each worker
  meta,    \* the bucket a worker yields, and how much of it is yielded
  bufs,    \* its buffers, and which one is send_buf
  op       \* its broadcast operation

vars == <<ipcVars, pack, buf0, op0, topic, gen, meta, bufs, op>>
senderVars == <<pack, buf0, op0, topic>>
receiverVars == <<gen, meta, bufs, op>>

Bucket(tensors, last) == [tensors |-> tensors, last |-> last]
NoBucket == Bucket(<<>>, FALSE)

Init ==
  /\ IpcInit
  /\ pack = [next |-> 1, fill |-> 0, meta |-> <<>>, copies |-> <<>>, at |-> "pack"]
  /\ buf0 = [b \in 0 .. 1 |-> <<>>]
  /\ op0 = [stage |-> "done", fill |-> 0, bucket |-> NoBucket]
  /\ topic = [w \in Workers |-> <<>>]
  /\ gen = [w \in Workers |-> "first"]
  /\ meta = [w \in Workers |-> [bucket |-> NoBucket, yielded |-> 0]]
  /\ bufs = [w \in Workers |-> [send |-> 0, data |-> [b \in 0 .. 1 |-> <<>>]]]
  /\ op = [w \in Workers |-> [stage |-> "metadata", bucket |-> NoBucket, data |-> <<>>]]

\* send_buf, recv_buf = recv_buf, send_buf
Other(b) == 1 - b

-----------------------------------------------------------------------------
(* Rank 0: send_weights and the thread of its broadcast.                   *)

\* A tensor is to be copied into the bucket.
Pack ==
  /\ pack.at = "pack" /\ pack.next \in Tensors
  /\ Fits(pack.meta, pack.next, BucketSize)
  /\ pack' = [pack EXCEPT !.next = @ + 1, !.meta = Append(@, pack.next),
                          !.copies = Append(@, [tensor |-> pack.next, buf |-> pack.fill,
                                                first |-> pack.meta = <<>>])]
  /\ UNCHANGED <<ipcVars, buf0, op0, topic, receiverVars>>

\* The device carries out the oldest copy; the first one of a bucket starts
\* the buffer again.
RunPack ==
  /\ pack.copies # <<>>
  /\ LET copy == Head(pack.copies)
     IN buf0' = [buf0 EXCEPT ![copy.buf] = Append(IF copy.first THEN <<>> ELSE @, copy.tensor)]
  /\ pack' = [pack EXCEPT !.copies = Tail(@)]
  /\ UNCHANGED <<ipcVars, op0, topic, receiverVars>>

\* Mutation: the device is not waited for.
Mut_Packed == TRUE

\* synchronize, before the bucket is broadcast.
Packed == pack.copies = <<>>

\* A full bucket, or the last one, is broadcast once it is packed and the
\* broadcast before it is over.
StartBroadcast ==
  /\ pack.at = "pack" /\ Packed /\ op0.stage = "done"
  /\ pack.next \in Tensors => ~Fits(pack.meta, pack.next, BucketSize)
  /\ op0' = [stage |-> "new", fill |-> pack.fill,
             bucket |-> Bucket(pack.meta, pack.next \notin Tensors)]
  /\ pack' = IF pack.next \in Tensors
             THEN [pack EXCEPT !.fill = Other(@), !.meta = <<>>]
             ELSE [pack EXCEPT !.at = "last"]
  /\ UNCHANGED <<ipcVars, buf0, topic, receiverVars>>

Return ==
  /\ pack.at = "last" /\ op0.stage = "done"
  /\ pack' = [pack EXCEPT !.at = "done"]
  /\ UNCHANGED <<ipcVars, buf0, op0, topic, receiverVars>>

Publish ==
  /\ op0.stage = "new"
  /\ op0' = [op0 EXCEPT !.stage = "published"]
  /\ topic' = [w \in Workers |-> Append(topic[w], op0.bucket)]
  /\ UNCHANGED <<ipcVars, pack, buf0, receiverVars>>

\* The collective, as rank 0 sees it.
Broadcast ==
  /\ op0.stage = "published" /\ \A w \in Workers : op[w].stage = "joined"
  /\ op0' = [op0 EXCEPT !.stage = "done"]
  /\ op' = [w \in Workers |-> [op[w] EXCEPT !.stage = "arriving", !.data = buf0[op0.fill]]]
  /\ UNCHANGED <<ipcVars, pack, buf0, topic, gen, meta, bufs>>

-----------------------------------------------------------------------------
(* A rollout worker: the thread of its broadcast and receive_weights.      *)

Recv(w) == Other(bufs[w].send)

\* It gets the metadata and joins; what recv_buf holds is being replaced.
Join(w) ==
  /\ op[w].stage = "metadata" /\ link[w] # "init" /\ topic[w] # <<>>
  /\ op' = [op EXCEPT ![w].stage = "joined", ![w].bucket = Head(topic[w])]
  /\ topic' = [topic EXCEPT ![w] = Tail(@)]
  /\ bufs' = [bufs EXCEPT ![w].data[Recv(w)] = <<>>]
  /\ UNCHANGED <<ipcVars, pack, buf0, op0, gen, meta>>

Arrive(w) ==
  /\ op[w].stage = "arriving"
  /\ bufs' = [bufs EXCEPT ![w].data[Recv(w)] = op[w].data]
  /\ op' = [op EXCEPT ![w].stage = "done", ![w].data = <<>>]
  /\ UNCHANGED <<ipcVars, senderVars, gen, meta>>

AllYielded(w) == meta[w].yielded = Len(meta[w].bucket.tensors)

\* synchronize, before the buffers are swapped.
ViewsCopied(w) == Synchronized(w)

\* The operation is over: the buffers are swapped, and the next one starts.
NextBucket(w) ==
  /\ op[w].stage = "done" /\ ipc[w] = "pull"
  /\ \/ gen[w] = "first"
     \/ gen[w] = "yield" /\ AllYielded(w) /\ ViewsCopied(w)
  /\ meta' = [meta EXCEPT ![w] = [bucket |-> op[w].bucket, yielded |-> 0]]
  /\ bufs' = [bufs EXCEPT ![w].send = Other(@)]
  /\ IF op[w].bucket.last
     THEN gen' = [gen EXCEPT ![w] = "last"] /\ UNCHANGED op
     ELSE /\ gen' = [gen EXCEPT ![w] = "yield"]
          /\ op' = [op EXCEPT ![w].stage = "metadata"]
  /\ UNCHANGED <<ipcVars, senderVars>>

Yield(w) ==
  /\ gen[w] \in {"yield", "last"} /\ ~AllYielded(w)
  /\ LET place == meta[w].yielded + 1
     IN Pull(w, meta[w].bucket.tensors[place], [buf |-> bufs[w].send, place |-> place])
  /\ meta' = [meta EXCEPT ![w].yielded = @ + 1]
  /\ UNCHANGED <<senderVars, gen, bufs, op>>

EndOfWeights(w) ==
  /\ gen[w] = "last" /\ AllYielded(w) /\ PullEnd(w)
  /\ gen' = [gen EXCEPT ![w] = "done"]
  /\ UNCHANGED <<senderVars, meta, bufs, op>>

RunCopy(w) ==
  /\ copies[w] # <<>>
  /\ LET from == Head(copies[w]).from
     IN Copy(w, At(bufs[w].data[from.buf], from.place))
  /\ UNCHANGED <<senderVars, receiverVars>>

Sender == Pack \/ RunPack \/ StartBroadcast \/ Return
Thread(w) == Join(w) \/ Arrive(w)
Worker(w) ==
  \/ NextBucket(w) \/ Yield(w) \/ EndOfWeights(w)
  \/ IpcStep(w) /\ UNCHANGED <<senderVars, receiverVars>>

-----------------------------------------------------------------------------
\* No buffer is written while it is read: rank 0 never packs the buffer that
\* is broadcast, nor has a copy into it left; and what a worker receives never
\* goes into a buffer from which a tensor is still to be copied.
NoDataRace ==
  /\ op0.stage # "done" =>
       /\ pack.at = "pack" => op0.fill # pack.fill
       /\ \A i \in DOMAIN pack.copies : pack.copies[i].buf # op0.fill
  /\ \A w \in Workers : op[w].stage \in {"joined", "arriving"} =>
       \A i \in DOMAIN copies[w] : copies[w][i].from.buf # Recv(w)
=============================================================================

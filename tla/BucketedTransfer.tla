-------------------------- MODULE BucketedTransfer --------------------------
(***************************************************************************)
(* bucketed_weight_transfer.py: the way of the weights from a rollout      *)
(* worker process into its inference worker, through one shared buffer.    *)
(* The sender packs tensors into the buffer and sends what is in it; the   *)
(* receiver loads them and replies; the sender starts the buffer again.    *)
(* Copies into the buffer, and out of it into the model, are asynchronous  *)
(* until the device synchronizes.                                          *)
(*                                                                         *)
(* Tensors are numbered in the trainer's order.  A buffer is a sequence of *)
(* tensors; 0 stands for bytes that belong to no tensor.  Where a tensor   *)
(* comes from is up to the modules that extend this one: they have a       *)
(* generator that yields to ipc "pull", and they run the copies.           *)
(***************************************************************************)
EXTENDS Integers, Sequences, SequencesExt, FiniteSets

CONSTANTS
  Workers,        \* ranks of the rollout workers, each with its inference worker
  NumTensors,     \* of the model
  Large,          \* bound: those of size two, the others have size one
  BucketSize,     \* of the checkpoint engine's buffers
  IpcBucketSize   \* update_weights_bucket_megabytes

Tensors == 1 .. NumTensors
Size(t) == IF t \in Large THEN 2 ELSE 1
Fits(meta, t, size) == FoldSeq(LAMBDA i, acc : Size(i) + acc, Size(t), meta) <= size

\* Rank 0 is the trainer's.  The code asserts that a tensor fits into a bucket.
ASSUME TransferAssumption ==
  /\ NumTensors \in Nat /\ Workers # {}
  /\ IsFiniteSet(Workers) /\ Workers = 1 .. Cardinality(Workers)
  /\ \A t \in Tensors : Size(t) <= BucketSize /\ Size(t) <= IpcBucketSize

VARIABLES
  ipc,      \* what the sender does: it pulls a tensor, it has one that does
            \* not fit, it has come to the last bucket, it is done
  held,     \* the tensor that does not fit, and where it is
  ipcMeta,  \* bucket_meta: the tensors of the current bucket
  ipcBuf,   \* the shared buffer
  copies,   \* copies into the buffer not carried out yet
  link,     \* the REQ/REP sockets: what the last message was
  loads,    \* of the receiver, not carried out yet: how many tensors each
  loaded    \* tensors the inference worker has loaded

ipcVars == <<ipc, held, ipcMeta, ipcBuf, copies, link, loads, loaded>>

IpcInit ==
  /\ ipc = [w \in Workers |-> "pull"] /\ held = [w \in Workers |-> <<>>]
  /\ ipcMeta = [w \in Workers |-> <<>>] /\ ipcBuf = [w \in Workers |-> <<>>]
  /\ copies = [w \in Workers |-> <<>>] /\ link = [w \in Workers |-> "init"]
  /\ loads = [w \in Workers |-> <<>>] /\ loaded = [w \in Workers |-> <<>>]

\* The sender has sent the handle of the buffer; the receiver maps it.
InitBuffer(w) ==
  /\ link[w] = "init" /\ link' = [link EXCEPT ![w] = "reply"]
  /\ UNCHANGED <<ipc, held, ipcMeta, ipcBuf, copies, loads, loaded>>

\* A tensor is to be copied from `from` behind the others of the bucket.
StartCopy(w, meta, pending, t, from) ==
  /\ ipcMeta' = [ipcMeta EXCEPT ![w] = Append(meta, t)]
  /\ copies' = [copies EXCEPT ![w] = Append(pending, [from |-> from, to |-> Len(meta) + 1])]

\* async_send_weights gets tensor t, which is at `from`, from its generator.
Pull(w, t, from) ==
  /\ ipc[w] = "pull" /\ link[w] = "reply"
  /\ IF Fits(ipcMeta[w], t, IpcBucketSize)
     THEN StartCopy(w, ipcMeta[w], copies[w], t, from) /\ UNCHANGED <<ipc, held>>
     ELSE /\ ipc' = [ipc EXCEPT ![w] = "full"]
          /\ held' = [held EXCEPT ![w] = <<t, from>>]
          /\ UNCHANGED <<ipcMeta, copies>>
  /\ UNCHANGED <<ipcBuf, link, loads, loaded>>

\* Its generator ends.
PullEnd(w) ==
  /\ ipc[w] = "pull" /\ link[w] = "reply"
  /\ ipc' = [ipc EXCEPT ![w] = "last"]
  /\ UNCHANGED <<held, ipcMeta, ipcBuf, copies, link, loads, loaded>>

\* Bytes written at a place of a buffer.
Written(buf, place, value) ==
  [i \in 1 .. IF place > Len(buf) THEN place ELSE Len(buf) |->
     IF i = place THEN value ELSE IF i > Len(buf) THEN 0 ELSE buf[i]]

\* What is at a place of a buffer.
At(buf, place) == IF place \in DOMAIN buf THEN buf[place] ELSE 0

\* The device carries out the oldest copy; value is what it finds.
Copy(w, value) ==
  /\ copies[w] # <<>>
  /\ ipcBuf' = [ipcBuf EXCEPT ![w] = Written(@, Head(copies[w]).to, value)]
  /\ copies' = [copies EXCEPT ![w] = Tail(@)]
  /\ UNCHANGED <<ipc, held, ipcMeta, link, loads, loaded>>

\* Mutation: the device is not waited for.
Mut_Synchronized(w) == TRUE

\* torch's synchronize returns.
Synchronized(w) == copies[w] = <<>>

\* The bucket is sent.
SendBucket(w) ==
  /\ ipc[w] \in {"full", "last"} /\ link[w] = "reply" /\ Synchronized(w)
  /\ link' = [link EXCEPT ![w] = "bucket"]
  /\ UNCHANGED <<ipc, held, ipcMeta, ipcBuf, copies, loads, loaded>>

\* receive_weights hands the tensors of the bucket, as views of the buffer, to
\* _update_weights, which has them loaded into the model.
Load(w) ==
  /\ link[w] = "bucket" /\ link' = [link EXCEPT ![w] = "loaded"]
  /\ loads' = [loads EXCEPT ![w] = Append(@, Len(ipcMeta[w]))]
  /\ UNCHANGED <<ipc, held, ipcMeta, ipcBuf, copies, loaded>>

\* The first n tensors in the buffer.
Received(w, n) == [i \in 1 .. n |-> At(ipcBuf[w], i)]

\* The receiver's device carries out the oldest load, of what it finds.
RunLoad(w) ==
  /\ loads[w] # <<>>
  /\ loaded' = [loaded EXCEPT ![w] = @ \o Received(w, Head(loads[w]))]
  /\ loads' = [loads EXCEPT ![w] = Tail(@)]
  /\ UNCHANGED <<ipc, held, ipcMeta, ipcBuf, copies, link>>

\* Mutation: the receiver's device is not waited for.
Mut_LoadsDone(w) == TRUE

\* The receiver's synchronize returns.
LoadsDone(w) == loads[w] = <<>>

\* The receiver replies, and the sender starts the buffer again.
Reply(w) ==
  /\ link[w] = "loaded" /\ LoadsDone(w) /\ link' = [link EXCEPT ![w] = "reply"]
  /\ IF ipc[w] = "full"
     THEN /\ ipc' = [ipc EXCEPT ![w] = "pull"]
          /\ StartCopy(w, <<>>, copies[w], held[w][1], held[w][2])
     ELSE /\ ipc' = [ipc EXCEPT ![w] = "done"]
          /\ UNCHANGED <<ipcMeta, copies>>
  /\ held' = [held EXCEPT ![w] = <<>>]
  /\ UNCHANGED <<ipcBuf, loads, loaded>>

\* All but the generator and the copies into the buffer.
IpcStep(w) == InitBuffer(w) \/ SendBucket(w) \/ Load(w) \/ RunLoad(w) \/ Reply(w)

\* A worker has loaded a beginning of the trainer's tensors.
Beginning(w) == loaded[w] = [i \in DOMAIN loaded[w] |-> i]

\* Of a worker that has not, there is no number.
Delivered == [w \in Workers |-> IF Beginning(w) THEN Len(loaded[w]) ELSE -1]
=============================================================================

---------------------------- MODULE WeightTransfer ----------------------------
(***************************************************************************)
(* One weight update, from the trainer into the inference workers, over    *)
(* the checkpoint engine the configuration names.  Every engine ends in    *)
(* the bucketed link of its rollout workers (BucketedTransfer).            *)
(***************************************************************************)
EXTENDS BucketedTransfer

CONSTANTS
  Backends,         \* the engines checked
  TrainerWorldSize  \* ranks of the trainer

ASSUME BackendAssumption ==
  /\ Backends \subseteq {"naive", "nccl", "nixl"} /\ TrainerWorldSize \in Nat \ {0}

VARIABLES
  backend,                                     \* config.backend
  next,                                        \* see NaiveTransfer,
  pack, buf0, op0, topic, gen, meta, bufs, op, \* NcclBroadcast
  group, chainPack, data, readable, messages,  \* and NixlChain
  chainGen, chainMeta, read

naiveVars == <<next>>
ncclVars == <<pack, buf0, op0, topic, gen, meta, bufs, op>>
nixlVars == <<group, chainPack, data, readable, messages, chainGen, chainMeta, read>>
vars == <<ipcVars, backend, naiveVars, ncclVars, nixlVars>>

Naive == INSTANCE NaiveTransfer
Nccl == INSTANCE NcclBroadcast
Nixl == INSTANCE NixlChain WITH pack <- chainPack, gen <- chainGen, meta <- chainMeta

Init == backend \in Backends /\ Naive!Init /\ Nccl!Init /\ Nixl!Init

ByNaive(step) == backend = "naive" /\ step /\ UNCHANGED <<backend, ncclVars, nixlVars>>
ByNccl(step) == backend = "nccl" /\ step /\ UNCHANGED <<backend, naiveVars, nixlVars>>
ByNixl(step) == backend = "nixl" /\ step /\ UNCHANGED <<backend, naiveVars, ncclVars>>

\* The trainer's rank 0 with its device, and what it waits for.
Group == ByNixl(Nixl!BuildProcessGroup)
Sender == ByNccl(Nccl!Sender) \/ ByNixl(Nixl!Sender)
Publish == ByNccl(Nccl!Publish)
Broadcast == ByNccl(Nccl!Broadcast)

\* A rollout worker with its inference worker, its transport, its device.
Worker(w) == ByNaive(Naive!Worker(w)) \/ ByNccl(Nccl!Worker(w)) \/ ByNixl(Nixl!Worker(w))
Transport(w) == ByNccl(Nccl!Thread(w)) \/ ByNixl(Nixl!Transfer(w))
RunCopy(w) == ByNaive(Naive!RunCopy(w)) \/ ByNccl(Nccl!RunCopy(w)) \/ ByNixl(Nixl!RunCopy(w))

Next ==
  \/ Group \/ Sender \/ Publish \/ Broadcast
  \/ \E w \in Workers : Worker(w) \/ Transport(w) \/ RunCopy(w)

\* Coroutines, threads, collectives, transfers and devices go on.
Fairness ==
  /\ WF_vars(Group) /\ WF_vars(Sender) /\ WF_vars(Publish) /\ WF_vars(Broadcast)
  /\ \A w \in Workers : WF_vars(Worker(w)) /\ WF_vars(Transport(w)) /\ WF_vars(RunCopy(w))

Spec == Init /\ [][Next]_vars /\ Fairness

(***************************************************************************)
(* Properties.                                                             *)
(***************************************************************************)

\* Both engines pass on one buffer while they fill the other: no buffer is
\* written while it is broadcast, read by the next rank, or copied from.
NoDataRace == Nccl!NoDataRace /\ Nixl!NoDataRace

\* Whatever the engine, through all the buffers on the way, the inference
\* workers load the trainer's tensors, each once, in order and all of them:
\* buckets are neither mixed up nor overwritten, and nobody waits for ever.
Delivery == INSTANCE WeightDelivery WITH Total <- NumTensors, loaded <- Delivered
Implements == Delivery!Spec
=============================================================================

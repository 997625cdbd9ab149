# Formal verification of the training pipelines

TLA+ specifications of the concurrent core of this repository (verl, under
`src/verl-main`, and the Video-R1 trainer built on it, under
`src/video-r1`), the TLC configurations that model-check them, and proofs
checked with TLAPS. `PROJECT.json` gives, for every definition that models code,
the lines it models. Paths below are relative to `src/verl-main/verl` unless
they say otherwise.

What a reader should know first:

- The repository is a reinforcement-learning trainer. Most of its lines are
  tensor code that no model checker can say anything about. What TLA+ can settle
  is the coordination: who may produce how many samples before the next weight
  update, when the processes of a training run wait for one another, what
  happens to a response that a weight update interrupts, which weights produced
  which token.
- The **fully asynchronous policy** is where that coordination is hardest: three
  actors (rollouter, message queue, trainer), five kinds of coroutine sharing one
  lock, and a weight synchronisation that aborts and resumes requests on several
  servers.
- **Checkpoints** come next: several worker groups of several ranks write one
  checkpoint, old ones are rotated meanwhile, and the job may die anywhere.
- **Weights travel in buckets** through pairs of buffers and asynchronous copies,
  over engines that differ; and the **transfer-queue trainer** samples from a
  table that a polling thread keeps up to date behind its back.
- The **batch algorithms** (partitioning, dispatch, advantages) are pure; they
  are checked against reference definitions over all bounded inputs, and what must
  hold of them is proved for every input. The **T-GRPO step** of Video-R1 composes some of them.

## 1. Inventory

| part | source | state it keeps | operations |
|---|---|---|---|
| message queue | `experimental/fully_async_policy/message_queue.py` | the deque, `running`, three counters, the waiters of one condition | put, get (blocking), sizes, clear, shutdown |
| rollouter | `.../fully_async_rollouter.py` | `pending_queue`, `active_tasks`, `paused` and `_resume_event`, `staleness_samples`, `lock`, `running` | feed, process (pause, drain, limit, end), generate, monitor, stop, `reset_staleness` |
| trainer | `.../fully_async_trainer.py` | `local_trigger_step`, `current_param_version`, `last_ckpt_version`, the batch being collected, the model saved for old log-probabilities | collect, train, sync, save |
| task runner | `.../fully_async_main.py` | the two components' futures | start both, wait for both, clear the queue |
| load balancer | `experimental/agent_loop/agent_loop.py` | in-flight count per server, LRU routing cache | `acquire_server`, `release_server` |
| partial-rollout client | `.../fully_async_policy/agent_loop/agent_loop.py` and `AsyncLLMServerManager` | the response so far, `stop_reason`, `min_global_steps`, `max_global_steps` | `generate`: call, merge, resend |
| weight synchronisation | `checkpoint_engine/base.py` | where `update_weights` is | abort, transfer, label, resume |
| vLLM server | `workers/rollout/vllm_rollout/` | weights, `global_steps`, paused, prefix cache | `generate`, `abort_all_requests`, `clear_kv_cache`, `set_global_steps`, `resume_generation` |
| T-GRPO trainer | `src/video-r1/video_r1/verl/trainer/ppo/video_ray_trainer.py` | one batch, the output of the second rollout | a second, frame-shuffled rollout, its reward, a bonus |
| synchronous trainer | `trainer/ppo/ray_trainer.py` | step, epoch, dataloader position, models | train, save, resume |
| checkpoint manager | `utils/checkpoint/` | checkpoint directories, `previous_saved_paths` of each group's rank 0 | save on every rank, rotate, find the latest |
| supervised fine-tuning | `trainer/sft_trainer.py`, `utils/checkpoint/checkpoint_handler.py` | the same on every rank, tracker file | train, save, resume |
| balancing, batches, single controller | `utils/seqlen_balancing.py`, `protocol.py`, `single_controller/` | none (pure functions of a batch) | partition, micro-batch, pad, chunk, reorder, dispatch, collect |
| advantage estimators | `trainer/ppo/core_algos.py` | none | GRPO, pass@k, RLOO, OPO, GAE |
| transfer engines | `checkpoint_engine/`, `workers/rollout/vllm_rollout/bucketed_weight_transfer.py` | two buffers per process, the shared buffer of a link, what is being packed, sent, read, yielded, copied | send, broadcast or read, receive, load |
| trainer over the transfer queue | `trainer/main_ppo_sync.py` | the replay buffer (status and step of each item), the batch, the poller's list | mark, dispatch, sample, validate, clear, remove; put results and statuses; poll |
| agent loops and tools, reward loop, one-step off-policy trainer, models, VLA replay pool | see `PROJECT.json` | not modelled | |

How they interact:

```
  feeder -> pending_queue -> processor -> task per sample --put_sample--> message queue
                                |   ^                                         |
                          pause |   | resume                              get_sample
                                |   |                                         v
  monitor --get_statistics------+---+---- reset_staleness <--- trainer (batch, train)
                                                                  |
                                             update_weights: abort, load, label, resume
                                                                  v
  agent loop --acquire/release--> load balancer            servers (vLLM engines)
       |                                                          ^
       +------------------ generate, resend ----------------------+
```

Behaviours that are hard, and what makes each part correct:

- **Queue.** Several getters wait in one condition; `put_sample` drops the
  oldest sample of a full queue; `shutdown` must release everyone. Correct: FIFO,
  loses only from its old end, every sample accounted for, no missed wake-up.
- **Rollouter.** `staleness_samples` is incremented by the processor without the
  lock and assigned by `reset_staleness` across an `await`; `active_tasks` is
  replaced by the set `asyncio.wait` was called with; the processor waits for
  tasks *while holding the lock* that `reset_staleness` needs; the monitor
  resumes on what it read before an `await`; a failed generation surfaces in
  one of three places. Correct: the number of samples a window costs is bounded,
  the concurrency limit holds, the end signal comes last, nobody waits for ever.
- **Trainer.** Counters that must agree (`local_trigger_step`, version, batches
  trained) are advanced in different methods. Correct: exactly one window of
  samples between two syncs, the old log-probabilities come from the model the
  rollouter generates with, the last checkpoint is complete.
- **Weight synchronisation.** Servers load the new weights at different times
  while clients resend aborted requests; releases are fire-and-forget. Correct: a
  sync is a single step as far as responses can tell, labels are true, no prefix
  computed with old weights is reused, counts on servers are exact.

- **Weight transfer.** Two buffers per process, three kinds of asynchrony
  (coroutines, a thread or a remote read, the device's copies), every hop at its
  own pace. Correct: no buffer is written while it is read, every tensor arrives
  once and in order, nobody waits for ever.
- **Replay buffer.** Workers put results while a thread copies the queue's tags
  into a table the trainer marks, samples and cleans. Correct: a sample is
  complete, it is of this batch, its data is still there, and it comes even when
  generations fail.
- **Checkpoints.** Four parts are written one after the other by different
  processes; rank 0 of each group removes old parts on its own count; the
  dataloader's state means something else at the end of an epoch. Correct: the
  checkpoint the tracker names is whole and of one moment, no batch is lost or
  repeated over a crash, the disk stays within its bound.
- **Batches.** Rows travel through permutations, paddings and splits that must
  undo each other, for tensors and non-tensor data alike. Correct: partitions are
  exact and balanced, every row comes back in its place with its uid.
- **T-GRPO.** A second rollout of the same prompts is compared with the first
  after the batch was reordered. Correct: the step gets through, and a shuffled
  answer is judged by its own prompt.

The hazards that a property of some run covers are listed in `PROJECT.json`, each
at its line. Further ones are described in section 4, where the model shows them
to be real, and in section 6, where nothing of them is modelled.

## 2. Modules

| module | what it is |
|---|---|
| `MessageQueue` | state and operations of the queue actor |
| `LossyFifo` | abstract: a window of numbered items that loses only from its old end |
| `MessageQueueActor` | the queue under concurrent callers; implements `LossyFifo` |
| `MessageQueue_proofs` | five theorems about it, the refinement among them |
| `FullyAsyncRollouter` | the rollouter's coroutines over the queue's operations |
| `FullyAsyncTrainer` | the trainer's coroutine |
| `FullyAsync` | rollouter, queue, trainer and task runner together; the properties |
| `SampleWindow` | abstract: the freshness promise, budget and quota of a window; `FullyAsync` implements it |
| `FullyAsync_proofs` | eleven theorems about the pipeline: budget, pausing, concurrency; where the samples are, versions, the refinement of `SampleWindow` |
| `LoadBalancer` | the routing actor |
| `AtomicSync` | abstract: a weight sync is one step |
| `WeightSync` | requests, servers and `update_weights` over the load balancer; implements `AtomicSync` |
| `WeightSync_proofs` | eight theorems about it, the refinement among them |
| `CheckpointManager` | the checkpoint directory and the save of one worker group, rank by rank |
| `RayCheckpoint` | training with `RayPPOTrainer`, its checkpoints, crash and resume |
| `DurableProgress` | abstract: a durable register of training states; `RayCheckpoint` implements it |
| `RayCheckpoint_proofs` | eight theorems about it, the refinement among them |
| `SftCheckpoint` | supervised fine-tuning, where every rank also saves its dataloader |
| `Orders` | Python's `sorted`, by counting what comes before |
| `SeqlenBalancing` | Karmarkar-Karp, micro-batches, group balancing, `_balance_batch` |
| `DataProto` | padding, chunks, concatenation, reordering, dispatch and collection |
| `Advantages` | outcome estimators and GAE in exact arithmetic |
| `BatchAlgorithms` | bounded inputs for those three, and what must hold of the results |
| `BatchAlgorithms_proofs` | the same for every input: six theorems |
| `BucketedTransfer` | the link of a rollout worker and its inference worker: one shared buffer, asynchronous copies |
| `NaiveTransfer`, `NcclBroadcast`, `NixlChain` | the engines: the trainer's generator as it is; broadcasts in double buffers; a chain of remote reads, with its topology |
| `WeightTransfer` | one weight update over any of the engines; implements `WeightDelivery` |
| `WeightDelivery` | abstract: every inference worker loads every tensor, once and in order |
| `WeightTransfer_proofs`, `WeightDelivery_proofs` | types and buffers; what is delivered |
| `ReplayBuffer` | the trainer over the transfer queue, its workers and its polling thread |
| `ReplayBuffer_proofs` | five theorems about it |
| `TGRPO` | the T-GRPO step, over `SeqlenBalancing` |

The modules with properties are model-checked directly: their constants are
numbers or small sets of model values, given in the `.cfg` files. `Mut_...`
definitions are plausible bugs (a dropped guard, an off-by-one, a missing
reset). They occur in no specification; each stands before the definition it
would replace, and shows that a property can fail.

### Correspondence with the code

*One action is what a coroutine does between two suspension points* (two
`await`s that can suspend). Consequences worth knowing when reading the models:

- A remote call to the queue actor is one action of the caller up to the `await`,
  the queue's own step, and one action when the reply arrives, wherever the
  caller's state can change meanwhile (`ResetBegin`, `ResetReadQueue`,
  `ResetFinish`; `TaskPut`, `TaskReturn`; `ProcReadQueue`, `ProcDecidePause`).
- `asyncio.Lock` is a queue, `lockq`: its holder, then its waiters in order.
  Taking an uncontended lock does not suspend in the code; here it is two steps, which
  only adds behaviours.
- `active_tasks` is the set of samples; `task` says where each one is. The
  processor is the only one that removes from it.
- The feeder's `put` suspends only on a full `pending_queue`, so it fills it in
  one step. The queue never shuts down during training (`mqRunning` stays TRUE).
- A model is the number of batches trained (`trainedBatches`, `rolloutBatches`,
  `savedModel`), a batch is the set of its samples.
- In `WeightSync` a token *is* the version of the weights that generated it, so
  a response is the history of who computed it.

Simplifications, beyond the data:

- `staleness_threshold` is an integer percentage; the truncation of a
  floating-point product is not modelled. The literal 16 (samples per server) is
  the constant `SamplesPerServer`.
- The task runner's own sync and reset precede `fit` and are part of `Init`.
- Saving because the ESI instance expires is left out. `SaveFreq = 0` stands for
  any `save_freq <= 0`; a `test_freq` of -1 gives the same remainder as 1.
- `SyncWeights` merges the weight update with the *call* of `reset_staleness`;
  the handler itself runs in steps. The pushes to the servers are the subject of
  `WeightSync`, where the versions are visible.
- `bypass_mode` is off, so the trainer recomputes old log-probabilities.
- In `WeightSync` the rollout is standalone, a replica is one server, callers set
  no `max_tokens`, `max_model_len` is at least `prompt_length +
  response_length`, and the reply to an aborted request is labelled in the step
  that aborts it. Every request comes from a worker of its own, so calls of
  different requests to the load balancer interleave freely: more orders than
  requests of one worker can have.

- *Checkpoints.* A file is `Missing`, `Torn` while it is open, or has contents,
  known by the step and the life of the job (the number of crashes before it).
  A rank's model, optimizer and extra files are one file. The steps of
  `shutil.rmtree` are one file each, in any order. `dirs` is the set of
  `global_step_N` directories: `find_latest_ckpt_path` looks at the directory
  only, so it can find one whose files are gone. The two barriers are guards on
  where the other ranks are. A crash takes the memory of all processes at once and
  leaves the disk; files are taken to be durable once closed. `async_save` is
  off, checkpoints are local, `resume_mode` is `auto`.
- *The dataloader* (external) is the number of batches it has yielded in the
  epoch; one restored at its end yields nothing before the next epoch. `TrainStep`
  counts the steps of the loop; during the critic's warm-up it counts steps in
  which the actor is not updated, and nothing is saved.
- *Batch algorithms.* Row numbers start at 1. The heap of Karmarkar-Karp is a set
  of states from which one that no other is less than, by `State.__lt__`, is taken. Python's
  slices, sorts and `zip`s are sequences; `Orders` gives a sorted sequence by how many
  elements come before each one, which is what a proof can use. Advantages are fractions, without the
  rescaling by standard deviations; with `Gamma` and `Lam` whole numbers, GAE is
  checked as an identity between polynomials at one point. `_balance_batch` is modelled
  as it is called: nothing passes `keep_minibatch`. That its groups can be
  dealt out to the ranks, which it checks (`ray_trainer.py:1081`), is a premise of `RowsReachRanks`.
- *Weight transfer.* Tensors are numbered in the trainer's order; a buffer is the
  sequence of the tensors in it, and a tensor has size one or two. Three kinds of
  copies are queued for a device and carried out later: rank 0's into its bucket
  (`copies` of `pack` and `chainPack`, `RunPack`), the sender's into the shared buffer (`copies`,
  `RunCopy`), and the receiver's into the model (`loads`, `RunLoad`). A copy reads and
  writes when it is carried out, so a buffer that is used too early shows up as a
  wrong tensor. Each `synchronize` is a guard: `Packed`, `Synchronized`, `ViewsCopied`, `LoadsDone`.
  `pull` of the link's sender is where its loop asks the engine's generator for
  the next tensor: the generator runs only then. A collective ends for nobody
  before everybody has joined; a remote read notifies the rank it read from.
  Sockets neither lose nor reorder. Ranks of the trainer other than 0 take no part.
- *Replay buffer.* Outputs of one session are one item. A uid is the step, the
  batch of the validation and the prompt. The poller's list is read in one step
  and added partition by partition; the trainer's clearing and removing are two
  steps. `Use` is everything between sampling and cleanup, a validation included.
- *T-GRPO.* A response is its length and whether it is right; every key of the
  batch that follows from prompt and response is a function of them. Prompts have
  one length. `accuracy_threshold` separates right from wrong.

## 3. Runs

`tlc -config <cfg> <module>` from this directory.

| run | module, configuration | question |
|---|---|---|
| `queue` | `MessageQueueActor`, `MessageQueueActor.cfg` | order, losses and wake-ups of the queue; implements `LossyFifo`; shutdown releases the getters |
| `pipeline` | `FullyAsync`, `FullyAsync_safety.cfg` | the budget over several windows with the invariant behind it, concurrency limit, end of the stream, no deadlock; implements `SampleWindow` |
| `pipeline_liveness` | `FullyAsync`, `FullyAsync_liveness.cfg` | versions and models agree; training ends, resets return, pauses end, also when a generation raises |
| `weight_sync` | `WeightSync`, `WeightSync_safety.cfg` | counts, routing, labels, prefix cache, lengths; implements `AtomicSync`; every request is answered |
| `ray_checkpoint` | `RayCheckpoint`, `RayCheckpoint.cfg` | what the tracker names is whole, batches are trained on once, rotation stays in bounds, training ends; implements `DurableProgress` |
| `algorithms` | `BatchAlgorithms`, `BatchAlgorithms.cfg` | partitions, micro-batches, dispatch and advantages against reference definitions |
| `transfer` | `WeightTransfer`, `WeightTransfer.cfg` | no buffer is written while it is read; implements `WeightDelivery`, over each engine |
| `replay` | `ReplayBuffer`, `ReplayBuffer.cfg` | samples are complete, of their own batch and still stored; training ends when agent loops raise |
| `synchronous` | `FullyAsync`, `FullyAsync_synchronous.cfg` | the documented fixed number at threshold 0: **violated** |
| `keep_one` | `RayCheckpoint`, `RayCheckpoint_keepone.cfg` | the old checkpoint stays until the new one is saved: **violated** |
| `sft_resume` | `SftCheckpoint`, `SftCheckpoint_resume.cfg` | ranks resume at the same batch: **violated** |
| `tgrpo` | `TGRPO`, `TGRPO_shuffled.cfg` | the shuffled rollout is rewarded: **violated** |

Bounds, and why they are enough:

- `queue`: capacity two and six puts overflow the queue several times; two getters
  are enough for one to be woken and find the other took the sample.
  `MaxPuts` bounds the puts; the proofs need no bound.
- `pipeline`: batches of two samples, a window of one batch and a threshold of
  100% give a budget of 4, so up to two samples are carried from one window into
  the next; seven samples make three windows, the last batch incomplete. The
  mutation that forgets the samples carried over exceeds the budget only in the
  second window: a single window would not show it. Two tasks at a time;
  `PendingQueueSize = 2` makes the feeder wait; `MaxFailures = 1` lets any one
  generation raise at any moment. Deadlock checking is on: the only state without
  a step to another one is the state where the task runner has returned.
- `pipeline_liveness`: one sample per batch, two batches per sync, one task at a
  time, six samples, so two syncs happen with samples still to come. *The
  property needs slack*: `MaxRequiredSamples - SamplesPerSync` must cover the
  finished tasks the processor has not reaped, at most `MaxConcurrentSamples`;
  here it is exactly 1. Without slack the pipeline can hang, which is what
  `synchronous` shows.
- `weight_sync`: two servers, two requests that compete for one entry of the
  routing cache (so a resent request may be routed elsewhere), responses of two
  tokens and a prompt slack of one, two syncs, a call that raises. `EnginePauses`
  is TRUE: vLLM 0.12.0 and later.
- `ray_checkpoint`: two roles of two ranks; two epochs of two batches, a save
  every second step and, when the capacity block is about to end, at any step, so
  saves fall within an epoch and at its end; two checkpoints kept of up to four,
  so rotation removes; two crashes, so a life of the job runs over the leftovers
  of another one, and over the leftovers of those. Training stops when it is
  done or finds a torn tracker, so deadlock checking is off; `Terminates` says it
  gets there.
- `algorithms`: up to six lengths from 0 to 3, which has every kind of tie and
  empty rows; up to four scored rows of two prompts over up to three ranks, which
  has groups of one, uneven divisions and padding by more than the batch; up to
  five tokens, which has observations first, last, alone and in a row. A
  behaviour builds an input and stops.
- `transfer`: three rollout workers, so the chain has ranks that read and are read
  at once; five tensors, one of them large, in four buckets of the engine (each of
  the two buffers is used twice) and two of the link, whose boundaries differ.
  An update ends, so deadlock checking is off; `WeightDelivery` has fairness, so
  an update that hangs is found.
- `replay`: a validation before training, a step, a validation between its sampling
  and its cleanup; a prompt in two sessions, of which one may raise or have no
  output. It ends when training does.
- `synchronous`, `keep_one`, `sft_resume`, `tgrpo`: the smallest instance in which the case occurs.

Fairness. `FullyAsync!Fairness` is weak fairness of each coroutine (the event
loop resumes every coroutine that can run), of each task's generation (the
engine finishes or is resumed; that is `WeightSync!AllAnswered`), of the trainer
and of the task runner. No fairness is assumed of a failure. One condition
covers the whole processor, because it is one coroutine with at most one
continuation enabled. `MessageQueueActor` is fair to getters only: nobody has to
put or to shut down. `WeightSync` is fair to the steps of a sync, to requests and
releases; nothing obliges the trainer to sync. `MaxSyncs` also bounds how often a response
can be interrupted: that every request is answered is claimed for finitely many
syncs (in the code, syncs are at least a training window apart).
`WeightTransfer` and `ReplayBuffer` are fair to every coroutine, thread, collective
and copy: each is a loop that blocks only on what its guard names; an agent loop
returns or raises.
`RayCheckpoint` has weak fairness of everything but the crash: ranks and driver
go on, and a job that was killed is started again.

## 4. Properties

*Queue.* `NoMissedWakeup`, `Conservation`, `QueueIsWindow`, `ImplementsLossyFifo`,
`ShutdownReleasesGetters`.

*Freshness budget.* `WindowUse` is what the current window has cost: items in
flight plus samples taken since the last reset. The code tries to keep it within
`max_required_samples` by counting in `staleness_samples`. `BudgetBound` says it
exceeds that by one at most. The reason for the one is the sample the
processor has taken from `pending_queue` and not submitted yet: when
`reset_staleness` runs at that moment, the sample is in no set and in no
queue, and its increment is overwritten. `ImplementsSampleWindow` adds the other half:
between two resets the trainer takes exactly `required_samples *
trigger_parameter_sync_step` samples, except at the end of the stream.

*Concurrency inside the rollouter.* `BudgetInv` is the inductive invariant, of
which `LockHeld`, `HeldSample`, `ActiveTasks` and `Counting` are the parts.
`PausedOnlyInDrain` says
that the two tests of `paused` outside the drain never fire, so the processor
never sleeps on a resume nobody will send; that a resume does not come too early
is what `BudgetBound` is for; `ConcurrencyBound` is the limit.

*End of the stream.* `OnlyPartialBatchLost`: when no generation fails, the trainer
trains on everything but what a full queue dropped and a last incomplete batch.
That takes the end signal to come after every sample still being generated.

*Versions.* `VersionAccounting`, and `ProximalModel`: the old log-probabilities
of every batch of a window are computed with the model that generated it.

*Liveness.* `Terminates`: every reset returns and every pause ends, or the trainer
would not get to the end of the stream.

*Weight synchronisation.* `InflightExact`, `StickyResume`, `LabelsTrue`,
`NoStalePrefix`, `CompleteResponses`, `ResponseBound`, `ImplementsAtomicSync`,
`AllAnswered`. `ResponseBound` deserves a remark: `max_tokens` is recomputed for
a resent request from a prompt that already holds the generated tokens, so a
response may end up longer than `response_length`, by at most the room the
prompt left in `prompt_length`.

*Checkpoints.* `TrackedComplete`: whatever crash happens when, the tracker names
a directory that has every role's and every rank's weights of that very step,
from one life of the job, and the dataloader's state of the same moment.
`EachBatchOnce` and `AllTrained`: the weights have seen each batch up to the
loader's position once, and a job that ends has seen all. The mutations show
what is at stake: restoring the loader at an epoch boundary, as
`main_ppo_sync.py` still does, skips an epoch. `WithinCapacity` bounds the
checkpoints of one life (a crash forgets `previous_saved_paths`, so older lives
leave theirs behind). `ImplementsDurable` sums it up: saving and resuming is a
register that holds a whole state of training, unreadable only between the
truncation of the tracker and its writing. `Terminates`.

*Batch algorithms.* `PartitionsBalanced`, `MicroBatchesRestore`,
`RowsReachRanks`, `OutcomeAdvantages`, `ReturnsSkipObservations`, each over all
inputs of a kind, as stated in `BatchAlgorithms`.

*Weight transfer.* `NoDataRace`, for the double buffers of both engines, and
`Implements`, which also covers the link: what the last inference worker loads is
what the trainer sent. The synchronisations of the device before rank 0 gives a bucket away,
before a bucket of the link is sent, before buffers are swapped and before the receiver
replies, and waiting for the next rank's notification, are what both hang on; each
mutation drops one.

*Replay buffer.* `SampleComplete`: `sample` returns when nothing is marked as running,
which must mean that every prompt has reported and that the results of every
prompt that finished are in the table, although marks, results and statuses reach
it by different ways. `SampledOwn`, `SampledStored`, `Terminates`.

*T-GRPO and supervised fine-tuning.* One property each, both violated.

### What disagrees with the documentation

1. `synchronous`: with `staleness_threshold = 0` a task that has delivered its
   sample and is not reaped yet is counted as stale. The budget of the new
   window is then too small for the trainer to finish it: the rollouter waits for
   a reset, the trainer for a sample. The reply to `put_sample` must be slower
   than a training step and a sync, so it is rare.
2. `keep_one`: with one checkpoint kept, `register_checkpoint` removes the actor's
   old checkpoint before critic, dataloader and tracker of the new one are saved;
   `checkpoint_manager.py:148-149` says the old one stays until the new save
   completes.
3. `sft_resume`: rank 0 publishes the checkpoint when its own dataloader state is
   written, other ranks may not have written theirs; after a crash they start
   from the first batch. `checkpoint_handler.py:107-108` takes the state to be
   the same on every rank.
4. `tgrpo`: the shuffled output cannot be united with a batch that still has the
   normal rollout's `input_ids`, `attention_mask` and so on. Every step with a
   video in it fails an assertion, unless all shuffled answers equal the normal
   ones and balancing moved no row.

Seen while modelling, and not the subject of a run; where a property is named,
TLC shows it violated with the constants given:

- `fully_async_trainer.py:651`: a forced save at the end returns early when the
  version did not advance since the last save, although batches were trained
  since; line 664 counts the last training step among the reasons to save
  (`FullyAsync!FinalCheckpointComplete`: two batches to a sync, three samples).
- `checkpoint_engine/base.py:422`: an update aborts running requests also when
  partial rollout is off, and their truncated responses are returned
  (`WeightSync!CompleteResponses` with `PartialRollout = FALSE`).
- `main_ppo_sync.py:201`: an item the poller read before it was cleared may be added
  after it was removed, and stays. All batches of a validation have one step, so
  the next one samples it, and its data is gone
  (`ReplayBuffer!SampledOnce`, no training step, two validation batches, no
  failure). Late results of a prompt that failed are sampled in the same way
  (`SampledOwn`, with a failure).
- `main_ppo_sync.py:1561-1563`: the cleanup of a step covers the results; the item
  of each prompt stays in queue and table for ever (`ReplayBuffer!CleanedUp`, one
  step, no validation, no failure).
- `main_ppo_sync.py:270`: when every prompt of a step fails, `sample` returns an
  empty batch.
- `nixl_checkpoint_engine.py:297`: for one rollout worker `metadata[-1 + 1:]` is the
  whole list, and the assertion at `checkpoint_engine/base.py:371` fails
  (`NixlChain`'s group is then `raised`, and `WeightTransfer!Implements` is
  violated with `Workers = {1}`).
- `vllm_rollout/utils.py:251`: an adapter is added once per bucket, each time under
  one number, so one that takes several buckets is loaded in part.
- `bucketed_weight_transfer.py:136`: a tensor that does not fit raises in the sender,
  and the receiver waits without a timeout.
- `nccl_checkpoint_engine.py:191`: a subscriber that is not connected yet when the
  first bucket is published misses its metadata; the barrier does not cover that.

- `docs/advance/fully_async.md:137-139` bounds the samples between two updates by
  `max_required_samples`; one more is possible (`BudgetBound`).
- Before vLLM 0.12.0 `abort_all_requests` does not pause the engine, and aborted
  requests are generated again while the weights are being replaced; with
  `EnginePauses = FALSE` TLC finds it.
- `seqlen_balancing.py:363` calls `max_token_len` the maximum of a micro-batch;
  it only determines how many there are. Three rows of 3 tokens with a maximum of
  5 make a micro-batch of 6. Line 367 speaks of padding with empty micro-batches,
  line 409 asserts that there are enough rows.
- For a prompt with one response, RLOO gives its score and RLOO_VECTORIZED zero.
- REINFORCE++ (`core_algos.py:721`) resets the return at every masked token,
  observations included, so turns before a tool's answer get no reward.
- `ray_trainer.py:936` speaks of atomic usage, and line 949 truncates the tracker
  before writing it; the tracker of supervised fine-tuning is renamed.
- `func_generator` (`single_controller/ray/base.py:59`) removes padding from a list
  of outputs by dropping workers' outputs, whatever they hold.

## 5. Proofs

`tlapm M.tla` checks the module `M`: seconds for `MessageQueue_proofs` and
`ReplayBuffer_proofs`, minutes for the others, ten for `BatchAlgorithms_proofs`. The constants are arbitrary, within
the named assumptions of the modules: positive sizes, and finite sets of workers.
`QueueSizeAssumption` is that the queue is as long as the budget
(`set_max_required_samples` is what the task runner sizes the queue with). A
theorem that needs more says so in its `ASSUME`, and it is said here why.

### The queue and the asynchronous policy

| theorem | result |
|---|---|
| `MessageQueue_proofs`: `TypeCorrect`, `NoWakeupMissed`, `SamplesConserved`, `QueueAlwaysWindow` | the invariants of the queue, for any number of getters, any capacity, any number of puts |
| `MessageQueue_proofs`: `Refinement` | the queue implements `LossyFifo` |
| `FullyAsync_proofs`: `BudgetInvariant` | the inductive invariant of the pipeline |
| `FullyAsync_proofs`: `TypeCorrect`, `LockAlwaysHeld`, `WindowWithinBudget` | its consequences `TypeOK`, `LockHeld`, `BudgetBound` |
| `FullyAsync_proofs`: `PausedOnlyWhileDraining` | `PausedOnlyInDrain`, inductive as it stands |
| `FullyAsync_proofs`: `WithinConcurrencyLimit` | `ConcurrencyBound` |

The argument for the budget. `BudgetBound` is not inductive: from a state within
the budget the processor could take one more sample if nothing tied
`staleness_samples` to what is really in flight. `Counting` ties it:
`staleness_samples` undercounts the window (running tasks, queue, samples taken)
by at most one, and a failed task that nobody has reaped is counted on both
sides, since it still costs budget. Three facts make `Counting` inductive.
`LockHeld`: while `reset_staleness` adds the queue's size to a task count it read
earlier, it holds the lock, so no task is submitted and none is reaped; a
task that finishes in between moves from one term to the other, and the sum it
assigns is never too small. `HeldSample`: the undercounting sample is the one in the
processor's hand, and there is only one. `ActiveTasks`: every running
generation is in `active_tasks`, so `len(active_tasks)` covers it. The end signal costs
budget too, and is counted as owed until it is queued. `BudgetInv` is the
conjunction, and an invariant of the run `pipeline`. The proof of each conjunct
has one step per action that can disturb it; the sums are handled by arithmetic
lemmas of their own (`SmallerSum`, `Regroup`, `CarriedForm`).

For the concurrency limit the strengthening `LimitInv` says that a sample on its
way to submission has room: the test is made before the lock is granted, and no
other coroutine adds tasks meanwhile.

| theorem | result |
|---|---|
| `FullyAsync_proofs`: `SamplesAccounted` | the inductive invariant `FlowInv` of the samples' way |
| `FullyAsync_proofs`: `VersionsCountBatches`, `ProximalIsRollout`, `AllButPartialBatch` | its consequences `VersionAccounting`, `ProximalModel`, `OnlyPartialBatchLost` |
| `FullyAsync_proofs`: `WindowImplemented` | the pipeline implements `SampleWindow`, with a slack of one |

`FlowInv` stands on `BudgetInv`. `Places` puts every sample in one place: once in
the queue, in the next batch, or trained on; without it a sample could be trained
on twice, and the cardinalities below would not add up. `Collection` and
`WindowCount` say that a window has taken `localStep - 1` batches and what is in the
next one, so that a sync comes after exactly `SamplesPerSync`; `Versions` that the
trained batches are `TriggerParameterSyncStep` per version and `localStep - 1`, and what each of the two models was copied from. `Conserved`
counts: every sample put is in the queue, with the trainer or dropped. When no
generation fails (`Submission`: then every sample taken is submitted, and the
processor ends with nothing running), the end signal is the last item of the
queue, so what the trainer does not train on is an incomplete batch.
The refinement counts what is in flight (held, generated, queued). A step adds at
most one item (`InFlightStep`), and that it may do so is `BudgetBound` in the
next state; otherwise it loses some; the trainer takes one (`InFlightTaken`), while
the window still asks for one (`QuotaLeft`); the end of `reset_staleness` renews the
window.

### Requests and the weight sync

| theorem | result |
|---|---|
| `WeightSync_proofs`: `TypeCorrect`, `CountsExact`, `ResponsesBounded` | `TypeOK`, `InflightExact`, `ResponseBound` |
| `WeightSync_proofs`: `ResumeSticky` | `StickyResume` |
| `WeightSync_proofs`: `ResponsesComplete` | `CompleteResponses`, with partial rollout |
| `WeightSync_proofs`: `NoPrefixStale`, `ResponsesLabelled` | `NoStalePrefix`, `LabelsTrue`, with an engine that pauses |
| `WeightSync_proofs`: `SyncImplementsAtomic` | `WeightSync` implements `AtomicSync`, with both |

They hold for any number of servers, any set of requests (it may be infinite), any
length of a response, size of the routing cache and number of syncs and failures.
`EnginePauses` is vLLM 0.12.0 and later, for which the code relies on it; without it
the statements are false (section 4). Without `PartialRollout` an aborted response is
returned as it is, and only `ResponsesComplete` and the refinement are about
completed ones. Nothing is assumed about which server the balancer picks.

`RequestStep` says once what a step can do to one request: move its client on,
generate a token, interrupt it, or merge its reply. `Lengths` is `ResponseBound`
with what makes it inductive: a call that is running has room for a token, so an
aborted one can be sent again. `CountInv` relates the balancer's counter to the
finite sets of requests that use a server or owe it a release. `RoutesInv`: the
one entry of a request is the server it acquired last. For the sync, `ServerInv`
fixes a server's weights and label by the stage it has reached, relative to
the version served, which changes when all of them have been labelled
(`Current`). The servers disagree meanwhile, and `PauseInv` says why nobody sees
it: a server is paused from its abort to its resume, runs nothing and caches no
prefix. `LabelInv` then bounds every token of a response, part by part: a part's
tokens are all of the version of its reply, since the version changes only while
nothing runs (`CurrentStep`). In the refinement the last server that loads is
the abstract sync (`ServedStep`), a token is generated with the version served
(`RunningServed`), a merge is a return or stutters, and every other step of a sync
stutters (`AtomicStep`).

### Checkpoints

| theorem | result |
|---|---|
| `Invariance` | the inductive invariant of training, saving, crashing and resuming |
| `TypeCorrect`, `TrackedAlwaysComplete`, `EachBatchTrainedOnce` | `TypeOK`, `TrackedComplete`, `EachBatchOnce` |
| `CheckpointsDurable` | `RayCheckpoint` implements `DurableProgress` |
| `EpochsEnd` | a job that ends has done `MaxStep` steps, and no more than its epochs have |
| `EveryEpochTrained` | `AllTrained`, when `MaxStep = EpochLength * TotalEpochs`, which is the default of `total_training_steps` |
| `CapacityKept` | `WithinCapacity` |

They hold with and without a critic, for any number of ranks, any epochs, save frequency and number of crashes, and
any number of checkpoints kept **but one** (`Keep # 1`): with one, `keep_one` is a
counterexample. What could destroy the
tracked checkpoint is writing its directory again, or rank 0's rotation.
`TrackedComplete` alone says nothing about either, so the invariant `IInv` adds:
a job that saves has trained beyond the step the tracker names, so it writes to
another directory (`Ahead`); and no path a manager has registered is newer than
the tracker's, but the one being written (`KeptOld`). Rotation spares the newest
`Keep - 1 >= 1` paths before the new one is registered and the newest `Keep >= 2`
after it (or removes nothing), so it spares the tracked step (`RotationSpares`).
`Written` describes, phase by phase, what the new checkpoint already has on disk:
the roles that have saved, for the one that is saving the ranks that have
written, then the data, so that `CloseTracker` finds a whole checkpoint.
`EachBatchOnce` needs the restored position to agree with the restored weights:
the position saved with step `n` is `n` modulo the epoch's length, except at the
boundary, which is the case the code treats apart; lemmas on division
(`Quotient`, `PositionOf`) carry that for every epoch length.
`AllTrained` needs that `fit` does not return early: `EndInv` says that its loops
leave no epoch begun, also for a job that resumes behind the last step.
The capacity is a matter of order. `Room`: what a life of the job has on disk is
registered or is the checkpoint being written, and both together are at most
`Keep`, since rank 0 removes before anybody writes. That nobody does is `Barriers`, and
that files of earlier lives are not mistaken for this one's is `Lives`.

### The trainer over the transfer queue

| theorem | result |
|---|---|
| `TypeCorrect`, `TagsAreComplete` | `TypeOK`; every item of the buffer has the step that `sample` reads |
| `SamplesAreComplete` | `SampleComplete`, for any steps, validation batches, prompts, sessions and failures |
| `SamplesAreOwn`, `SamplesAreStored` | `SampledOwn`, `SampledStored`, with one validation batch at most |

A validation is one batch when `val_batch_size` is left out
(`main_ppo_sync.py:565`); with more, items that the poller brings back after they
were removed are sampled again, which section 4 describes. The argument for
`SampleComplete` follows a result from the queue to the buffer. Nothing of a
prompt is anywhere before its batch is dispatched (`Fresh`), so a status that
replaces the trainer's mark is of this dispatch (`PromptItems`). A prompt is
reported finished after every session that has results put them; a snapshot is
of the whole queue, so one that has the report has the results; and `add` takes
both over in one step (`CurrentItems`). The sample waits for the status in the
buffer, and therefore finds the results there.

### Weight transfer

| theorem | result |
|---|---|
| `WeightTransfer_proofs`: `TypeCorrect` | the types of the three engines and of the link |
| `WeightTransfer_proofs`: `BuffersApart` | `NoDataRace`, for any workers, trainer ranks, tensors and bucket sizes |
| `WeightDelivery_proofs`: `TensorsInOrder` | every bucket on its way follows what was handed on before it |
| `WeightDelivery_proofs`: `DeliveredInOrder` | the safety of `Implements`: `Delivery!Init` and `[Delivery!Next]` |
| `WeightDelivery_proofs`: `AllDelivered` | a sender that is done has delivered all the tensors |

`NoDataRace` is about who reads a buffer now; the invariant is about where what is
still to be read lies. A copy of the link that the device has not carried out
reads the buffer its worker yields from (`FromBuf`), and the transport writes into
the other one; the buffers are swapped only when no copy is left (`Synchronized`).
In the broadcast, rank 0 fills the buffer it does not broadcast; in both engines its
device's copies go into the buffer it fills, and none is left when it has come to its
end (`QueueOk`). In the chain a
rank does not know how far the next one is: between two ranks one bucket is under way at
most, announced, being read, or neither once the rank has been notified (`Flight`);
it is in the buffer the rank sent last (`FromSent`); and before its first bucket a
worker has announced and yielded nothing (`Unsent`), which is why the first swap
need not wait. `Prev` and `NextIs` compute the topology from `build_topology`'s
slices: the rank before `w` is `w - 1` for every number of trainer ranks, and behind `w` is
`w + 1`, unless there is one worker only; then the slices are too long and
the group is not built (`BuiltMany`).

What is delivered is a matter of numbers. The tensors are numbered in the order
of the trainer's generator, and `DelInv` says of every bucket on the way which number it
begins with and that the buffer it is read from holds it. `LinkOk` says it of the link,
once for all engines: the bucket follows what the inference worker has loaded, the part
that is copied lies in the shared buffer, and each copy that is not carried out yet finds its
tensor (`BucketPull`, `BucketCopy`). Until the receiver's load is carried out, the
bucket is one still to be loaded (`Base`). Rank 0's bucket is the same with respect
to its own copies (`Queued`). What remains for an engine is that its generator
yields the tensor after those it has yielded (`PulledBy`). In the broadcast a worker knows
of the tensors rank 0 has sent, up to the broadcast it has not joined (`Known`), and it
yields the last of them or receives them (`CountOk`, `BuffersOk`); that two buffers are enough is
`BuffersApart` again. In the chain a rank's bucket ends where those announced to
it end, less the one under way (`ChainOk`), and the one it reads is what its
predecessor holds (`HoldOk`, `StageOk`). `AllDelivered` follows the flag `last`: it is set
on the bucket that ends with the last tensor only, and a sender ends behind it.
`Implements` also says that the loading goes on, which is fairness: that half is only
model-checked.

### Batch algorithms

| theorem (in `BatchAlgorithms_proofs`) | result |
|---|---|
| `InputsTyped` | the states are inputs of the algorithms |
| `PartsAreBalanced` | `PartitionsBalanced`, for any lengths, rows and parts |
| `MicroBatchesComeBack` | `MicroBatchesRestore`, for any lengths and limits |
| `RowsComeBack` | `RowsReachRanks`, for any batch and number of ranks |
| `EstimatorsRight` | `OutcomeAdvantages`, for groups of any size and any scores |
| `ObservationsSkipped` | `ReturnsSkipObservations`, for responses of any length |

Every state is an input and every input of the kind is a state, so an invariant of
this specification is a statement about all inputs, and `Spec` contributes no more
than their types. Unlike the other proofs these are about what recursion and folds
compute. The library's induction theorems cannot be applied, since they take an operator
as a parameter; but a well-founded relation has minimal elements (`WFMin`), from which
`Least`, `NumberInduction` and `SetInduction` follow, where what is proved is that a *set*
has every number or subset, and the set is a comprehension. A
recursive function is a `CHOOSE`, so each use of one begins with a lemma that such
a function exists (`SumsExist`, `MergesExist`, `FromExists`, `PowersExist`).
Constants are as in section 3, unbounded. `MaxLength` is positive because it is also the
token limit, by which the code divides. `Gamma` and `Lam` are whole numbers: both sides of
`ReturnsSkipObservations` are polynomials in them, so the statement holds for the
code's fractions too.

*Partitions.* `Kept` is the invariant of the differencing method, of each of its
states: its sets are disjoint, with the sums of their rows, no two of them further apart
than the bound (`Within`); with equal sizes every set has as many rows (`Even`); and
as long as a set is empty, none has two rows (`Filled`). Merging adds the largest sets
of a state to the smallest of the other, so no two sums get further apart than they
were in one of the two (`MergeKeeps`); that is the whole reason for the bound, and with
`Mut_MergeInOrder` it fails. That no part is empty is the hard part where lengths are
zero, since an empty set and a row that weighs nothing have the same sum: the order by number of
rows puts the empty set last, where the merge fills it first (`Filled`), and with at
least as many rows as parts none is left (`NoneEmpty`). The heap has a state that no
other is less than because `State.__lt__` is a strict order (`StateOrder`), which rests
on the order of the sets being total (`SetOrder`).

*Order.* `Lists(seq, X)` says that a sequence has every element of `X` once, and
`Parted` that sequences list disjoint sets that make up all rows. Sorting
(`SortedLists`), concatenation (`PartedFlat`), unfolding of groups
(`RowsOfPartsIs`), `InsideOut` and `OutsideIn` (`InwardPermutes`,
`OutwardPermutes`) keep one or the other, so the inverse permutation is defined
(`Restored`) and advantages are moved, not changed (`RlooMoved`).

*Batches.* A padded batch begins with the batch (`Padded`), whatever was appended,
so cutting off the padding restores it (`Unpadded`); equal chunks joined are the
batch (`PiecesJoin`). In a mesh exactly one rank of each dp rank gives its output, and in
the order of the dp ranks (`Gives`), in both layouts. That the uids of
two ranks are disjoint takes three things: equal groups, so that the chunks end where the
ranks' rows end (`GroupsShared`, `ChunksFollow`); disjoint groups; and as many
groups as uids, so that no uid comes back in a later one (`UidsDiffer`).

*Advantages.* Sums over a group are taken apart and renamed (`SumOfTwo`,
`SumRenamed`). For GAE, `CarriedAt` says that an observation token passes on what
comes from behind it, so that the recursion over all tokens is one over the written ones.

Only model-checked:

- liveness, which needs fairness and is out of the prover's reach: every
  property that says that something happens, and the fairness of `WeightDelivery`
  in `Implements` (its safety is proved);
- `SftCheckpoint` and `TGRPO`, whose one property each is violated.

## 6. Not modelled

- **Tensor code**: model definitions, kernels, FSDP and Megatron engines, losses,
  the numerical part of a training step. This is the largest part of the
  repository by far (the few thousand lines of coordination modelled here stand
  beside over a hundred thousand lines of it), its values cannot be enumerated
  and it has no states of its own. The share of the code the map covers is small
  for that reason.
- **Agent loops, tools, reward loop**: sequential state machines per request, and
  rate limits in wall-clock time around calls to user code.
- **The other transfer engines** (HCCL, which repeats NCCL's code; Kimi and Mooncake,
  whose order of operations is in their libraries), LoRA and quantised loading,
  the life of buffers and sockets, a second update over the same engine.
- **Failures of an abort** (`vllm_async_server.py:666`): any exception becomes a
  normal reply; what runs on is up to the engine.
- **The replicas' sleep state** in the T-GRPO step (`video_ray_trainer.py:321`):
  what a sleeping engine does with a request is up to the engine.
- **Resuming the asynchronous policy**: its rollouter's dataloader is ahead of the
  trainer by the samples in flight when it is saved
  (`fully_async_trainer.py:742`), which skips them after a resume.
- Validation, metrics, profiling, HDFS copies, the one-step off-policy trainer and
  the VLA experiment. `PROJECT.json` gives the reason component by component.

----------------------------- MODULE MessageQueue -----------------------------
(***************************************************************************)
(* The queue actor between the rollouter and the trainer of the fully      *)
(* asynchronous policy (message_queue.py).  Every method body runs under   *)
(* one asyncio lock and suspends only in get_sample's condition wait, so a *)
(* method is one atomic operation.  This module has the state and the      *)
(* operations; MessageQueueActor adds concurrent callers, and the          *)
(* FullyAsync modules use the operations inside their own actions.         *)
(*                                                                         *)
(* val_queue and get_memory_usage are left out: nothing in the training    *)
(* loop calls them.                                                        *)
(***************************************************************************)
EXTENDS Integers, Sequences

CONSTANT MaxQueueSize   \* max_queue_size, the deque's maxlen

ASSUME MaxQueueSizeAssumption == MaxQueueSize \in Nat \ {0}

VARIABLES
  queue,           \* the deque, oldest sample first
  mqRunning,       \* running
  totalProduced,   \* total_produced
  totalConsumed,   \* total_consumed
  droppedSamples   \* dropped_samples

mqVars == <<queue, mqRunning, totalProduced, totalConsumed, droppedSamples>>

MQInit ==
  /\ queue = <<>>
  /\ mqRunning = TRUE
  /\ totalProduced = 0
  /\ totalConsumed = 0
  /\ droppedSamples = 0

QueueFull == Len(queue) >= MaxQueueSize

\* Mutations of put_sample: the newest sample given up instead of the oldest; a
\* drop that is not counted.
Mut_PutDropsNewest(sample) ==
  /\ queue' = IF QueueFull THEN queue ELSE Append(queue, sample)
  /\ droppedSamples' = droppedSamples + (IF QueueFull THEN 1 ELSE 0)
  /\ totalProduced' = totalProduced + 1
  /\ UNCHANGED <<mqRunning, totalConsumed>>
Mut_PutUncounted(sample) ==
  /\ queue' = Append(IF QueueFull THEN Tail(queue) ELSE queue, sample)
  /\ totalProduced' = totalProduced + 1
  /\ UNCHANGED <<mqRunning, totalConsumed, droppedSamples>>

\* put_sample: a full queue loses its oldest sample.
PutSample(sample) ==
  /\ queue' = Append(IF QueueFull THEN Tail(queue) ELSE queue, sample)
  /\ droppedSamples' = droppedSamples + (IF QueueFull THEN 1 ELSE 0)
  /\ totalProduced' = totalProduced + 1
  /\ UNCHANGED <<mqRunning, totalConsumed>>

\* Mutation: pop() for popleft().
Mut_TakeNewest ==
  /\ queue # <<>>
  /\ queue' = SubSeq(queue, 1, Len(queue) - 1)
  /\ totalConsumed' = totalConsumed + 1
  /\ UNCHANGED <<mqRunning, totalProduced, droppedSamples>>

\* get_sample, when it finds a sample.
TakeSample ==
  /\ queue # <<>>
  /\ queue' = Tail(queue)
  /\ totalConsumed' = totalConsumed + 1
  /\ UNCHANGED <<mqRunning, totalProduced, droppedSamples>>

\* get_sample's two other outcomes: wait, and give up with None.
MustWait == queue = <<>> /\ mqRunning
ClosedAndEmpty == queue = <<>> /\ ~mqRunning

ClearQueue ==
  /\ queue' = <<>>
  /\ UNCHANGED <<mqRunning, totalProduced, totalConsumed, droppedSamples>>

Shutdown ==
  /\ mqRunning' = FALSE
  /\ UNCHANGED <<queue, totalProduced, totalConsumed, droppedSamples>>
=============================================================================

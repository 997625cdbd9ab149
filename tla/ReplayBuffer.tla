---------------------------- MODULE ReplayBuffer ----------------------------
(***************************************************************************)
(* main_ppo_sync.py: the trainer that gets its batches through the         *)
(* transfer queue.  The trainer marks the prompts of a batch as running in *)
(* its replay buffer and hands them to the agent loop workers; the workers *)
(* put results and, at the end, the status of each prompt into the queue   *)
(* (external); a thread of the trainer polls the queue into the buffer;    *)
(* and the trainer samples when no prompt of the step is running.          *)
(*                                                                         *)
(* An item of the queue is a prompt or the result of one of its sessions   *)
(* (rollout.n); the outputs of one session are put together and count as   *)
(* one.  Training, checkpoints and weight updates leave this state alone.  *)
(***************************************************************************)
EXTENDS Integers, FiniteSets

CONSTANTS
  TotalSteps,  \* total_training_steps
  ValBatches,  \* batches of the validation dataloader
  Prompts,     \* prompts of a batch
  Sessions,    \* rollout.n: the sessions of a prompt
  MaxFailures  \* bound: agent loops that raise

ASSUME ReplayAssumption ==
  /\ TotalSteps \in Nat /\ ValBatches \in Nat /\ MaxFailures \in Nat
  /\ Sessions # {} /\ 0 \notin Sessions

VARIABLES
  tq,        \* the queue: the status each item has in it
  buffer,    \* ReplayBuffer.partitions: status and step of each item
  snapshot,  \* what the poller got from the queue
  toAdd,     \* partitions it has not added to the buffer yet
  session,   \* what became of each session
  step,      \* global_steps
  val,       \* batch of _validate, 0 while training
  pc,        \* what the trainer does next
  batch      \* the sampled items, of each partition

vars == <<tq, buffer, snapshot, toAdd, session, step, val, pc, batch>>

Partitions == {"train", "val"}
Step == 0 .. TotalSteps
NoStep == -1

\* The partition of a batch, given by its place in a validation.
Partition(v) == IF v = 0 THEN "train" ELSE "val"

\* A uid is made for each prompt of each batch.
Uid == [step : Step, val : 0 .. ValBatches, prompt : Prompts]

\* {uid}, or {uid}_{session_id}_{index}.
Key == [uid : Uid, session : Sessions \cup {0}]
PromptKey(u) == [uid |-> u, session |-> 0]
ResultKey(u, s) == [uid |-> u, session |-> s]

Status == {"absent", "running", "success", "finished", "failure"}
Tag == [status : Status, step : Step \cup {NoStep}]

\* The prompts of the trainer's current batch.
Current == {u \in Uid : u.step = step /\ u.val = val}

NoItems == [key \in Key |-> "absent"]

Init ==
  /\ tq = NoItems /\ snapshot = NoItems /\ toAdd = {}
  /\ buffer = [key \in Key |-> [status |-> "absent", step |-> NoStep]]
  /\ session = [u \in Uid |-> [s \in Sessions |-> "none"]]
  /\ step = 0 /\ val \in 0 .. 1 /\ val <= ValBatches  \* val_before_train
  /\ pc = IF val = 0 THEN "next" ELSE "mark"
  /\ batch = [p \in Partitions |-> {}]

-----------------------------------------------------------------------------
(* PPOTrainer.                                                             *)

Marked == [key \in Key |-> IF \E u \in Current : key = PromptKey(u)
                           THEN [status |-> "running", step |-> step]
                           ELSE buffer[key]]

\* AgentLoopManagerTQ.generate_sequences: the prompts are marked, ...
Mark ==
  /\ pc = "mark"
  /\ buffer' = Marked
  /\ pc' = "dispatch"
  /\ UNCHANGED <<tq, snapshot, toAdd, session, step, val, batch>>

\* ... and the workers create a task for each.
Dispatch ==
  /\ pc = "dispatch"
  /\ session' = [u \in Uid |-> IF u \in Current THEN [s \in Sessions |-> "running"]
                               ELSE session[u]]
  /\ pc' = "sample"
  /\ UNCHANGED <<tq, buffer, snapshot, toAdd, step, val, batch>>

\* Mutation: any step will do.
Mut_OfStep == {key \in Key : Partition(key.uid.val) = Partition(val)
                             /\ buffer[key].status # "absent"}

\* The items of the partition that have this step.
OfStep == {key \in Key : Partition(key.uid.val) = Partition(val) /\ buffer[key].step = step}

\* ReplayBuffer.sample(global_steps = step).
Sample ==
  /\ pc = "sample"
  /\ \A key \in OfStep : buffer[key].status # "running"
  /\ batch' = [batch EXCEPT ![Partition(val)] =
                 {key \in OfStep : buffer[key].status = "success"}]
  /\ pc' = "use"
  /\ UNCHANGED <<tq, buffer, snapshot, toAdd, session, step, val>>

\* fit trains on the batch and may validate before it is done with it
\* (test_freq); _validate gets the fields and is.
Use ==
  /\ pc = "use"
  /\ IF val = 0 /\ ValBatches > 0
     THEN \E validates \in BOOLEAN :
            /\ val' = IF validates THEN 1 ELSE 0
            /\ pc' = IF validates THEN "mark" ELSE "clear"
     ELSE pc' = "clear" /\ val' = val
  /\ UNCHANGED <<tq, buffer, snapshot, toAdd, session, step, batch>>

\* Mutation: of both partitions.
Mut_ToClear == UNION {batch[p] : p \in Partitions}

ToClear == batch[Partition(val)]

\* kv_clear of the batch's keys, ...
Clear ==
  /\ pc = "clear"
  /\ tq' = [key \in Key |-> IF key \in ToClear THEN "absent" ELSE tq[key]]
  /\ pc' = "remove"
  /\ UNCHANGED <<buffer, snapshot, toAdd, session, step, val, batch>>

\* ... and ReplayBuffer.remove.
Remove ==
  /\ pc = "remove"
  /\ buffer' = [key \in Key |-> IF key \in ToClear
                                THEN [status |-> "absent", step |-> NoStep]
                                ELSE buffer[key]]
  /\ batch' = [batch EXCEPT ![Partition(val)] = {}]
  /\ pc' = "next"
  /\ UNCHANGED <<tq, snapshot, toAdd, session, step, val>>

IsLastStep == step = TotalSteps

\* The next batch of _validate, or back to fit, which cleans up its own
\* batch if it has one; or the next step.
NextBatch ==
  /\ pc = "next"
  /\ \/ /\ val \in 1 .. ValBatches - 1
        /\ val' = val + 1 /\ pc' = "mark" /\ step' = step
     \/ /\ val = ValBatches /\ val # 0 /\ step > 0
        /\ val' = 0 /\ pc' = "clear" /\ step' = step
     \/ /\ \/ val = 0
           \/ step = 0 /\ val = ValBatches
        /\ val' = 0
        /\ IF IsLastStep THEN pc' = "done" /\ step' = step
           ELSE pc' = "mark" /\ step' = step + 1
  /\ UNCHANGED <<tq, buffer, snapshot, toAdd, session, batch>>

-----------------------------------------------------------------------------
(* AgentLoopWorkerTQ: the tasks of a prompt.                               *)

Reported(u) == tq[PromptKey(u)] # "absent"
Failures == Cardinality({f \in Uid \X Sessions : session[f[1]][f[2]] = "failed"})

\* _agent_loop_postprocess puts the outputs of a session, if there are any.
SessionEnds(u, s) ==
  /\ session[u][s] = "running"
  /\ \/ /\ tq' = [tq EXCEPT ![ResultKey(u, s)] = "success"]
        /\ session' = [session EXCEPT ![u][s] = "put"]
     \/ /\ session' = [session EXCEPT ![u][s] = "empty"] /\ tq' = tq
  /\ UNCHANGED <<buffer, snapshot, toAdd, step, val, pc, batch>>

SessionRaises(u, s) ==
  /\ session[u][s] = "running" /\ Failures < MaxFailures
  /\ session' = [session EXCEPT ![u][s] = "failed"]
  /\ UNCHANGED <<tq, buffer, snapshot, toAdd, step, val, pc, batch>>

\* Mutation: the prompt does not wait for all of its sessions.
Mut_AllEnded(u) == \E s \in Sessions : session[u][s] \in {"put", "empty"}

\* asyncio.gather of the sessions returns.
AllEnded(u) == \A s \in Sessions : session[u][s] \in {"put", "empty"}

\* Mutation: the status of a prompt that failed is never put.
Mut_Raised(u) == FALSE

Raised(u) == \E s \in Sessions : session[u][s] = "failed"

\* _run_prompt: gather raises with the first session that does, and leaves
\* the others running.
PromptEnds(u) ==
  /\ ~Reported(u)
  /\ \/ AllEnded(u) /\ tq' = [tq EXCEPT ![PromptKey(u)] = "finished"]
     \/ Raised(u) /\ tq' = [tq EXCEPT ![PromptKey(u)] = "failure"]
  /\ UNCHANGED <<buffer, snapshot, toAdd, session, step, val, pc, batch>>

-----------------------------------------------------------------------------
(* ReplayBuffer's thread.                                                  *)

\* kv_list: all partitions at once.
Poll ==
  /\ toAdd = {}
  /\ snapshot' = tq /\ toAdd' = Partitions
  /\ UNCHANGED <<tq, buffer, session, step, val, pc, batch>>

\* The tag of a result has its step, that of a prompt has not.
StepInQueue(key) == IF key.session = 0 THEN NoStep ELSE key.uid.step

\* partition[key].update(tags).
Updated(tag, key, status) ==
  [status |-> status,
   step |-> IF StepInQueue(key) = NoStep THEN tag.step ELSE StepInQueue(key)]

\* ReplayBuffer.add.
Add(p) ==
  /\ p \in toAdd
  /\ buffer' = [key \in Key |->
                  IF Partition(key.uid.val) = p /\ snapshot[key] # "absent"
                  THEN Updated(buffer[key], key, snapshot[key]) ELSE buffer[key]]
  /\ toAdd' = toAdd \ {p}
  /\ snapshot' = [key \in Key |-> IF Partition(key.uid.val) = p THEN "absent" ELSE snapshot[key]]
  /\ UNCHANGED <<tq, session, step, val, pc, batch>>

Trainer == Mark \/ Dispatch \/ Sample \/ Use \/ Clear \/ Remove \/ NextBatch

Next ==
  \/ Trainer
  \/ \E u \in Uid, s \in Sessions : SessionEnds(u, s) \/ SessionRaises(u, s)
  \/ \E u \in Uid : PromptEnds(u)
  \/ Poll \/ \E p \in Partitions : Add(p)

\* Every thread and every task goes on; an agent loop returns or raises.
Fairness ==
  /\ WF_vars(Trainer)
  /\ \A u \in Uid : /\ WF_vars(PromptEnds(u))
                    /\ \A s \in Sessions :
                         WF_vars(SessionEnds(u, s) \/ SessionRaises(u, s))
  /\ WF_vars(Poll) /\ \A p \in Partitions : WF_vars(Add(p))

Spec == Init /\ [][Next]_vars /\ Fairness

(***************************************************************************)
(* Properties.                                                             *)
(***************************************************************************)

TypeOK ==
  /\ tq \in [Key -> Status] /\ snapshot \in [Key -> Status]
  /\ buffer \in [Key -> Tag] /\ toAdd \subseteq Partitions
  /\ session \in [Uid -> [Sessions -> {"none", "running", "put", "empty", "failed"}]]
  /\ step \in Step /\ val \in 0 .. ValBatches
  /\ pc \in {"mark", "dispatch", "sample", "use", "clear", "remove", "next", "done"}
  /\ batch \in [Partitions -> SUBSET Key]

\* ReplayBuffer.sample reads tag["global_steps"] of every item of the
\* partition: a status the poller brings never comes before the trainer's own
\* mark of the prompt.
TagsHaveStep ==
  \A key \in Key : buffer[key].status # "absent" => buffer[key].step # NoStep

\* sample waits "until all prompts of this global steps have finished": when
\* it returns, every prompt of the batch has reported, and of one that
\* finished every result is in the batch.
SampleComplete ==
  pc = "use" => \A u \in Current :
    /\ Reported(u)
    /\ tq[PromptKey(u)] = "finished" =>
         \A s \in Sessions : session[u][s] = "put" => ResultKey(u, s) \in batch[Partition(val)]

\* What is sampled are results of the batch's own prompts, whatever earlier
\* batches left in the buffer: late results of failed prompts, and items the
\* poller read before they were removed.
SampledOwn ==
  pc = "use" => \A key \in batch[Partition(val)] : key.uid \in Current /\ key.session # 0

\* A sampled result is in the queue until the trainer clears it, which for a
\* training batch is after a validation.
SampledStored ==
  /\ val = 0 /\ pc \in {"use", "clear"} =>
       \A key \in batch["train"] : tq[key] = "success"
  /\ val # 0 =>
       /\ \A key \in batch["train"] : tq[key] = "success"
       /\ pc \in {"use", "clear"} => \A key \in batch["val"] : tq[key] = "success"

\* main_ppo_sync.py:1561, fit: "cleanup transfer queue and replay buffer".
\* Without failures, nothing of a step is left in either after its end.
CleanedUp ==
  pc = "done" => \A key \in Key : buffer[key].status = "absent" /\ tq[key] = "absent"

\* main_ppo_sync.py:225, remove: "Remove items from the replay buffer."  What a
\* batch of a validation sampled is not sampled again by a later one.
SampledOnce ==
  pc = "use" => \A key \in batch["val"] : key.uid.val = val

\* Training ends: no sample waits for ever, agent loops that raise included.
Terminates == <>(pc = "done")
=============================================================================

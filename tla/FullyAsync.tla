------------------------------ MODULE FullyAsync ------------------------------
(***************************************************************************)
(* The fully asynchronous policy: rollouter, queue and trainer, run by the *)
(* task runner of fully_async_main.py until both have returned.            *)
(***************************************************************************)
EXTENDS FullyAsyncTrainer

VARIABLE taskRunner   \* _run_training_loop: "running" or "done"

vars == <<rolloutVars, mqVars, trainerVars, taskRunner>>

Init ==
  /\ MQInit /\ RolloutInit /\ TrainerInit
  /\ taskRunner = "running"

\* ResetFinish opens a new window of production; the rest of the rollouter
\* leaves the trainer alone.
RollouterStep ==
  /\ RollouterNext
  /\ windowTaken' = IF reset = "sized" /\ reset' = "returned" THEN 0 ELSE windowTaken
  /\ UNCHANGED <<trainer, stopping, batch, trained, trainedBatches, localStep,
                 version, rolloutBatches, savedModel, lastCkptVersion,
                 ckptBatches, taskRunner>>

TrainerStep == Trainer /\ UNCHANGED taskRunner

\* Both futures are done: clear_queue and return.
TaskRunnerDone ==
  /\ taskRunner = "running"
  /\ trainer = "exit"
  /\ RollouterDone
  /\ ClearQueue
  /\ taskRunner' = "done"
  /\ UNCHANGED <<rolloutVars, trainerVars>>

Terminated == taskRunner = "done" /\ UNCHANGED vars

Next == RollouterStep \/ TrainerStep \/ TaskRunnerDone \/ Terminated

\* The event loop and the actors run every coroutine that can run, and
\* every generation ends.  No generation has to fail.
Fairness ==
  /\ WF_vars(RollouterStep /\ FeedSamples)
  /\ WF_vars(RollouterStep /\ Processor)
  /\ WF_vars(RollouterStep /\ Reset)
  /\ WF_vars(RollouterStep /\ Monitor)
  /\ WF_vars(RollouterStep /\ Main)
  /\ \A s \in Sample : WF_vars(RollouterStep /\ (TaskPut(s) \/ TaskReturn(s)))
  /\ WF_vars(TrainerStep)
  /\ WF_vars(TaskRunnerDone)

Spec == Init /\ [][Next]_vars

FairSpec == Spec /\ Fairness

-----------------------------------------------------------------------------
QueueItem == Sample \cup {END}

QueueTypeOK ==
  /\ queue \in Seq(QueueItem) /\ Len(queue) <= MaxQueueSize
  /\ mqRunning = TRUE
  /\ totalProduced \in Nat /\ totalConsumed \in Nat /\ droppedSamples \in Nat

RolloutTypeOK ==
  /\ feeder \in {"feeding", "done", "cancelled"} /\ fed \in 0 .. END
  /\ popped \in 0 .. END /\ proc \in ProcStates /\ held \in Sample \cup {0}
  /\ reaping \in SUBSET Sample /\ active \in SUBSET Sample
  /\ task \in [Sample -> TaskStates] /\ failures \in Nat
  /\ paused \in BOOLEAN /\ staleness \in Nat
  /\ lockq \in Seq(LockUsers)
  /\ reset \in {"idle", "lock", "sizing", "sized", "returned"}
  /\ resetSum \in Nat
  /\ monitor \in {"sleep", "stats", "decide", "resume", "exit"}
  /\ main \in {"streaming", "putEnd", "lock", "exit"} /\ running \in BOOLEAN

TrainerTypeOK ==
  /\ trainer \in TrainerStates /\ stopping \in BOOLEAN
  /\ batch \in SUBSET Sample /\ trained \in SUBSET Sample
  /\ trainedBatches \in Nat /\ localStep \in 1 .. TriggerParameterSyncStep
  /\ version \in Nat /\ rolloutBatches \in Nat
  /\ savedModel \in Nat /\ lastCkptVersion \in Nat /\ ckptBatches \in Nat
  /\ windowTaken \in Nat /\ taskRunner \in {"running", "done"}

TypeOK == QueueTypeOK /\ RolloutTypeOK /\ TrainerTypeOK

(***************************************************************************)
(* The freshness budget.                                                   *)
(***************************************************************************)

\* Items the rollouter has taken from pending_queue for the trainer and the
\* trainer has not taken yet (the end signal counts once it is queued).
Generating == {s \in Sample : task[s] = "gen"}
HeldCount == IF held # 0 THEN 1 ELSE 0
InFlight == HeldCount + Cardinality(Generating) + Len(queue)

\* What the current window has cost: the items carried over by the last
\* reset, plus the items produced since.
WindowUse == InFlight + windowTaken

\* staleness_samples keeps the window within the budget, but for the one
\* sample the processor may hold, in no set and no queue, while
\* reset_staleness counts (lines 245, 508-544).
BudgetBound == WindowUse <= MaxRequiredSamples + 1

\* docs/advance/fully_async.md:131-134: with staleness_threshold = 0
\* "Rollouter will generate a fixed number of samples between two parameter
\* updates".  A rollouter that has spent its budget, has nothing left to
\* reap and waits to be resumed has generated that number.
FixedNumberWhenSynchronous ==
  (/\ StalenessPercent = 0
   /\ proc = "drain" /\ paused /\ active = {}
   /\ staleness >= MaxRequiredSamples
   /\ reset = "idle" /\ trainer = "collect" /\ ~stopping)
    => WindowUse = SamplesPerSync

\* The pipeline keeps the promise of SampleWindow with one item of slack,
\* and the trainer takes exactly SamplesPerSync samples between two resets.
Window == INSTANCE SampleWindow WITH
  Budget <- MaxRequiredSamples + 1,
  Quota <- SamplesPerSync,
  inflight <- InFlight,
  taken <- windowTaken,
  closed <- stopping

ImplementsSampleWindow == Window!Spec

(***************************************************************************)
(* The inductive invariant behind BudgetBound.                             *)
(***************************************************************************)

FailedActive == {s \in active : task[s] = "failed"}

\* The processor may still take samples.
Live == popped # END /\ proc # "failed"

\* The end signal has still to be queued.
EndOwed == ~Live /\ main \in {"streaming", "putEnd"}

\* The lock is held across reset_staleness's remote call and across the
\* processor's two waits for a finished task, so no task is submitted or
\* reaped while reset_staleness counts.
LockHeld ==
  /\ reset \in {"sizing", "sized"} => Holds("reset")
  /\ proc \in {"limitWait", "endWait"} => Holds("processor")

\* Where the processor has a sample in hand, and what is known of it.
HeldSample ==
  /\ held # 0 => held = popped /\ held \in Sample /\ task[held] = "none"
  /\ proc \in {"limit", "limitWait", "submit"} => held # 0 /\ popped # END
  /\ proc \in {"stats", "decide", "pause", "drain", "reap", "end", "endWait",
               "exit"} => held = 0
  /\ proc \in {"stats", "decide", "pause", "drain", "reap"} => popped # END
  /\ proc \in {"end", "endWait", "exit"} => popped = END
  /\ \A s \in Sample : s > popped => task[s] = "none"

\* active_tasks holds every running generation, and what the processor
\* reaps is finished.
ActiveTasks ==
  /\ Generating \subseteq active
  /\ proc = "reap" => reaping \subseteq Finished

\* staleness_samples, and the sum reset_staleness builds, never undercount
\* by more than the sample in hand.  A failed task is still counted.
Counting ==
  /\ WindowUse + Cardinality(FailedActive) + (IF EndOwed THEN 1 ELSE 0)
       <= MaxRequiredSamples + 1
  /\ Live => WindowUse + Cardinality(FailedActive) <= staleness + 1
  /\ reset = "sizing" => resetSum = Cardinality(active)
  /\ Live /\ reset = "sized" =>
       Cardinality(Generating) + Cardinality(FailedActive) + Len(queue) <= resetSum
  /\ main # "streaming" => ~Live

BudgetInv ==
  /\ TypeOK /\ LockHeld /\ HeldSample /\ ActiveTasks /\ Counting

(***************************************************************************)
(* Other safety properties.                                                *)
(***************************************************************************)

\* The rollouter is paused only while the processor drains, so the tests of
\* paused at lines 466 and 537 find FALSE and nobody waits for a resume that
\* nobody will send.
PausedOnlyInDrain == paused => proc \in {"drain", "reap", "failed"}

\* max_concurrent_samples bounds the running generations (line 527).
ConcurrencyBound == Cardinality(active) <= MaxConcurrentSamples

\* When no generation fails, the trainer has trained on every sample when
\* it stops, except those a full queue dropped and an incomplete last batch.
OnlyPartialBatchLost ==
  trainer = "exit" /\ failures = 0
    => Cardinality(Sample \ trained) < RequiredSamples + droppedSamples

\* No sample is trained on twice, and the parameter version counts the
\* trained batches: _fit_update_local_step, and load_checkpoint's inverse
\* global_steps = version * trigger_parameter_sync_step + 1.  The rollouter
\* generates with the weights of the last completed version.
VersionAccounting ==
  /\ trainedBatches = version * TriggerParameterSyncStep + localStep - 1
  /\ Cardinality(trained) = trainedBatches * RequiredSamples
  /\ batch \cap trained = {}
  /\ trainer # "sync" => rolloutBatches = version * TriggerParameterSyncStep

\* The old log-probabilities of every batch are computed with the model the
\* rollouter was given at the last sync, the start of the window, however
\* many batches have been trained since (_compute_old_log_prob and
\* _fit_update_weights agree on local_trigger_step).
ProximalModel == trainer = "train" => SavedForOldLogProb = rolloutBatches

\* fully_async_trainer.py:660-664: the conditions for saving a checkpoint
\* include "2. It's the last training step."
FinalCheckpointComplete ==
  trainer = "exit" /\ SaveFreq > 0 => ckptBatches = trainedBatches

(***************************************************************************)
(* Liveness.                                                               *)
(***************************************************************************)

\* Training ends, whether the data runs out or a generation fails.  It
\* needs room for every unreaped task in the budget (see README): tasks
\* finished but not reaped count as stale.
Terminates == <>(taskRunner = "done")
=============================================================================

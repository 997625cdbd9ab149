-------------------------- MODULE FullyAsyncTrainer --------------------------
(***************************************************************************)
(* The trainer of the fully asynchronous policy (fully_async_trainer.py):  *)
(* one coroutine, fit, that collects RequiredSamples samples from the      *)
(* queue, trains on them, and after TriggerParameterSyncStep batches syncs *)
(* the weights to the rollouter and resets its staleness count.            *)
(*                                                                         *)
(* Gradient computation, metrics and validation are left out: a batch is   *)
(* the set of its samples, a model is the number of batches trained.       *)
(***************************************************************************)
EXTENDS FullyAsyncRollouter

CONSTANTS
  TestFreq,   \* trainer.test_freq
  SaveFreq    \* trainer.save_freq, 0 when checkpoints are off

ASSUME TrainerAssumption == TestFreq \in Nat \ {0} /\ SaveFreq \in Nat

VARIABLES
  trainer,          \* where fit is
  stopping,         \* fit has left its loop
  batch,            \* samples collected for the next batch
  trained,          \* samples trained on
  trainedBatches,   \* batches trained, the trainer's model
  localStep,        \* local_trigger_step
  version,          \* current_param_version
  rolloutBatches,   \* batches in the model the rollouter generates with
  savedModel,       \* batches in the model saved to the CPU as copy 1
  lastCkptVersion,  \* last_ckpt_version
  ckptBatches,      \* batches in the last model saved
  windowTaken       \* samples taken from the queue since the last reset

trainerVars == <<trainer, stopping, batch, trained, trainedBatches, localStep,
                 version, rolloutBatches, savedModel, lastCkptVersion,
                 ckptBatches, windowTaken>>

TrainerStates == {"collect", "train", "sync", "resetting", "save", "exit"}

\* fit starts after the task runner's own sync and reset.
TrainerInit ==
  /\ trainer = "collect" /\ stopping = FALSE
  /\ batch = {} /\ trained = {} /\ trainedBatches = 0
  /\ localStep = 1 /\ version = 0 /\ rolloutBatches = 0 /\ savedModel = 0
  /\ lastCkptVersion = 0 /\ ckptBatches = 0
  /\ windowTaken = 0

\* One turn of _get_samples_from_queue's loop.
CollectSample ==
  /\ trainer = "collect"
  /\ TakeSample
  /\ Head(queue) # END
  /\ batch' = batch \cup {Head(queue)}
  /\ windowTaken' = windowTaken + 1
  /\ trainer' = IF Cardinality(batch') = RequiredSamples THEN "train" ELSE "collect"
  /\ UNCHANGED <<stopping, trained, trainedBatches, localStep, version,
                 rolloutBatches, savedModel, lastCkptVersion, ckptBatches,
                 rolloutVars>>

\* The end signal: an incomplete batch is discarded and fit leaves its loop.
\* _fit_update_weights then returns at once unless local_trigger_step is 1.
CollectEnd ==
  /\ trainer = "collect"
  /\ TakeSample
  /\ Head(queue) = END
  /\ batch' = {}
  /\ stopping' = TRUE
  /\ trainer' = IF version % TestFreq # 0 /\ localStep = 1 THEN "sync" ELSE "save"
  /\ UNCHANGED <<trained, trainedBatches, localStep, version, rolloutBatches,
                 savedModel, lastCkptVersion, ckptBatches, windowTaken, rolloutVars>>

\* Mutation: one local step too many.
Mut_SyncLate == localStep > TriggerParameterSyncStep

SyncDue == localStep >= TriggerParameterSyncStep

\* Mutation: every batch saves copy 1.
Mut_SavedForOldLogProb == trainedBatches

\* _compute_old_log_prob: the first batch after a sync saves the model as
\* copy 1; the others save their own, compute with copy 1, and restore.  The
\* result is the model the old log-probabilities are computed with, and
\* copy 1 from then on.
SavedForOldLogProb == IF localStep = 1 THEN trainedBatches ELSE savedModel

\* fit_step up to _fit_update_local_step.
TrainBatch ==
  /\ trainer = "train"
  /\ trained' = trained \cup batch
  /\ trainedBatches' = trainedBatches + 1
  /\ savedModel' = SavedForOldLogProb
  /\ batch' = {}
  /\ IF SyncDue
     THEN /\ localStep' = 1
          /\ version' = version + 1
          /\ trainer' = "sync"
     ELSE /\ localStep' = localStep + 1
          /\ trainer' = "save"
          /\ UNCHANGED version
  /\ UNCHANGED <<stopping, rolloutBatches, lastCkptVersion, ckptBatches,
                 windowTaken, rolloutVars, mqVars>>

\* _fit_update_weights: the checkpoint manager pushes the weights, then the
\* rollouter's reset_staleness is called.
SyncWeights ==
  /\ trainer = "sync"
  /\ rolloutBatches' = trainedBatches
  /\ reset' = "lock"
  /\ Acquire("reset")
  /\ trainer' = "resetting"
  /\ UNCHANGED <<stopping, batch, trained, trainedBatches, localStep, version,
                 savedModel, lastCkptVersion, ckptBatches, windowTaken, paused,
                 staleness, resetSum, feedVars, procVars, taskVars, mainVars, mqVars>>

ResetReturned ==
  /\ trainer = "resetting"
  /\ reset = "returned"
  /\ reset' = "idle"
  /\ trainer' = "save"
  /\ UNCHANGED <<stopping, batch, trained, trainedBatches, localStep, version,
                 rolloutBatches, savedModel, lastCkptVersion, ckptBatches,
                 windowTaken, resetSum, feedVars, procVars, taskVars, ctrlVars, mainVars,
                 mqVars>>

SaveDue ==
  /\ version # lastCkptVersion
  /\ SaveFreq > 0
  /\ stopping \/ version % SaveFreq = 0

\* _fit_save_checkpoint, forced when fit stops.
SaveCheckpoint ==
  /\ trainer = "save"
  /\ IF SaveDue
     THEN lastCkptVersion' = version /\ ckptBatches' = trainedBatches
     ELSE UNCHANGED <<lastCkptVersion, ckptBatches>>
  /\ trainer' = IF stopping THEN "exit" ELSE "collect"
  /\ UNCHANGED <<stopping, batch, trained, trainedBatches, localStep, version,
                 rolloutBatches, savedModel, windowTaken, rolloutVars, mqVars>>

Trainer ==
  \/ CollectSample \/ CollectEnd \/ TrainBatch \/ SyncWeights
  \/ ResetReturned \/ SaveCheckpoint
=============================================================================

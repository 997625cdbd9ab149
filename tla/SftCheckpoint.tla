---------------------------- MODULE SftCheckpoint ----------------------------
(***************************************************************************)
(* Supervised fine-tuning under torchrun: every rank runs SFTTrainer.fit,  *)
(* and its CheckpointHandler saves the engine, then this rank's dataloader *)
(* state, and on rank 0 replaces the tracker file by a rename.  Nothing    *)
(* between the engine's last barrier and the handler's own orders the      *)
(* other ranks' data files against rank 0's tracker.                       *)
(***************************************************************************)
EXTENDS CheckpointManager

CONSTANTS
  EpochLength,  \* steps_per_epoch
  TotalEpochs,
  SaveFreq

VARIABLES
  phase,       \* of the job: train, save, finish, done, down, broken
  life,        \* crashes so far
  model,       \* what each rank holds
  epoch, pos,  \* each rank's epoch and the batches its dataloader yielded
  after,       \* where each rank is once its engine is saved
  tracker      \* latest_checkpointed_iteration.txt, 0 if there is none

loopVars == <<life, model, epoch, pos>>
vars == <<managerVars, phase, loopVars, after, tracker>>

Initial == [count |-> 0, life |-> 0]
All(x) == [r \in Rank |-> x]
GlobalStep == model[0].count

Init ==
  /\ ManagerInit
  /\ phase = "train" /\ life = 0 /\ model = All(Initial)
  /\ epoch = All(0) /\ pos = All(0) /\ after = All("engine") /\ tracker = 0

SaveDue(n) == n >= MaxStep \/ (SaveFreq > 0 /\ n % SaveFreq = 0)
AfterStep(n) == IF n >= MaxStep THEN "finish" ELSE "train"

\* train_batch is collective: every rank comes with a batch of its own.
TrainStep ==
  /\ phase = "train"
  /\ \A r \in Rank : epoch[r] < TotalEpochs /\ pos[r] < EpochLength
  /\ pos' = [r \in Rank |-> pos[r] + 1]
  /\ model' = [r \in Rank |-> [count |-> model[r].count + 1, life |-> life]]
  /\ IF SaveDue(GlobalStep')
     THEN phase' = "save" /\ saver' = Begun
     ELSE phase' = "train" /\ saver' = Idle
  /\ UNCHANGED <<disk, dirs, kept, life, epoch, after, tracker>>

NextEpoch(r) ==
  /\ phase = "train" /\ epoch[r] < TotalEpochs /\ pos[r] = EpochLength
  /\ epoch' = [epoch EXCEPT ![r] = @ + 1] /\ pos' = [pos EXCEPT ![r] = 0]
  /\ UNCHANGED <<managerVars, phase, life, model, after, tracker>>

Return ==
  /\ \/ phase = "finish"
     \/ phase = "train" /\ \A r \in Rank : epoch[r] = TotalEpochs
  /\ phase' = "done"
  /\ UNCHANGED <<managerVars, loopVars, after, tracker>>

-----------------------------------------------------------------------------
(* CheckpointHandler.save_checkpoint.                                      *)

SaveEngine ==
  /\ phase = "save"
  /\ SaveStep("model", GlobalStep, model)
  /\ UNCHANGED <<phase, loopVars, after, tracker>>

\* A rank back from the engine goes on without waiting for the others.
OpenData(r) ==
  /\ phase = "save" /\ saver[r] = "left" /\ after[r] = "engine"
  /\ dirs' = dirs \cup {GlobalStep}
  /\ disk' = [disk EXCEPT ![GlobalStep][<<"data", r>>] = Torn]
  /\ after' = [after EXCEPT ![r] = "data"]
  /\ UNCHANGED <<kept, saver, phase, loopVars, tracker>>

CloseData(r) ==
  /\ after[r] = "data"
  /\ disk' = [disk EXCEPT ![GlobalStep][<<"data", r>>] =
                [count |-> pos[r], life |-> life]]
  /\ after' = [after EXCEPT ![r] = IF r = 0 THEN "tracker" ELSE "barrier"]
  /\ UNCHANGED <<dirs, kept, saver, phase, loopVars, tracker>>

\* The temporary file takes the tracker's place at once.
RenameTracker ==
  /\ after[0] = "tracker"
  /\ tracker' = GlobalStep
  /\ after' = [after EXCEPT ![0] = "barrier"]
  /\ UNCHANGED <<managerVars, phase, loopVars>>

\* The handler's barrier.
SaveReturns ==
  /\ phase = "save" /\ after = All("barrier")
  /\ after' = All("engine") /\ saver' = Idle
  /\ phase' = AfterStep(GlobalStep)
  /\ UNCHANGED <<disk, dirs, kept, loopVars, tracker>>

-----------------------------------------------------------------------------
(* Crash and resume.                                                       *)

Crash ==
  /\ phase \notin {"down", "done", "broken"} /\ life < MaxCrashes
  /\ ManagerCrash
  /\ life' = life + 1 /\ phase' = "down" /\ model' = All(Missing)
  /\ epoch' = All(0) /\ pos' = All(0) /\ after' = All("engine")
  /\ UNCHANGED tracker

LatestStep == IF tracker \in dirs THEN tracker ELSE 0

FromScratch ==
  /\ phase = "down" /\ LatestStep = 0
  /\ model' = All(Initial) /\ epoch' = All(0) /\ pos' = All(0)
  /\ phase' = "train"
  /\ UNCHANGED <<managerVars, life, after, tracker>>

\* Every rank loads its shard and its own data file, a missing one being a
\* warning.
DataReadable(n) == \A r \in Rank : disk[n][<<"data", r>>] # Torn

Resume ==
  /\ phase = "down" /\ LatestStep # 0
  /\ Readable(LatestStep) /\ DataReadable(LatestStep)
  /\ model' = [r \in Rank |-> disk[LatestStep][<<"model", r>>]]
  /\ epoch' = All(LatestStep \div EpochLength)
  /\ pos' = [r \in Rank |-> IF disk[LatestStep][<<"data", r>>] = Missing THEN 0
                            ELSE disk[LatestStep][<<"data", r>>].count]
  /\ phase' = "train"
  /\ UNCHANGED <<managerVars, life, after, tracker>>

ResumeFails ==
  /\ phase = "down" /\ LatestStep # 0
  /\ ~(Readable(LatestStep) /\ DataReadable(LatestStep))
  /\ phase' = "broken"
  /\ UNCHANGED <<managerVars, loopVars, after, tracker>>

Next ==
  \/ TrainStep \/ Return \/ SaveEngine \/ RenameTracker \/ SaveReturns
  \/ \E r \in Rank : NextEpoch(r) \/ OpenData(r) \/ CloseData(r)
  \/ Crash \/ FromScratch \/ Resume \/ ResumeFails

Spec == Init /\ [][Next]_vars

(***************************************************************************)
(* Properties.                                                             *)
(***************************************************************************)

\* checkpoint_handler.py:107-108 of the dataloader's state: "it's identical in
\* each dp rank".  Every rank is at the same batch, also after a resume.
SameData ==
  phase \notin {"down", "broken"} =>
    \A r \in Rank : epoch[r] * EpochLength + pos[r]
                      = epoch[0] * EpochLength + pos[0]
=============================================================================

---------------------------- MODULE RayCheckpoint ----------------------------
(***************************************************************************)
(* Training with RayPPOTrainer and its checkpoints: fit's two loops, when  *)
(* it saves, _save_checkpoint (actor, critic, dataloader and the file      *)
(* that names the latest iteration, one after the other), a crash of the   *)
(* job at any moment, and _load_checkpoint with resume_mode = auto.        *)
(* main_ppo_sync.py and fully_async_trainer.py save in the same order.     *)
(*                                                                         *)
(* A step of training is one action, and so is loading: a crash inside     *)
(* either leaves nothing behind.  The dataloader is a StatefulDataLoader   *)
(* (external): its state is the number of batches it has yielded in the    *)
(* epoch, and one restored to its end yields nothing before it starts      *)
(* again.                                                                  *)
(***************************************************************************)
EXTENDS CheckpointManager

CONSTANTS
  EpochLength,   \* len(train_dataloader)
  TotalEpochs,
  SaveFreq,
  CriticWarmup,  \* critic_warmup: no save during it
  EsiExpires     \* the capacity block may be about to end

ASSUME RayAssumption ==
  /\ EpochLength \in Nat \ {0} /\ TotalEpochs \in Nat
  /\ MaxStep <= EpochLength * TotalEpochs
  /\ SaveFreq \in Nat /\ CriticWarmup \in Nat /\ EsiExpires \in BOOLEAN
  /\ Roles \in {{"actor"}, {"actor", "critic"}} /\ ~Spmd

VARIABLES
  phase,     \* where the driver is; a role's name while that role saves
  life,      \* crashes so far
  model,     \* what each rank of each role holds
  epoch, pos,  \* epoch of the loop, batches the dataloader yielded in it
  tracker    \* latest_checkpointed_iteration.txt: 0 none, -1 empty

trainVars == <<life, model, epoch, pos>>
vars == <<managerVars, phase, trainVars, tracker>>

Empty == -1
Nothing == [c \in Roles |-> [r \in Rank |-> Missing]]
Uniform(w) == [c \in Roles |-> [r \in Rank |-> w]]
Initial == [count |-> 0, life |-> 0]

\* global_steps, once the step is done.
GlobalSteps == model["actor"][0].count

Init ==
  /\ ManagerInit
  /\ phase = "train" /\ life = 0 /\ model = Uniform(Initial)
  /\ epoch = 0 /\ pos = 0 /\ tracker = 0

-----------------------------------------------------------------------------
(* fit.                                                                    *)

\* The conditions for saving, step n just trained.
SaveDue(n, esi) ==
  /\ SaveFreq > 0 /\ n >= CriticWarmup
  /\ n >= MaxStep \/ n % SaveFreq = 0 \/ esi

AfterStep(n) == IF n >= MaxStep THEN "finish" ELSE "train"

\* One batch: generate, update critic and actor.
TrainStep ==
  /\ phase = "train" /\ epoch < TotalEpochs /\ pos < EpochLength
  /\ pos' = pos + 1
  /\ model' = [c \in Roles |-> [r \in Rank |->
                 [count |-> model[c][r].count + 1, life |-> life]]]
  /\ \E esi \in {FALSE, EsiExpires} :
       IF SaveDue(GlobalSteps', esi)
       THEN phase' = "actor" /\ saver' = Begun
       ELSE phase' = AfterStep(GlobalSteps') /\ saver' = Idle
  /\ UNCHANGED <<disk, dirs, kept, life, epoch, tracker>>

\* The inner loop is exhausted; the outer one goes on, or ends.
NextEpoch ==
  /\ phase = "train" /\ epoch < TotalEpochs /\ pos = EpochLength
  /\ epoch' = epoch + 1 /\ pos' = 0
  /\ UNCHANGED <<managerVars, phase, life, model, tracker>>

\* fit returns after the last step, or because both loops have ended.
Return ==
  /\ phase = "finish" \/ (phase = "train" /\ epoch = TotalEpochs)
  /\ phase' = "done"
  /\ UNCHANGED <<managerVars, trainVars, tracker>>

-----------------------------------------------------------------------------
(* _save_checkpoint.                                                       *)

SaveRole ==
  /\ phase \in Roles
  /\ SaveStep(phase, GlobalSteps, model[phase])
  /\ UNCHANGED <<phase, trainVars, tracker>>

\* Mutation: the critic is not saved.
Mut_ActorOnly ==
  /\ phase \in Roles /\ AllAt({"left"})
  /\ phase' = "data" /\ saver' = Idle
  /\ UNCHANGED <<disk, dirs, kept, trainVars, tracker>>

\* The driver has every rank's result.
RoleSaved ==
  /\ phase \in Roles /\ AllAt({"left"})
  /\ IF phase = "actor" /\ "critic" \in Roles
     THEN phase' = "critic" /\ saver' = Begun
     ELSE phase' = "data" /\ saver' = Idle
  /\ UNCHANGED <<disk, dirs, kept, trainVars, tracker>>

DataContent == [count |-> pos, life |-> life]

\* torch.save of the dataloader's state_dict: open, then close.
OpenData ==
  /\ phase = "data"
  /\ disk' = [disk EXCEPT ![GlobalSteps][<<"data", 0>>] = Torn]
  /\ phase' = "dataOpen"
  /\ UNCHANGED <<dirs, kept, saver, trainVars, tracker>>

CloseData ==
  /\ phase = "dataOpen"
  /\ disk' = [disk EXCEPT ![GlobalSteps][<<"data", 0>>] = DataContent]
  /\ phase' = "tracker"
  /\ UNCHANGED <<dirs, kept, saver, trainVars, tracker>>

\* open(..., "w") empties the tracker file; the number is in it when it is
\* closed.
OpenTracker ==
  /\ phase = "tracker"
  /\ tracker' = Empty /\ phase' = "trackerOpen"
  /\ UNCHANGED <<managerVars, trainVars>>

CloseTracker ==
  /\ phase = "trackerOpen"
  /\ tracker' = GlobalSteps /\ phase' = AfterStep(GlobalSteps)
  /\ UNCHANGED <<managerVars, trainVars>>

-----------------------------------------------------------------------------
(* Crash and resume.                                                       *)

Crash ==
  /\ phase \notin {"down", "done", "broken"} /\ life < MaxCrashes
  /\ ManagerCrash
  /\ life' = life + 1 /\ phase' = "down" /\ model' = Nothing
  /\ epoch' = 0 /\ pos' = 0
  /\ UNCHANGED tracker

\* find_latest_ckpt_path: 0 when there is nothing to resume from.
LatestStep == IF tracker \in dirs THEN tracker ELSE 0

FromScratch ==
  /\ phase = "down" /\ tracker # Empty /\ LatestStep = 0
  /\ model' = Uniform(Initial) /\ epoch' = 0 /\ pos' = 0 /\ phase' = "train"
  /\ UNCHANGED <<managerVars, life, tracker>>

\* Mutations: the dataloader's state is restored at an epoch boundary too, as
\* main_ppo_sync.py's _load_checkpoint does; never; or the global step is.
Mut_RestoreAlways(n) == disk[n][<<"data", 0>>].count
Mut_RestoreNever(n) == 0
Mut_RestoreGlobal(n) == n

\* A saved state at an epoch boundary marks the dataloader as exhausted and
\* is not restored; a missing one is a warning.
RestoredPosition(n) ==
  IF disk[n][<<"data", 0>>] = Missing \/ n % EpochLength = 0
  THEN 0
  ELSE disk[n][<<"data", 0>>].count

Resume ==
  /\ phase = "down" /\ LatestStep # 0
  /\ Readable(LatestStep) /\ disk[LatestStep][<<"data", 0>>] # Torn
  /\ model' = [c \in Roles |-> [r \in Rank |-> disk[LatestStep][<<c, r>>]]]
  /\ epoch' = LatestStep \div EpochLength
  /\ pos' = RestoredPosition(LatestStep)
  /\ phase' = "train"
  /\ UNCHANGED <<managerVars, life, tracker>>

\* int("") raises, and so does loading a file that is missing or torn.
ResumeFails ==
  /\ phase = "down"
  /\ \/ tracker = Empty
     \/ /\ LatestStep # 0
        /\ ~Readable(LatestStep) \/ disk[LatestStep][<<"data", 0>>] = Torn
  /\ phase' = "broken"
  /\ UNCHANGED <<managerVars, trainVars, tracker>>

\* What the job does when it is not hit by a crash.
Run ==
  \/ TrainStep \/ NextEpoch \/ Return
  \/ SaveRole \/ RoleSaved \/ OpenData \/ CloseData
  \/ OpenTracker \/ CloseTracker
  \/ FromScratch \/ Resume \/ ResumeFails

Next == Run \/ Crash

Spec == Init /\ [][Next]_vars

\* The job runs on, and is started again after a crash.
FairSpec == Spec /\ WF_vars(Run)

(***************************************************************************)
(* Properties.                                                             *)
(***************************************************************************)

Phases == Roles \cup {"train", "data", "dataOpen", "tracker", "trackerOpen",
                      "finish", "done", "down", "broken"}

TypeOK ==
  /\ ManagerTypeOK
  /\ phase \in Phases /\ life \in Life
  /\ model \in [Roles -> [Rank -> Saved \cup {Missing}]]
  /\ epoch \in 0 .. TotalEpochs /\ pos \in 0 .. EpochLength
  /\ tracker \in Step \cup {0, Empty}

InMemory == phase \notin {"down", "broken"}

\* checkpoint_manager.py:148-149, ensure_checkpoint_capacity: "we keep the
\* existing checkpoint until the new save completes successfully".  What a
\* new job would resume from can be read, whatever is being saved.
KeptUntilSaved == tracker \in Step => Readable(tracker)

\* The checkpoint the tracker names is whole: every role and rank has the
\* weights of that very step from one life of the job, and the dataloader's
\* state is of the same moment.
TrackedComplete ==
  tracker \in Step =>
    /\ tracker \in dirs
    /\ \E l \in Life :
         /\ \A c \in Roles, r \in Rank :
              disk[tracker][<<c, r>>] = [count |-> tracker, life |-> l]
         /\ disk[tracker][<<"data", 0>>].life = l
         /\ disk[tracker][<<"data", 0>>].count \in 1 .. EpochLength
         /\ disk[tracker][<<"data", 0>>].count % EpochLength
              = tracker % EpochLength

\* No batch is skipped and none is trained on twice, across crashes: the
\* weights in memory have seen each batch up to the loader's position once.
EachBatchOnce == InMemory => GlobalSteps = epoch * EpochLength + pos

\* A job that ends has trained on every epoch.
AllTrained == phase = "done" => GlobalSteps = MaxStep

\* max_ckpt_to_keep bounds the checkpoints a life of the job has on disk,
\* the one being written included.
WithinCapacity ==
  Keep > 1 => \A c \in Roles : Cardinality(WrittenBy(c, life)) <= Keep

\* Checkpoints implement a durable register, torn only by the tracker.
Durable == INSTANCE DurableProgress WITH
  Values <- {Uniform(w) : w \in [count : Step, life : Life]},
  Fresh <- Uniform(Initial),
  Lost <- Nothing,
  MayTear <- TRUE,
  current <- model,
  saved <- IF tracker = Empty THEN Nothing
           ELSE IF tracker = 0 THEN Uniform(Initial)
           ELSE [c \in Roles |-> [r \in Rank |-> disk[tracker][<<c, r>>]]]

ImplementsDurable == Durable!Spec

\* Training ends, or finds the torn tracker.
Terminates == <>(phase \in {"done", "broken"})
=============================================================================

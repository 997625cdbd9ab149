-------------------------- MODULE CheckpointManager --------------------------
(***************************************************************************)
(* The checkpoint directory and FSDPCheckpointManager.save_checkpoint:     *)
(* every rank of a worker group runs it, with two barriers, and rank 0     *)
(* also rotates the older checkpoints.  The directory outlives the         *)
(* processes; previous_saved_paths does not.                               *)
(*                                                                         *)
(* A rank's model, optimizer and extra files are one file here: they are   *)
(* written one after the other and needed together.  torch.save is not     *)
(* atomic: an opened file is Torn until it is closed.  What a weights file *)
(* holds is known by the number of steps trained and the life of the job   *)
(* in which the last of them was.                                          *)
(***************************************************************************)
EXTENDS Integers, FiniteSets

CONSTANTS
  Roles,       \* worker groups that save: actor and critic, or the one model
  NumRanks,    \* processes of a worker group
  MaxStep,     \* total_training_steps
  Keep,        \* max_ckpt_to_keep, 0 for None
  MaxCrashes,  \* bound: crashes of the job
  Spmd         \* a checkpoint is one directory and every rank saves its data

Rank == 0 .. NumRanks - 1
Step == 1 .. MaxStep + MaxCrashes   \* a finished job that is run again may train one more
Life == 0 .. MaxCrashes

ASSUME CheckpointAssumption ==
  /\ NumRanks \in Nat \ {0} /\ MaxStep \in Nat \ {0} /\ Keep \in Nat
  /\ MaxCrashes \in Nat /\ Spmd \in BOOLEAN
  /\ Roles # {} /\ "data" \notin Roles

Saved == [count : Nat, life : Life]
Missing == [count |-> -1, life |-> 0]
Torn == [count |-> -2, life |-> 0]

DataFile == {"data"} \X (IF Spmd THEN Rank ELSE {0})
File == (Roles \X Rank) \cup DataFile

\* The files below local_path, the directory a manager saves to and removes.
PathFiles(c) == ({c} \X Rank) \cup (IF Spmd THEN DataFile ELSE {})

VARIABLES
  disk,   \* the files of each global_step_N directory
  dirs,   \* the global_step_N directories that exist
  kept,   \* previous_saved_paths of each group's rank 0
  saver   \* where each rank is in save_checkpoint

managerVars == <<disk, dirs, kept, saver>>

SaverStates == {"idle", "begin", "made", "open", "written", "registered", "left"}
AllAt(states) == \A r \in Rank : saver[r] \in states
Idle == [r \in Rank |-> "idle"]
Begun == [r \in Rank |-> "begin"]

ManagerInit ==
  /\ disk = [n \in Step |-> [f \in File |-> Missing]]
  /\ dirs = {} /\ kept = [c \in Roles |-> {}] /\ saver = Idle

\* previous_saved_paths beyond the newest limit: steps only grow within a
\* life, so the oldest paths are those of the smallest steps.
Excess(c, limit) ==
  {n \in kept[c] : Cardinality({m \in kept[c] : m > n}) >= limit}

\* Mutations: one path too many goes, or none.
Mut_EnsureOneMore(c) == Excess(c, Keep - 2)
Mut_EnsureNone(c) == {}

\* ensure_checkpoint_capacity: room for the new checkpoint, only when at
\* least two are kept.
ToEnsure(c) == IF Keep > 1 THEN Excess(c, Keep - 1) ELSE {}

\* register_checkpoint, once the new path is in the list.
ToRegister(c) == IF Keep > 0 THEN Excess(c, Keep) ELSE {}

\* The paths rank 0 is about to drop from its list.
Obsolete(c) ==
  CASE saver[0] = "begin" -> ToEnsure(c)
    [] saver[0] = "registered" -> ToRegister(c)
    [] OTHER -> {}

\* shutil.rmtree removes one file after the other.
RemoveFile(c) ==
  /\ \E n \in Obsolete(c), f \in PathFiles(c) :
       /\ disk[n][f] # Missing
       /\ disk' = [disk EXCEPT ![n][f] = Missing]
  /\ UNCHANGED <<dirs, kept, saver>>

Removed(c) == \A n \in Obsolete(c), f \in PathFiles(c) : disk[n][f] = Missing

\* Rank 0 forgets the paths it removed, then makes the directory; the other
\* ranks only make it.
MakeDirectory(c, r, n) ==
  /\ saver[r] = "begin"
  /\ r = 0 => Removed(c)
  /\ kept' = IF r = 0 THEN [kept EXCEPT ![c] = @ \ ToEnsure(c)] ELSE kept
  /\ dirs' = (IF r = 0 /\ Spmd THEN dirs \ ToEnsure(c) ELSE dirs) \cup {n}
  /\ saver' = [saver EXCEPT ![r] = "made"]
  /\ UNCHANGED disk

\* The first barrier, then torch.save opens the file.
OpenShard(c, r, n) ==
  /\ saver[r] = "made" /\ \A q \in Rank : saver[q] # "begin"
  /\ disk' = [disk EXCEPT ![n][<<c, r>>] = Torn]
  /\ saver' = [saver EXCEPT ![r] = "open"]
  /\ UNCHANGED <<dirs, kept>>

CloseShard(c, r, n, weights) ==
  /\ saver[r] = "open"
  /\ disk' = [disk EXCEPT ![n][<<c, r>>] = weights]
  /\ saver' = [saver EXCEPT ![r] = "written"]
  /\ UNCHANGED <<dirs, kept>>

\* Mutation: a rank that has left does not count at the second barrier.
Mut_LateBarrier(r) == AllAt({"written"})

\* The second barrier: nobody leaves before everybody has written.
AllWritten(r) == AllAt({"written", "registered", "left"})

\* Rank 0 registers the new path.
RegisterCheckpoint(c, n) ==
  /\ saver[0] = "written" /\ AllWritten(0)
  /\ kept' = [kept EXCEPT ![c] = @ \cup {n}]
  /\ saver' = [saver EXCEPT ![0] = "registered"]
  /\ UNCHANGED <<disk, dirs>>

\* save_checkpoint returns: rank 0 once the excess is removed.
ReturnFromSave(c, r) ==
  /\ IF r = 0
     THEN /\ saver[0] = "registered" /\ Removed(c)
          /\ kept' = [kept EXCEPT ![c] = @ \ ToRegister(c)]
          /\ dirs' = IF Spmd THEN dirs \ ToRegister(c) ELSE dirs
     ELSE /\ saver[r] = "written" /\ AllWritten(r)
          /\ UNCHANGED <<kept, dirs>>
  /\ saver' = [saver EXCEPT ![r] = "left"]
  /\ UNCHANGED disk

\* One step of save_checkpoint with local_path of step n; memory[r] is what
\* rank r holds.
SaveStep(c, n, memory) ==
  \/ RemoveFile(c)
  \/ RegisterCheckpoint(c, n)
  \/ \E r \in Rank :
       \/ MakeDirectory(c, r, n)
       \/ OpenShard(c, r, n)
       \/ CloseShard(c, r, n, memory[r])
       \/ ReturnFromSave(c, r)

\* The processes are gone: their memory with them.
ManagerCrash ==
  /\ kept' = [c \in Roles |-> {}] /\ saver' = Idle
  /\ UNCHANGED <<disk, dirs>>

\* Every weights file of a checkpoint can be read.
Readable(n) ==
  \A c \in Roles, r \in Rank : disk[n][<<c, r>>] \in Saved

ManagerTypeOK ==
  /\ disk \in [Step -> [File -> Saved \cup {Missing, Torn}]]
  /\ dirs \subseteq Step /\ kept \in [Roles -> SUBSET Step]
  /\ saver \in [Rank -> SaverStates]

\* Steps whose weights this life of the job has on disk.
WrittenBy(c, l) ==
  {n \in Step : \E r \in Rank :
     disk[n][<<c, r>>] \in Saved /\ disk[n][<<c, r>>].life = l}
=============================================================================

------------------------ MODULE RayCheckpoint_proofs ------------------------
(***************************************************************************)
(* Proofs about RayCheckpoint, for any number of ranks, steps, epochs and  *)
(* crashes, and any number of checkpoints kept but one (with one, the old  *)
(* checkpoint goes before the new one is whole).                           *)
(*                                                                         *)
(* The argument: a job that saves has trained beyond the step the tracker  *)
(* names, so that it writes to another directory; and no path it registers *)
(* before the tracker is replaced is newer than the tracker's, but the one *)
(* it is writing, so that rotation, which spares the newest, spares the    *)
(* tracker's directory.  What a life of the job has on disk is registered, *)
(* or being written after rank 0 made room for it.  And the loops leave no *)
(* epoch begun: a job that ends has trained up to the last step.           *)
(***************************************************************************)
EXTENDS RayCheckpoint, FiniteSetTheorems, WellFoundedInduction, TLAPS

\* Phases of a save before the tracker is opened, and all of them.
Writing == Roles \cup {"data", "dataOpen", "tracker"}
Saving == Writing \cup {"trackerOpen"}

\* Role c of this save is past the point where ranks in states are.
Past(c, r, states) ==
  phase \in Roles =>
    (phase = "critic" /\ c = "actor") \/ (phase = c /\ saver[r] \in states)

\* One state of training in memory, or none.
OneModel ==
  /\ InMemory => model = Uniform(model["actor"][0]) /\ model["actor"][0] \in Saved
  /\ ~InMemory => model = Nothing

\* How far a life of the job can get, and where a save is.
Progress ==
  /\ phase = "train" => GlobalSteps < MaxStep + life
  /\ phase \in Saving =>
       /\ GlobalSteps \in 1 .. MaxStep + life
       /\ model["actor"][0].life = life
       /\ epoch < TotalEpochs /\ pos >= 1

\* Training is at the tracked step or beyond it.
Ahead ==
  /\ InMemory => tracker <= GlobalSteps
  /\ phase \in Writing => tracker < GlobalSteps
  /\ tracker <= MaxStep + life
  /\ ~InMemory => tracker < MaxStep + life
  /\ tracker <= EpochLength * TotalEpochs

\* The paths a manager may remove one day.
KeptOld ==
  \A c \in Roles : \A m \in kept[c] :
    /\ InMemory
    /\ IF phase = "trackerOpen" THEN m <= GlobalSteps
       ELSE \/ m <= tracker
            \/ /\ phase \in Writing /\ m = GlobalSteps
               /\ Past(c, 0, {"registered", "left"})

\* What the checkpoint being written has on disk.
Written ==
  /\ phase \in Saving =>
       \A c \in Roles, r \in Rank :
         /\ Past(c, r, {"written", "registered", "left"}) =>
              disk[GlobalSteps][<<c, r>>] = model[c][r]
         /\ Past(c, r, SaverStates \ {"idle", "begin"}) => GlobalSteps \in dirs
  /\ phase \in {"tracker", "trackerOpen"} =>
       disk[GlobalSteps][<<"data", 0>>] = DataContent

IInv ==
  /\ TypeOK /\ OneModel /\ EachBatchOnce /\ Progress /\ Ahead
  /\ KeptOld /\ Written /\ TrackedComplete

-----------------------------------------------------------------------------
(* Division, for the epoch and position of a global step.                  *)

\* The quotient and the remainder of a division.
LEMMA Divides ==
  ASSUME NEW n \in Nat, NEW d \in Nat \ {0}
  PROVE  /\ n \div d \in Nat /\ n % d \in 0 .. d - 1
         /\ n = d * (n \div d) + (n % d)
  OBVIOUS

\* A product grows with its factor.
LEMMA ProductMono ==
  ASSUME NEW a \in Int, NEW b \in Int, NEW d \in Nat, a <= b
  PROVE  a * d <= b * d
<1>1. b - a \in Nat /\ (b - a) * d \in Nat
  OBVIOUS
<1>2. b * d = (b - a) * d + a * d
  OBVIOUS
<1> QED BY <1>1, <1>2

\* A quotient and a remainder are the only ones.
LEMMA Quotient ==
  ASSUME NEW n \in Nat, NEW d \in Nat \ {0}, NEW e \in Nat, NEW p \in 0 .. d - 1,
         n = e * d + p
  PROVE  n \div d = e /\ n % d = p
<1> DEFINE q == n \div d  r == n % d
<1>1. q \in Nat /\ r \in 0 .. d - 1 /\ n = d * q + r
  BY Divides
<1> HIDE DEF q, r
<1>2. CASE q < e
  <2>1. (q + 1) * d <= e * d
    BY <1>1, <1>2, ProductMono
  <2>2. (q + 1) * d = d * q + d
    BY <1>1
  <2> QED BY <2>1, <2>2, <1>1
<1>3. CASE q > e
  <2>1. (e + 1) * d <= q * d
    BY <1>1, <1>3, ProductMono
  <2>2. (e + 1) * d = e * d + d /\ q * d = d * q
    BY <1>1
  <2> QED BY <2>1, <2>2, <1>1
<1>4. CASE q = e
  <2>1. d * q = e * d
    BY <1>4, <1>1
  <2> QED BY <1>1, <1>4, <2>1 DEF q, r
<1> QED BY <1>1, <1>2, <1>3, <1>4

\* A position within an epoch of length d, counted from 1, and the global
\* step have the same remainder.
LEMMA SameRemainder ==
  ASSUME NEW d \in Nat \ {0}, NEW e \in Nat, NEW p \in 1 .. d
  PROVE  (e * d + p) % d = p % d
<1>1. CASE p = d
  <2>1. e * d + p = (e + 1) * d + 0 /\ e * d + p \in Nat /\ p = 1 * d + 0
    BY <1>1
  <2>2. (e * d + p) % d = 0
    BY <2>1, Quotient, e + 1 \in Nat, 0 \in 0 .. d - 1
  <2>3. p % d = 0
    BY <2>1, Quotient, 1 \in Nat, 0 \in 0 .. d - 1
  <2> QED BY <2>2, <2>3
<1>2. CASE p < d
  <2>1. e * d + p \in Nat /\ p \in 0 .. d - 1 /\ p = 0 * d + p
    BY <1>2
  <2>2. (e * d + p) % d = p
    BY <2>1, Quotient
  <2>3. p % d = p
    BY <2>1, Quotient, 0 \in Nat
  <2> QED BY <2>2, <2>3
<1> QED BY <1>1, <1>2

\* A saved position that is not at the end of an epoch is the remainder.
LEMMA PositionOf ==
  ASSUME NEW d \in Nat \ {0}, NEW p \in 1 .. d, NEW n \in Nat,
         p % d = n % d, n % d # 0
  PROVE  n = (n \div d) * d + p /\ p < d
<1>1. p # d
  <2>1. SUFFICES ASSUME p = d PROVE FALSE
    OBVIOUS
  <2>2. p = 1 * d + 0 /\ p \in Nat
    BY <2>1
  <2>3. p % d = 0
    BY <2>2, Quotient, 1 \in Nat, 0 \in 0 .. d - 1
  <2> QED BY <2>3
<1>2. p \in 0 .. d - 1 /\ p \in Nat /\ p = 0 * d + p
  BY <1>1
<1>3. p % d = p
  BY <1>2, Quotient, 0 \in Nat
<1>4. n \div d \in Nat /\ n = d * (n \div d) + (n % d)
  BY Divides
<1>5. d * (n \div d) = (n \div d) * d
  BY <1>4
<1> QED BY <1>2, <1>3, <1>4, <1>5

\* A step that an epoch before the last one reaches, and the epoch of a step.
LEMMA EpochBound ==
  ASSUME NEW d \in Nat \ {0}, NEW total \in Nat
  PROVE  /\ \A e \in Nat, p \in 0 .. d : e < total => e * d + p <= d * total
         /\ \A n \in Nat : n <= d * total => n \div d <= total
<1>1. ASSUME NEW e \in Nat, NEW p \in 0 .. d, e < total
      PROVE  e * d + p <= d * total
  <2>1. (e + 1) * d <= total * d
    BY <1>1, ProductMono
  <2>2. (e + 1) * d = e * d + d /\ total * d = d * total
    OBVIOUS
  <2> QED BY <2>1, <2>2
<1>2. ASSUME NEW n \in Nat, n <= d * total
      PROVE  n \div d <= total
  <2> DEFINE q == n \div d
  <2>1. q \in Nat /\ n % d \in 0 .. d - 1 /\ n = d * q + (n % d)
    BY Divides
  <2>2. SUFFICES ASSUME q > total PROVE FALSE
    BY <2>1
  <2> HIDE DEF q
  <2>3. (total + 1) * d <= q * d
    BY <2>1, <2>2, ProductMono
  <2>4. (total + 1) * d = d * total + d /\ q * d = d * q
    BY <2>1
  <2> QED BY <2>1, <2>3, <2>4, <1>2
<1> QED BY <1>1, <1>2

-----------------------------------------------------------------------------
(* Constants, and what rotation spares.                                    *)

\* The roles are an actor and perhaps a critic; their files are told from the
\* dataloader's.
LEMMA Constants ==
  /\ Roles = {"actor"} \/ Roles = {"actor", "critic"}
  /\ 0 \in Rank /\ IsFiniteSet(Step)
  /\ DataFile = {<<"data", 0>>}
  /\ \A c \in Roles : PathFiles(c) = {c} \X Rank
  /\ File = (Roles \X Rank) \cup {<<"data", 0>>}
  /\ \A c \in Roles, r \in Rank : <<c, r>> \in File /\ <<c, r>> # <<"data", 0>>
<1>1. Roles = {"actor"} \/ Roles = {"actor", "critic"}
  BY RayAssumption
<1>2. 0 \in Rank
  BY CheckpointAssumption DEF Rank
<1>3. IsFiniteSet(Step)
  BY CheckpointAssumption, FS_Interval DEF Step
<1>4. DataFile = {<<"data", 0>>}
  BY RayAssumption DEF DataFile
<1>5. File = (Roles \X Rank) \cup {<<"data", 0>>}
  BY <1>4 DEF File
<1>6. \A c \in Roles : PathFiles(c) = {c} \X Rank
  BY RayAssumption DEF PathFiles
<1>7. \A c \in Roles, r \in Rank : <<c, r>> \in File /\ <<c, r>> # <<"data", 0>>
  BY <1>1, <1>5
<1> QED BY <1>1, <1>2, <1>3, <1>4, <1>5, <1>6, <1>7

\* The step of the checkpoint being written.
LEMMA SavedStep ==
  ASSUME IInv, phase \in Saving
  PROVE  /\ GlobalSteps \in Step
         /\ tracker # GlobalSteps \/ phase = "trackerOpen"
         /\ \A c \in Roles, r \in Rank :
              model[c][r] = [count |-> GlobalSteps, life |-> life]
<1>1. GlobalSteps \in Step
  <2>1. life \in 0 .. MaxCrashes
    BY DEF IInv, TypeOK, Life
  <2> QED BY <2>1, CheckpointAssumption DEF IInv, Progress, Step
<1>2. InMemory
  BY Constants DEF InMemory, Saving, Writing
<1>3. model["actor"][0] = [count |-> GlobalSteps, life |-> life]
  BY <1>2 DEF IInv, OneModel, Progress, Saved, GlobalSteps
<1>4. \A c \in Roles, r \in Rank : model[c][r] = model["actor"][0]
  BY <1>2 DEF IInv, OneModel, Uniform
<1>5. tracker # GlobalSteps \/ phase = "trackerOpen"
  BY <1>1 DEF IInv, Ahead, TypeOK, Saving, Step
<1> QED BY <1>1, <1>3, <1>4, <1>5

\* Rotation never takes the checkpoint the tracker names, nor the one that is
\* being written.
LEMMA RotationSpares ==
  ASSUME IInv, Keep # 1, phase \in Roles, NEW m \in Obsolete(phase)
  PROVE  m \in Step /\ m # tracker /\ m # GlobalSteps
<1> DEFINE newer == {k \in kept[phase] : k > m}
<1>1. /\ m \in kept[phase] /\ kept[phase] \subseteq Step /\ Keep \in Nat /\ Keep >= 2
      /\ \/ saver[0] = "begin" /\ Cardinality(newer) >= Keep - 1
         \/ saver[0] = "registered" /\ Cardinality(newer) >= Keep
  BY CheckpointAssumption
  DEF IInv, TypeOK, ManagerTypeOK, Obsolete, ToEnsure, ToRegister, Excess
<1>2. phase \in Writing /\ phase \in Saving /\ phase # "trackerOpen"
  BY Constants DEF Writing, Saving
<1>3. GlobalSteps \in Step /\ tracker < GlobalSteps /\ tracker \in Int
  BY <1>2, SavedStep DEF IInv, Ahead, TypeOK, Step
<1>4. \A k \in kept[phase] :
        k <= tracker \/ (k = GlobalSteps /\ saver[0] \in {"registered", "left"})
  BY <1>2, Constants DEF IInv, KeptOld, Past
<1>5. Cardinality({}) = 0 /\ Cardinality({GlobalSteps}) = 1 /\ IsFiniteSet({GlobalSteps})
  BY FS_EmptySet, FS_Singleton
<1>6. Cardinality(newer) \in Nat
  <2>1. IsFiniteSet(newer)
    BY <1>1, Constants, FS_Subset
  <2> QED BY <2>1, FS_CardinalityType
<1>7. CASE saver[0] = "begin"
  <2>1. m <= tracker /\ m # GlobalSteps
    BY <1>1, <1>3, <1>4, <1>7 DEF Step
  <2>2. m = tracker => newer = {}
    BY <1>1, <1>3, <1>4, <1>7 DEF Step
  <2> HIDE DEF newer
  <2>3. newer # {}
    BY <1>1, <1>5, <1>7
  <2> QED BY <1>1, <2>1, <2>2, <2>3
<1>8. CASE saver[0] = "registered"
  <2>1. m = GlobalSteps => newer = {}
    BY <1>1, <1>3, <1>4, <1>8 DEF Step
  <2>2. m = tracker => newer \subseteq {GlobalSteps}
    BY <1>1, <1>3, <1>4, <1>8 DEF Step
  <2>3. m = tracker => Cardinality(newer) <= 1
    BY <2>2, <1>5, FS_Subset
  <2> HIDE DEF newer
  <2>4. newer # {} /\ ~(Cardinality(newer) <= 1)
    BY <1>1, <1>5, <1>8, <1>6
  <2> QED BY <1>1, <2>1, <2>3, <2>4
<1> QED BY <1>1, <1>7, <1>8

-----------------------------------------------------------------------------
(* The steps of a save.                                                    *)

\* What a step of a save that leaves the driver alone preserves.
LEMMA DriverAlone ==
  ASSUME IInv, phase \in Roles,
         UNCHANGED <<phase, life, model, epoch, pos, tracker>>
  PROVE  OneModel' /\ EachBatchOnce' /\ Progress' /\ Ahead'
         /\ GlobalSteps' = GlobalSteps /\ InMemory' /\ InMemory
<1>1. phase \notin {"down", "broken"}
  BY Constants
<1> QED BY <1>1 DEF IInv, OneModel, EachBatchOnce, Progress, Ahead, InMemory,
          GlobalSteps, Saving, Writing

\* Whatever happens to other files, the tracked checkpoint stays whole.
LEMMA TrackedUntouched ==
  ASSUME IInv, tracker' = tracker, dirs \subseteq dirs',
         tracker \in Step =>
           \A f \in File : disk'[tracker][f] = disk[tracker][f]
  PROVE  TrackedComplete'
<1>1. SUFFICES ASSUME tracker \in Step PROVE TrackedComplete'
  BY DEF TrackedComplete
<1>2. \A c \in Roles, r \in Rank :
        disk'[tracker][<<c, r>>] = disk[tracker][<<c, r>>]
  BY <1>1, Constants
<1>3. disk'[tracker][<<"data", 0>>] = disk[tracker][<<"data", 0>>]
  BY <1>1, Constants
<1>4. PICK l \in Life :
        /\ \A c \in Roles, r \in Rank :
             disk[tracker][<<c, r>>] = [count |-> tracker, life |-> l]
        /\ disk[tracker][<<"data", 0>>].life = l
        /\ disk[tracker][<<"data", 0>>].count \in 1 .. EpochLength
        /\ disk[tracker][<<"data", 0>>].count % EpochLength = tracker % EpochLength
  BY <1>1 DEF IInv, TrackedComplete
<1>5. tracker \in dirs
  BY <1>1 DEF IInv, TrackedComplete
<1>6. \A c \in Roles, r \in Rank :
        disk'[tracker'][<<c, r>>] = [count |-> tracker', life |-> l]
  BY <1>2, <1>4
<1>7. disk'[tracker'][<<"data", 0>>] = disk[tracker][<<"data", 0>>]
  BY <1>3
<1> QED BY <1>4, <1>5, <1>6, <1>7 DEF TrackedComplete

\* SaveRole preserves the invariant: one step per step of the manager.
LEMMA SaveRolePreserves ==
  ASSUME IInv, Keep # 1, SaveRole
  PROVE  IInv'
<1> DEFINE n == GlobalSteps
<1>1. /\ phase \in Roles /\ phase \in Writing /\ phase \in Saving
      /\ phase \notin {"tracker", "trackerOpen"}
      /\ UNCHANGED <<phase, life, model, epoch, pos, tracker>>
  BY Constants DEF SaveRole, Writing, Saving, trainVars
<1>2. OneModel' /\ EachBatchOnce' /\ Progress' /\ Ahead' /\ n' = n
      /\ InMemory' /\ InMemory
  BY <1>1, DriverAlone
<1>3. /\ n \in Step /\ tracker # n
      /\ \A c \in Roles, r \in Rank :
           model[c][r] = [count |-> n, life |-> life]
  BY <1>1, SavedStep, Constants
<1>4. TypeOK /\ TypeOK' = (ManagerTypeOK' /\ phase \in Phases /\ life \in Life
         /\ model \in [Roles -> [Rank -> Saved \cup {Missing}]]
         /\ epoch \in 0 .. TotalEpochs /\ pos \in 0 .. EpochLength
         /\ tracker \in Step \cup {0, Empty})
  BY <1>1 DEF IInv, TypeOK
<1>5. /\ disk \in [Step -> [File -> Saved \cup {Missing, Torn}]]
      /\ dirs \subseteq Step /\ kept \in [Roles -> SUBSET Step]
      /\ saver \in [Rank -> SaverStates]
  BY <1>4 DEF TypeOK, ManagerTypeOK
<1> DEFINE Good == TypeOK' /\ KeptOld' /\ Written' /\ TrackedComplete'
<1>6. SUFFICES Good
  BY <1>2 DEF IInv
<1>7. CASE RemoveFile(phase)
  <2>1. PICK m \in Obsolete(phase), f \in PathFiles(phase) :
          disk' = [disk EXCEPT ![m][f] = Missing]
    BY <1>7 DEF RemoveFile
  <2>2. /\ m \in Step /\ m # tracker /\ m # n /\ f \in File
        /\ UNCHANGED <<dirs, kept, saver>>
    BY <1>1, <1>7, RotationSpares, Constants DEF RemoveFile
  <2>3. TypeOK'
    BY <1>4, <1>5, <2>1, <2>2 DEF ManagerTypeOK, TypeOK
  <2>4. KeptOld'
    BY <1>1, <1>2, <2>2 DEF IInv, KeptOld, Past, Writing
  <2>5. disk'[n] = disk[n] /\ (tracker \in Step => disk'[tracker] = disk[tracker])
    BY <1>3, <1>5, <2>1, <2>2
  <2>6. Written'
    BY <1>1, <1>2, <2>2, <2>5 DEF IInv, Written, Past, Saving, Writing
  <2>7. TrackedComplete'
    BY <1>1, <2>2, <2>5, TrackedUntouched
  <2> QED BY <2>3, <2>4, <2>6, <2>7
<1>8. CASE RegisterCheckpoint(phase, n)
  <2>1. /\ UNCHANGED <<disk, dirs>> /\ saver[0] = "written"
        /\ kept' = [kept EXCEPT ![phase] = @ \cup {n}]
        /\ saver' = [saver EXCEPT ![0] = "registered"]
    BY <1>8 DEF RegisterCheckpoint
  <2>2. TypeOK'
    BY <1>1, <1>3, <1>4, <1>5, <2>1, Constants DEF ManagerTypeOK, TypeOK, SaverStates
  <2>3. KeptOld'
    <3>1. SUFFICES ASSUME NEW c \in Roles, NEW m \in kept'[c]
                   PROVE  m <= tracker \/ (m = n /\ Past(c, 0, {"registered", "left"})')
      BY <1>1, <1>2 DEF KeptOld, Writing
    <3>2. saver'[0] = "registered"
      BY <1>5, <2>1, Constants
    <3>3. CASE c = phase /\ m = n
      BY <1>1, <3>2, <3>3 DEF Past
    <3>4. CASE c # phase \/ m # n
      <4>1. m \in kept[c]
        BY <1>1, <1>5, <2>1, <3>1, <3>4
      <4> QED BY <1>1, <1>2, <2>1, <3>2, <4>1 DEF IInv, KeptOld, Past
    <3> QED BY <3>3, <3>4
  <2>4. Written'
    BY <1>1, <1>2, <1>5, <2>1, Constants
    DEF IInv, Written, Past, Saving, Writing, SaverStates
  <2>5. TrackedComplete'
    BY <1>1, <2>1, TrackedUntouched
  <2> QED BY <2>2, <2>3, <2>4, <2>5
<1>9. ASSUME NEW r \in Rank, MakeDirectory(phase, r, n)
      PROVE  Good
  <2>1. /\ UNCHANGED disk /\ saver[r] = "begin" /\ dirs' = dirs \cup {n}
        /\ saver' = [saver EXCEPT ![r] = "made"]
        /\ kept' \in [Roles -> SUBSET Step]
        /\ \A c \in Roles : kept'[c] \subseteq kept[c]
    BY <1>1, <1>5, <1>9, RayAssumption DEF MakeDirectory
  <2>2. TypeOK'
    BY <1>3, <1>4, <1>5, <2>1 DEF ManagerTypeOK, TypeOK, SaverStates
  <2>3. KeptOld'
    <3>1. \A c \in Roles : Past(c, 0, {"registered", "left"}) =>
                             Past(c, 0, {"registered", "left"})'
      BY <1>1, <1>5, <2>1, Constants DEF Past
    <3> QED BY <1>1, <1>2, <2>1, <3>1 DEF IInv, KeptOld, Writing
  <2>4. Written'
    BY <1>1, <1>2, <1>3, <1>5, <2>1, Constants
    DEF IInv, Written, Past, Saving, Writing, SaverStates
  <2>5. TrackedComplete'
    BY <1>1, <2>1, TrackedUntouched
  <2> QED BY <2>2, <2>3, <2>4, <2>5
<1>10. ASSUME NEW r \in Rank, NEW w \in Saved \cup {Missing, Torn},
              NEW before \in {"made", "open"}, NEW after \in {"open", "written"},
              saver[r] = before, after = "written" => w = model[phase][r],
              disk' = [disk EXCEPT ![n][<<phase, r>>] = w],
              saver' = [saver EXCEPT ![r] = after], UNCHANGED <<dirs, kept>>
       PROVE  Good
  <2>1. <<phase, r>> \in File
    BY <1>1, Constants
  <2>2. TypeOK'
    BY <1>3, <1>4, <1>5, <1>10, <2>1 DEF ManagerTypeOK, TypeOK, SaverStates
  <2>3. KeptOld'
    <3>1. \A c \in Roles : Past(c, 0, {"registered", "left"}) =>
                             Past(c, 0, {"registered", "left"})'
      BY <1>1, <1>5, <1>10, Constants DEF Past
    <3> QED BY <1>1, <1>2, <1>10, <3>1 DEF IInv, KeptOld, Writing
  <2>4. Written'
    <3>1. ASSUME NEW c \in Roles, NEW q \in Rank,
                 Past(c, q, {"written", "registered", "left"})'
          PROVE  disk'[n][<<c, q>>] = model[c][q]
      <4>1. CASE c = phase /\ q = r
        BY <1>1, <1>3, <1>5, <1>10, <2>1, <3>1, <4>1, Constants DEF Past
      <4>2. CASE c # phase \/ q # r
        <5>1. Past(c, q, {"written", "registered", "left"})
          BY <1>1, <1>5, <1>10, <3>1, <4>2 DEF Past
        <5>2. <<c, q>> # <<phase, r>>
          BY <4>2
        <5>3. disk'[n][<<c, q>>] = disk[n][<<c, q>>]
          BY <1>3, <1>5, <1>10, <5>2, Constants
        <5> QED BY <1>1, <5>1, <5>3 DEF IInv, Written
      <4> QED BY <4>1, <4>2
    <3>2. ASSUME NEW c \in Roles, NEW q \in Rank,
                 Past(c, q, SaverStates \ {"idle", "begin"})'
          PROVE  n \in dirs
      <4>1. Past(c, q, SaverStates \ {"idle", "begin"})
        BY <1>1, <1>5, <1>10, <3>2 DEF Past, SaverStates
      <4> QED BY <1>1, <4>1 DEF IInv, Written
    <3> QED BY <1>1, <1>2, <1>10, <3>1, <3>2 DEF Written
  <2>5. tracker \in Step => disk'[tracker] = disk[tracker]
    BY <1>3, <1>5, <1>10
  <2>6. TrackedComplete'
    BY <1>1, <1>10, <2>5, TrackedUntouched
  <2> QED BY <2>2, <2>3, <2>4, <2>6
<1>11. ASSUME NEW r \in Rank, OpenShard(phase, r, n)
       PROVE  Good
  BY <1>10, <1>11 DEF OpenShard
<1>12. ASSUME NEW r \in Rank, CloseShard(phase, r, n, model[phase][r])
       PROVE  Good
  <2>1. model[phase][r] \in Saved \cup {Missing, Torn}
    BY <1>1, <1>4 DEF TypeOK
  <2> QED BY <1>10, <1>12, <2>1 DEF CloseShard
<1>13. ASSUME NEW r \in Rank, ReturnFromSave(phase, r)
       PROVE  Good
  <2>1. /\ UNCHANGED <<disk, dirs>> /\ saver[r] \in {"registered", "written"}
        /\ r = 0 => saver[0] = "registered"
        /\ saver' = [saver EXCEPT ![r] = "left"]
        /\ kept' \in [Roles -> SUBSET Step]
        /\ \A c \in Roles : kept'[c] \subseteq kept[c]
    BY <1>1, <1>5, <1>13, RayAssumption DEF ReturnFromSave
  <2>2. TypeOK'
    BY <1>3, <1>4, <1>5, <2>1 DEF ManagerTypeOK, TypeOK, SaverStates
  <2>3. KeptOld'
    <3>1. \A c \in Roles : Past(c, 0, {"registered", "left"}) =>
                             Past(c, 0, {"registered", "left"})'
      BY <1>1, <1>5, <2>1, Constants DEF Past
    <3> QED BY <1>1, <1>2, <2>1, <3>1 DEF IInv, KeptOld, Writing
  <2>4. Written'
    BY <1>1, <1>2, <1>3, <1>5, <2>1, Constants
    DEF IInv, Written, Past, Saving, Writing, SaverStates
  <2>5. TrackedComplete'
    BY <1>1, <2>1, TrackedUntouched
  <2> QED BY <2>2, <2>3, <2>4, <2>5
<1> QED BY <1>6, <1>7, <1>8, <1>9, <1>11, <1>12, <1>13 DEF SaveRole, SaveStep

\* RoleSaved: on to the critic, or to the dataloader.
LEMMA RoleSavedPreserves ==
  ASSUME IInv, RoleSaved
  PROVE  IInv'
<1>1. /\ phase \in Roles /\ AllAt({"left"})
      /\ UNCHANGED <<disk, dirs, kept, life, model, epoch, pos, tracker>>
      /\ \/ phase = "actor" /\ phase' = "critic" /\ phase' \in Roles /\ saver' = Begun
         \/ /\ phase' = "data" /\ saver' = Idle
            /\ phase = "actor" => Roles = {"actor"}
  BY Constants DEF RoleSaved, trainVars
<1>2. InMemory /\ InMemory' /\ GlobalSteps' = GlobalSteps
  BY <1>1, Constants DEF InMemory, GlobalSteps
<1>3. phase \in Writing /\ phase' \in Writing /\ phase' \in Saving
      /\ phase' # "train" /\ phase' \notin {"tracker", "trackerOpen"}
  BY <1>1, Constants DEF Writing, Saving
<1>4. TypeOK'
  <2>1. saver' \in [Rank -> SaverStates]
    BY <1>1 DEF Begun, Idle, SaverStates
  <2>2. phase' \in Phases
    BY <1>1 DEF Phases
  <2> QED BY <1>1, <2>1, <2>2 DEF IInv, TypeOK, ManagerTypeOK
<1>5. OneModel' /\ EachBatchOnce' /\ Progress' /\ Ahead'
  BY <1>1, <1>2, <1>3 DEF IInv, OneModel, EachBatchOnce, Progress, Ahead, Saving,
     Writing
<1>6. \A c \in Roles, r \in Rank, states \in SUBSET SaverStates :
        Past(c, r, states)' /\ "left" \in states /\ "begin" \notin states =>
          Past(c, r, states)
  BY <1>1, Constants DEF Past, AllAt, Begun
<1>7. KeptOld'
  <2>1. ASSUME NEW c \in Roles, NEW m \in kept[c], m = GlobalSteps, m > tracker
        PROVE  Past(c, 0, {"registered", "left"})'
    <3>1. Past(c, 0, {"registered", "left"})
      BY <1>1, <1>2, <2>1, Constants DEF IInv, KeptOld, Ahead, TypeOK, ManagerTypeOK, Step
    <3> QED BY <1>1, <3>1, Constants DEF Past
  <2>2. \A c \in Roles : \A m \in kept[c] : m <= tracker \/ (m = GlobalSteps /\ m > tracker)
    BY <1>1, <1>3, Constants DEF IInv, KeptOld, Ahead, Writing
  <2> QED BY <1>1, <1>2, <1>3, <2>1, <2>2 DEF KeptOld
<1>8. Written'
  <2>1. \A c \in Roles, r \in Rank :
          /\ Past(c, r, {"written", "registered", "left"})' =>
               Past(c, r, {"written", "registered", "left"})
          /\ Past(c, r, SaverStates \ {"idle", "begin"})' =>
               Past(c, r, SaverStates \ {"idle", "begin"})
    BY <1>6 DEF SaverStates
  <2> QED BY <1>1, <1>2, <1>3, <2>1 DEF IInv, Written, Saving, Writing
<1>9. TrackedComplete'
  BY <1>1, TrackedUntouched
<1> QED BY <1>4, <1>5, <1>7, <1>8, <1>9 DEF IInv

\* The dataloader's state, and the tracker file.
LEMMA DataAndTrackerPreserve ==
  ASSUME IInv, OpenData \/ CloseData \/ OpenTracker \/ CloseTracker
  PROVE  IInv'
<1> DEFINE n == GlobalSteps
           f == <<"data", 0>>
<1>1. /\ phase \in {"data", "dataOpen", "tracker", "trackerOpen"}
      /\ phase \notin Roles /\ phase' \notin Roles
      /\ phase' \in {"dataOpen", "tracker", "trackerOpen", "train", "finish"}
      /\ UNCHANGED <<dirs, kept, saver, life, model, epoch, pos>>
  BY Constants
  DEF OpenData, CloseData, OpenTracker, CloseTracker, AfterStep, trainVars, managerVars
<1>2. InMemory /\ InMemory' /\ n' = n /\ phase \in Saving
  BY <1>1 DEF InMemory, GlobalSteps, Saving, Writing
<1>3. n \in Step /\ \A c \in Roles, r \in Rank :
                      model[c][r] = [count |-> n, life |-> life]
  BY <1>2, SavedStep
<1>4. /\ disk \in [Step -> [File -> Saved \cup {Missing, Torn}]]
      /\ f \in File /\ tracker \in Step \cup {0, Empty}
      /\ life \in Nat /\ pos \in Nat /\ MaxStep \in Nat /\ n \in Nat
  <2>1. /\ disk \in [Step -> [File -> Saved \cup {Missing, Torn}]]
        /\ tracker \in Step \cup {0, Empty}
        /\ life \in 0 .. MaxCrashes /\ pos \in 0 .. EpochLength
    BY DEF IInv, TypeOK, ManagerTypeOK, Life
  <2>2. f \in File
    BY Constants
  <2>3. n \in Nat /\ MaxStep \in Nat
    BY <1>3, CheckpointAssumption DEF Step
  <2> QED BY <2>1, <2>2, <2>3, CheckpointAssumption, RayAssumption
<1>5. OneModel' /\ EachBatchOnce'
  BY <1>1, <1>2 DEF IInv, OneModel, EachBatchOnce
<1>6. \A c \in Roles, r \in Rank, states \in SUBSET SaverStates :
        Past(c, r, states) /\ Past(c, r, states)'
  BY <1>1 DEF Past
<1>7. n \in dirs /\ \A c \in Roles, r \in Rank : disk[n][<<c, r>>] = model[c][r]
  <2>1. \A c \in Roles, r \in Rank :
          /\ Past(c, r, {"written", "registered", "left"})
          /\ Past(c, r, SaverStates \ {"idle", "begin"})
    BY <1>6 DEF SaverStates
  <2> QED BY <1>2, <2>1, Constants DEF IInv, Written
<1>8. ASSUME NEW w \in Saved \cup {Torn}, disk' = [disk EXCEPT ![n][f] = w],
             phase \in {"data", "dataOpen"}, phase' \in {"dataOpen", "tracker"},
             phase' = "tracker" => w = DataContent, tracker' = tracker
      PROVE  IInv'
  <2>1. TypeOK'
    BY <1>1, <1>3, <1>4, <1>8 DEF IInv, TypeOK, ManagerTypeOK, Phases
  <2>2. phase \in Writing /\ phase' \in Writing /\ phase' \in Saving
        /\ phase' \notin {"train", "trackerOpen"}
    BY <1>8 DEF Writing, Saving
  <2>3. Progress' /\ Ahead'
    BY <1>1, <1>2, <1>8, <2>2 DEF IInv, Progress, Ahead
  <2>4. KeptOld'
    BY <1>1, <1>2, <1>8, <2>2 DEF IInv, KeptOld, Past
  <2>5. disk'[n][f] = w /\ \A c \in Roles, r \in Rank : disk'[n][<<c, r>>] = model[c][r]
    BY <1>3, <1>4, <1>7, <1>8, Constants
  <2>6. Written'
    BY <1>1, <1>2, <1>7, <1>8, <2>5 DEF Written, DataContent
  <2>7. tracker # n
    BY <1>4, <2>2 DEF IInv, Ahead
  <2>8. TrackedComplete'
    BY <1>1, <1>3, <1>4, <1>8, <2>7, TrackedUntouched
  <2> QED BY <1>5, <2>1, <2>3, <2>4, <2>6, <2>8 DEF IInv
<1>9. CASE OpenData
  BY <1>8, <1>9 DEF OpenData
<1>10. CASE CloseData
  <2>1. DataContent \in Saved
    <3>1. pos \in Nat /\ life \in Life
      BY <1>4 DEF IInv, TypeOK
    <3> QED BY <3>1 DEF DataContent, Saved
  <2> QED BY <1>8, <1>10, <2>1 DEF CloseData
<1>11. CASE OpenTracker
  <2>1. phase = "tracker" /\ phase' = "trackerOpen" /\ tracker' = -1 /\ disk' = disk
    BY <1>11 DEF OpenTracker, Empty, managerVars
  <2>2. TypeOK'
    BY <1>1, <2>1 DEF IInv, TypeOK, ManagerTypeOK, Phases, Empty
  <2>3. phase' \notin Writing /\ phase \in Writing /\ phase' \in Saving
    BY <1>1, <2>1 DEF Writing, Saving
  <2>4. Progress'
    BY <1>1, <1>2, <2>1, <2>3 DEF IInv, Progress
  <2>5. Ahead'
    <3>1. EpochLength * TotalEpochs \in Nat
      BY RayAssumption
    <3> QED BY <1>1, <1>2, <1>4, <2>1, <2>3, <3>1 DEF Ahead
  <2>6. KeptOld'
    BY <1>1, <1>2, <1>4, <2>1, <2>3 DEF IInv, KeptOld, Ahead, TypeOK, ManagerTypeOK, Step
  <2>7. Written'
    BY <1>1, <1>2, <1>7, <2>1 DEF IInv, Written, DataContent
  <2>8. TrackedComplete'
    BY <2>1, CheckpointAssumption DEF TrackedComplete, Step
  <2> QED BY <1>5, <2>2, <2>4, <2>5, <2>6, <2>7, <2>8 DEF IInv
<1>12. CASE CloseTracker
  <2>1. /\ phase = "trackerOpen" /\ tracker' = n /\ disk' = disk
        /\ phase' \in {"train", "finish"} /\ (phase' = "train" => n < MaxStep)
    BY <1>1, <1>3, <1>12, CheckpointAssumption
    DEF CloseTracker, AfterStep, managerVars, Step
  <2>2. TypeOK'
    BY <1>1, <1>3, <2>1 DEF IInv, TypeOK, ManagerTypeOK, Phases
  <2>3. phase' \notin Writing /\ phase' \notin Saving /\ phase' # "trackerOpen"
    BY <1>1, <2>1 DEF Writing, Saving
  <2>4. Progress'
    BY <1>1, <1>2, <1>4, <2>1, <2>3 DEF Progress
  <2>5. Ahead'
    <3>1. n <= MaxStep + life
      BY <1>2 DEF IInv, Progress
    <3>2. n <= EpochLength * TotalEpochs
      <4>1. /\ n = epoch * EpochLength + pos /\ epoch \in Nat /\ epoch < TotalEpochs
            /\ pos \in 0 .. EpochLength
        BY <1>2 DEF IInv, EachBatchOnce, Progress, TypeOK
      <4> QED BY <4>1, EpochBound, RayAssumption
    <3> QED BY <1>1, <1>2, <1>4, <2>1, <2>3, <3>1, <3>2 DEF Ahead
  <2>6. KeptOld'
    BY <1>1, <1>2, <2>1, <2>3 DEF IInv, KeptOld
  <2>7. Written'
    BY <2>1, <2>3 DEF Written
  <2>8. TrackedComplete'
    <3>1. disk[n][f] = [count |-> pos, life |-> life]
      BY <2>1 DEF IInv, Written, DataContent
    <3>2. pos \in 1 .. EpochLength /\ pos % EpochLength = n % EpochLength /\ life \in Life
      <4>1. /\ n = epoch * EpochLength + pos /\ epoch \in Nat
            /\ pos \in 1 .. EpochLength /\ life \in Life
        BY <1>2, RayAssumption DEF IInv, EachBatchOnce, Progress, TypeOK
      <4> QED BY <4>1, SameRemainder, RayAssumption
    <3> QED BY <1>1, <1>3, <1>7, <2>1, <3>1, <3>2 DEF TrackedComplete
  <2> QED BY <1>5, <2>2, <2>4, <2>5, <2>6, <2>7, <2>8 DEF IInv
<1> QED BY <1>9, <1>10, <1>11, <1>12

-----------------------------------------------------------------------------
(* Training, crashes and restarts.                                         *)

\* One batch of training.
LEMMA TrainStepPreserves ==
  ASSUME IInv, TrainStep
  PROVE  IInv'
<1> DEFINE n == GlobalSteps
           w == [count |-> n + 1, life |-> life]
<1>1. /\ phase = "train" /\ epoch < TotalEpochs /\ pos < EpochLength
      /\ pos' = pos + 1
      /\ UNCHANGED <<disk, dirs, kept, life, epoch, tracker>>
  BY DEF TrainStep
<1>2. InMemory /\ model = Uniform(model["actor"][0]) /\ n \in Nat
      /\ n < MaxStep + life /\ life \in Nat /\ life \in Life /\ MaxStep \in Nat
      /\ epoch \in Nat /\ pos \in Nat /\ tracker <= n /\ tracker \in Int
      /\ n = epoch * EpochLength + pos
  <2>1. InMemory /\ model["actor"][0] \in Saved
    BY <1>1 DEF IInv, OneModel, InMemory
  <2>2. life \in 0 .. MaxCrashes /\ epoch \in 0 .. TotalEpochs
        /\ pos \in 0 .. EpochLength /\ tracker \in Step \cup {0, -1}
    BY DEF IInv, TypeOK, Life, Empty
  <2> QED BY <1>1, <2>1, <2>2, CheckpointAssumption, RayAssumption
      DEF IInv, OneModel, Progress, Ahead, EachBatchOnce, Saved, GlobalSteps, Life, Step
<1>3. model' = Uniform(w)
  <2>1. \A c \in Roles, r \in Rank : model[c][r] = model["actor"][0]
    BY <1>2 DEF Uniform
  <2>2. model' = [c \in Roles |-> [r \in Rank |->
                    [count |-> model[c][r].count + 1, life |-> life]]]
    BY DEF TrainStep
  <2>3. \A c \in Roles, r \in Rank :
          [count |-> model[c][r].count + 1, life |-> life] = w
    BY <2>1 DEF GlobalSteps
  <2> QED BY <2>2, <2>3 DEF Uniform
<1>4. model'["actor"][0] = w /\ n' = n + 1 /\ w \in Saved
  BY <1>2, <1>3, Constants DEF Uniform, GlobalSteps, Saved
<1>5. \/ phase' = "actor" /\ saver' = Begun
      \/ /\ phase' \in {"train", "finish"} /\ saver' = Idle
         /\ phase' = "train" => n' < MaxStep
  BY <1>2, <1>4 DEF TrainStep, AfterStep
<1>6. InMemory' /\ phase' \notin {"data", "dataOpen", "tracker", "trackerOpen"}
  BY <1>5 DEF InMemory
<1>7. TypeOK'
  <2>1. saver' \in [Rank -> SaverStates]
    BY <1>5 DEF Begun, Idle, SaverStates
  <2>2. phase' \in Phases
    BY <1>5, Constants DEF Phases
  <2>3. model' \in [Roles -> [Rank -> Saved \cup {Missing}]]
    BY <1>3, <1>4 DEF Uniform
  <2>4. pos' \in 0 .. EpochLength
    BY <1>1, <1>2, RayAssumption
  <2> QED BY <1>1, <2>1, <2>2, <2>3, <2>4 DEF IInv, TypeOK, ManagerTypeOK
<1>8. OneModel'
  BY <1>3, <1>4, <1>6 DEF OneModel
<1>9. EachBatchOnce'
  BY <1>1, <1>2, <1>4, RayAssumption DEF EachBatchOnce
<1>10. Progress'
  BY <1>1, <1>2, <1>4, <1>5, <1>6 DEF Progress, Saving, Writing
<1>11. Ahead'
  BY <1>1, <1>2, <1>4, <1>6 DEF IInv, Ahead
<1>12. KeptOld'
  <2>1. \A c \in Roles : \A m \in kept[c] : m <= tracker
    BY <1>1, Constants DEF IInv, KeptOld, Writing
  <2> QED BY <1>1, <1>6, <2>1 DEF KeptOld
<1>13. Written'
  <2>1. CASE phase' = "actor" /\ saver' = Begun
    <3>1. \A c \in Roles, r \in Rank :
            /\ ~Past(c, r, {"written", "registered", "left"})'
            /\ ~Past(c, r, SaverStates \ {"idle", "begin"})'
      BY <2>1, Constants DEF Past, Begun
    <3> QED BY <1>6, <3>1 DEF Written
  <2>2. CASE phase' \in {"train", "finish"}
    BY <2>2, Constants DEF Written, Saving, Writing
  <2> QED BY <1>5, <2>1, <2>2
<1>14. TrackedComplete'
  BY <1>1, TrackedUntouched
<1> QED BY <1>7, <1>8, <1>9, <1>10, <1>11, <1>12, <1>13, <1>14 DEF IInv

\* The end of an epoch, and of the job.
LEMMA LoopPreserves ==
  ASSUME IInv, NextEpoch \/ Return
  PROVE  IInv'
<1>1. /\ phase \in {"train", "finish"} /\ phase' \in {"train", "done"}
      /\ phase' = "train" => phase = "train"
      /\ UNCHANGED <<disk, dirs, kept, saver, life, model, tracker>>
  BY DEF NextEpoch, Return, managerVars, trainVars
<1>2. InMemory /\ InMemory' /\ GlobalSteps' = GlobalSteps
      /\ phase \notin Saving /\ phase' \notin Saving
  BY <1>1, Constants DEF InMemory, GlobalSteps, Saving, Writing
<1>3. epoch' \in 0 .. TotalEpochs /\ pos' \in 0 .. EpochLength
      /\ epoch' * EpochLength + pos' = epoch * EpochLength + pos
  BY <1>1, RayAssumption DEF NextEpoch, Return, trainVars, IInv, TypeOK
<1>4. TypeOK'
  BY <1>1, <1>3 DEF IInv, TypeOK, ManagerTypeOK, Phases
<1>5. OneModel' /\ EachBatchOnce' /\ Progress' /\ Ahead'
  BY <1>1, <1>2, <1>3 DEF IInv, OneModel, EachBatchOnce, Progress, Ahead, Saving, GlobalSteps
<1>6. KeptOld'
  BY <1>1, <1>2 DEF IInv, KeptOld, Saving
<1>7. Written'
  BY <1>1, <1>2 DEF Written
<1>8. TrackedComplete'
  BY <1>1, TrackedUntouched
<1> QED BY <1>4, <1>5, <1>6, <1>7, <1>8 DEF IInv

\* A crash, at any moment.
LEMMA CrashPreserves ==
  ASSUME IInv, Crash
  PROVE  IInv'
<1>1. /\ phase' = "down" /\ life' = life + 1 /\ life < MaxCrashes
      /\ model' = Nothing /\ epoch' = 0 /\ pos' = 0
      /\ kept' = [c \in Roles |-> {}] /\ saver' = Idle
      /\ UNCHANGED <<disk, dirs, tracker>>
  BY DEF Crash, ManagerCrash
<1>2. ~InMemory' /\ phase' \notin Saving
  BY <1>1, Constants DEF InMemory, Saving, Writing
<1>3. life \in Nat /\ tracker \in Int /\ MaxStep \in Nat /\ MaxCrashes \in Nat
  BY CheckpointAssumption DEF IInv, TypeOK, Life, Step, Empty
<1>4. TypeOK'
  <2>1. saver' \in [Rank -> SaverStates] /\ kept' \in [Roles -> SUBSET Step]
    BY <1>1 DEF Idle, SaverStates
  <2>2. model' \in [Roles -> [Rank -> Saved \cup {Missing}]]
    BY <1>1 DEF Nothing
  <2>3. life' \in Life /\ phase' \in Phases /\ epoch' \in 0 .. TotalEpochs
        /\ pos' \in 0 .. EpochLength
    BY <1>1, <1>3, RayAssumption DEF Life, Phases
  <2> QED BY <1>1, <2>1, <2>2, <2>3 DEF IInv, TypeOK, ManagerTypeOK
<1>5. OneModel' /\ EachBatchOnce'
  BY <1>1, <1>2 DEF OneModel, EachBatchOnce
<1>6. Progress'
  BY <1>1, <1>2 DEF Progress
<1>7. Ahead'
  <2>1. phase' \notin Writing
    BY <1>2 DEF Saving
  <2> QED BY <1>1, <1>2, <1>3, <2>1 DEF IInv, Ahead
<1>8. KeptOld'
  BY <1>1 DEF KeptOld
<1>9. Written'
  BY <1>1, <1>2 DEF Written
<1>10. TrackedComplete'
  BY <1>1, TrackedUntouched
<1> QED BY <1>4, <1>5, <1>6, <1>7, <1>8, <1>9, <1>10 DEF IInv

\* A restart, without a checkpoint, from one, or in vain.
LEMMA RestartPreserves ==
  ASSUME IInv, FromScratch \/ Resume \/ ResumeFails
  PROVE  IInv'
<1>1. /\ phase = "down" /\ phase' \in {"train", "broken"}
      /\ UNCHANGED <<disk, dirs, kept, saver, life, tracker>>
  BY DEF FromScratch, Resume, ResumeFails, managerVars, trainVars
<1>2. /\ ~InMemory /\ phase' \notin Saving
      /\ life \in Nat /\ tracker \in Int /\ MaxStep \in Nat \ {0}
      /\ tracker < MaxStep + life /\ tracker <= EpochLength * TotalEpochs
  <2>1. ~InMemory /\ phase' \notin Saving
    BY <1>1, Constants DEF InMemory, Saving, Writing
  <2> QED BY <2>1, CheckpointAssumption
      DEF IInv, TypeOK, Life, Step, Empty, Ahead
<1>3. KeptOld' /\ Written' /\ TrackedComplete'
  <2>1. KeptOld'
    BY <1>1, <1>2 DEF IInv, KeptOld
  <2>2. Written'
    BY <1>1, <1>2 DEF Written, Saving
  <2> QED BY <1>1, <2>1, <2>2, TrackedUntouched
<1>4. ASSUME NEW w \in Saved, phase' = "train", model' = Uniform(w),
             epoch' \in 0 .. TotalEpochs, pos' \in 0 .. EpochLength,
             w.count = epoch' * EpochLength + pos',
             w.count < MaxStep + life, tracker <= w.count
      PROVE  IInv'
  <2>1. InMemory' /\ model'["actor"][0] = w /\ GlobalSteps' = w.count
    BY <1>4, Constants DEF InMemory, Uniform, GlobalSteps
  <2>2. TypeOK'
    BY <1>1, <1>4 DEF IInv, TypeOK, ManagerTypeOK, Phases, Uniform
  <2>3. OneModel' /\ EachBatchOnce'
    BY <1>4, <2>1 DEF OneModel, EachBatchOnce
  <2>4. Progress' /\ Ahead'
    BY <1>1, <1>2, <1>4, <2>1 DEF Progress, Ahead, Saving
  <2> QED BY <1>3, <2>2, <2>3, <2>4 DEF IInv
<1>5. CASE FromScratch
  <2>1. tracker = 0
    BY <1>5 DEF FromScratch, LatestStep, IInv, TrackedComplete, TypeOK
  <2>2. Initial \in Saved /\ Initial.count = 0
    BY CheckpointAssumption DEF Initial, Saved, Life
  <2> QED BY <1>2, <1>4, <1>5, <2>1, <2>2, RayAssumption DEF FromScratch
<1>6. CASE Resume
  <2>1. /\ tracker \in Step /\ LatestStep = tracker /\ phase' = "train"
        /\ model' = [c \in Roles |-> [r \in Rank |-> disk[tracker][<<c, r>>]]]
        /\ epoch' = tracker \div EpochLength /\ pos' = RestoredPosition(tracker)
    BY <1>6 DEF Resume, LatestStep, IInv, TypeOK, ManagerTypeOK
  <2>2. PICK l \in Life :
          /\ \A c \in Roles, r \in Rank :
               disk[tracker][<<c, r>>] = [count |-> tracker, life |-> l]
          /\ disk[tracker][<<"data", 0>>].count \in 1 .. EpochLength
          /\ disk[tracker][<<"data", 0>>].count % EpochLength = tracker % EpochLength
    BY <2>1 DEF IInv, TrackedComplete
  <2> DEFINE p == disk[tracker][<<"data", 0>>].count
  <2>3. tracker \in Nat /\ EpochLength \in Nat \ {0} /\ TotalEpochs \in Nat
    BY <2>1, CheckpointAssumption, RayAssumption DEF Step
  <2>4. pos' = IF tracker % EpochLength = 0 THEN 0 ELSE p
    <3>1. disk[tracker][<<"data", 0>>] # Missing
      BY <2>2 DEF Missing
    <3> QED BY <2>1, <3>1 DEF RestoredPosition
  <2> HIDE DEF p
  <2>5. epoch' \in 0 .. TotalEpochs
    BY <1>2, <2>1, <2>3, Divides, EpochBound
  <2>6. pos' \in 0 .. EpochLength /\ tracker = epoch' * EpochLength + pos'
    <3>1. CASE tracker % EpochLength = 0
      <4>1. /\ tracker \div EpochLength \in Nat
            /\ tracker = EpochLength * (tracker \div EpochLength) + (tracker % EpochLength)
        BY <2>3, Divides
      <4>2. pos' = 0
        BY <2>4, <3>1
      <4> HIDE DEF RestoredPosition
      <4>3. EpochLength * epoch' = epoch' * EpochLength /\ epoch' \in Nat
        BY <2>1, <2>3, <4>1
      <4> QED BY <2>1, <2>3, <3>1, <4>1, <4>2, <4>3
    <3>2. CASE tracker % EpochLength # 0
      <4>1. p \in 1 .. EpochLength /\ p % EpochLength = tracker % EpochLength
        BY <2>2 DEF p
      <4>2. tracker = (tracker \div EpochLength) * EpochLength + p
        BY <2>3, <3>2, <4>1, PositionOf
      <4>3. pos' = p
        BY <2>4, <3>2
      <4> QED BY <2>1, <2>3, <4>1, <4>2, <4>3
    <3> QED BY <3>1, <3>2
  <2>7. model' = Uniform([count |-> tracker, life |-> l])
        /\ [count |-> tracker, life |-> l] \in Saved
    BY <2>1, <2>2, <2>3 DEF Uniform, Saved
  <2> DEFINE w == [count |-> tracker, life |-> l]
  <2>8. w \in Saved /\ w.count = tracker /\ model' = Uniform(w)
    BY <2>7
  <2> HIDE DEF w
  <2>9. w.count < MaxStep + life /\ tracker <= w.count
    BY <1>2, <2>8
  <2>10. w.count = epoch' * EpochLength + pos'
    BY <2>6, <2>8
  <2>11. phase' = "train"
    BY <2>1
  <2>12. pos' \in 0 .. EpochLength
    BY <2>6
  <2> QED BY <1>4, <2>5, <2>8, <2>9, <2>10, <2>11, <2>12
<1>7. CASE ResumeFails
  <2>1. phase' = "broken" /\ UNCHANGED <<model, epoch, pos>>
    BY <1>7 DEF ResumeFails, trainVars
  <2>2. ~InMemory' /\ phase' \notin Writing
    BY <1>2, <2>1 DEF InMemory, Saving
  <2>3. TypeOK' /\ OneModel' /\ EachBatchOnce' /\ Progress' /\ Ahead'
    BY <1>1, <1>2, <2>1, <2>2
    DEF IInv, TypeOK, ManagerTypeOK, Phases, OneModel, EachBatchOnce, Progress, Ahead
  <2> QED BY <1>3, <2>3 DEF IInv
<1> QED BY <1>5, <1>6, <1>7

-----------------------------------------------------------------------------
(* The invariant, and what follows from it.                                *)

\* IInv holds of a job that starts.
LEMMA InitIInv == Init => IInv
<1> SUFFICES ASSUME Init PROVE IInv
  OBVIOUS
<1>1. /\ phase = "train" /\ life = 0 /\ model = Uniform(Initial)
      /\ epoch = 0 /\ pos = 0 /\ tracker = 0
      /\ disk = [n \in Step |-> [f \in File |-> Missing]]
      /\ dirs = {} /\ kept = [c \in Roles |-> {}] /\ saver = Idle
  BY DEF Init, ManagerInit
<1>2. Initial \in Saved /\ Initial.count = 0 /\ life \in Life
  BY <1>1, CheckpointAssumption DEF Initial, Saved, Life
<1>3. model["actor"][0] = Initial /\ GlobalSteps = 0 /\ phase \notin Saving /\ InMemory
  BY <1>1, <1>2, Constants DEF Uniform, GlobalSteps, Saving, Writing, InMemory
<1>4. TypeOK
  <2>1. saver \in [Rank -> SaverStates] /\ kept \in [Roles -> SUBSET Step]
    BY <1>1 DEF Idle, SaverStates
  <2>2. model \in [Roles -> [Rank -> Saved \cup {Missing}]]
    BY <1>1, <1>2 DEF Uniform
  <2>3. disk \in [Step -> [File -> Saved \cup {Missing, Torn}]]
    BY <1>1
  <2>4. epoch \in 0 .. TotalEpochs /\ pos \in 0 .. EpochLength
    BY <1>1, RayAssumption
  <2> QED BY <1>1, <1>2, <2>1, <2>2, <2>3, <2>4 DEF TypeOK, ManagerTypeOK, Phases
<1>5. OneModel /\ EachBatchOnce
  BY <1>1, <1>2, <1>3, RayAssumption DEF OneModel, EachBatchOnce
<1>6. Progress /\ Ahead
  <2>1. phase \notin Writing /\ MaxStep \in Nat \ {0}
    BY <1>3, CheckpointAssumption DEF Saving
  <2>2. 0 <= EpochLength * TotalEpochs
    <3>1. EpochLength * TotalEpochs \in Nat
      BY RayAssumption
    <3> QED BY <3>1
  <2> QED BY <1>1, <1>3, <2>1, <2>2 DEF Progress, Ahead
<1>7. KeptOld /\ Written
  BY <1>1, <1>3 DEF KeptOld, Written, Saving
<1>8. TrackedComplete
  BY <1>1 DEF TrackedComplete, Step
<1> QED BY <1>4, <1>5, <1>6, <1>7, <1>8 DEF IInv

\* A state in which nothing changes.
LEMMA StutterIInv ==
  ASSUME IInv, UNCHANGED vars
  PROVE  IInv'
<1>1. UNCHANGED <<disk, dirs, kept, saver, phase, life, model, epoch, pos, tracker>>
  BY DEF vars, managerVars, trainVars
<1>2. TypeOK' /\ OneModel' /\ EachBatchOnce'
  BY <1>1 DEF IInv, TypeOK, ManagerTypeOK, OneModel, EachBatchOnce, InMemory, GlobalSteps
<1>3. Progress' /\ Ahead'
  BY <1>1 DEF IInv, Progress, Ahead, InMemory, GlobalSteps
<1>4. KeptOld' /\ Written' /\ TrackedComplete'
  BY <1>1
  DEF IInv, KeptOld, Written, TrackedComplete, InMemory, GlobalSteps, Past, DataContent
<1> QED BY <1>2, <1>3, <1>4 DEF IInv

\* IInv is inductive, unless a single checkpoint is kept.
LEMMA NextIInv ==
  ASSUME Keep # 1, IInv, [Next]_vars
  PROVE  IInv'
<1>1. CASE TrainStep
  BY <1>1, TrainStepPreserves
<1>2. CASE NextEpoch \/ Return
  BY <1>2, LoopPreserves
<1>3. CASE SaveRole
  BY <1>3, SaveRolePreserves
<1>4. CASE RoleSaved
  BY <1>4, RoleSavedPreserves
<1>5. CASE OpenData \/ CloseData \/ OpenTracker \/ CloseTracker
  BY <1>5, DataAndTrackerPreserve
<1>6. CASE FromScratch \/ Resume \/ ResumeFails
  BY <1>6, RestartPreserves
<1>7. CASE Crash
  BY <1>7, CrashPreserves
<1>8. CASE UNCHANGED vars
  BY <1>8, StutterIInv
<1> QED BY <1>1, <1>2, <1>3, <1>4, <1>5, <1>6, <1>7, <1>8 DEF Next, Run

\* IInv holds throughout.
THEOREM Invariance == ASSUME Keep # 1 PROVE Spec => []IInv
<1>1. IInv /\ [Next]_vars => IInv'
  BY NextIInv
<1> QED BY <1>1, InitIInv, PTL DEF Spec

\* Every variable keeps its type: no step, epoch or position is beyond its
\* bound, whatever is resumed from.
THEOREM TypeCorrect == ASSUME Keep # 1 PROVE Spec => []TypeOK
<1>1. IInv => TypeOK
  BY DEF IInv
<1> QED BY <1>1, Invariance, PTL

\* The checkpoint latest_checkpointed_iteration.txt names is whole, through
\* every save, rotation and crash (_save_checkpoint, save_checkpoint).
THEOREM TrackedAlwaysComplete == ASSUME Keep # 1 PROVE Spec => []TrackedComplete
<1>1. IInv => TrackedComplete
  BY DEF IInv
<1> QED BY <1>1, Invariance, PTL

\* The weights have seen the batches before the loader's position, each
\* once, however often the job crashed and resumed (_load_checkpoint, fit).
THEOREM EachBatchTrainedOnce == ASSUME Keep # 1 PROVE Spec => []EachBatchOnce
<1>1. IInv => EachBatchOnce
  BY DEF IInv
<1> QED BY <1>1, Invariance, PTL

-----------------------------------------------------------------------------
(* Checkpoints implement the durable register of DurableProgress.          *)

\* The register: what ImplementsDurable substitutes for saved.
Register == IF tracker = Empty THEN Nothing
            ELSE IF tracker = 0 THEN Uniform(Initial)
            ELSE [c \in Roles |-> [r \in Rank |-> disk[tracker][<<c, r>>]]]

\* The register changes with the tracker's file or the files it names.
LEMMA RegisterUnchanged ==
  ASSUME IInv, tracker' = tracker, tracker \in Step => disk'[tracker] = disk[tracker]
  PROVE  Register' = Register
<1>1. CASE tracker \in Step
  BY <1>1 DEF Register
<1>2. CASE tracker \notin Step
  <2>1. tracker \in {0, Empty}
    BY <1>2 DEF IInv, TypeOK
  <2> QED BY <2>1 DEF Register, Empty
<1> QED BY <1>1, <1>2

\* While a job runs there is a state of training, and none otherwise.
LEMMA CurrentValue ==
  ASSUME IInv
  PROVE  (InMemory => model # Nothing) /\ (~InMemory => model = Nothing)
<1>1. ASSUME InMemory PROVE model # Nothing
  <2>1. model["actor"][0].count \in Nat
    BY <1>1 DEF IInv, OneModel, Saved
  <2>2. Nothing["actor"][0].count = -1
    BY Constants DEF Nothing, Missing
  <2> QED BY <2>1, <2>2
<1> QED BY <1>1 DEF IInv, OneModel

\* A step of a save writes no file of the checkpoint the tracker names.
LEMMA SaveRoleSpares ==
  ASSUME IInv, Keep # 1, SaveRole, tracker \in Step
  PROVE  disk'[tracker] = disk[tracker]
<1> DEFINE n == GlobalSteps
<1>1. /\ phase \in Roles /\ n \in Step /\ tracker # n
      /\ disk \in [Step -> [File -> Saved \cup {Missing, Torn}]]
  <2>1. phase \in Roles /\ phase \in Saving /\ phase # "trackerOpen"
    BY Constants DEF SaveRole, Saving, Writing
  <2> QED BY <2>1, SavedStep DEF IInv, TypeOK, ManagerTypeOK
<1>2. ASSUME NEW m \in Step, m # tracker, NEW f, NEW w,
             disk' = [disk EXCEPT ![m][f] = w]
      PROVE  disk'[tracker] = disk[tracker]
  BY <1>1, <1>2
<1>3. CASE RemoveFile(phase)
  BY <1>1, <1>2, <1>3, RotationSpares DEF RemoveFile
<1>4. ASSUME NEW r \in Rank, OpenShard(phase, r, n)
      PROVE  disk'[tracker] = disk[tracker]
  BY <1>1, <1>2, <1>4 DEF OpenShard
<1>5. ASSUME NEW r \in Rank, CloseShard(phase, r, n, model[phase][r])
      PROVE  disk'[tracker] = disk[tracker]
  BY <1>1, <1>2, <1>5 DEF CloseShard
<1>6. ASSUME NEW r \in Rank,
             RegisterCheckpoint(phase, n) \/ MakeDirectory(phase, r, n)
               \/ ReturnFromSave(phase, r)
      PROVE  disk' = disk
  BY <1>6 DEF RegisterCheckpoint, MakeDirectory, ReturnFromSave
<1> QED BY <1>3, <1>4, <1>5, <1>6, Constants DEF SaveRole, SaveStep

\* The first state is that of the register.
LEMMA DurableInit == Init => Durable!Init
  BY DEF Init, Durable!Init, Empty

\* Every step is one of the register, or leaves it alone.
LEMMA DurableStep ==
  ASSUME Keep # 1, IInv, IInv', [Next]_vars
  PROVE  Durable!Next \/ UNCHANGED <<model, Register>>
<1>1. CASE TrainStep
  <2>1. InMemory /\ phase = "train" /\ UNCHANGED <<disk, tracker, life>>
    BY <1>1 DEF TrainStep, InMemory
  <2>2. InMemory'
    BY <1>1, Constants DEF TrainStep, AfterStep, InMemory
  <2>3. model' = Uniform(model'["actor"][0]) /\ model'["actor"][0] \in Saved
    BY <2>2 DEF IInv, OneModel
  <2>4. model'["actor"][0] \in [count : Step, life : Life]
    <3>1. model'["actor"][0].count = GlobalSteps + 1
      BY <1>1, Constants DEF TrainStep, GlobalSteps
    <3>2. GlobalSteps \in Nat /\ GlobalSteps < MaxStep + life /\ life \in 0 .. MaxCrashes
      BY <2>1 DEF IInv, OneModel, Progress, TypeOK, Life, Saved, GlobalSteps
    <3>3. model'["actor"][0].count \in Step
      BY <3>1, <3>2, CheckpointAssumption DEF Step
    <3> QED BY <2>3, <3>3 DEF Saved
  <2>5. Register' = Register
    BY <2>1, RegisterUnchanged
  <2> QED BY <2>1, <2>3, <2>4, <2>5, CurrentValue
      DEF Durable!Next, Durable!Train, Register
<1>2. CASE NextEpoch \/ Return \/ RoleSaved \/ ResumeFails
  <2>1. UNCHANGED <<disk, tracker, model>>
    BY <1>2 DEF NextEpoch, Return, RoleSaved, ResumeFails, managerVars, trainVars
  <2> QED BY <2>1, RegisterUnchanged
<1>3. CASE SaveRole
  <2>1. UNCHANGED <<model, tracker>>
    BY <1>3 DEF SaveRole, trainVars
  <2> QED BY <1>3, <2>1, SaveRoleSpares, RegisterUnchanged
<1>4. CASE OpenData \/ CloseData
  <2>1. UNCHANGED <<model, tracker>> /\ phase \in Saving /\ phase # "trackerOpen"
    BY <1>4 DEF OpenData, CloseData, trainVars, Saving, Writing
  <2>2. GlobalSteps \in Step /\ tracker # GlobalSteps
    BY <2>1, SavedStep
  <2>3. tracker \in Step => disk'[tracker] = disk[tracker]
    BY <1>4, <2>2 DEF OpenData, CloseData, IInv, TypeOK, ManagerTypeOK
  <2> QED BY <2>1, <2>3, RegisterUnchanged
<1>5. CASE OpenTracker
  <2>1. InMemory /\ tracker' = Empty /\ UNCHANGED <<model, disk>>
    BY <1>5 DEF OpenTracker, managerVars, trainVars, InMemory
  <2>2. model # Nothing
    BY <2>1, CurrentValue
  <2> QED BY <2>1, <2>2 DEF Durable!Next, Durable!Unpublish
<1>6. CASE CloseTracker
  <2>1. /\ phase = "trackerOpen" /\ InMemory /\ phase \in Saving
        /\ tracker' = GlobalSteps /\ UNCHANGED <<model, disk>>
    BY <1>6 DEF CloseTracker, managerVars, trainVars, InMemory, Saving
  <2>2. GlobalSteps \in Step /\ GlobalSteps # 0 /\ GlobalSteps # Empty
    BY <2>1, SavedStep DEF Step, Empty
  <2>3. \A c \in Roles, r \in Rank : disk[GlobalSteps][<<c, r>>] = model[c][r]
    <3>1. \A c \in Roles, r \in Rank : Past(c, r, {"written", "registered", "left"})
      BY <2>1, Constants DEF Past
    <3> QED BY <2>1, <3>1 DEF IInv, Written
  <2>4. [c \in Roles |-> [r \in Rank |-> disk[GlobalSteps][<<c, r>>]]] = model
    <3>1. model \in [Roles -> [Rank -> Saved \cup {Missing}]]
      BY DEF IInv, TypeOK
    <3> QED BY <2>3, <3>1
  <2>5. model # Nothing
    BY <2>1, CurrentValue
  <2> HIDE DEF GlobalSteps
  <2> QED BY <2>1, <2>2, <2>4, <2>5 DEF Durable!Next, Durable!Publish
<1>7. CASE FromScratch
  <2>1. ~InMemory /\ tracker # Empty /\ model' = Uniform(Initial) /\ UNCHANGED <<disk, tracker>>
    BY <1>7 DEF FromScratch, managerVars, InMemory
  <2>2. tracker = 0
    BY <1>7 DEF FromScratch, LatestStep, IInv, TrackedComplete, TypeOK
  <2>3. Register = Uniform(Initial) /\ Register' = Register
    BY <2>1, <2>2, RegisterUnchanged DEF Register
  <2>4. model'["actor"][0].count = 0 /\ Nothing["actor"][0].count = -1
    BY <2>1, Constants DEF Uniform, Initial, Nothing, Missing
  <2>5. model = Nothing /\ model' # Nothing
    BY <2>1, <2>4, CurrentValue
  <2> QED BY <2>1, <2>3, <2>5 DEF Durable!Next, Durable!Restore, Register
<1>8. CASE Resume
  <2>1. /\ ~InMemory /\ LatestStep = tracker /\ tracker \in Step
        /\ model' = [c \in Roles |-> [r \in Rank |-> disk[tracker][<<c, r>>]]]
        /\ UNCHANGED <<disk, tracker>>
    BY <1>8 DEF Resume, LatestStep, IInv, TypeOK, ManagerTypeOK, managerVars, InMemory
  <2>2. tracker # 0 /\ tracker # Empty
    BY <2>1 DEF Step, Empty
  <2>3. Register = model' /\ Register' = Register
    BY <2>1, <2>2, RegisterUnchanged DEF Register
  <2>4. model = Nothing /\ model' # Nothing
    <3>1. model'["actor"][0] \in Saved
      BY <1>8, <2>1, Constants DEF Resume, Readable
    <3>2. Nothing["actor"][0] = Missing /\ Missing \notin Saved
      BY Constants DEF Nothing, Missing, Saved
    <3> QED BY <2>1, <3>1, <3>2, CurrentValue
  <2> QED BY <2>3, <2>4 DEF Durable!Next, Durable!Restore, Register
<1>9. CASE Crash
  <2>1. model' = Nothing /\ UNCHANGED <<disk, tracker>>
    BY <1>9 DEF Crash, ManagerCrash
  <2>2. Register' = Register
    BY <2>1, RegisterUnchanged
  <2> QED BY <2>1, <2>2 DEF Durable!Next, Durable!Crash, Register
<1>10. CASE UNCHANGED vars
  <2>1. UNCHANGED <<disk, tracker, model>>
    BY <1>10 DEF vars, managerVars, trainVars
  <2> QED BY <2>1, RegisterUnchanged
<1> QED BY <1>1, <1>2, <1>3, <1>4, <1>5, <1>6, <1>7, <1>8, <1>9, <1>10 DEF Next, Run

\* Whatever is interrupted, a job goes on from a state of training that was
\* published whole, or finds the tracker file empty.
THEOREM CheckpointsDurable == ASSUME Keep # 1 PROVE Spec => ImplementsDurable
<1>1. IInv /\ IInv' /\ [Next]_vars => Durable!Next \/ UNCHANGED <<model, Register>>
  BY DurableStep
<1>2. IInv /\ IInv' /\ [Next]_vars => [Durable!Next]_<<model, Register>>
  BY <1>1
<1> QED BY <1>2, DurableInit, Invariance, PTL
    DEF Spec, ImplementsDurable, Durable!Spec, Register

-----------------------------------------------------------------------------
(* The end of training.                                                    *)

\* fit's outer loop ends with nothing of an epoch trained, and fit leaves it
\* early only at the last step.
EndInv ==
  /\ InMemory => epoch < TotalEpochs \/ pos = 0
  /\ phase \in {"finish", "done"} => GlobalSteps >= MaxStep

\* Every step keeps it so.
LEMMA EndInvStep ==
  ASSUME IInv, IInv', EndInv, [Next]_vars
  PROVE  EndInv'
<1>0. /\ epoch \in 0 .. TotalEpochs /\ pos \in 0 .. EpochLength
      /\ TotalEpochs \in Nat /\ EpochLength \in Nat \ {0} /\ MaxStep \in Nat
      /\ MaxStep <= EpochLength * TotalEpochs
  BY RayAssumption, CheckpointAssumption DEF IInv, TypeOK
<1>1. CASE TrainStep
  <2>1. /\ epoch < TotalEpochs /\ UNCHANGED epoch
        /\ phase' = "actor" \/ phase' = AfterStep(GlobalSteps')
    BY <1>1 DEF TrainStep
  <2>2. phase' = "finish" => GlobalSteps' >= MaxStep
    BY <2>1 DEF AfterStep
  <2>3. phase' # "done"
    BY <2>1 DEF AfterStep
  <2> QED BY <2>1, <2>2, <2>3 DEF EndInv
<1>2. CASE NextEpoch
  BY <1>2 DEF NextEpoch, EndInv
<1>3. CASE Return
  <2>1. GlobalSteps' = GlobalSteps /\ UNCHANGED <<epoch, pos>> /\ InMemory
    BY <1>3 DEF Return, trainVars, GlobalSteps, InMemory
  <2>2. CASE phase = "finish"
    BY <2>1, <2>2 DEF EndInv
  <2>3. CASE phase = "train" /\ epoch = TotalEpochs
    <3>1. pos = 0 /\ GlobalSteps = epoch * EpochLength + pos
      BY <1>0, <2>1, <2>3 DEF EndInv, IInv, EachBatchOnce
    <3>2. GlobalSteps = TotalEpochs * EpochLength
      BY <1>0, <2>3, <3>1
    <3>3. TotalEpochs * EpochLength = EpochLength * TotalEpochs
      BY <1>0
    <3>4. GlobalSteps >= MaxStep
      BY <1>0, <3>2, <3>3
    <3> QED BY <2>1, <2>3, <3>1, <3>4 DEF EndInv
  <2> QED BY <1>3, <2>2, <2>3 DEF Return
<1>4. CASE SaveRole \/ RoleSaved \/ OpenData \/ CloseData \/ OpenTracker \/ CloseTracker
  <2>1. UNCHANGED <<model, epoch, pos>>
    BY <1>4 DEF SaveRole, RoleSaved, OpenData, CloseData, OpenTracker, CloseTracker, trainVars
  <2>2. phase \in Saving
    BY <1>4 DEF SaveRole, RoleSaved, OpenData, CloseData, OpenTracker, CloseTracker,
                Saving, Writing
  <2>3. InMemory
    BY <2>2, Constants DEF InMemory, Saving, Writing
  <2>4. phase' \in {"finish", "done"} => GlobalSteps >= MaxStep
    BY <1>4, Constants
    DEF SaveRole, RoleSaved, OpenData, CloseData, OpenTracker, CloseTracker, AfterStep
  <2> QED BY <2>1, <2>3, <2>4 DEF EndInv, GlobalSteps
<1>5. CASE FromScratch
  BY <1>5 DEF FromScratch, EndInv
<1>6. CASE Resume
  <2>1. /\ phase' = "train" /\ epoch' = LatestStep \div EpochLength
        /\ pos' = RestoredPosition(LatestStep) /\ UNCHANGED tracker
    BY <1>6 DEF Resume
  <2>2. InMemory' /\ GlobalSteps' = epoch' * EpochLength + pos'
        /\ epoch' \in 0 .. TotalEpochs /\ pos' \in 0 .. EpochLength
    BY <2>1 DEF InMemory, IInv, EachBatchOnce, TypeOK
  <2>3. LatestStep = tracker /\ tracker \in Step /\ tracker <= EpochLength * TotalEpochs
    BY <1>6 DEF Resume, LatestStep, IInv, TypeOK, ManagerTypeOK, Ahead
  <2>t. tracker \in Nat
    BY <2>3, CheckpointAssumption DEF Step
  <2>4. tracker \div EpochLength \in Nat
        /\ tracker % EpochLength \in 0 .. EpochLength - 1
        /\ tracker = EpochLength * (tracker \div EpochLength) + (tracker % EpochLength)
    BY <1>0, <2>t, Divides
  <2>5. ASSUME epoch' = TotalEpochs PROVE pos' = 0
    <3>1. tracker = EpochLength * TotalEpochs + (tracker % EpochLength)
      BY <2>1, <2>3, <2>4, <2>5
    <3>2. EpochLength * TotalEpochs \in Nat
      BY <1>0
    <3>3. tracker % EpochLength = 0
      BY <2>3, <2>4, <2>t, <3>1, <3>2
    <3> QED BY <2>1, <2>3, <3>3 DEF RestoredPosition
  <2> QED BY <1>0, <2>1, <2>2, <2>5 DEF EndInv
<1>7. CASE ResumeFails \/ Crash
  BY <1>7 DEF ResumeFails, Crash, EndInv, InMemory
<1>8. CASE UNCHANGED vars
  BY <1>8 DEF vars, trainVars, EndInv, InMemory, GlobalSteps
<1> QED BY <1>1, <1>2, <1>3, <1>4, <1>5, <1>6, <1>7, <1>8 DEF Next, Run

\* A job that ends has trained up to the last step, and not beyond the last
\* epoch, whatever it was resumed from.
EndReached ==
  phase = "done" => GlobalSteps >= MaxStep /\ GlobalSteps <= EpochLength * TotalEpochs

\* fit returns neither too early nor too late, across crashes and resumes.
THEOREM EpochsEnd == ASSUME Keep # 1 PROVE Spec => []EndReached
<1>1. Init => EndInv
  BY DEF Init, EndInv
<1>2. IInv /\ IInv' /\ EndInv /\ [Next]_vars => EndInv'
  BY EndInvStep
<1>3. IInv /\ EndInv => EndReached
  <2> SUFFICES ASSUME IInv, EndInv, phase = "done" PROVE EndReached
    BY DEF EndReached
  <2>1. InMemory /\ GlobalSteps >= MaxStep /\ GlobalSteps = epoch * EpochLength + pos
    BY DEF EndInv, InMemory, IInv, EachBatchOnce
  <2>2. /\ epoch \in 0 .. TotalEpochs /\ pos \in 0 .. EpochLength
        /\ TotalEpochs \in Nat /\ EpochLength \in Nat \ {0}
    BY RayAssumption DEF IInv, TypeOK
  <2>3. CASE epoch < TotalEpochs
    BY <2>1, <2>2, <2>3, EpochBound DEF EndReached
  <2>4. CASE epoch = TotalEpochs
    <3>1. GlobalSteps = TotalEpochs * EpochLength
      BY <2>1, <2>2, <2>4 DEF EndInv
    <3>2. TotalEpochs * EpochLength = EpochLength * TotalEpochs
          /\ EpochLength * TotalEpochs \in Nat
      BY <2>2
    <3> QED BY <2>1, <3>1, <3>2 DEF EndReached
  <2> QED BY <2>2, <2>3, <2>4
<1> QED BY <1>1, <1>2, <1>3, Invariance, PTL DEF Spec

\* With the default total_training_steps, the batches of all the epochs, a
\* job that ends has trained on every epoch, each batch once.
THEOREM EveryEpochTrained ==
  ASSUME Keep # 1, MaxStep = EpochLength * TotalEpochs
  PROVE  Spec => []AllTrained
<1>1. IInv /\ EndReached => AllTrained
  <2> SUFFICES ASSUME IInv, EndReached, phase = "done" PROVE GlobalSteps = MaxStep
    BY DEF AllTrained
  <2>1. InMemory /\ MaxStep \in Nat
    BY CheckpointAssumption DEF InMemory
  <2>2. GlobalSteps \in Nat
    BY <2>1 DEF IInv, OneModel, Saved, GlobalSteps
  <2>3. GlobalSteps >= MaxStep /\ GlobalSteps <= MaxStep
    BY DEF EndReached
  <2> QED BY <2>1, <2>2, <2>3
<1> QED BY <1>1, EpochsEnd, Invariance, PTL

-----------------------------------------------------------------------------
(* max_ckpt_to_keep.                                                       *)

\* A set of natural numbers has a least one.
LEMMA LeastNatural ==
  ASSUME NEW S \in SUBSET Nat, S # {}
  PROVE  \E m \in S : \A n \in S : m <= n
<1> DEFINE Less == OpToRel(<, Nat)
<1>1. IsWellFoundedOn(Less, Nat)
  BY NatLessThanWellFounded
<1>2. \A i, j \in Nat : <<i, j>> \in Less <=> i < j
  BY DEF OpToRel
<1> HIDE DEF Less
<1>3. PICK m \in S : \A n \in S : <<n, m>> \notin Less
  BY <1>1, WFMin
<1>4. ASSUME NEW n \in S PROVE m <= n
  <2>1. n \in Nat /\ m \in Nat /\ ~(n < m)
    BY <1>2, <1>3
  <2> QED BY <2>1
<1> QED BY <1>4

\* Of a set of steps, at most limit have fewer than limit newer ones.
LEMMA NewestFew ==
  ASSUME NEW S \in SUBSET Step, NEW limit \in Nat \ {0}
  PROVE  Cardinality({n \in S : Cardinality({m \in S : m > n}) < limit}) <= limit
<1> DEFINE Newest == {n \in S : Cardinality({m \in S : m > n}) < limit}
<1>0. IsFiniteSet(S) /\ IsFiniteSet(Newest) /\ S \subseteq Nat
  <2>1. IsFiniteSet(S)
    BY Constants, FS_Subset
  <2>2. Newest \in SUBSET S
    OBVIOUS
  <2> HIDE DEF Newest
  <2>3. IsFiniteSet(Newest)
    BY <2>1, <2>2, FS_Subset
  <2>4. S \subseteq Nat
    BY CheckpointAssumption DEF Step
  <2> QED BY <2>1, <2>3, <2>4
<1>1. CASE Newest = {}
  <2>1. Cardinality(Newest) = 0
    BY <1>1, FS_EmptySet
  <2> QED BY <2>1
<1>2. CASE Newest # {}
  <2>1. PICK x \in Newest : \A n \in Newest : x <= n
    BY <1>0, <1>2, LeastNatural
  <2>2. DEFINE newer == {m \in S : m > x}
  <2>3. Cardinality(newer) < limit /\ IsFiniteSet(newer) /\ Cardinality(newer) \in Nat
    BY <1>0, <2>1, FS_Subset, FS_CardinalityType
  <2>4. Newest \ {x} \in SUBSET newer
    <3>1. ASSUME NEW n \in Newest, n # x PROVE n \in S /\ n > x
      <4>1. n \in Nat /\ x \in Nat /\ x <= n /\ n \in S
        BY <1>0, <2>1
      <4> QED BY <3>1, <4>1
    <3> QED BY <3>1
  <2>5. Cardinality(Newest \ {x}) <= Cardinality(newer)
    BY <2>3, <2>4, FS_Subset
  <2>6. Cardinality(Newest \ {x}) = Cardinality(Newest) - 1 /\ Cardinality(Newest) \in Nat
    BY <1>0, <2>1, FS_RemoveElement, FS_CardinalityType
  <2> QED BY <2>3, <2>5, <2>6
<1> QED BY <1>1, <1>2

\* One element more is at most one more.
LEMMA OneMore ==
  ASSUME NEW S, IsFiniteSet(S), NEW e
  PROVE  /\ IsFiniteSet(S \cup {e}) /\ Cardinality(S \cup {e}) \in Nat
         /\ Cardinality(S \cup {e}) <= Cardinality(S) + 1
<1>1. Cardinality(S) \in Nat
  BY FS_CardinalityType
<1>2. IsFiniteSet(S \cup {e})
      /\ Cardinality(S \cup {e}) = IF e \in S THEN Cardinality(S) ELSE Cardinality(S) + 1
  BY FS_AddElement
<1> QED BY <1>1, <1>2

\* A part of a finite set has no more elements.
LEMMA NoMore ==
  ASSUME NEW S, IsFiniteSet(S), NEW T \in SUBSET S
  PROVE  /\ IsFiniteSet(T) /\ Cardinality(T) \in Nat /\ Cardinality(S) \in Nat
         /\ Cardinality(T) <= Cardinality(S)
<1>1. IsFiniteSet(T) /\ Cardinality(T) <= Cardinality(S)
  BY FS_Subset
<1>2. Cardinality(T) \in Nat /\ Cardinality(S) \in Nat
  BY <1>1, FS_CardinalityType
<1> QED BY <1>1, <1>2

\* The step a save may have written files of before rank 0 registers it.
Unregistered(c) ==
  IF phase = c /\ saver[0] \in {"made", "open", "written"} THEN {GlobalSteps} ELSE {}

\* Files are of this life or an earlier one.
Lives == \A n \in Step, c \in Roles, r \in Rank : disk[n][<<c, r>>].life <= life

\* The barriers: nobody writes while somebody has not made the directory,
\* and rank 0 registers when everybody has written.
Barriers ==
  phase \in Roles =>
    /\ \A r \in Rank : saver[r] # "idle"
    /\ (\E r \in Rank : saver[r] = "begin") => AllAt({"begin", "made"})
    /\ saver[0] \in {"registered", "left"} => AllAt({"written", "registered", "left"})

\* What this life has on disk is registered or being written, and rank 0
\* makes room before it is written.
Room ==
  \A c \in Roles :
    /\ WrittenBy(c, life) \subseteq kept[c] \cup Unregistered(c)
    /\ Cardinality(kept[c]) + Cardinality(Unregistered(c)) <= Keep

CapInv == Lives /\ Barriers /\ Room

\* The types the proofs below use.
LEMMA DiskTypes ==
  ASSUME IInv
  PROVE  /\ disk \in [Step -> [File -> Saved \cup {Missing, Torn}]]
         /\ kept \in [Roles -> SUBSET Step] /\ saver \in [Rank -> SaverStates]
         /\ life \in Nat /\ Missing \notin Saved /\ Torn \notin Saved
         /\ Missing.life = 0 /\ Torn.life = 0
         /\ \A c \in Roles : IsFiniteSet(kept[c]) /\ Cardinality(kept[c]) \in Nat
         /\ \A n \in Step, c \in Roles, r \in Rank :
              disk[n][<<c, r>>] \in Saved \cup {Missing, Torn}
<1>1. /\ disk \in [Step -> [File -> Saved \cup {Missing, Torn}]]
      /\ kept \in [Roles -> SUBSET Step] /\ saver \in [Rank -> SaverStates]
      /\ life \in Nat
  BY CheckpointAssumption DEF IInv, TypeOK, ManagerTypeOK, Life
<1>2. Missing \notin Saved /\ Torn \notin Saved /\ Missing.life = 0 /\ Torn.life = 0
  BY DEF Missing, Torn, Saved
<1>3. ASSUME NEW c \in Roles PROVE IsFiniteSet(kept[c]) /\ Cardinality(kept[c]) \in Nat
  BY <1>1, Constants, FS_Subset, FS_CardinalityType
<1>4. ASSUME NEW n \in Step, NEW c \in Roles, NEW r \in Rank
      PROVE  disk[n][<<c, r>>] \in Saved \cup {Missing, Torn}
  <2>1. <<c, r>> \in File
    BY Constants
  <2>2. disk[n] \in [File -> Saved \cup {Missing, Torn}]
    BY <1>1
  <2> QED BY <2>1, <2>2
<1> QED BY <1>1, <1>2, <1>3, <1>4

\* A file that is removed or torn leaves less on disk.
LEMMA LessWritten ==
  ASSUME IInv, Lives, life' = life,
         \A n \in Step, c \in Roles, r \in Rank :
           disk'[n][<<c, r>>] \in {disk[n][<<c, r>>], Missing, Torn}
  PROVE  Lives' /\ \A c \in Roles : WrittenBy(c, life)' \subseteq WrittenBy(c, life)
<1>1. ASSUME NEW n \in Step, NEW c \in Roles, NEW r \in Rank
      PROVE  disk'[n][<<c, r>>].life <= life
  <2>1. CASE disk'[n][<<c, r>>] = disk[n][<<c, r>>]
    BY <2>1 DEF Lives
  <2>2. CASE disk'[n][<<c, r>>] \in {Missing, Torn}
    <3>1. disk'[n][<<c, r>>].life = 0 /\ life \in Nat
      BY <2>2, DiskTypes
    <3> QED BY <3>1
  <2> QED BY <2>1, <2>2
<1>2. ASSUME NEW c \in Roles PROVE WrittenBy(c, life)' \subseteq WrittenBy(c, life)
  BY DiskTypes DEF WrittenBy
<1>3. Lives'
  BY <1>1 DEF Lives
<1> QED BY <1>2, <1>3

\* What rank 0 has removed is not on disk.
LEMMA RemovedGone ==
  ASSUME IInv, NEW c \in Roles, Removed(c), NEW n \in Obsolete(c), n \in Step
  PROVE  n \notin WrittenBy(c, life)
<1>1. ASSUME NEW r \in Rank PROVE disk[n][<<c, r>>] \notin Saved
  <2>1. <<c, r>> \in PathFiles(c)
    BY Constants
  <2>2. disk[n][<<c, r>>] = Missing
    BY <2>1 DEF Removed
  <2> QED BY <2>2, DiskTypes
<1> QED BY <1>1 DEF WrittenBy

\* The end of rank 0's first duty: room for one more checkpoint.
LEMMA MakesRoom ==
  ASSUME IInv, Keep > 1, NEW c \in Roles
  PROVE  Cardinality(kept[c] \ ToEnsure(c)) <= Keep - 1
<1>1. Keep - 1 \in Nat \ {0} /\ kept[c] \in SUBSET Step
  BY CheckpointAssumption, DiskTypes
<1>2. Cardinality({n \in kept[c] : Cardinality({m \in kept[c] : m > n}) < Keep - 1})
        <= Keep - 1
  BY <1>1, NewestFew
<1>3. ASSUME NEW n \in kept[c]
      PROVE  Cardinality({m \in kept[c] : m > n}) >= Keep - 1
               <=> ~(Cardinality({m \in kept[c] : m > n}) < Keep - 1)
  <2>1. {m \in kept[c] : m > n} \in SUBSET Step
    BY <1>1
  <2>2. Cardinality({m \in kept[c] : m > n}) \in Nat
    BY <2>1, Constants, FS_Subset, FS_CardinalityType
  <2> QED BY <1>1, <2>2
<1>4. kept[c] \ ToEnsure(c) =
        {n \in kept[c] : Cardinality({m \in kept[c] : m > n}) < Keep - 1}
  BY <1>1, <1>3 DEF ToEnsure, Excess
<1> QED BY <1>2, <1>4

\* A step of a save keeps within the capacity.
LEMMA SaveRoleCap ==
  ASSUME IInv, IInv', Keep > 1, CapInv, SaveRole
  PROVE  CapInv'
<1> DEFINE n == GlobalSteps
<1>1. /\ phase \in Roles /\ UNCHANGED <<phase, life, model, tracker>>
      /\ n' = n /\ n \in Step
      /\ \A c \in Roles, r \in Rank : model[c][r] = [count |-> n, life |-> life]
  <2>1. phase \in Saving
    BY DEF SaveRole, Saving, Writing
  <2> QED BY <2>1, SavedStep DEF SaveRole, trainVars, GlobalSteps
<1>2. Cardinality({}) = 0 /\ Cardinality({n}) = 1 /\ Keep \in Nat
  BY FS_EmptySet, FS_Singleton, CheckpointAssumption
<1> HIDE DEF n
<1>3. \A c \in Roles : Unregistered(c) =
        IF phase = c /\ saver[0] \in {"made", "open", "written"} THEN {n} ELSE {}
  BY DEF Unregistered, n
<1>4. \A c \in Roles : Unregistered(c)' =
        IF phase = c /\ saver'[0] \in {"made", "open", "written"} THEN {n} ELSE {}
  BY <1>1 DEF Unregistered, n
<1>5. /\ saver \in [Rank -> SaverStates] /\ kept \in [Roles -> SUBSET Step] /\ 0 \in Rank
      /\ disk \in [Step -> [File -> Saved \cup {Missing, Torn}]]
      /\ \A c \in Roles, r \in Rank : <<c, r>> \in File
  BY DiskTypes, Constants
<1>6. CASE RemoveFile(phase)
  <2>1. PICK m \in Obsolete(phase), f \in PathFiles(phase) :
          disk' = [disk EXCEPT ![m][f] = Missing]
    BY <1>6 DEF RemoveFile
  <2>2. UNCHANGED <<kept, saver>>
    BY <1>6 DEF RemoveFile
  <2>3. \A k \in Step, c \in Roles, r \in Rank :
          disk'[k][<<c, r>>] \in {disk[k][<<c, r>>], Missing, Torn}
    BY <1>5, <2>1
  <2>4. Lives' /\ \A c \in Roles : WrittenBy(c, life)' \subseteq WrittenBy(c, life)
    BY <1>1, <2>3, LessWritten DEF CapInv
  <2>5. Barriers'
    BY <1>1, <2>2 DEF CapInv, Barriers, AllAt
  <2>6. Room'
    BY <1>1, <1>3, <1>4, <2>2, <2>4 DEF CapInv, Room
  <2> QED BY <2>4, <2>5, <2>6 DEF CapInv
<1>7. CASE RegisterCheckpoint(phase, n)
  <2>1. /\ disk' = disk /\ saver[0] = "written" /\ AllAt({"written", "registered", "left"})
        /\ kept' = [kept EXCEPT ![phase] = @ \cup {n}]
        /\ saver' = [saver EXCEPT ![0] = "registered"]
    BY <1>7 DEF RegisterCheckpoint, AllWritten
  <2>2. Lives' /\ \A c \in Roles : WrittenBy(c, life)' = WrittenBy(c, life)
    BY <1>1, <2>1 DEF CapInv, Lives, WrittenBy
  <2>3. Barriers'
    BY <1>1, <1>5, <2>1 DEF Barriers, AllAt
  <2>4. ASSUME NEW c \in Roles
        PROVE  /\ WrittenBy(c, life)' \subseteq kept'[c] \cup Unregistered(c)'
               /\ Cardinality(kept'[c]) + Cardinality(Unregistered(c)') <= Keep
    <3>1. CASE c = phase
      <4>1. Unregistered(c) = {n} /\ Unregistered(c)' = {} /\ kept'[c] = kept[c] \cup {n}
        BY <1>3, <1>4, <1>5, <2>1, <3>1
      <4>2. Cardinality(kept[c]) + 1 <= Keep
        BY <1>2, <4>1 DEF CapInv, Room
      <4>3. Cardinality(kept[c] \cup {n}) <= Cardinality(kept[c]) + 1
        BY DiskTypes, OneMore
      <4>4. Cardinality(kept'[c]) + Cardinality(Unregistered(c)') <= Keep
        <5>1. Cardinality(kept[c]) \in Nat /\ Cardinality(kept[c] \cup {n}) \in Nat
          BY DiskTypes, OneMore
        <5>2. Cardinality(kept[c] \cup {n}) + 0 <= Keep
          BY <1>2, <4>2, <4>3, <5>1
        <5> QED BY <1>2, <4>1, <5>2
      <4> QED BY <2>2, <4>1, <4>4 DEF CapInv, Room
    <3>2. CASE c # phase
      BY <1>3, <1>4, <1>5, <2>1, <2>2, <3>2 DEF CapInv, Room
    <3> QED BY <3>1, <3>2
  <2> QED BY <1>1, <2>2, <2>3, <2>4 DEF CapInv, Room
<1>8. ASSUME NEW r \in Rank, MakeDirectory(phase, r, n)
      PROVE  CapInv'
  <2>1. /\ disk' = disk /\ saver[r] = "begin" /\ saver' = [saver EXCEPT ![r] = "made"]
        /\ r = 0 => Removed(phase)
        /\ kept' = IF r = 0 THEN [kept EXCEPT ![phase] = @ \ ToEnsure(phase)] ELSE kept
    BY <1>8 DEF MakeDirectory
  <2>2. Lives' /\ \A c \in Roles : WrittenBy(c, life)' = WrittenBy(c, life)
    BY <1>1, <2>1 DEF CapInv, Lives, WrittenBy
  <2>3. AllAt({"begin", "made"})
    BY <1>1, <2>1 DEF CapInv, Barriers
  <2>4. Barriers'
    BY <1>1, <1>5, <2>1, <2>3 DEF Barriers, AllAt
  <2>5. ASSUME NEW c \in Roles
        PROVE  /\ WrittenBy(c, life)' \subseteq kept'[c] \cup Unregistered(c)'
               /\ Cardinality(kept'[c]) + Cardinality(Unregistered(c)') <= Keep
    <3>1. CASE c = phase /\ r = 0
      <4>1. /\ Unregistered(c) = {} /\ Unregistered(c)' = {n}
            /\ kept'[c] = kept[c] \ ToEnsure(c) /\ Obsolete(c) = ToEnsure(c)
        BY <1>3, <1>4, <1>5, <2>1, <3>1 DEF Obsolete
      <4>2. ToEnsure(c) \subseteq Step
        BY <1>5 DEF ToEnsure, Excess
      <4>3. \A m \in ToEnsure(c) : m \notin WrittenBy(c, life)
        BY <2>1, <3>1, <4>1, <4>2, RemovedGone
      <4>4. WrittenBy(c, life) \subseteq kept[c]
        BY <4>1 DEF CapInv, Room
      <4>5. Cardinality(kept'[c]) <= Keep - 1 /\ Cardinality(kept'[c]) \in Nat
        <5>1. IsFiniteSet(kept[c]) /\ kept[c] \ ToEnsure(c) \in SUBSET kept[c]
          BY DiskTypes
        <5>2. Cardinality(kept[c] \ ToEnsure(c)) \in Nat
          BY <5>1, NoMore
        <5> QED BY <4>1, <5>2, MakesRoom
      <4> QED BY <1>2, <2>2, <4>1, <4>3, <4>4, <4>5
    <3>2. CASE ~(c = phase /\ r = 0)
      <4>1. kept'[c] = kept[c] /\ Unregistered(c)' = Unregistered(c)
        BY <1>3, <1>4, <1>5, <2>1, <3>2
      <4> QED BY <2>2, <4>1 DEF CapInv, Room
    <3> QED BY <3>1, <3>2
  <2> QED BY <1>1, <2>2, <2>4, <2>5 DEF CapInv, Room
<1>9. ASSUME NEW r \in Rank, OpenShard(phase, r, n)
      PROVE  CapInv'
  <2>1. /\ saver[r] = "made" /\ \A q \in Rank : saver[q] # "begin"
        /\ disk' = [disk EXCEPT ![n][<<phase, r>>] = Torn]
        /\ saver' = [saver EXCEPT ![r] = "open"] /\ kept' = kept
    BY <1>9 DEF OpenShard
  <2>2. \A k \in Step, c \in Roles, q \in Rank :
          disk'[k][<<c, q>>] \in {disk[k][<<c, q>>], Missing, Torn}
    BY <1>5, <2>1
  <2>3. Lives' /\ \A c \in Roles : WrittenBy(c, life)' \subseteq WrittenBy(c, life)
    BY <1>1, <2>2, LessWritten DEF CapInv
  <2>4. Barriers'
    BY <1>1, <1>5, <2>1 DEF CapInv, Barriers, AllAt
  <2>5. \A c \in Roles : Unregistered(c)' = Unregistered(c)
    BY <1>3, <1>4, <1>5, <2>1
  <2> QED BY <1>1, <2>1, <2>3, <2>4, <2>5 DEF CapInv, Room
<1>10. ASSUME NEW r \in Rank, CloseShard(phase, r, n, model[phase][r])
       PROVE  CapInv'
  <2>1. /\ saver[r] = "open"
        /\ disk' = [disk EXCEPT ![n][<<phase, r>>] = [count |-> n, life |-> life]]
        /\ saver' = [saver EXCEPT ![r] = "written"] /\ kept' = kept
    BY <1>1, <1>10 DEF CloseShard
  <2>2. \A k \in Step, c \in Roles, q \in Rank :
          disk'[k][<<c, q>>] = IF k = n /\ c = phase /\ q = r
                               THEN [count |-> n, life |-> life] ELSE disk[k][<<c, q>>]
    BY <1>1, <1>5, <2>1
  <2>3. ASSUME NEW k \in Step, NEW c \in Roles, NEW q \in Rank
        PROVE  disk'[k][<<c, q>>].life <= life
    <3>1. CASE disk'[k][<<c, q>>] = [count |-> n, life |-> life]
      <4>1. disk'[k][<<c, q>>].life = life /\ life \in Nat
        BY <3>1, DiskTypes
      <4> QED BY <4>1
    <3>2. CASE disk'[k][<<c, q>>] = disk[k][<<c, q>>]
      BY <3>2 DEF CapInv, Lives
    <3> QED BY <2>2, <3>1, <3>2
  <2>l. Lives'
    BY <1>1, <2>3 DEF Lives
  <2>4. /\ \A q \in Rank : saver[q] # "begin"
        /\ saver[0] \in {"made", "open", "written"}
    <3>1. \A q \in Rank : saver[q] # "begin"
      <4>1. saver[r] \notin {"begin", "made"}
        BY <2>1
      <4> QED BY <1>1, <4>1 DEF CapInv, Barriers, AllAt
    <3>2. saver[0] \notin {"registered", "left"}
      <4>1. saver[r] \notin {"written", "registered", "left"}
        BY <2>1
      <4> QED BY <1>1, <4>1 DEF CapInv, Barriers, AllAt
    <3>3. saver[0] # "idle" /\ saver[0] \in SaverStates
      BY <1>1, <1>5 DEF CapInv, Barriers
    <3> QED BY <1>5, <3>1, <3>2, <3>3 DEF SaverStates
  <2>5. Barriers'
    BY <1>1, <1>5, <2>1, <2>4 DEF CapInv, Barriers, AllAt
  <2>6. \A c \in Roles : Unregistered(c)' = Unregistered(c)
    BY <1>3, <1>4, <1>5, <2>1
  <2>7. ASSUME NEW c \in Roles
        PROVE  WrittenBy(c, life)' \subseteq kept[c] \cup Unregistered(c)
    <3>1. WrittenBy(c, life)' \subseteq WrittenBy(c, life) \cup (IF c = phase THEN {n} ELSE {})
      BY <1>1, <2>2 DEF WrittenBy
    <3>2. c = phase => Unregistered(c) = {n}
      BY <1>3, <2>4
    <3> QED BY <3>1, <3>2 DEF CapInv, Room
  <2> QED BY <1>1, <2>1, <2>l, <2>5, <2>6, <2>7 DEF CapInv, Room
<1>11. ASSUME NEW r \in Rank, ReturnFromSave(phase, r)
       PROVE  CapInv'
  <2>1. /\ disk' = disk /\ saver[r] \in {"registered", "written"}
        /\ r = 0 => saver[0] = "registered" /\ Removed(phase)
        /\ r # 0 => AllWritten(r)
        /\ saver' = [saver EXCEPT ![r] = "left"]
        /\ kept' = IF r = 0 THEN [kept EXCEPT ![phase] = @ \ ToRegister(phase)] ELSE kept
    BY <1>11 DEF ReturnFromSave
  <2>2. Lives' /\ \A c \in Roles : WrittenBy(c, life)' = WrittenBy(c, life)
    BY <1>1, <2>1 DEF CapInv, Lives, WrittenBy
  <2>3. AllAt({"written", "registered", "left"})
    BY <1>1, <2>1 DEF CapInv, Barriers, AllWritten
  <2>4. Barriers'
    BY <1>1, <1>5, <2>1, <2>3 DEF Barriers, AllAt
  <2>5. \A c \in Roles : Unregistered(c)' = Unregistered(c)
    BY <1>3, <1>4, <1>5, <2>1
  <2>6. ASSUME NEW c \in Roles
        PROVE  /\ WrittenBy(c, life)' \subseteq kept'[c] \cup Unregistered(c)'
               /\ Cardinality(kept'[c]) + Cardinality(Unregistered(c)') <= Keep
    <3>1. CASE c = phase /\ r = 0
      <4>1. /\ Unregistered(c) = {} /\ Unregistered(c)' = {}
            /\ kept'[c] = kept[c] \ ToRegister(c) /\ Obsolete(c) = ToRegister(c)
        BY <1>3, <1>5, <2>1, <2>5, <3>1 DEF Obsolete
      <4>2. ToRegister(c) \subseteq Step
        BY <1>5 DEF ToRegister, Excess
      <4>3. \A m \in ToRegister(c) : m \notin WrittenBy(c, life)
        BY <2>1, <3>1, <4>1, <4>2, RemovedGone
      <4>4. WrittenBy(c, life) \subseteq kept[c] /\ Cardinality(kept[c]) + 0 <= Keep
        BY <1>2, <4>1 DEF CapInv, Room
      <4>5. Cardinality(kept'[c]) <= Cardinality(kept[c]) /\ Cardinality(kept'[c]) \in Nat
            /\ Cardinality(kept[c]) \in Nat
        <5>1. IsFiniteSet(kept[c]) /\ kept'[c] \in SUBSET kept[c]
          BY <4>1, DiskTypes
        <5> QED BY <5>1, NoMore
      <4> QED BY <1>2, <2>2, <4>1, <4>3, <4>4, <4>5
    <3>2. CASE ~(c = phase /\ r = 0)
      <4>1. kept'[c] = kept[c]
        BY <1>5, <2>1, <3>2
      <4> QED BY <2>2, <2>5, <4>1 DEF CapInv, Room
    <3> QED BY <3>1, <3>2
  <2> QED BY <1>1, <2>2, <2>4, <2>6 DEF CapInv, Room
<1> QED BY <1>6, <1>7, <1>8, <1>9, <1>10, <1>11 DEF SaveRole, SaveStep, n

\* So does every other step.
LEMMA CapInvStep ==
  ASSUME IInv, IInv', Keep > 1, CapInv, [Next]_vars
  PROVE  CapInv'
<1>0. Cardinality({}) = 0 /\ Keep \in Nat /\ life \in Nat
  BY FS_EmptySet, CheckpointAssumption, DiskTypes
<1>1. CASE SaveRole
  BY <1>1, SaveRoleCap
<1>2. ASSUME \A k \in Step, c \in Roles, r \in Rank : disk'[k][<<c, r>>] = disk[k][<<c, r>>],
             life' = life, kept' = kept,
             \A c \in Roles : Unregistered(c) = {} /\ Unregistered(c)' = {},
             phase' \in Roles => \A r \in Rank : saver'[r] = "begin"
      PROVE  CapInv'
  <2>1. Lives' /\ \A c \in Roles : WrittenBy(c, life)' = WrittenBy(c, life)
    BY <1>2 DEF CapInv, Lives, WrittenBy
  <2>2. Barriers'
    BY <1>2, Constants DEF Barriers, AllAt
  <2> QED BY <1>2, <2>1, <2>2 DEF CapInv, Room
<1>3. CASE RoleSaved
  <2>1. UNCHANGED <<disk, kept, life>> /\ saver[0] = "left"
    BY <1>3, Constants DEF RoleSaved, trainVars, AllAt
  <2>p. (phase' \in Roles /\ saver' = Begun) \/ (phase' = "data" /\ phase' \notin Roles)
    BY <1>3, Constants DEF RoleSaved
  <2>2. \A c \in Roles : Unregistered(c) = {} /\ Unregistered(c)' = {}
    BY <2>1, <2>p, Constants DEF Unregistered, Begun
  <2> QED BY <1>2, <2>1, <2>p, <2>2, Constants DEF Begun
<1>4. CASE TrainStep
  <2>1. UNCHANGED <<disk, kept, life>> /\ phase = "train"
    BY <1>4 DEF TrainStep
  <2>p. \/ phase' = "actor" /\ saver' = Begun
        \/ phase' \in {"train", "finish"} /\ phase' \notin Roles
    BY <1>4, Constants DEF TrainStep, AfterStep
  <2>2. \A c \in Roles : Unregistered(c) = {} /\ Unregistered(c)' = {}
    BY <2>1, <2>p, Constants DEF Unregistered, Begun
  <2> QED BY <1>2, <2>1, <2>p, <2>2, Constants DEF Begun
<1>5. CASE \/ OpenData \/ CloseData \/ OpenTracker \/ CloseTracker \/ NextEpoch \/ Return
           \/ FromScratch \/ Resume \/ ResumeFails
  <2>1. /\ UNCHANGED <<kept, life>> /\ phase \notin Roles /\ phase' \notin Roles
    BY <1>5, Constants
    DEF OpenData, CloseData, OpenTracker, CloseTracker, NextEpoch, Return,
        FromScratch, Resume, ResumeFails, AfterStep, managerVars, trainVars
  <2>2. \A k \in Step, c \in Roles, r \in Rank : disk'[k][<<c, r>>] = disk[k][<<c, r>>]
    <3>1. CASE OpenData \/ CloseData
      <4>1. disk' = [disk EXCEPT ![GlobalSteps][<<"data", 0>>] = Torn]
            \/ disk' = [disk EXCEPT ![GlobalSteps][<<"data", 0>>] = DataContent]
        BY <3>1 DEF OpenData, CloseData
      <4>2. ASSUME NEW k \in Step, NEW c \in Roles, NEW r \in Rank
            PROVE  disk'[k][<<c, r>>] = disk[k][<<c, r>>]
        <5>1. <<c, r>> # <<"data", 0>> /\ <<c, r>> \in File
          BY Constants
        <5>2. disk \in [Step -> [File -> Saved \cup {Missing, Torn}]]
          BY DiskTypes
        <5> QED BY <4>1, <5>1, <5>2
      <4> QED BY <4>2
    <3>2. CASE \/ OpenTracker \/ CloseTracker \/ NextEpoch \/ Return
               \/ FromScratch \/ Resume \/ ResumeFails
      BY <3>2 DEF OpenTracker, CloseTracker, NextEpoch, Return, FromScratch, Resume,
                  ResumeFails, managerVars
    <3> QED BY <1>5, <3>1, <3>2
  <2>3. \A c \in Roles : Unregistered(c) = {} /\ Unregistered(c)' = {}
    BY <2>1 DEF Unregistered
  <2> QED BY <1>2, <2>1, <2>2, <2>3
<1>6. CASE Crash
  <2>1. /\ life' = life + 1 /\ disk' = disk /\ kept' = [c \in Roles |-> {}]
        /\ phase' = "down"
    BY <1>6 DEF Crash, ManagerCrash
  <2>2. ASSUME NEW c \in Roles, NEW k \in Step, NEW r \in Rank
        PROVE  disk[k][<<c, r>>].life <= life + 1 /\ disk[k][<<c, r>>].life # life + 1
    <3>1. disk[k][<<c, r>>].life <= life
      BY DEF CapInv, Lives
    <3>2. disk[k][<<c, r>>].life \in Nat
      <4>1. disk[k][<<c, r>>] \in Saved \cup {Missing, Torn}
        BY DiskTypes
      <4> QED BY <4>1, CheckpointAssumption DEF Saved, Missing, Torn, Life
    <3> QED BY <1>0, <3>1, <3>2
  <2>3. Lives' /\ \A c \in Roles : WrittenBy(c, life)' = {}
    BY <2>1, <2>2 DEF Lives, WrittenBy
  <2>4. phase' \notin Roles
    BY <2>1, Constants
  <2>5. Barriers' /\ \A c \in Roles : Unregistered(c)' = {}
    BY <2>4 DEF Barriers, Unregistered
  <2> QED BY <1>0, <2>1, <2>3, <2>5 DEF CapInv, Room
<1>7. CASE UNCHANGED vars
  <2>1. UNCHANGED <<disk, kept, saver, phase, life, model>>
    BY <1>7 DEF vars, managerVars, trainVars
  <2> QED BY <2>1
      DEF CapInv, Lives, Barriers, Room, WrittenBy, Unregistered, AllAt, GlobalSteps
<1> QED BY <1>1, <1>3, <1>4, <1>5, <1>6, <1>7 DEF Next, Run

\* max_ckpt_to_keep: the checkpoints a life of the job has on disk, whole or
\* in part, are never more, while one is written included.
THEOREM CapacityKept == ASSUME Keep # 1 PROVE Spec => []WithinCapacity
<1>1. CASE ~(Keep > 1)
  <2>1. WithinCapacity
    BY <1>1 DEF WithinCapacity
  <2> QED BY <2>1, PTL
<1>2. CASE Keep > 1
  <2>1. Init => CapInv
    <3> SUFFICES ASSUME Init PROVE CapInv
      OBVIOUS
    <3>1. /\ phase = "train" /\ life = 0 /\ kept = [c \in Roles |-> {}]
          /\ disk = [k \in Step |-> [f \in File |-> Missing]]
      BY DEF Init, ManagerInit
    <3>2. \A k \in Step, c \in Roles, r \in Rank : disk[k][<<c, r>>] = Missing
      BY <3>1, Constants
    <3>3. Missing.life = 0 /\ Missing \notin Saved /\ phase \notin Roles
      BY <3>1, Constants DEF Missing, Saved
    <3>4. Cardinality({}) = 0 /\ Keep \in Nat
      BY FS_EmptySet, CheckpointAssumption
    <3>5. Lives
      <4>1. ASSUME NEW k \in Step, NEW c \in Roles, NEW r \in Rank
            PROVE  disk[k][<<c, r>>].life <= life
        <5>1. disk[k][<<c, r>>].life = 0
          BY <3>2, <3>3
        <5> QED BY <3>1, <5>1
      <4> QED BY <4>1 DEF Lives
    <3>6. Barriers
      BY <3>3 DEF Barriers
    <3>7. ASSUME NEW c \in Roles
          PROVE  /\ WrittenBy(c, life) = {} /\ Unregistered(c) = {} /\ kept[c] = {}
      BY <3>1, <3>2, <3>3 DEF WrittenBy, Unregistered
    <3>8. Room
      BY <3>4, <3>7 DEF Room
    <3> QED BY <3>5, <3>6, <3>8 DEF CapInv
  <2>2. IInv /\ IInv' /\ CapInv /\ [Next]_vars => CapInv'
    BY <1>2, CapInvStep
  <2>3. IInv /\ CapInv => WithinCapacity
    <3> SUFFICES ASSUME IInv, CapInv, NEW c \in Roles
                 PROVE  Cardinality(WrittenBy(c, life)) <= Keep
      BY DEF WithinCapacity
    <3>1. WrittenBy(c, life) \subseteq kept[c] \cup Unregistered(c)
          /\ Cardinality(kept[c]) + Cardinality(Unregistered(c)) <= Keep
      BY DEF CapInv, Room
    <3>2. IsFiniteSet(kept[c]) /\ Cardinality(kept[c]) \in Nat /\ Keep \in Nat
      BY DiskTypes, CheckpointAssumption
    <3>3. CASE Unregistered(c) = {}
      <4>1. WrittenBy(c, life) \in SUBSET kept[c]
        BY <3>1, <3>3
      <4>2. Cardinality(WrittenBy(c, life)) <= Cardinality(kept[c])
            /\ Cardinality(WrittenBy(c, life)) \in Nat
        BY <3>2, <4>1, NoMore
      <4>3. Cardinality({}) = 0
        BY FS_EmptySet
      <4>4. Cardinality(kept[c]) + 0 <= Keep
        BY <3>1, <3>3, <4>3
      <4> QED BY <3>2, <4>2, <4>4
    <3>4. CASE Unregistered(c) = {GlobalSteps}
      <4>1. IsFiniteSet(kept[c] \cup {GlobalSteps})
            /\ Cardinality(kept[c] \cup {GlobalSteps}) <= Cardinality(kept[c]) + 1
            /\ Cardinality(kept[c] \cup {GlobalSteps}) \in Nat
        BY <3>2, OneMore
      <4>s. WrittenBy(c, life) \in SUBSET (kept[c] \cup {GlobalSteps})
        BY <3>1, <3>4
      <4>2. Cardinality(WrittenBy(c, life)) <= Cardinality(kept[c] \cup {GlobalSteps})
            /\ Cardinality(WrittenBy(c, life)) \in Nat
        BY <4>1, <4>s, NoMore
      <4>o. Cardinality({GlobalSteps}) = 1
        BY FS_Singleton
      <4>3. Cardinality(kept[c]) + 1 <= Keep
        BY <3>1, <3>4, <4>o
      <4> QED BY <3>2, <4>1, <4>2, <4>3
    <3> QED BY <3>3, <3>4 DEF Unregistered
  <2> QED BY <2>1, <2>2, <2>3, Invariance, PTL DEF Spec
<1> QED BY <1>1, <1>2
=============================================================================

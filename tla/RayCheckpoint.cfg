\* Two roles of two ranks, two epochs of two batches, a save every two steps
\* and at any step where the capacity block is about to end, two checkpoints
\* kept and two crashes: rotation in the first life and over the leftovers
\* of a crash, a resume within an epoch and at its end.
CONSTANTS
  Roles = {"actor", "critic"}
  NumRanks = 2
  MaxStep = 4
  Keep = 2
  MaxCrashes = 2
  Spmd = FALSE
  EpochLength = 2
  TotalEpochs = 2
  SaveFreq = 2
  CriticWarmup = 0
  EsiExpires = TRUE
SPECIFICATION FairSpec
INVARIANTS
  TypeOK
  TrackedComplete
  EachBatchOnce
  AllTrained
  WithinCapacity
PROPERTIES
  ImplementsDurable
  Terminates
CHECK_DEADLOCK FALSE

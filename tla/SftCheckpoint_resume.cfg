\* Two data-parallel ranks, a save after every step, two checkpoints kept.
\* Training ends inside its first epoch.
CONSTANTS
  Roles = {"model"}
  NumRanks = 2
  MaxStep = 2
  Keep = 2
  MaxCrashes = 1
  Spmd = TRUE
  EpochLength = 3
  TotalEpochs = 1
  SaveFreq = 1
SPECIFICATION Spec
INVARIANT SameData
CHECK_DEADLOCK FALSE

\* One checkpoint is kept (max_actor_ckpt_to_keep = 1).
CONSTANTS
  Roles = {"actor", "critic"}
  NumRanks = 2
  MaxStep = 4
  Keep = 1
  MaxCrashes = 2
  Spmd = FALSE
  EpochLength = 2
  TotalEpochs = 2
  SaveFreq = 2
  CriticWarmup = 0
  EsiExpires = TRUE
SPECIFICATION Spec
INVARIANT KeptUntilSaved
CHECK_DEADLOCK FALSE

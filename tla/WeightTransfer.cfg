\* Three rollout workers behind two trainer ranks; five tensors in four
\* buckets of the engine, two of the link.
CONSTANTS
  Workers = {1, 2, 3}
  NumTensors = 5
  Large = {2}
  BucketSize = 2
  IpcBucketSize = 3
  Backends = {"naive", "nccl", "nixl"}
  TrainerWorldSize = 2
SPECIFICATION Spec
INVARIANT NoDataRace
PROPERTY Implements
CHECK_DEADLOCK FALSE

\* One sample per batch, two batches per sync, a budget of three: the slack
\* over a window's two samples just covers the one unreaped task.  Six
\* samples, so two resets with samples still to come, and a failing
\* generation.
CONSTANTS
  RequiredSamples = 1
  TriggerParameterSyncStep = 2
  StalenessPercent = 50
  NumServers = 1
  SamplesPerServer = 1
  TotalRolloutSteps = 6
  PendingQueueSize = 2
  MaxFailures = 1
  MaxQueueSize = 3
  TestFreq = 2
  SaveFreq = 1
SPECIFICATION FairSpec
INVARIANTS
  VersionAccounting
  ProximalModel
PROPERTIES
  Terminates

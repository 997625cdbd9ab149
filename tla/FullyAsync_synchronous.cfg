\* staleness_threshold = 0: two samples between two parameter updates.
CONSTANTS
  RequiredSamples = 1
  TriggerParameterSyncStep = 2
  StalenessPercent = 0
  NumServers = 1
  SamplesPerServer = 2
  TotalRolloutSteps = 4
  PendingQueueSize = 2
  MaxFailures = 0
  MaxQueueSize = 2
  TestFreq = 2
  SaveFreq = 1
SPECIFICATION Spec
INVARIANT FixedNumberWhenSynchronous

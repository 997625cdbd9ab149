\* Batches of two samples, one batch per sync, a threshold of a whole window
\* (budget 4), two tasks at a time and seven samples: three windows with
\* samples carried over, an incomplete last batch and a failing generation.
CONSTANTS
  RequiredSamples = 2
  TriggerParameterSyncStep = 1
  StalenessPercent = 100
  NumServers = 1
  SamplesPerServer = 2
  TotalRolloutSteps = 7
  PendingQueueSize = 2
  MaxFailures = 1
  MaxQueueSize = 4
  TestFreq = 2
  SaveFreq = 1
SPECIFICATION Spec
INVARIANTS
  BudgetInv
  BudgetBound
  PausedOnlyInDrain
  ConcurrencyBound
  OnlyPartialBatchLost
PROPERTIES
  ImplementsSampleWindow

\* Batches of up to six lengths between zero and three, of up to four scored
\* rows of two prompts, responses of up to five tokens; the rates are whole
\* numbers, for identities between polynomials in them.
CONSTANTS
  Gamma = 2
  Lam = 3
  MaxLength = 3
  MaxBatch = 6
  Uids = {1, 2}
  Scores = {0, 1, 3}
  MaxScored = 4
  Rewards = {0, 1}
  Values = {0, 1}
  MaxTokens = 5
  MaxRanks = 3
SPECIFICATION Spec
INVARIANTS
  PartitionsBalanced
  MicroBatchesRestore
  RowsReachRanks
  OutcomeAdvantages
  ReturnsSkipObservations
CHECK_DEADLOCK FALSE

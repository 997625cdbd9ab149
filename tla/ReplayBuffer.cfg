\* The validation before training, one step, a validation and the cleanup;
\* one prompt in two sessions, one of which may raise.
CONSTANTS
  TotalSteps = 1
  ValBatches = 1
  Prompts = {1}
  Sessions = {1, 2}
  MaxFailures = 1
SPECIFICATION Spec
INVARIANTS
  SampleComplete
  SampledOwn
  SampledStored
PROPERTY Terminates
CHECK_DEADLOCK FALSE

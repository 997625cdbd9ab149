\* A video and an image prompt, two responses each, balanced over two ranks.
CONSTANTS
  NumPrompts = 2
  Videos = {1}
  Repeats = 2
  DpSize = 2
  BalanceBatch = TRUE
  Lengths = {1, 2}
SPECIFICATION Spec
INVARIANT ShuffledRewarded
CHECK_DEADLOCK FALSE

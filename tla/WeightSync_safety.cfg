\* Two servers, two requests competing for one routing cache entry, responses
\* of two or three tokens, two syncs and a call that raises.  It ends when
\* every request is answered and no sync is left.
CONSTANTS
  NumServers = 2
  Requests = {r1, r2}
  MaxCacheSize = 1
  PartialRollout = TRUE
  EnginePauses = TRUE
  ResponseLength = 2
  PromptSlack = 1
  MaxSyncs = 2
  MaxFailures = 1
SPECIFICATION FairSpec
INVARIANTS
  InflightExact
  LabelsTrue
  NoStalePrefix
  CompleteResponses
  ResponseBound
PROPERTIES
  StickyResume
  ImplementsAtomicSync
  AllAnswered
CHECK_DEADLOCK FALSE

\* Two getters compete for a queue of two; six puts fill and overflow it.
\* A closed, empty queue with every getter returned has nothing left to do.
CONSTANTS
  Getters = {g1, g2}
  MaxQueueSize = 2
  MaxPuts = 6
SPECIFICATION FairSpec
INVARIANTS
  NoMissedWakeup
  Conservation
  QueueIsWindow
PROPERTIES
  ImplementsLossyFifo
  ShutdownReleasesGetters
CHECK_DEADLOCK FALSE

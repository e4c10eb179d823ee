SPECIFICATION FairSpec
CONSTANTS
  Workers = {w1, w2, w3}
  Main = main
  Coros = {c1, c2}
  None = none
  MaxSuspends = 1
  MaxReuses = 1
INVARIANTS
  OneHandle
  WorkConserving
  DrainedAtJoin
  FinishedIsOwned
PROPERTIES
  QueuedIsPopped
  ShutdownCompletes
  ImplementsPool

SPECIFICATION FairSpec
CONSTANTS
  Awaiters = {a1, a2, a3}
  Notifiers = {n1, n2}
  Null = null
  Wild = wild
INVARIANTS
  ListsPartition
PROPERTIES
  SpawnedOnce
  EarlyAwaiterResumes
CHECK_DEADLOCK FALSE

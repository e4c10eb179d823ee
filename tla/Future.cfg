SPECIFICATION FairSpec
CONSTANTS
  Consumer = consumer
  Producers = {p1, p2, p3}
  Nobody = nobody
INVARIANTS
  MutexOutlived
PROPERTIES
  ReadsConstructed
  SpawnedSuspended
  SetAfterAwaitResumes
CHECK_DEADLOCK FALSE

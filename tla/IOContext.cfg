SPECIFICATION FairSpec
CONSTANTS
  Accepts = {a1}
  Connects = {}
  Reads = {r1}
  BufferReads = {b1}
  Writes = {}
  Null = null
  batch_size = 2
  CQSize = 2
INVARIANTS
  OnePlace
  PendingAlive
PROPERTIES
  ImplementsFlight
  SubmittedIsHandled
CHECK_DEADLOCK FALSE

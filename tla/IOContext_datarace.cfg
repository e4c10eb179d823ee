SPECIFICATION Spec
CONSTANTS
  Accepts = {a1}
  Connects = {}
  Reads = {r1}
  BufferReads = {}
  Writes = {}
  Null = null
  batch_size = 2
  CQSize = 4
INVARIANT
  EntriesDistinct
CHECK_DEADLOCK FALSE

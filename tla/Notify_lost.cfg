SPECIFICATION FairSpec
CONSTANTS
  Awaiters = {a1}
  Notifiers = {n1}
  Null = null
  Wild = wild
PROPERTY
  NotifyAllUnblocks
CHECK_DEADLOCK FALSE

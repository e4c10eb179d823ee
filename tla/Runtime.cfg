SPECIFICATION Spec
CONSTANTS
  Coros = {c1, c2, c3}
  Slots = 2
  MaxOps = 2
CHECK_DEADLOCK FALSE
INVARIANTS OwnResults Radioactive AsleepAwaits
PROPERTIES AwaitedReturns MainReturns

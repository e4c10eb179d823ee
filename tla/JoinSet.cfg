SPECIFICATION JoinFairSpec
CONSTANT
  Children = {c1, c2, c3}
INVARIANTS
  DestroyedAfterAll
  SomeProcFires
PROPERTY
  JoinReturns
CHECK_DEADLOCK FALSE

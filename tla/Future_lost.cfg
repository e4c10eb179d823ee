SPECIFICATION FairSpec
CONSTANTS
  Consumer = consumer
  Producers = {p1}
  Nobody = nobody
PROPERTY
  AwaitReturns
CHECK_DEADLOCK FALSE

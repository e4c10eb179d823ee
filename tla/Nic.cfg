SPECIFICATION Spec
CONSTANTS
  Requests <- MCRequests
  MTUs = {68, 96}
  HwAddr <- Own
  NoMac <- Zeros
  AnyMac <- Scrap
  ReadSizes = {0, 1, 7, 14, 20, 27, 28}
CHECK_DEADLOCK FALSE
INVARIANTS StreamExact SumCongruent EchoAccepted BitFieldsSurvive
  FrameWholeOrBare AnswersSender ArpReadBack FdsAccounted
PROPERTY AnswerSent

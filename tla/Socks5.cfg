SPECIFICATION FairSpec
CONSTANTS
  Streams <- MCStreams
  RemoteStream <- MCRemoteStream
  Bytes = {1, 3}
  Garbage = Garbage
  MethodReply = MethodReply
  ConnectReply = ConnectReply
  Errnos = {5}
  MaxRounds <- MCMaxRounds
INVARIANTS TypeOK ConnectsAsAsked OnlyTrusted 
PROPERTY HandshakeEnds
CHECK_DEADLOCK FALSE

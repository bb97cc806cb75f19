\* One request, every fault, both ends of every message.
CONSTANTS
  r1 = r1
  r2 = r2
  Requests <- OneRequest
  ReqLen = 2
  RespLen = 2
  MaxStreams = 1
  PeerVersions <- SomeVersions
  VERSION = 0
SPECIFICATION FairSpec
INVARIANTS
  TypeOK
  TimeoutIsSafeToRetry
  StreamsTransparent
  HalfCloseLosesNothing
  OnlyTheAppIsWaitedFor
PROPERTIES
  KeepsContract
  EveryRequestEnds
  StreamReleased

\* What the error page says of the request.
CONSTANTS
  r1 = r1
  r2 = r2
  Requests <- OneRequest
  ReqLen = 2
  RespLen = 2
  MaxStreams = 1
  PeerVersions <- SameVersion
  VERSION = 0
SPECIFICATION Spec
INVARIANT ErrorPageMeansNotDelivered

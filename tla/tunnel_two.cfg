\* Two requests and room for one stream at a time, on a connection
\* that lasts; the timer need not fire.
CONSTANTS
  r1 = r1
  r2 = r2
  Requests <- TwoRequests
  ReqLen = 1
  RespLen = 1
  MaxStreams = 1
  PeerVersions <- SameVersion
  VERSION = 0
SPECIFICATION SteadySpec
PROPERTY StreamsComeBack

SPECIFICATION FairSpec
CONSTANTS
  a = a
  b = b
  s1 = s1
  s2 = s2
  s3 = s3
  Names = {a, b}
  NoName = NoName
  Corrs = {1, 2}
  SessionIds = {s1, s2}
  NoSession = NoSession
  Threshold = 100
  MaxOutbox = 2
  DbMayFail = FALSE
  Requests <- Exchange
  RetryOn = FALSE
  SessionsExpire = TRUE
  HasMetrics = FALSE
  MayCrash = FALSE
INVARIANTS
  SocketAloneLoses
  NoBacklogWhileOnline
PROPERTY EventLoopResponsive

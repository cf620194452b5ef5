SPECIFICATION FairSpec
CONSTANTS
  a = a
  b = b
  s1 = s1
  s2 = s2
  s3 = s3
  Names = {a, b}
  NoName = NoName
  Corrs = {1, 2}
  SessionIds = {s1}
  NoSession = NoSession
  Threshold = 100
  MaxOutbox = 1
  DbMayFail = FALSE
  Requests <- Plain
  RetryOn = FALSE
  SessionsExpire = TRUE
  HasMetrics = TRUE
  MayCrash = FALSE
CHECK_DEADLOCK FALSE
PROPERTY EventLoopResponsive

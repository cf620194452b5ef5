SPECIFICATION Spec
CONSTANTS
  a = a
  b = b
  s1 = s1
  s2 = s2
  s3 = s3
  Names = {a, b}
  NoName = NoName
  Corrs = {1, 2}
  SessionIds = {s1}
  NoSession = NoSession
  Threshold = 100
  MaxOutbox = 1
  DbMayFail = FALSE
  Requests <- Replies
  RetryOn = TRUE
  SessionsExpire = FALSE
  HasMetrics = FALSE
  MayCrash = FALSE
INVARIANT AwaitedAckCanArrive

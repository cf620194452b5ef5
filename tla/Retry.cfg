SPECIFICATION Spec
CONSTANTS
  a = a
  b = b
  s1 = s1
  s2 = s2
  s3 = s3
  Names = {a, b}
  NoName = NoName
  Corrs = {1, 2}
  SessionIds = {s1, s2}
  NoSession = NoSession
  Threshold = 100
  MaxOutbox = 1
  DbMayFail = TRUE
  Requests <- AckOnly
  RetryOn = TRUE
  SessionsExpire = FALSE
  HasMetrics = FALSE
  MayCrash = TRUE
SYMMETRY SessionSymmetry
INVARIANTS
  TypeOK
  AckedBeforeDelivered
  DeliveredWasReceived
  OnlineQueueEmpty
  QueueBounded
PROPERTIES
  DeliveredIsFinal
  ImplementsDelivery

SPECIFICATION FairSpec
CONSTANTS
  w1 = w1
  w2 = w2
  i1 = i1
  i2 = i2
  i3 = i3
  Workers = {w1, w2}
  Ev = Ev
  Items = {i1, i2, i3}
  MaxInbox = 2
  MayStop = TRUE
INVARIANTS
  TypeOK
  FlagMeansBatch
  NoLostWakeup
  InOneHand
PROPERTIES
  OnlySendsSilence
  ImplementsOutbound
CHECK_DEADLOCK FALSE

SPECIFICATION FairSpec
CONSTANTS
  i1 = i1
  i2 = i2
  a = a
  b = b
  Ids = {i1, i2}
  Names = {a, b}
  NoName = NoName
  NoSession = NoSession
  Timeout = 1
  MaxRegs = 3
INVARIANTS
  TypeOK
  OwnSession
  NeverStaler
  CountersBalance
PROPERTY DeadSessionsGo

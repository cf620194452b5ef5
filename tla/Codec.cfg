SPECIFICATION Spec
CONSTANTS
  Base = 4
  CorrBytes = 2
  Kinds = {0, 3}
  FlagBytes = {0, 3}
  Corrs = {0, 7, 8, 15}
  SenderBytes = {1}
  DestBytes = {0, 1}
  PayloadBytes = {2}
  MaxPayload = 17
  ForeignBytes = {0, 1}
  MaxForeign = 12
INVARIANTS
  TypeOK
  ReadAsWritten
  TakenWhole
  ReceivedAsSent
CHECK_DEADLOCK FALSE

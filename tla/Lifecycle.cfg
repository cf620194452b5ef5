SPECIFICATION FairSpec
CONSTANTS
  w1 = w1
  w2 = w2
  Workers = {w1, w2}
  Main = Main
  Server = Server
  Updater = Updater
  NoThread = NoThread
  MaxSignals = 1
  MaxSends = 1
INVARIANTS
  TypeOK
  StopsOnce
  ServerOutlivesUsers
PROPERTY ShutdownCompletes

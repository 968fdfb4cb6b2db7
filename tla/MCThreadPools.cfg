SPECIFICATION FairSpec
CHECK_DEADLOCK FALSE
CONSTANTS
  Threads = {t1, t2, t3, t4}
  Workers = {w1, w2}
  ClientMax = 1
  ServerMax = 0
  ClientLost = 1
  ServerLost = 1
  Nobody = Nobody
INVARIANTS
  TypeOK
  SleepsOnlyWhenFull
  ClientLimit
  OneOwner
PROPERTIES
  KeepsStarting
  SessionsEnd
  ServerRecovers

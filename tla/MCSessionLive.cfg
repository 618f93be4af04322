\* Liveness: timers and the clock are fair, the network and the application are not.
SPECIFICATION FairSpec
CONSTANTS
  INACTIVITY = 2
  MAX_DURATION = 3
  FLUSH_INTERVAL = 2
  HasStorage = TRUE
  WritesMayThrow = TRUE
  autoSession = TRUE
  User <- OneUser
  NoUser = NoUser
  Lateness = 0
  MaxSessions = 2
  MaxTime = 8
  MaxStarts = 1
  Closer <- OneCloser
  u1 = u1
  u2 = u2
  c1 = c1
  c2 = c2
PROPERTIES
  SessionsRoll

\* A browser whose sessionStorage works; timers up to one tick late.
SPECIFICATION Spec
CONSTANTS
  INACTIVITY = 2
  MAX_DURATION = 3
  FLUSH_INTERVAL = 2
  HasStorage = TRUE
  WritesMayThrow = FALSE
  autoSession = TRUE
  User <- OneUser
  NoUser = NoUser
  Lateness = 1
  MaxSessions = 3
  MaxTime = 8
  MaxStarts = 1
  Closer <- TwoClosers
  u1 = u1
  u2 = u2
  c1 = c1
  c2 = c2
INVARIANTS
  SupportCodeIsOwn
  RolloverIsEarned
  BlobIsFresh
  StartNamesIdentity
  AgeBound
PROPERTIES
  EndedStaysEnded

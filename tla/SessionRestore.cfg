\* A page is reloaded during an awaited end, after the answer to session-start.
SPECIFICATION Spec
CONSTANTS
  INACTIVITY = 2
  MAX_DURATION = 3
  FLUSH_INTERVAL = 2
  HasStorage = TRUE
  WritesMayThrow = FALSE
  autoSession = TRUE
  User <- OneUser
  NoUser = NoUser
  Lateness = 0
  MaxSessions = 2
  MaxTime = 4
  MaxStarts = 1
  Closer <- OneCloser
  u1 = u1
  u2 = u2
  c1 = c1
  c2 = c2
PROPERTIES
  EndedIsNotRestored

\* Two threads, three callbacks under way, four sessions.
SPECIFICATION FairSpec
CONSTANTS
  autoSession = TRUE
  t1 = t1
  t2 = t2
  k1 = k1
  k2 = k2
  Thread <- TwoThreads
  k3 = k3
  Callback <- ThreeCallbacks
  MaxSessions = 4
INVARIANTS
  OneEndPerSession
  TimersFollowState
PROPERTY
  EverySessionEnds
CHECK_DEADLOCK FALSE

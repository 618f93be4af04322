\* A timer that has fired waits for the lock while its session is replaced.
SPECIFICATION Spec
CONSTANTS
  autoSession = TRUE
  t1 = t1
  t2 = t2
  k1 = k1
  k2 = k2
  Thread <- TwoThreads
  k3 = k3
  Callback <- ThreeCallbacks
  MaxSessions = 4
PROPERTIES
  TimersEndTheirOwn
CHECK_DEADLOCK FALSE

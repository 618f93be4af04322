\* A threshold of three: the clicks of a burst may straddle two windows.
SPECIFICATION Spec
CONSTANTS
  Target = {button, link}
  Form = {form}
  Interactive = {button}
  here = here
  there = there
  Href <- TwoAddresses
  maxEventsPerSession = 3
  rageClickThreshold = 3
  rageClickWindow = 1
  deadClickWindow = 1
  repeatedSubmitThreshold = 2
  repeatedSubmitWindow = 1
  RecentSize = 2
  MaxTime = 2
  MaxHistory = 4
  MaxSessions = 2
  MaxRequests = 1
SYMMETRY AddressSymmetry
INVARIANTS
  BurstsAreSeen
CHECK_DEADLOCK FALSE

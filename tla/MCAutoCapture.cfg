\* Two targets, one of them interactive, and two addresses.
SPECIFICATION Spec
CONSTANTS
  Target = {button, link}
  Form = {form}
  Interactive = {button}
  here = here
  there = there
  Href <- TwoAddresses
  maxEventsPerSession = 1
  rageClickThreshold = 2
  rageClickWindow = 1
  deadClickWindow = 1
  repeatedSubmitThreshold = 2
  repeatedSubmitWindow = 1
  RecentSize = 2
  MaxTime = 2
  MaxHistory = 4
  MaxSessions = 2
  MaxRequests = 1
SYMMETRY AddressSymmetry
INVARIANTS
  CeilingPerSession
  TrailIsRecent
  BurstsAreEarned
  DeadClicksAreSpaced
CHECK_DEADLOCK FALSE

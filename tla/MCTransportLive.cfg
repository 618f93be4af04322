SPECIFICATION FairSpec
CONSTANTS
  MAX_BATCH_EVENTS = 2
  MAX_BATCH_BYTES = 3
  MAX_SINGLE_EVENT_BYTES = 2
  MaxQueueEvents = 2
  MaxQueueBytes = 3
  ResumeNum = 9
  ResumeDen = 10
  RETRY_MAX_ATTEMPTS = 1
  Size <- SmallOnly
  c1 = c1
  c2 = c2
  c3 = c3
  Call <- TwoCalls
  MaxCaptures = 3
PROPERTIES
  EventsSettle
  CallsReturn

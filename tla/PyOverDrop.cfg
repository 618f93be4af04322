\* Two concurrent calls; a batch of 2 events or 3 bytes, a queue of 1 event or 3 bytes.
SPECIFICATION Spec
CONSTANTS
  MAX_BATCH_EVENTS = 2
  MAX_BATCH_BYTES = 3
  MAX_QUEUE_EVENTS = 1
  MAX_QUEUE_BYTES = 3
  ResumeNum = 9
  ResumeDen = 10
  MAX_RETRIES = 1
  Size <- Sizes
  c1 = c1
  c2 = c2
  Call <- TwoCalls
  MaxAccepted = 3
INVARIANT OnlyPostedEventsAreDropped
CHECK_DEADLOCK FALSE

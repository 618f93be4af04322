SPECIFICATION Spec
CONSTANTS
  MAX_BATCH_EVENTS = 2
  MAX_BATCH_BYTES = 3
  MAX_SINGLE_EVENT_BYTES = 2
  MaxQueueEvents = 3
  MaxQueueBytes = 4
  ResumeNum = 9
  ResumeDen = 10
  RETRY_MAX_ATTEMPTS = 1
  Size <- SmallAndLarge
  c1 = c1
  c2 = c2
  c3 = c3
  Call <- ThreeCalls
  MaxCaptures = 4
INVARIANTS
  PipelineOrder
  NoStrandedEvents
  BackpressureHasADrain
  BoundedPosts
PROPERTIES
  PipelineSpec
SYMMETRY CallSymmetry

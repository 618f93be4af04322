\* A page is reloaded between two recordings of one session, the first of which was uploaded.
\* A page whose client is shut down comes to rest: deadlock is not an error.
SPECIFICATION PagesSpec
CONSTANTS
  REPLAY_CHUNK_SOFT_BYTES = 4
  REPLAY_MAX_CHUNK_BYTES = 4
  EMPTY_ENVELOPE_BYTES = 1
  EnvelopeBytes = 1
  maxBufferedBytes = 5
  REPLAY_RETRY_MAX_ATTEMPTS = 0
  Mode <- AnyMode
  EventBytes <- SmallEvents
  s1 = s1
  s2 = s2
  Submitter <- TwoSubmitters
  MaxEvents = 2
  MaxClips = 2
  MaxSessions = 1
  MaxReloads = 1
SYMMETRY SubmitSymmetry
INVARIANTS
  SequenceContinues
CHECK_DEADLOCK FALSE

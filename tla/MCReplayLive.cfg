\* Review mode, uploads that are retried, a page reload; the network answers.
\* A page whose client is shut down comes to rest: deadlock is not an error.
SPECIFICATION FairSpec
CONSTANTS
  REPLAY_CHUNK_SOFT_BYTES = 4
  REPLAY_MAX_CHUNK_BYTES = 4
  EMPTY_ENVELOPE_BYTES = 1
  EnvelopeBytes = 1
  maxBufferedBytes = 9
  REPLAY_RETRY_MAX_ATTEMPTS = 1
  Mode <- ReviewOnly
  EventBytes <- OneSize
  s1 = s1
  s2 = s2
  Submitter <- TwoSubmitters
  MaxEvents = 3
  MaxClips = 2
  MaxSessions = 1
  MaxReloads = 1
PROPERTIES
  SubmitReturns
CHECK_DEADLOCK FALSE

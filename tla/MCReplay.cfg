\* All modes, resolved by a policy provider; two sessions; a small memory cap;
\* no retries (MCReplayLive.cfg has them).
\* A page whose client is shut down comes to rest: deadlock is not an error.
SPECIFICATION Spec
CONSTANTS
  REPLAY_CHUNK_SOFT_BYTES = 4
  REPLAY_MAX_CHUNK_BYTES = 4
  EMPTY_ENVELOPE_BYTES = 1
  EnvelopeBytes = 1
  maxBufferedBytes = 5
  REPLAY_RETRY_MAX_ATTEMPTS = 0
  Mode <- AnyMode
  EventBytes <- SmallEvents
  s1 = s1
  s2 = s2
  Submitter <- TwoSubmitters
  MaxEvents = 2
  MaxClips = 2
  MaxSessions = 2
  MaxReloads = 0
SYMMETRY SubmitSymmetry
INVARIANTS
  ChunkInOnePlace
  BufferAccounting
  OneObserver
  ClipsOfBoundSession
PROPERTIES
  ChunkKeysFresh
CHECK_DEADLOCK FALSE

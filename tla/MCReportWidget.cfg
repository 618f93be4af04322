\* Three handlers under way, four spans, three mounts.
SPECIFICATION Spec
CONSTANTS
  h1 = h1
  h2 = h2
  h3 = h3
  Handler <- ThreeHandlers
  MaxMounts = 3
  MaxClips = 4
SYMMETRY HandlerSymmetry
INVARIANTS
  SubmitsOnce
  SingleClipIsVisible
  RecordingIsConsented
CHECK_DEADLOCK FALSE

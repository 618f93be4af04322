\* Two handlers under way, two spans, one mount: a start outlives its recording.
SPECIFICATION Spec
CONSTANTS
  h1 = h1
  h2 = h2
  h3 = h3
  Handler <- ThreeHandlers
  MaxMounts = 1
  MaxClips = 2
SYMMETRY HandlerSymmetry
INVARIANTS
  RefusalAborts
CHECK_DEADLOCK FALSE

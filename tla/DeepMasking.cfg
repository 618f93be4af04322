\* Elements with up to three ancestors, three of which are asked whether they are masked.
SPECIFICATION Spec

CONSTANTS
  Values <- MCNone
  Times <- MCNone
  Selectors <- MCNone
  DigitRuns <- MCNone
  Chains <- MCChains
  UserSelectors <- MCUserSelectors
  Addresses <- MCNone
  ClientOptions <- MCNone
  Policies <- MCNone
  Events <- MCNone
  Pages <- MCNone
  Identities <- MCNone
  HostBags <- MCNone
  Moments <- MCNone
  RandomBytes <- MCNone
  MAX_MASK_DEPTH = 3
  MAX_SELECTOR_DEPTH = 2
  MAX_FORM_DEPTH = 2
  MaxNesting = 2
  Keys <- MCKeys
  CHAR_BITS = 5
  TIME_LEN = 3
  MAX_TIMESTAMP_MS = 8191
  BYTE_BITS = 4
  RAND_BYTES = 5
  RAND_LEN = 4

INVARIANT MaskedAncestorsMask

CHECK_DEADLOCK FALSE

SPECIFICATION Spec

CONSTANTS
  Values <- MCValues
  Times <- MCTimes
  Selectors <- MCSelectors
  DigitRuns <- MCDigitRuns
  Chains <- MCChains
  UserSelectors <- MCUserSelectors
  Addresses <- MCAddresses
  ClientOptions <- MCClientOptions
  Policies <- MCPolicies
  Events <- MCEvents
  Pages <- MCPages
  Identities <- MCIdentities
  HostBags <- MCHostBags
  Moments <- MCMoments
  RandomBytes <- MCRandomBytes
  MAX_MASK_DEPTH = 3
  MAX_SELECTOR_DEPTH = 2
  MAX_FORM_DEPTH = 2
  MaxNesting = 2
  Keys <- MCKeys
  CHAR_BITS = 5
  TIME_LEN = 3
  MAX_TIMESTAMP_MS = 8191
  BYTE_BITS = 4
  RAND_BYTES = 5
  RAND_LEN = 4

INVARIANTS
  NothingRawEscapes
  DescriptorsLeakNothing
  SdksAgree
  OptionsOnlyTighten
  PayloadsAreAccepted

CHECK_DEADLOCK FALSE

SPECIFICATION FairSpec
CONSTANTS
  Bodies <- AllBodies
  MaxItems = 3
  HeaderSize = 1
  MinChain = 3
  Threshold = 3
  Asserted <- AllAsserted
  MinTimeout = 1
  MaxTimeout = 3
  DefaultTimeout <- NoTimeout
  Enforce = TRUE
  Gap = 2
INVARIANTS BytesInOrder NothingWithheld BatchBounded
PROPERTIES StallNotEarly StreamEnds

SPECIFICATION FairSpec
CONSTANTS
  Bodies <- MCBodies
  HeaderSize = 2
  SlabHalf = 1
  MaxMessage = 4
  Encoded = FALSE
  MaxDrain = 2
  DrainTimeout = 2
INVARIANTS SplitIndependent AllocationBounded BodyReadToEnd
PROPERTIES BodyReleased

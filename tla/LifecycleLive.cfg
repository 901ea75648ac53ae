SPECIFICATION FairSpec
CONSTANTS
  Requests = {r1, r2}
  Protocols = {"http1", "http2"}
  MaxAge = 6
  MaxIdle = 2
  MaxRequests = 2
  Grace = 1
  HeaderTimeout = 1
  Samples = {0}
  SampleMax = 20
  Prompt = TRUE
INVARIANTS ReapWithinTwoWindows
PROPERTIES RetirementEnds ShutdownDrains

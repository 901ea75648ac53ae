SPECIFICATION Spec
CONSTANTS
  Requests = {r1, r2}
  Protocols = {"http1", "http2"}
  MaxAge = 5
  MaxIdle = 2
  MaxRequests = 2
  Grace = 1
  HeaderTimeout = 2
  Samples = {0}
  SampleMax = 20
  Prompt = FALSE
SYMMETRY Symmetry
INVARIANTS NoLostWakeup ErrorTellsFailedDrain
PROPERTIES PromiseSpec ReapOnlyWhenQuiet ReapAfterFullWindowHttp1 WindDownReasonFinal GraceNeverCapsShutdown

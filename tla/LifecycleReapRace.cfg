SPECIFICATION Spec
CONSTANTS
  Requests = {r1}
  Protocols = {"http2"}
  MaxAge = 0
  MaxIdle = 2
  MaxRequests = 0
  Grace = 1
  HeaderTimeout = 0
  Samples = {0}
  SampleMax = 20
  Prompt = FALSE
PROPERTY ReapAfterFullWindow

SPECIFICATION FairSpec
CONSTANTS
  Conns = {c1, c2}
  Requests = {r1}
  Tls = TRUE
INVARIANTS DrainComplete
PROPERTIES ConnectionsKeepPromise ServeReturns

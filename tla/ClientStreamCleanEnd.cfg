SPECIFICATION Spec
CONSTANTS
  Kinds = {"bidi", "server"}
  Protocols = {"grpc", "grpcweb"}
  Depth = 1
  MaxSends = 0
  MaxItems = 1
  Deadline = 0
INVARIANTS CleanEndHasStatus

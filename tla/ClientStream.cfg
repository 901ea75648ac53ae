SPECIFICATION FairSpec
CONSTANTS
  Kinds = {"bidi", "server", "client"}
  Protocols = {"connect", "grpc", "grpcweb"}
  Depth = 1
  MaxSends = 2
  MaxItems = 2
  Deadline = 1
INVARIANTS OutcomeIsTrue NoOrphanTask
PROPERTIES MessageReturns SendsProgress

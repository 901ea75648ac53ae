SPECIFICATION FairSpec
CONSTANTS
  Requests <- MCRequests
  Interceptors = 2
  MaxReruns = 1
  MaxBody = 2
  DefaultTimeout = NoTimeout
  NoTimeout = NoTimeout
INVARIANTS AnsweredInKind BodyReadFirst ChecksFirst OneBudget
PROPERTIES Answered

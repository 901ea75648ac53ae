SPECIFICATION FairSpec
CONSTANTS
  Requests = {r1, t1}
  Tower = {t1}
  Bound = 1
  MaxResends = 2
INVARIANTS OneOpenConnection SlotsHeldByWaiting SentAtMostOnce
PROPERTIES FailureIsFresh WaitersShareFailure EveryRequestAnswered

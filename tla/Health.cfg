SPECIFICATION FairSpec
CONSTANTS
  Services = {"", "a"}
  Watchers = {w1}
  MaxChannels = 3
  MaxVersion = 2
INVARIANTS LastStatusDelivered
PROPERTIES WatchersCatchUp ShutdownMarksAll

CONSTANTS
  Series = {"cpu"}
  ChanCap = 1
  HistorySize = 1
  WireCap = 1
  SlowHandshakes = FALSE
  MaxTime = 2
SPECIFICATION FairSpec
PROPERTIES
  UsesRunningDaemon
CHECK_DEADLOCK FALSE

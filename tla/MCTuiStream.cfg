CONSTANTS
  Series = {"cpu"}
  ChanCap = 2
  HistorySize = 2
  WireCap = 2
  SlowHandshakes = TRUE
  MaxTime = 3
SPECIFICATION FairSpec
INVARIANTS
  GraphsShowWhatWasMade
  BadgeSaysWhatHappens
PROPERTIES
  StreamNeverStalls
CHECK_DEADLOCK FALSE

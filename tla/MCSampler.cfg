CONSTANTS
  NumCollectors = 2
  Timeout = 1
  StaleAfter = 1
  MaxTime = 3
  MaxRounds = 3
SPECIFICATION FairSpec
INVARIANTS
  OverlapOnlyAfterStale
  SendNeverBlocks
PROPERTIES
  ImplementsRoundService
  RoundReturns

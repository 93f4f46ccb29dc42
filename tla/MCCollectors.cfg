CONSTANTS
  a1 = a1
  a2 = a2
  Attempts <- MCAttempts
  Dirs <- MCDirs
  Parts = {"cores"}
  MaxWatts = 1
  MaxEnergy = 3
  MaxTime = 2
  NumUnpaged = 1
  NumRails = 2
  NumConnectors = 2
  MaxPolls = 2
  SettleAfter = 15
  Held = 4
SYMMETRY Symmetry
SPECIFICATION MCSpec
INVARIANTS
  EnergyIsAccounted
  PowerAddsUp
  ReadingsAreTheirOwn
  ConnectorsTakeTurns
  WordSurvives

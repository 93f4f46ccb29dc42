CONSTANTS
  c1 = c1
  c2 = c2
  Collectors = {c1, c2}
  MaxTime = 2
  MaxValue = 2
  MaxSamples = 4
SPECIFICATION Spec
SYMMETRY Symmetry
INVARIANTS
  IncidentsAlternate
  RatesNeverOvercount
  GapsAreBridged
  LiveMatchesStored
  ViewersFindTheirSeries

CONSTANTS
  NumBuiltins = 2
  Catalogs = {{1}, {1, 2}}
  MaxCopies = 1
  MaxEdits = 3
  MaxSaves = 2
  Ranges = {1, 3}
  Margins = {0}
  MaxTime = 4
  MaxBuilds = 2
  MaxLoads = 2
  Spacing = 3
  GapThreshold = 2
  Least = 3
  Plausible = {0, 1}
  Names <- MCNames
  Files <- MCFiles
  Metrics <- MCMetrics
SPECIFICATION MCSpec
INVARIANTS
  ReloadShowsTheSame
  PageShowsLayout
  PointsUnderOwnSeries
  LoadedRangeIsComplete
  HistoryInStep
  LayoutSurvivesUpgrade
  DefaultGraphsShowAll
  HistoryComesWhole
PROPERTY
  EditKeepsOthers

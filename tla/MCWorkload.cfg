CONSTANTS
  RecordingInitially = FALSE
  PipeCap = 1
  MaxLines = 3
  MaxSamples = 2
SPECIFICATION FairSpec
INVARIANTS
  EventsFollowOutput
  WindowRespected
PROPERTIES
  RunEnds

CONSTANTS
  Ranges = {1, 3}
  Margins = {0}
  MaxTime = 3
  MaxBuilds = 1
  MaxLoads = 2
SPECIFICATION Spec
PROPERTY
  PanKeepsPoints

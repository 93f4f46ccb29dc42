CONSTANTS
  Requests = {r1, r2}
SPECIFICATION ServeFairSpec
INVARIANTS
  StoreOutlivesMonitor
  RequestsDrainedBeforeClose
PROPERTIES
  DaemonStops

CONSTANTS
  Clients = {c1, c2}
  Cap = 1
  MaxSamples = 2
SPECIFICATION FairSpec
PROPERTIES
  ImplementsFeed
  BroadcastReturns
  ClosedClientLeaves

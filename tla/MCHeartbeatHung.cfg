SPECIFICATION FairSpec
CONSTANTS
  Interval = 3
  ClientTimeout = 5
  CleanupEvery = 2
  Limit = 8
  Lag = 1
  Delay = 1
  Backlog = 3
PROPERTY
  HungRemoved

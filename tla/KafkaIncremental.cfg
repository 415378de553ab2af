SPECIFICATION FairSpec
CONSTANTS
  p1 = p1
  p2 = p2
  Partitions = {p1, p2}
  MaxMessages = 2
  BatchSize = 2
  Options <- Additive
  Older <- Older12
  Retention = TRUE
  MaxFailures = 1
INVARIANT TypeOK
INVARIANT NothingSkipped
INVARIANT LoadedOnce
PROPERTY ImplementsDelivery
PROPERTY EventuallyLoaded

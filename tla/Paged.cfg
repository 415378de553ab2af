CONSTANTS
  Items <- MCItems
  PageSize = 1
  MaxTime = 3
  MaxFailures = 1
  Connectors <- PagedConnectors
SPECIFICATION FairSpec
INVARIANTS TypeOK EveryItemRead NothingLost
PROPERTIES EventuallyCurrent

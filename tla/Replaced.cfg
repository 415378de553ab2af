CONSTANTS
  Items <- MCItems
  PageSize = 1
  MaxTime = 3
  MaxFailures = 0
  Connectors <- ReplacedByChanged
SPECIFICATION Spec
INVARIANT ReplacedIsWhole

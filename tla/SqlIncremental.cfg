SPECIFICATION FairSpec
CONSTANTS
  i1 = i1
  i2 = i2
  Ids = {i1, i2}
  MaxVersion = 2
  MaxTime = 2
  Options <- Commands
  MaxFailures = 2
INVARIANT TypeOK
INVARIANT NothingSkipped
INVARIANT LoadedOnce
PROPERTY UnchangedStays
PROPERTY EventuallyCurrent

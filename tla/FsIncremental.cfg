SPECIFICATION FairSpec
CONSTANTS
  f1 = f1
  f2 = f2
  Files = {f1, f2}
  MaxVersion = 2
  MaxTime = 1
  Options <- Commands
  MaxFailures = 1
INVARIANT TypeOK
INVARIANT NothingSkipped
INVARIANT LoadedOnce
PROPERTY EventuallyLoaded

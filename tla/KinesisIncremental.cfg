SPECIFICATION FairSpec
CONSTANTS
  s1 = s1
  s2 = s2
  s3 = s3
  Shards = {s1,s2}
  Children <- OneSplit
  MaxRecords <- OneTwo
  MaxTime = 2
  ChunkSize = 1
  Options <- Starts
  Skew = 1
  MaxFailures = 1
PROPERTY EventuallyLoaded
INVARIANT TypeOK
INVARIANT NothingSkipped
INVARIANT LoadedOnce

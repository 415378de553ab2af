SPECIFICATION Spec
CONSTANTS
  s1 = s1
  s2 = s2
  s3 = s3
  Shards = {s1,s2}
  Children <- NoSplit
  MaxRecords <- OneTwo
  MaxTime = 3
  ChunkSize = 1
  Options <- LimitedStart
  Skew = 0
  MaxFailures = 0
INVARIANT ReadsAllAfterStart

CONSTANTS
  a = a
  b = b
  one = one
  two = two
  Files <- MCFiles
  Schedules <- MCSchedules
  Targets <- MCSchedules
  Chunks <- MCChunks
  Rows <- MCRows
  Indices <- MCSchedules
  Documents <- MCRows
  Options <- MCOptions
  MaxFailures = 1
SPECIFICATION FairSpec
INVARIANTS WholeCopies
PROPERTIES ExportsWholeLoads EventuallyExported

SPECIFICATION Spec
CONSTANTS
  i1 = i1
  i2 = i2
  Items = {i1, i2}
  MaxTime = 3
  Recent = 1
  Lo = 1
  Hi = 2
  Requests <- All
PROPERTY StaysOrReturns
PROPERTY HistoryIsTrue
CHECK_DEADLOCK FALSE

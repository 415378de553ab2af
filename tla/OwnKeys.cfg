SPECIFICATION Spec
CONSTANTS
  i1 = i1
  i2 = i2
  Items = {i1, i2}
  MaxTime = 3
  Recent = 1
  Lo = 1
  Hi = 2
  Requests <- Contested
PROPERTY OwnSourcesKeepRows
CHECK_DEADLOCK FALSE

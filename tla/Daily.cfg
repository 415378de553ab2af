CONSTANTS
  k1 = k1
  k2 = k2
  Keys <- MCKeys
  MaxDay = 4
  Revisable = 1
  Window = 2
  Span = 1
  RowLimit = 2
  MaxChanges = 3
  MaxFailures = 1
  Reports <- ReportConnectors
SPECIFICATION FairSpec
INVARIANTS NothingMissing FinalFigures
PROPERTIES LoadedStays EventuallyReported

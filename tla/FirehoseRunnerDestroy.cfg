SPECIFICATION FairSpec
CONSTANTS
  Dids = {d1}
  Concurrency = 2
  FirstCursor = 0
  NoCursor = NoCursor
  MaxSeq = 2
  MaxFaults = 1
PROPERTIES
  DestroyReturns
CHECK_DEADLOCK FALSE

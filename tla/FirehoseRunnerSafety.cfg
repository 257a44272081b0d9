SPECIFICATION FairSpec
CONSTANTS
  Dids = {d1, d2}
  Concurrency = 2
  FirstCursor = 0
  NoCursor = NoCursor
  MaxSeq = 3
  MaxFaults = 1
INVARIANTS
  TypeOK
  NoEventDropped
  InOrder
PROPERTIES
  EventuallyHandled
  DestroyReturnsUnlessDropped
CHECK_DEADLOCK FALSE

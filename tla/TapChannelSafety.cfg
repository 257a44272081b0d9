SPECIFICATION FairSpec
CONSTANTS
  Dids = {d1, d2}
  Handlers = {TRUE, FALSE}
  MaxLog = 2
  MaxPipe = 1
  MaxFaults = 2
INVARIANTS
  TypeOK
PROPERTIES
  ImplementsTapDelivery
  EventuallyAcked
  LooseAcksResolve
  DestroyReturns
CHECK_DEADLOCK FALSE

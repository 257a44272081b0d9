SPECIFICATION FairSpec
CONSTANTS
  Dids = {d1}
  Handlers = {TRUE}
  MaxLog = 1
  MaxPipe = 1
  MaxFaults = 1
PROPERTY
  AcksResolve
CHECK_DEADLOCK FALSE

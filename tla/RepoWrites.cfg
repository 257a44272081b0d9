SPECIFICATION FairSpec
CONSTANTS
  Reqs = {r1, r2}
  Keys = {k1, k2}
  Vals = {v1}
  None = None
  NotGiven = NotGiven
  NoOne = NoOne
  MaxLog = 2
  MaxRev = 4
  MaxFaults = 1
INVARIANTS
  TypeOK
  CommitsSequenced
  Chained
  NoPhantom
  IndexMatchesTree
PROPERTIES
  Serialized
  EveryRequestAnswered
  LockReleased
CHECK_DEADLOCK FALSE

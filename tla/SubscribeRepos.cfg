SPECIFICATION FairSpec
CONSTANTS
  Dids = {d1}
  Subs = {s1}
  PollLimit = 2
  PageSize = 2
  MaxBuffer = 3
  MaxSeq = 3
INVARIANTS
  TypeOK
  NoGap
  HonestCursorAccepted
PROPERTIES
  ImplementsEventStream
  EveryRowArrives
CHECK_DEADLOCK FALSE

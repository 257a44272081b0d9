SPECIFICATION Spec
CONSTANTS
  Dids = {d1}
  Subs = {s1}
  PollLimit = 2
  PageSize = 2
  MaxBuffer = 3
  MaxSeq = 2
INVARIANT
  OnlyAfterCursor
CHECK_DEADLOCK FALSE

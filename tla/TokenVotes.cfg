SPECIFICATION FairSpec
CONSTANTS
  a = a
  b = b
  k = k
  Voters = {a, b}
  Uris <- OneEach
  Subjects = {s1}
  None = None
  MaxVersions = 2
  MaxFaults = 1
INVARIANTS
  TypeOK
  NoVoteOutlivesItsRecord
PROPERTY
  FeedCatchesUp
CHECK_DEADLOCK FALSE

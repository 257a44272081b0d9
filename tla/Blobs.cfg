SPECIFICATION Spec
CONSTANTS
  c1 = c1
  c2 = c2
  r1 = r1
  r2 = r2
  Cids = {c1, c2}
  Records = {r1, r2}
  None = None
  Scopes <- MCScopes
  MaxKeys = 2
  MaxPending = 1
  MaxTxns = 3
  MaxFaults = 1
INVARIANTS
  TypeOK
  BlobsKept
  ReferencedArePermanent
  OrphansQueued
SYMMETRY Names
CHECK_DEADLOCK FALSE

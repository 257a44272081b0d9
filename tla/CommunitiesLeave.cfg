SPECIFICATION Spec
CONSTANTS
  Slots = {r1}
  Daos = {d1}
  Users = {u1}
  Prefixes = {p1}
  Suffixes = {s1}
  Limit = 1
  None = None
  Workloads = {{"leave"}}
  MaxTids = 1
  MaxTakedowns = 0
  MaxOwn = 1
PROPERTY
  LeftIsNotMember
CHECK_DEADLOCK FALSE

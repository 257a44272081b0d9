SPECIFICATION Spec
CONSTANTS
  Slots = {r1, r2}
  Daos = {d1, d2}
  Users = {u1, u2}
  Prefixes = {p1, p2}
  Suffixes = {s1, s2}
  Limit = 1
  None = None
  Workloads = {{"leave"}, {"takedown"}}
  MaxTids = 2
  MaxTakedowns = 1
  MaxOwn = 1
INVARIANTS
  TypeOK
  CommunitiesConsistent
  AnswersHold
  MembershipHolds
SYMMETRY Names
CHECK_DEADLOCK FALSE

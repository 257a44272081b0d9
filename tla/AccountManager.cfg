SPECIFICATION FairSpec
CONSTANTS
  Slots = {r1, r2}
  Grace = 2
  Life = 3
  Workloads = {
    {"createSession", "refreshSession", "deleteSession", "updatePassword"},
    {"createSession", "refreshSession", "updateSubjectStatus"},
    {"createSession", "refreshSession", "deleteAccount"},
    {"updateSubjectStatus", "deactivateAccount", "deleteAccount"}}
  MaxClock = 2
  MaxIds = 3
INVARIANTS
  TypeOK
  SessionIsChain
  AnnouncedIsCurrent
PROPERTIES
  NoComeback
  GraceNotRenewed
  EveryRequestAnswered
CHECK_DEADLOCK FALSE

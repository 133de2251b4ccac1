SPECIFICATION Spec
CONSTANTS
  r1 = r1
  r2 = r2
  None = None
  Row = {r1, r2}
  IssueOf <- SameIssue
  Pass = {1, 2}
  StartBlock = 1
  Confirmations = 1
  MAX_BLOCK_SPAN = 2
  MaxReorg = 1
  MaxBlock = 4
  MaxTrouble = 1
  MayFail = {"db"}
INVARIANTS
  MirrorTrue
  AnnouncementsReal
  AnnouncedPerPass
CHECK_DEADLOCK FALSE

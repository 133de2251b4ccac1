SPECIFICATION FairSpec
CONSTANTS
  r1 = r1
  r2 = r2
  None = None
  Row = {r1, r2}
  IssueOf <- SameIssue
  Pass = {1}
  StartBlock = 1
  Confirmations = 1
  MAX_BLOCK_SPAN = 2
  MaxReorg = 1
  MaxBlock = 4
  MaxTrouble = 1
  MayFail = {"rpc", "crash", "github"}
INVARIANTS
  TypeOK
  AnnouncedOnce
  OutcomeKept
PROPERTIES
  OutcomeShown
CHECK_DEADLOCK FALSE

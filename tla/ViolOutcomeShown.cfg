SPECIFICATION FairSpec
CONSTANTS
  r1 = r1
  r2 = r2
  None = None
  Row = {r1}
  IssueOf <- SameIssue
  Pass = {1, 2}
  StartBlock = 1
  Confirmations = 0
  MAX_BLOCK_SPAN = 2
  MaxReorg = 0
  MaxBlock = 2
  MaxTrouble = 0
  MayFail = {}
PROPERTIES
  OutcomeShown
CHECK_DEADLOCK FALSE

SPECIFICATION Spec
CONSTANTS
  t1 = t1
  alice = alice
  i1 = i1
  None = None
  Tab = {t1}
  Account = {alice}
  Issue = {i1}
  Amount = {57, 60}
  Days = {1}
  Rate = {3}
  FallbackRate = 0
  Lag = {0}
  MinAmount = 50
  MinDays = 1
  HOUR = 1
  DAY = 1
  FeeDenominator = 10
  CENT = 10
  MaxTime = 3
  MaxTx = 2
INVARIANTS
  TypeOK
  SignedForAll
  BufferHolds
  RowsFollowChain
  ShownNetClose
CHECK_DEADLOCK FALSE

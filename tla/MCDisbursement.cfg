SPECIFICATION Spec
CONSTANTS
  d1 = d1
  d2 = d2
  b1 = b1
  b2 = b2
  alice = alice
  bob = bob
  w1 = w1
  w2 = w2
  p1 = p1
  p2 = p2
  None = None
  Delivery = {d1, d2}
  Bounty = {b1, b2}
  User = {alice, bob}
  Wallet = {w1, w2}
  Worker = {p1, p2}
  Closes <- FirstClosesBoth
  IntoTarget <- BothIntoB1
  Merged = {d1, d2}
  Author <- ByAuthor
  CanLink <- OwnWallet
  ExpiryOf <- Deadlines
  Skew <- EitherWay
  MaxTime = 1
  MayFail = {"github", "rpc", "timeout", "crash", "revert", "reorg"}
SYMMETRY Alike
INVARIANTS
  TypeOK
  PayoutEarned
  RecordsReal
PROPERTIES
  SubmittedOncePerDelivery
CHECK_DEADLOCK FALSE

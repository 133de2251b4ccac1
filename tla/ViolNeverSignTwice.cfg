SPECIFICATION Spec
CONSTANTS
  d1 = d1
  d2 = d2
  b1 = b1
  b2 = b2
  alice = alice
  bob = bob
  w1 = w1
  w2 = w2
  p1 = p1
  p2 = p2
  None = None
  Delivery = {d1, d2}
  Bounty = {b1}
  User = {alice, bob}
  Wallet = {w1, w2}
  Worker = {1, 2}
  Closes <- BothCloseB1
  IntoTarget <- BothCloseB1
  Merged = {d1, d2}
  Author <- ByAuthor
  CanLink <- AnyWallet
  ExpiryOf <- NoDeadline
  Skew = {0}
  MaxTime = 0
  MayFail = {}
INVARIANTS
  NeverSignTwice
CHECK_DEADLOCK FALSE

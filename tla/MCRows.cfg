SPECIFICATION Spec
CONSTANTS
  i1 = i1
  i2 = i2
  u1 = u1
  u2 = u2
  r1 = r1
  r2 = r2
  r3 = r3
  s1 = s1
  s2 = s2
  q1 = q1
  q2 = q2
  q3 = q3
  d1 = d1
  d2 = d2
  p1 = p1
  p2 = p2
  None = None
  Missing = Missing
  Sync = {s1, s2}
  Installation = {i1, i2}
  Repo = {r1, r2, r3}
  User = {u1, u2}
  Author = {u1, u2}
  AccountOf <- OwnFirst
  PerPage = 2
  MaxMoves = 1
  Request = {q1, q2, q3}
  Delivery = {d1, d2}
  Worker = {p1, p2}
  Linker <- TwoOfU1
  AuthorOf <- EachOpens
SYMMETRY Alike
INVARIANTS
  SyncTypeOK
  NoOrphans
  PromiseKept
  NudgedPerDelivery
PROPERTIES
  LinkedStaysLinked
  AloneIsExact
CHECK_DEADLOCK FALSE

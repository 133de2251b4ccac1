SPECIFICATION FairSpec
CONSTANTS
  alice = alice
  bob = bob
  escrow = escrow
  zero = zero
  k1 = k1
  k2 = k2
  nokey = nokey
  here = here
  elsewhere = elsewhere
  Party = {alice, bob}
  Escrow = escrow
  ZeroAddress = zero
  Key = {k1, k2}
  NoKey = nokey
  Domain = {here, elsewhere}
  ThisDomain = here
  Attested <- Attestations
  Amount = {3}
  FeeRate = {5, 6}
  Expiry = {1, 2}
  MaxTime = 2
  MaxBounties = 1
  MAX_FEE = 5
  MIN_BOUNTY = 2
  MIN_DURATION = 1
  FeeDenominator = 10
  InitialOwner = bob
  InitialTreasury = bob
  InitialOracle = k1
  InitialFee = 0
  InitialBalance <- SmallBalance
INVARIANTS
  Settlement
  RefundNeverBlocked
PROPERTIES
  KeepsPromise
  EveryBountySettles
CHECK_DEADLOCK FALSE

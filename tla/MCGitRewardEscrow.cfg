SPECIFICATION Spec
CONSTANTS
  alice = alice
  bob = bob
  escrow = escrow
  zero = zero
  k1 = k1
  k2 = k2
  nokey = nokey
  here = here
  elsewhere = elsewhere
  Party = {alice, bob}
  Escrow = escrow
  ZeroAddress = zero
  Key = {k1, k2}
  NoKey = nokey
  Domain = {here, elsewhere}
  ThisDomain = here
  Attested <- Attestations
  Amount = {2, 3}
  FeeRate = {4}
  Expiry = {1, 2}
  MaxTime = 1
  MaxBounties = 2
  MAX_FEE = 5
  MIN_BOUNTY = 2
  MIN_DURATION = 1
  FeeDenominator = 10
  InitialOwner = escrow
  InitialTreasury = bob
  InitialOracle = k1
  InitialFee = 4
  InitialBalance <- StartBalance
INVARIANTS
  TypeOK
  Conservation
PROPERTIES
  FundNotStolen
CHECK_DEADLOCK FALSE

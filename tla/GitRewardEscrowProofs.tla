----------------------- MODULE GitRewardEscrowProofs -----------------------
(***************************************************************************)
(* Theorems about the escrow contract, for any set of accounts, keys and   *)
(* attestations, any amounts and any number of bounties.                   *)
(***************************************************************************)
EXTENDS GitRewardEscrow, TotalsProofs

USE DEF Address, BountyId

----------------------------------------------------------------------------
\* A fee at a rate of at most 100% is within the rate, and at most the
\* amount it is taken from.
LEMMA FeeWithinRate ==
  ASSUME NEW a \in Nat, NEW r \in Nat, NEW d \in Nat \ {0}, r <= d
  PROVE  /\ (a * r) \div d \in Nat
         /\ ((a * r) \div d) * d <= a * r
         /\ (a * r) \div d <= a
<1> DEFINE p == a * r
           q == p \div d
<1>1. p \in Nat
  OBVIOUS
<1> HIDE DEF p
<1>2. q \in Nat /\ q * d <= p
  BY <1>1, Z3
<1> HIDE DEF q
<1>3. p <= a * d
  BY Z3 DEF p
<1>4. ASSUME q > a PROVE FALSE
  <2>1. q * d >= (a + 1) * d
    BY <1>2, <1>4, Z3
  <2>2. (a + 1) * d = a * d + d
    BY Z3
  <2>3. q * d \in Nat /\ a * d \in Nat
    BY <1>2
  <2> QED  BY <1>1, <1>2, <1>3, <2>1, <2>2, <2>3
<1>5. q <= a
  BY <1>2, <1>4
<1> QED  BY <1>2, <1>5 DEF q, p

\* A transfer the sender can afford keeps balances natural; what it does to
\* the escrow's own balance.
LEMMA MovedFacts ==
  ASSUME NEW f \in [Address -> Nat], NEW from \in Address, NEW to \in Address,
         NEW v \in Nat, f[from] >= v
  PROVE  /\ Moved(f, from, to, v) \in [Address -> Nat]
         /\ Kept(to, v) \in Nat
         /\ from # Escrow => Moved(f, from, to, v)[Escrow] = f[Escrow] + Kept(to, v)
         /\ from = Escrow => Moved(f, from, to, v)[Escrow] = f[Escrow] - v + Kept(to, v)
<1> DEFINE g == [f EXCEPT ![from] = @ - v]
           m == Moved(f, from, to, v)
<1>1. g \in [Address -> Nat] /\ \A a \in Address : g[a] = IF a = from THEN f[a] - v ELSE f[a]
  OBVIOUS
<1>2. m = [g EXCEPT ![to] = @ + v]
  BY DEF Moved
<1> HIDE DEF g, m
<1>3. m \in [Address -> Nat] /\ \A a \in Address : m[a] = IF a = to THEN g[a] + v ELSE g[a]
  BY <1>1, <1>2
<1>4. m[Escrow] = IF from = Escrow THEN f[Escrow] - v + Kept(to, v) ELSE f[Escrow] + Kept(to, v)
  BY <1>1, <1>3 DEF Kept
<1> QED  BY <1>3, <1>4 DEF Kept, m

\* The same for a payment of the escrow.
LEMMA EscrowPays ==
  ASSUME NEW f \in [Address -> Nat], NEW to \in Address, NEW v \in Nat, f[Escrow] >= v
  PROVE  /\ Moved(f, Escrow, to, v) \in [Address -> Nat]
         /\ Kept(to, v) \in Nat
         /\ Moved(f, Escrow, to, v)[Escrow] = f[Escrow] - v + Kept(to, v)
<1>1. Escrow \in Address
  OBVIOUS
<1> QED  BY <1>1, MovedFacts, ZenonT(30)

\* The two payments of a disbursement.
LEMMA DisbursePays ==
  ASSUME TypeOK, FeeCapped, NEW id \in BountyId
  PROVE  LET b == bounties[id]
         IN  /\ Fee(b) \in Nat /\ Payout(b) \in Nat
             /\ Payout(b) + Fee(b) = b.amount
             /\ Fee(b) * FeeDenominator <= b.amount * b.feeSnapshot
<1> DEFINE b == bounties[id]
<1>1. b.amount \in Nat /\ b.feeSnapshot \in Nat /\ b.feeSnapshot <= MAX_FEE
  BY DEF TypeOK, FeeCapped, Bounty
<1>2. b.feeSnapshot <= FeeDenominator /\ FeeDenominator \in Nat \ {0}
  BY <1>1, ParameterAssumption
<1> HIDE DEF b
<1>3. Fee(b) \in Nat /\ Fee(b) * FeeDenominator <= b.amount * b.feeSnapshot /\ Fee(b) <= b.amount
  BY <1>1, <1>2, FeeWithinRate DEF Fee
<1>4. Payout(b) \in Nat /\ Payout(b) + Fee(b) = b.amount
  BY <1>1, <1>3 DEF Payout
<1> QED  BY <1>3, <1>4 DEF b

\* The constructor leaves well-typed storage.
LEMMA TypeInit == Init => TypeOK
<1> SUFFICES ASSUME Init PROVE TypeOK
  OBVIOUS
<1>1. EmptyBounty \in Bounty
  BY DEF EmptyBounty, Bounty, Status
<1>2. NoReceipt \in Receipt
  BY DEF NoReceipt, Receipt
<1>3. MaxBounties \in Nat
  BY BoundAssumption
<1> QED  BY <1>1, <1>2, <1>3, DeploymentAssumption DEF Init, TypeOK

\* Every transaction keeps storage, token and log well typed: in particular
\* no debit of disburse, refund or transferFrom goes below zero.
LEMMA TypeStep ==
  ASSUME TypeOK, FeeCapped, [Next]_vars
  PROVE  TypeOK'
<1> USE DEF TypeOK
<1>1. CASE Tick
  BY <1>1 DEF Tick, ledger, admin, token
<1>2. ASSUME NEW a \in Party, NEW v \in Amount, SignPermit(a, v) PROVE TypeOK'
  <2>1. v \in Nat
    BY InputAssumption
  <2> QED  BY <1>2, <2>1 DEF SignPermit, ledger, admin
<1>3. ASSUME NEW a \in Party, NEW v \in Amount, ApplyPermit(a, v) PROVE TypeOK'
  BY <1>3, InputAssumption DEF ApplyPermit, ledger, admin
<1>4. ASSUME NEW a \in Party, NEW to \in Address, NEW v \in Amount, Transfer(a, to, v)
      PROVE TypeOK'
  <2>1. v \in Nat /\ balance[a] >= v
    BY <1>4, InputAssumption DEF Transfer
  <2>2. balance' \in [Address -> Nat] /\ Kept(to, v) \in Nat
    BY <1>4, <2>1, MovedFacts DEF Transfer
  <2>3. surplus' \in Nat
    <3> DEFINE k == Kept(to, v)
    <3>1. k \in Nat /\ surplus \in Nat /\ surplus' = surplus + k
      BY <1>4, <2>2 DEF Transfer
    <3> HIDE DEF k
    <3> QED  BY <3>1
  <2> QED  BY <1>4, <2>2, <2>3 DEF Transfer, ledger, admin
<1>5. ASSUME NEW a \in Party, NEW v \in Amount, NEW e \in Expiry, NEW p \in Permit,
             Fund(a, v, e, p)
      PROVE TypeOK'
  <2>1. v \in Nat /\ e \in Nat /\ MaxBounties \in Nat
    BY InputAssumption, BoundAssumption
  <2>2. nextBountyId \in BountyId /\ nextBountyId' \in 1..(MaxBounties + 1)
    BY <1>5, <2>1 DEF Fund
  <2>3. bounties' \in [BountyId -> Bounty]
    BY <1>5, <2>1, <2>2 DEF Fund, Bounty, Status
  <2>4. balance' \in [Address -> Nat]
    <3>1. balance[a] >= v
      BY <1>5 DEF Fund, FundAccepted
    <3> QED  BY <1>5, <2>1, <3>1, MovedFacts DEF Fund
  <2>5. AllowanceSeen(a, p) \in Nat /\ AllowanceSeen(a, p) >= v
    BY <1>5, InputAssumption DEF Fund, FundAccepted, AllowanceSeen
  <2>6. allowance' \in [Party -> Nat]
    <3> DEFINE left == AllowanceSeen(a, p) - v
    <3>1. left \in Nat
      BY <2>1, <2>5
    <3>2. allowance' = [allowance EXCEPT ![a] = left]
      BY <1>5 DEF Fund
    <3> HIDE DEF left
    <3> QED  BY <3>1, <3>2
  <2>7. signed' \in [Party -> SUBSET (Amount \ {0})]
    BY <1>5 DEF Fund
  <2> QED  BY <1>5, <2>2, <2>3, <2>4, <2>6, <2>7 DEF Fund, admin
<1>6. ASSUME NEW id \in BountyId, NEW to \in Address \cup {ZeroAddress}, NEW sig \in Attested,
             Disburse(id, to, sig)
      PROVE TypeOK'
  <2> DEFINE b == bounties[id]
             afterFee == Moved(balance, Escrow, treasury, Fee(b))
  <2>1. to \in Address
    BY <1>6 DEF Disburse
  <2>2. Fee(b) \in Nat /\ Payout(b) \in Nat
    BY DisbursePays
  <2>3. balance[Escrow] >= Fee(b) /\ afterFee[Escrow] >= Payout(b)
    BY <1>6 DEF Disburse
  <2>4. afterFee \in [Address -> Nat] /\ Kept(treasury, Fee(b)) \in Nat
    BY <2>2, <2>3, MovedFacts
  <2>5. balance' = Moved(afterFee, Escrow, to, Payout(b))
    BY <1>6 DEF Disburse
  <2> HIDE DEF afterFee
  <2>6. balance' \in [Address -> Nat] /\ Kept(to, Payout(b)) \in Nat
    BY <2>1, <2>2, <2>3, <2>4, <2>5, MovedFacts
  <2>7. surplus' \in Nat
    <3> DEFINE k == Kept(treasury, Fee(b))
               l == Kept(to, Payout(b))
    <3>1. k \in Nat /\ l \in Nat /\ surplus \in Nat /\ surplus' = surplus + k + l
      BY <1>6, <2>4, <2>6 DEF Disburse
    <3> HIDE DEF k, l
    <3> QED  BY <3>1
  <2>8. bounties' \in [BountyId -> Bounty]
    <3>1. bounties' = [bounties EXCEPT ![id].status = "Disbursed"]
      BY <1>6 DEF Disburse, Settled
    <3> DEFINE new == [b EXCEPT !.status = "Disbursed"]
    <3>2. b \in Bounty /\ bounties \in [BountyId -> Bounty]
      OBVIOUS
    <3> HIDE DEF b
    <3>3. new \in Bounty
      BY <3>2 DEF Bounty, Status
    <3>4. bounties' = [bounties EXCEPT ![id] = new]
      BY <3>1 DEF b
    <3> HIDE DEF new
    <3> QED  BY <3>2, <3>3, <3>4
  <2>9. receipt' \in [BountyId -> Receipt]
    <3>1. [to |-> to, paid |-> Payout(b), fee |-> Fee(b), at |-> now, by |-> oracleSigner] \in Receipt
      BY <2>1, <2>2 DEF Receipt
    <3> QED  BY <1>6, <3>1 DEF Disburse
  <2> QED  BY <1>6, <2>6, <2>7, <2>8, <2>9 DEF Disburse, admin
<1>7. ASSUME NEW id \in BountyId, NEW a \in Party, Refund(id, a) PROVE TypeOK'
  <2> DEFINE b == bounties[id]
  <2>1. b.funder = a /\ b.amount \in Nat /\ balance[Escrow] >= b.amount
    BY <1>7 DEF Refund, RefundAccepted, Refundable, Bounty
  <2>2. balance' \in [Address -> Nat]
    BY <1>7, <2>1, MovedFacts DEF Refund
  <2>3. bounties' \in [BountyId -> Bounty]
    BY <1>7 DEF Refund, Settled, Bounty, Status
  <2>4. receipt' \in [BountyId -> Receipt]
    <3>1. [to |-> b.funder, paid |-> b.amount, fee |-> 0, at |-> now, by |-> NoKey] \in Receipt
      BY <2>1 DEF Receipt
    <3> QED  BY <1>7, <3>1 DEF Refund
  <2> QED  BY <1>7, <2>2, <2>3, <2>4 DEF Refund, admin
<1>8. CASE AdminStep
  <2>1. ASSUME NEW a \in Party, NEW f \in FeeRate, SetFeeRate(a, f) PROVE TypeOK'
    BY <2>1, InputAssumption DEF SetFeeRate, ledger, token
  <2>2. ASSUME NEW a \in Party, NEW t \in Address \cup {ZeroAddress}, SetTreasury(a, t)
        PROVE  TypeOK'
    BY <2>2 DEF SetTreasury, ledger, token
  <2>3. ASSUME NEW a \in Party, NEW k \in Key \cup {ZeroAddress}, SetOracleKey(a, k)
        PROVE  TypeOK'
    BY <2>3 DEF SetOracleKey, ledger, token
  <2>4. ASSUME NEW a \in Party, NEW t \in Address \cup {ZeroAddress},
               TransferOwnership(a, t)
        PROVE  TypeOK'
    BY <2>4 DEF TransferOwnership, ledger, token
  <2>5. ASSUME NEW a \in Party, RenounceOwnership(a) PROVE TypeOK'
    BY <2>5, AddressAssumption DEF RenounceOwnership, ledger, token
  <2> QED  BY <1>8, <2>1, <2>2, <2>3, <2>4, <2>5 DEF AdminStep
<1>9. CASE UNCHANGED vars
  BY <1>9 DEF vars, ledger, admin, token
<1> DEFINE typed == TypeOK'
<1>10. /\ \A a \in Party, v \in Amount : SignPermit(a, v) => typed
       /\ \A a \in Party, v \in Amount : ApplyPermit(a, v) => typed
       /\ \A a \in Party, to \in Address, v \in Amount : Transfer(a, to, v) => typed
  BY <1>2, <1>3, <1>4
<1>11. /\ \A a \in Party, v \in Amount, e \in Expiry, p \in Permit : Fund(a, v, e, p) => typed
       /\ \A id \in BountyId, to \in Address \cup {ZeroAddress}, sig \in Attested :
            Disburse(id, to, sig) => typed
       /\ \A id \in BountyId, a \in Party : Refund(id, a) => typed
  BY <1>5, <1>6, <1>7
<1>12. (Tick => typed) /\ (AdminStep => typed) /\ (UNCHANGED vars => typed)
  BY <1>1, <1>8, <1>9
<1>13. Next \/ UNCHANGED vars
  OBVIOUS
<1> HIDE DEF typed
<1>14. typed
  BY <1>10, <1>11, <1>12, <1>13, Zenon DEF Next, TokenStep, BountyStep
<1> QED  BY <1>14 DEF typed

----------------------------------------------------------------------------
\* Which steps touch a bounty, and which can move the escrow's tokens.
LEMMA StepKinds ==
  ASSUME [Next]_vars
  PROVE  \/ UNCHANGED <<bounties, nextBountyId, receipt, balance, surplus>>
         \/ /\ UNCHANGED <<bounties, nextBountyId, receipt>>
            /\ \E a \in Party, to \in Address, v \in Amount : Transfer(a, to, v)
         \/ \E a \in Party, v \in Amount, e \in Expiry, p \in Permit : Fund(a, v, e, p)
         \/ \E id \in BountyId, to \in Address \cup {ZeroAddress}, sig \in Attested :
              Disburse(id, to, sig)
         \/ \E id \in BountyId, a \in Party : Refund(id, a)
<1>1. CASE Tick
  BY <1>1 DEF Tick, ledger, token
<1>2. CASE AdminStep
  BY <1>2 DEF AdminStep, SetFeeRate, SetTreasury, SetOracleKey, TransferOwnership,
              RenounceOwnership, ledger, token
<1>3. CASE TokenStep
  BY <1>3 DEF TokenStep, SignPermit, ApplyPermit, Transfer, ledger
<1>4. CASE BountyStep
  BY <1>4 DEF BountyStep
<1>5. CASE UNCHANGED vars
  BY <1>5 DEF vars, ledger, token
<1> QED  BY <1>1, <1>2, <1>3, <1>4, <1>5 DEF Next

\* What a settling step writes: one bounty's status.
LEMMA SettledFacts ==
  ASSUME TypeOK, NEW id \in BountyId, NEW st \in Status, bounties' = Settled(id, st)
  PROVE  /\ bounties'[id].status = st
         /\ bounties'[id].funder = bounties[id].funder
         /\ bounties'[id].amount = bounties[id].amount
         /\ bounties'[id].feeSnapshot = bounties[id].feeSnapshot
         /\ bounties'[id].expiry = bounties[id].expiry
         /\ \A j \in BountyId : j # id => bounties'[j] = bounties[j]
BY DEF TypeOK, Settled, Bounty

\* What fund writes: the next entry, which was empty.
LEMMA FundFacts ==
  ASSUME TypeOK, NEW a \in Party, NEW v \in Amount, NEW e \in Expiry, NEW p \in Permit,
         Fund(a, v, e, p)
  PROVE  /\ nextBountyId \in BountyId
         /\ bounties'[nextBountyId].status = "Funded"
         /\ bounties'[nextBountyId].funder = a
         /\ bounties'[nextBountyId].amount = v
         /\ bounties'[nextBountyId].feeSnapshot = feeRate
         /\ bounties'[nextBountyId].expiry = e
         /\ \A j \in BountyId : j # nextBountyId => bounties'[j] = bounties[j]
<1>1. nextBountyId \in BountyId
  BY BoundAssumption DEF Fund, TypeOK
<1> QED  BY <1>1 DEF Fund, TypeOK

\* setFeeRate and the snapshot taken by fund keep every fee within MAX_FEE.
LEMMA FeeCappedStep ==
  ASSUME TypeOK, FeeCapped, [Next]_vars
  PROVE  FeeCapped'
<1>1. feeRate' <= MAX_FEE
  <2>1. CASE AdminStep
    BY <2>1 DEF AdminStep, SetFeeRate, SetTreasury, SetOracleKey, TransferOwnership,
                RenounceOwnership, FeeCapped
  <2>2. CASE ~ AdminStep
    BY <2>2 DEF Next, Tick, TokenStep, BountyStep, SignPermit, ApplyPermit, Transfer,
                Fund, Disburse, Refund, admin, vars, FeeCapped
  <2> QED  BY <2>1, <2>2
<1>2. ASSUME NEW j \in BountyId PROVE bounties'[j].feeSnapshot <= MAX_FEE
  <2>1. CASE UNCHANGED bounties
    BY <2>1 DEF FeeCapped
  <2>2. ASSUME NEW a \in Party, NEW v \in Amount, NEW e \in Expiry, NEW p \in Permit,
               Fund(a, v, e, p)
        PROVE bounties'[j].feeSnapshot <= MAX_FEE
    <3>1. /\ bounties'[nextBountyId].feeSnapshot = feeRate
          /\ j # nextBountyId => bounties'[j] = bounties[j]
      BY <2>2, FundFacts, ZenonT(30)
    <3> QED  BY <3>1 DEF FeeCapped
  <2>3. ASSUME NEW id \in BountyId, NEW st \in Status, bounties' = Settled(id, st)
        PROVE bounties'[j].feeSnapshot <= MAX_FEE
    BY <2>3, SettledFacts DEF FeeCapped
  <2> QED
    BY <2>1, <2>2, <2>3, StepKinds DEF Disburse, Refund, Status
<1> QED  BY <1>1, <1>2 DEF FeeCapped

\* fund uses exactly the next id; settling never frees one.
LEMMA IdsInOrderStep ==
  ASSUME TypeOK, IdsInOrder, [Next]_vars
  PROVE  IdsInOrder'
<1>1. CASE UNCHANGED <<bounties, nextBountyId>>
  BY <1>1 DEF IdsInOrder
<1>2. ASSUME NEW a \in Party, NEW v \in Amount, NEW e \in Expiry, NEW p \in Permit,
             Fund(a, v, e, p)
      PROVE IdsInOrder'
  <2>1. nextBountyId' = nextBountyId + 1 /\ nextBountyId \in Nat
    BY <1>2 DEF Fund, TypeOK
  <2>2. /\ nextBountyId \in BountyId
        /\ bounties'[nextBountyId].status = "Funded"
        /\ \A j \in BountyId : j # nextBountyId => bounties'[j] = bounties[j]
    BY <1>2, FundFacts, ZenonT(30)
  <2> QED  BY <2>1, <2>2 DEF IdsInOrder
<1>3. ASSUME NEW id \in BountyId, NEW st \in Status, bounties' = Settled(id, st), st # "None",
             bounties[id].status = "Funded", UNCHANGED nextBountyId
      PROVE IdsInOrder'
  BY <1>3, SettledFacts DEF IdsInOrder
<1> QED
  BY <1>1, <1>2, <1>3, StepKinds
     DEF Disburse, Refund, RefundAccepted, Refundable, Disbursable, Status

\* An id in use keeps the funder and the amount fund accepted.
LEMMA FundedTermsStep ==
  ASSUME TypeOK, FundedTerms, [Next]_vars
  PROVE  FundedTerms'
<1>1. CASE UNCHANGED bounties
  BY <1>1 DEF FundedTerms
<1>2. ASSUME NEW a \in Party, NEW v \in Amount, NEW e \in Expiry, NEW p \in Permit,
             Fund(a, v, e, p)
      PROVE FundedTerms'
  <2>1. v >= MIN_BOUNTY
    BY <1>2 DEF Fund, FundAccepted, TermsAccepted
  <2>2. /\ bounties'[nextBountyId].funder = a /\ bounties'[nextBountyId].amount = v
        /\ \A j \in BountyId : j # nextBountyId => bounties'[j] = bounties[j]
    BY <1>2, FundFacts, ZenonT(30)
  <2> QED  BY <2>1, <2>2 DEF FundedTerms
<1>3. ASSUME NEW id \in BountyId, NEW st \in Status, bounties' = Settled(id, st),
             bounties[id].status = "Funded"
      PROVE FundedTerms'
  BY <1>3, SettledFacts DEF FundedTerms
<1> QED
  BY <1>1, <1>2, <1>3, StepKinds
     DEF Disburse, Refund, RefundAccepted, Refundable, Disbursable, Status

----------------------------------------------------------------------------
\* disburse and refund settle as Settlement says, and no other transaction
\* touches a settled bounty or its log entry.
LEMMA SettlementStep ==
  ASSUME TypeOK, FeeCapped, IdsInOrder, Settlement, [Next]_vars
  PROVE  Settlement'
<1>1. CASE UNCHANGED <<bounties, receipt>>
  BY <1>1 DEF Settlement, SettledRight
<1>2. ASSUME NEW a \in Party, NEW v \in Amount, NEW e \in Expiry, NEW p \in Permit,
             Fund(a, v, e, p)
      PROVE Settlement'
  <2>1. /\ nextBountyId \in BountyId
        /\ bounties'[nextBountyId].status = "Funded"
        /\ \A j \in BountyId : j # nextBountyId => bounties'[j] = bounties[j]
    BY <1>2, FundFacts, ZenonT(30)
  <2>2. receipt' = receipt
    BY <1>2 DEF Fund
  <2>3. bounties[nextBountyId].status = "None"
    BY <2>1 DEF IdsInOrder, TypeOK
  <2>4. receipt[nextBountyId] = NoReceipt
    BY <2>1, <2>3 DEF Settlement, SettledRight
  <2>5. ASSUME NEW j \in BountyId, j # nextBountyId PROVE SettledRight(j)'
    BY <2>1, <2>2, <2>5 DEF Settlement, SettledRight, NoReceipt
  <2>6. ASSUME NEW j \in BountyId PROVE SettledRight(j)'
    <3>1. CASE j = nextBountyId
      BY <3>1, <2>1, <2>2, <2>4 DEF SettledRight, NoReceipt
    <3>2. CASE j # nextBountyId
      BY <3>2, <2>5
    <3> QED  BY <3>1, <3>2
  <2> QED  BY <2>6 DEF Settlement
<1>3. ASSUME NEW id \in BountyId, NEW to \in Address \cup {ZeroAddress}, NEW sig \in Attested,
             Disburse(id, to, sig)
      PROVE Settlement'
  <2> DEFINE b == bounties[id]
             r == [to |-> to, paid |-> Payout(b), fee |-> Fee(b), at |-> now, by |-> oracleSigner]
  <2>1. /\ bounties'[id].status = "Disbursed"
        /\ bounties'[id].amount = b.amount
        /\ bounties'[id].feeSnapshot = b.feeSnapshot
        /\ bounties'[id].expiry = b.expiry
        /\ \A j \in BountyId : j # id => bounties'[j] = bounties[j]
    BY <1>3, SettledFacts DEF Disburse, Status
  <2>2. receipt' = [receipt EXCEPT ![id] = r]
    BY <1>3 DEF Disburse
  <2>3. receipt'[id] = r /\ \A j \in BountyId : j # id => receipt'[j] = receipt[j]
    BY <2>2 DEF TypeOK
  <2>4. now < b.expiry
    BY <1>3 DEF Disburse, Disbursable
  <2>5. Payout(b) + Fee(b) = b.amount /\ Fee(b) * FeeDenominator <= b.amount * b.feeSnapshot
    BY DisbursePays
  <2>6. [signer |-> oracleSigner, domain |-> ThisDomain, bountyId |-> id, recipient |-> to]
          \in Attested
    <3>1. sig \in Attestation /\ oracleSigner \in Key /\ NoKey \notin Key
      BY AddressAssumption DEF TypeOK
    <3>2. sig.domain = ThisDomain /\ sig.bountyId = id /\ sig.recipient = to
          /\ sig.signer = oracleSigner
      BY <1>3, <3>1 DEF Disburse, Recover
    <3>3. sig = [signer |-> sig.signer, domain |-> sig.domain, bountyId |-> sig.bountyId,
                 recipient |-> sig.recipient]
      BY <3>1 DEF Attestation
    <3> QED  BY <3>2, <3>3
  <2> HIDE DEF b
  <2>7. SettledRight(id)'
    BY <2>1, <2>3, <2>4, <2>5, <2>6 DEF SettledRight
  <2>8. ASSUME NEW j \in BountyId, j # id PROVE SettledRight(j)'
    BY <2>1, <2>3, <2>8 DEF Settlement, SettledRight
  <2> QED  BY <2>7, <2>8 DEF Settlement
<1>4. ASSUME NEW id \in BountyId, NEW a \in Party, Refund(id, a)
      PROVE Settlement'
  <2> DEFINE b == bounties[id]
             r == [to |-> b.funder, paid |-> b.amount, fee |-> 0, at |-> now, by |-> NoKey]
  <2>1. /\ bounties'[id].status = "Refunded"
        /\ bounties'[id].amount = b.amount
        /\ bounties'[id].funder = b.funder
        /\ bounties'[id].expiry = b.expiry
        /\ \A j \in BountyId : j # id => bounties'[j] = bounties[j]
    BY <1>4, SettledFacts DEF Refund, Status
  <2>2. receipt' = [receipt EXCEPT ![id] = r]
    BY <1>4 DEF Refund
  <2>3. receipt'[id] = r /\ \A j \in BountyId : j # id => receipt'[j] = receipt[j]
    BY <2>2 DEF TypeOK
  <2>4. now >= b.expiry
    BY <1>4 DEF Refund, RefundAccepted, Refundable
  <2> HIDE DEF b
  <2>5. SettledRight(id)'
    BY <2>1, <2>3, <2>4 DEF SettledRight
  <2>6. ASSUME NEW j \in BountyId, j # id PROVE SettledRight(j)'
    BY <2>1, <2>3, <2>6 DEF Settlement, SettledRight
  <2> QED  BY <2>5, <2>6 DEF Settlement
<1> QED  BY <1>1, <1>2, <1>3, <1>4, StepKinds

----------------------------------------------------------------------------
\* When one bounty changes, the total changes by the change of its claim.
LEMMA FundedTotalUpdate ==
  ASSUME TypeOK, TypeOK', NEW id \in BountyId,
         \A j \in BountyId : j # id => bounties'[j] = bounties[j]
  PROVE  /\ FundedTotal \in Nat /\ FundedTotal' \in Nat
         /\ FundedTotal' = FundedTotal - Claim(bounties[id]) + Claim(bounties'[id])
<1> DEFINE f == [j \in BountyId |-> Claim(bounties[j])]
           g == [j \in BountyId |-> Claim(bounties'[j])]
<1>1. f \in [1..MaxBounties -> Nat] /\ g \in [1..MaxBounties -> Nat]
  BY DEF TypeOK, Claim, Bounty
<1>2. MaxBounties \in Nat /\ id \in 1..MaxBounties
  BY BoundAssumption
<1>3. \A j \in 1..MaxBounties : j # id => g[j] = f[j]
  OBVIOUS
<1>4. FundedTotal = SumTo(f, MaxBounties) /\ FundedTotal' = SumTo(g, MaxBounties)
  BY DEF FundedTotal
<1>5. f[id] = Claim(bounties[id]) /\ g[id] = Claim(bounties'[id])
  OBVIOUS
<1> HIDE DEF f, g
<1>6. SumTo(g, MaxBounties) = SumTo(f, MaxBounties) - f[id] + g[id]
  BY <1>1, <1>2, <1>3, SumToUpdate
<1>7. SumTo(f, MaxBounties) \in Nat /\ SumTo(g, MaxBounties) \in Nat
  BY <1>1, <1>2, SumToNat
<1> QED  BY <1>4, <1>5, <1>6, <1>7

\* What the bounties claim together is a natural number.
LEMMA FundedTotalNat == ASSUME TypeOK PROVE FundedTotal \in Nat
<1> DEFINE f == [j \in BountyId |-> Claim(bounties[j])]
<1>1. f \in [1..MaxBounties -> Nat]
  BY DEF TypeOK, Claim, Bounty
<1>2. FundedTotal = SumTo(f, MaxBounties)
  BY DEF FundedTotal
<1> HIDE DEF f
<1> QED  BY <1>1, <1>2, BoundAssumption, SumToNat

\* It depends on the bounties alone.
LEMMA FundedTotalSame == ASSUME UNCHANGED bounties PROVE FundedTotal' = FundedTotal
BY DEF FundedTotal

\* A new escrow holds nothing and owes nothing.
LEMMA ConservationInit == Init => Conservation
<1> SUFFICES ASSUME Init PROVE Conservation
  OBVIOUS
<1>1. \A id \in 1..MaxBounties : [j \in BountyId |-> Claim(bounties[j])][id] = 0
  BY DEF Init, Claim, EmptyBounty
<1>2. FundedTotal = 0
  BY <1>1, BoundAssumption, SumToZero DEF FundedTotal
<1> QED  BY <1>2, DeploymentAssumption DEF Init, Conservation

\* Every transaction moves the escrow's balance by as much as it moves the
\* claims and the surplus.
LEMMA ConservationStep ==
  ASSUME TypeOK, TypeOK', FeeCapped, IdsInOrder, Conservation, [Next]_vars
  PROVE  Conservation'
<1>1. CASE UNCHANGED <<bounties, nextBountyId, receipt, balance, surplus>>
  BY <1>1, FundedTotalSame DEF Conservation
<1>2. ASSUME UNCHANGED bounties,
             NEW a \in Party, NEW to \in Address, NEW v \in Amount, Transfer(a, to, v)
      PROVE Conservation'
  <2> DEFINE k == Kept(to, v)
  <2>1. v \in Nat /\ balance[a] >= v /\ a \in Address /\ a # Escrow
    BY <1>2, InputAssumption, AddressAssumption DEF Transfer
  <2>2. balance'[Escrow] = balance[Escrow] + k /\ k \in Nat /\ surplus' = surplus + k
    <3>1. balance' = Moved(balance, a, to, v) /\ surplus' = surplus + k
      BY <1>2 DEF Transfer
    <3>2. balance \in [Address -> Nat]
      BY DEF TypeOK
    <3> QED  BY <2>1, <3>1, <3>2, MovedFacts
  <2>3. FundedTotal' = FundedTotal
    BY <1>2, FundedTotalSame
  <2>4. balance[Escrow] \in Nat /\ surplus \in Nat
    BY DEF TypeOK
  <2>5. balance[Escrow] = FundedTotal + surplus
    BY DEF Conservation
  <2>6. FundedTotal \in Int
    BY FundedTotalNat
  <2> HIDE DEF k
  <2> QED  BY <2>2, <2>3, <2>4, <2>5, <2>6 DEF Conservation
<1>3. ASSUME NEW a \in Party, NEW v \in Amount, NEW e \in Expiry, NEW p \in Permit,
             Fund(a, v, e, p)
      PROVE Conservation'
  <2>1. /\ nextBountyId \in BountyId
        /\ bounties'[nextBountyId].status = "Funded" /\ bounties'[nextBountyId].amount = v
        /\ \A j \in BountyId : j # nextBountyId => bounties'[j] = bounties[j]
    BY <1>3, FundFacts, ZenonT(30)
  <2>2. bounties[nextBountyId].status = "None"
    BY <2>1 DEF IdsInOrder, TypeOK
  <2>3. Claim(bounties[nextBountyId]) = 0 /\ Claim(bounties'[nextBountyId]) = v
    BY <2>1, <2>2 DEF Claim
  <2>4. /\ FundedTotal \in Nat /\ FundedTotal' \in Nat
        /\ FundedTotal' = FundedTotal - Claim(bounties[nextBountyId])
                            + Claim(bounties'[nextBountyId])
    BY <2>1, FundedTotalUpdate
  <2>5. v \in Nat /\ balance[a] >= v /\ a \in Address /\ a # Escrow /\ Escrow \in Address
    BY <1>3, InputAssumption, AddressAssumption DEF Fund, FundAccepted
  <2>6. balance'[Escrow] = balance[Escrow] + v /\ surplus' = surplus
    <3>1. balance' = Moved(balance, a, Escrow, v) /\ surplus' = surplus
      BY <1>3 DEF Fund
    <3>2. balance \in [Address -> Nat]
      BY DEF TypeOK
    <3>3. balance'[Escrow] = balance[Escrow] + Kept(Escrow, v)
      BY <2>5, <3>1, <3>2, MovedFacts
    <3> QED  BY <3>1, <3>3 DEF Kept
  <2>7. balance[Escrow] \in Nat /\ surplus \in Nat /\ balance[Escrow] = FundedTotal + surplus
    BY DEF TypeOK, Conservation
  <2> QED  BY <2>3, <2>4, <2>5, <2>6, <2>7 DEF Conservation
<1>4. ASSUME NEW id \in BountyId, NEW to \in Address \cup {ZeroAddress}, NEW sig \in Attested,
             Disburse(id, to, sig)
      PROVE Conservation'
  <2> DEFINE b == bounties[id]
             afterFee == Moved(balance, Escrow, treasury, Fee(b))
             k == Kept(treasury, Fee(b))
             l == Kept(to, Payout(b))
  <2>1. /\ bounties'[id].status = "Disbursed"
        /\ \A j \in BountyId : j # id => bounties'[j] = bounties[j]
    BY <1>4, SettledFacts DEF Disburse, Status
  <2>2. Claim(b) = b.amount /\ Claim(bounties'[id]) = 0
    BY <1>4, <2>1 DEF Claim, Disburse, Disbursable
  <2>3. /\ FundedTotal \in Nat /\ FundedTotal' \in Nat
        /\ FundedTotal' = FundedTotal - Claim(b) + Claim(bounties'[id])
    BY <2>1, FundedTotalUpdate
  <2>4. Fee(b) \in Nat /\ Payout(b) \in Nat /\ Payout(b) + Fee(b) = b.amount
    BY DisbursePays
  <2>5. to \in Address /\ balance[Escrow] >= Fee(b) /\ afterFee[Escrow] >= Payout(b)
    BY <1>4 DEF Disburse
  <2>6. /\ afterFee \in [Address -> Nat] /\ k \in Nat
        /\ afterFee[Escrow] = balance[Escrow] - Fee(b) + k
    <3>1. balance \in [Address -> Nat] /\ treasury \in Address /\ Escrow \in Address
      BY DEF TypeOK
    <3> DEFINE f == Fee(b)
    <3>2. f \in Nat /\ balance[Escrow] >= f
      BY <2>4, <2>5
    <3> HIDE DEF f
    <3>3. /\ Moved(balance, Escrow, treasury, f) \in [Address -> Nat]
          /\ Kept(treasury, f) \in Nat
          /\ Moved(balance, Escrow, treasury, f)[Escrow] = balance[Escrow] - f + Kept(treasury, f)
      BY <3>1, <3>2, EscrowPays, ZenonT(30)
    <3> QED  BY <3>3 DEF f
  <2>7. balance' = Moved(afterFee, Escrow, to, Payout(b)) /\ surplus' = surplus + k + l
    BY <1>4 DEF Disburse
  <2> HIDE DEF afterFee
  <2>8. l \in Nat /\ balance'[Escrow] = afterFee[Escrow] - Payout(b) + l
    BY <2>4, <2>5, <2>6, <2>7, EscrowPays
  <2>9. balance[Escrow] \in Nat /\ surplus \in Nat /\ balance[Escrow] = FundedTotal + surplus
    BY DEF TypeOK, Conservation
  <2> HIDE DEF b, k, l
  <2> QED  BY <2>2, <2>3, <2>4, <2>6, <2>7, <2>8, <2>9 DEF Conservation
<1>5. ASSUME NEW id \in BountyId, NEW a \in Party, Refund(id, a)
      PROVE Conservation'
  <2> DEFINE b == bounties[id]
  <2>1. /\ bounties'[id].status = "Refunded"
        /\ \A j \in BountyId : j # id => bounties'[j] = bounties[j]
    BY <1>5, SettledFacts DEF Refund, Status
  <2>2. Claim(b) = b.amount /\ Claim(bounties'[id]) = 0
    BY <1>5, <2>1 DEF Claim, Refund, RefundAccepted, Refundable
  <2>3. /\ FundedTotal \in Nat /\ FundedTotal' \in Nat
        /\ FundedTotal' = FundedTotal - Claim(b) + Claim(bounties'[id])
    BY <2>1, FundedTotalUpdate
  <2>4. b.amount \in Nat /\ b.funder = a /\ a \in Address /\ a # Escrow
        /\ balance[Escrow] >= b.amount
    BY <1>5, AddressAssumption DEF Refund, RefundAccepted, Refundable, TypeOK, Bounty
  <2>5. balance'[Escrow] = balance[Escrow] - b.amount /\ surplus' = surplus
    <3>1. balance' = Moved(balance, Escrow, a, b.amount) /\ surplus' = surplus
      BY <1>5, <2>4 DEF Refund
    <3>2. balance \in [Address -> Nat] /\ Escrow \in Address
      BY DEF TypeOK
    <3> DEFINE v == b.amount
    <3>3. v \in Nat /\ balance[Escrow] >= v /\ balance' = Moved(balance, Escrow, a, v)
      BY <2>4, <3>1
    <3> HIDE DEF v
    <3>4. balance'[Escrow] = balance[Escrow] - v + Kept(a, v)
      BY <2>4, <3>2, <3>3, MovedFacts
    <3>5. balance'[Escrow] = balance[Escrow] - v + 0
      BY <2>4, <3>4 DEF Kept
    <3>6. balance[Escrow] \in Nat
      BY <3>2
    <3> QED  BY <3>1, <3>3, <3>5, <3>6 DEF v
  <2>6. balance[Escrow] \in Nat /\ surplus \in Nat /\ balance[Escrow] = FundedTotal + surplus
    BY DEF TypeOK, Conservation
  <2> HIDE DEF b
  <2> QED  BY <2>2, <2>3, <2>4, <2>5, <2>6 DEF Conservation
<1> QED  BY <1>1, <1>2, <1>3, <1>4, <1>5, StepKinds

----------------------------------------------------------------------------
\* The deployed contract satisfies the inductive invariant, and every
\* transaction preserves it.
LEMMA IInvInit == Init => IInv
<1> SUFFICES ASSUME Init PROVE IInv
  OBVIOUS
<1>1. FeeCapped
  BY ParameterAssumption, DeploymentAssumption DEF Init, FeeCapped, EmptyBounty
<1>2. IdsInOrder /\ FundedTerms
  BY DEF Init, IdsInOrder, FundedTerms, EmptyBounty
<1>3. Settlement
  BY DEF Init, Settlement, SettledRight, EmptyBounty
<1> QED  BY <1>1, <1>2, <1>3, TypeInit, ConservationInit DEF IInv

\* The inductive step: each transaction preserves every part of IInv.
LEMMA IInvStep == IInv /\ [Next]_vars => IInv'
<1> SUFFICES ASSUME IInv, [Next]_vars PROVE IInv'
  OBVIOUS
<1>1. TypeOK /\ FeeCapped /\ IdsInOrder /\ FundedTerms /\ Settlement /\ Conservation
  BY DEF IInv
<1>2. TypeOK' /\ FeeCapped'
  BY <1>1, TypeStep, FeeCappedStep
<1>3. IdsInOrder' /\ FundedTerms'
  BY <1>1, IdsInOrderStep, FundedTermsStep
<1>4. Settlement'
  BY <1>1, SettlementStep
<1>5. Conservation'
  BY <1>1, <1>2, ConservationStep
<1> QED  BY <1>2, <1>3, <1>4, <1>5 DEF IInv

\* The inductive invariant holds in every reachable state.
LEMMA IInvHolds == Spec => []IInv
BY IInvInit, IInvStep, PTL DEF Spec

\* Every variable keeps its type; no balance or allowance goes below zero
\* and no payout is negative.
THEOREM TypeCorrect == Spec => []TypeOK
<1>1. IInv => TypeOK
  BY DEF IInv
<1> QED  BY <1>1, IInvHolds, PTL

\* The escrow holds exactly what it owes plus what it was given unasked: the
\* balance check of the Foundry invariant test, for every configuration.
THEOREM FundsConserved == Spec => []Conservation
<1>1. IInv => Conservation
  BY DEF IInv
<1> QED  BY <1>1, IInvHolds, PTL

\* Every settled bounty was settled on the right side of its expiry, in
\* full, to an attested wallet or to its funder, within its own fee.
THEOREM SettledRightly == Spec => []Settlement
<1>1. IInv => Settlement
  BY DEF IInv
<1> QED  BY <1>1, IInvHolds, PTL

\* No history of the contract, its owner and the token leaves an expired
\* funded bounty that its funder cannot take back (the liveness backstop of
\* refund).
THEOREM RefundAlwaysOpen == Spec => []RefundNeverBlocked
<1>1. IInv => RefundNeverBlocked
  <2> SUFFICES ASSUME IInv, NEW id \in BountyId,
                      bounties[id].status = "Funded", now >= bounties[id].expiry
               PROVE  \E a \in Party : RefundAccepted(id, a)
    BY DEF RefundNeverBlocked
  <2> DEFINE f == [j \in BountyId |-> Claim(bounties[j])]
             a == bounties[id].funder
  <2>1. TypeOK /\ FundedTerms /\ Conservation
    BY DEF IInv
  <2>2. a \in Party
    BY <2>1 DEF FundedTerms
  <2>3. f \in [1..MaxBounties -> Nat] /\ MaxBounties \in Nat /\ id \in 1..MaxBounties
    BY <2>1, BoundAssumption DEF TypeOK, Claim, Bounty
  <2>4. FundedTotal = SumTo(f, MaxBounties) /\ f[id] = bounties[id].amount
    BY DEF FundedTotal, Claim
  <2> HIDE DEF f
  <2>5. bounties[id].amount <= FundedTotal
    BY <2>3, <2>4, SumToBound
  <2>6. balance[Escrow] = FundedTotal + surplus /\ surplus \in Nat
    BY <2>1 DEF Conservation, TypeOK
  <2>7. bounties[id].amount \in Nat /\ FundedTotal \in Nat
    BY <2>1, FundedTotalNat DEF TypeOK, Bounty
  <2>8. balance[Escrow] >= bounties[id].amount
    BY <2>5, <2>6, <2>7
  <2>9. RefundAccepted(id, a)
    BY <2>8 DEF RefundAccepted, Refundable
  <2> QED  BY <2>2, <2>9
<1> QED  BY <1>1, IInvHolds, PTL

\* A bounty's terms are never rewritten, and it is settled at most once.
THEOREM TermsAreFrozen == Spec => TermsFrozen
<1> DEFINE Frozen == \A id \in BountyId :
       bounties[id].status # "None" =>
         /\ bounties'[id] = [bounties[id] EXCEPT !.status = bounties'[id].status]
         /\ bounties'[id].status # bounties[id].status =>
              /\ bounties[id].status = "Funded"
              /\ bounties'[id].status \in {"Disbursed", "Refunded"}
<1>1. IInv /\ IInv' /\ [Next]_vars => Frozen
  <2> SUFFICES ASSUME IInv, IInv', [Next]_vars, NEW id \in BountyId,
                      bounties[id].status # "None"
               PROVE  /\ bounties'[id] = [bounties[id] EXCEPT !.status = bounties'[id].status]
                      /\ bounties'[id].status # bounties[id].status =>
                           /\ bounties[id].status = "Funded"
                           /\ bounties'[id].status \in {"Disbursed", "Refunded"}
    OBVIOUS
  <2>1. TypeOK /\ TypeOK' /\ IdsInOrder
    BY DEF IInv
  <2>2. bounties[id] \in Bounty /\ bounties'[id] \in Bounty
    BY <2>1 DEF TypeOK
  <2>3. CASE bounties'[id] = bounties[id]
    BY <2>2, <2>3 DEF Bounty
  <2>4. ASSUME NEW a \in Party, NEW v \in Amount, NEW e \in Expiry, NEW p \in Permit,
               Fund(a, v, e, p)
        PROVE bounties'[id] = bounties[id]
    <3>1. \A j \in BountyId : j # nextBountyId => bounties'[j] = bounties[j]
      BY <2>1, <2>4, FundFacts, ZenonT(30)
    <3>2. ~ (id >= nextBountyId)
      BY <2>1, Zenon DEF IdsInOrder
    <3>3. id \in Nat /\ nextBountyId \in Nat
      BY <2>1 DEF TypeOK
    <3>4. id # nextBountyId
      BY <3>2, <3>3
    <3> QED  BY <3>1, <3>4
  <2>5. ASSUME NEW j \in BountyId, NEW st \in {"Disbursed", "Refunded"},
               bounties' = Settled(j, st), bounties[j].status = "Funded"
        PROVE  \/ bounties'[id] = bounties[id]
               \/ /\ bounties[id].status = "Funded"
                  /\ bounties'[id].status \in {"Disbursed", "Refunded"}
                  /\ bounties'[id] = [bounties[id] EXCEPT !.status = bounties'[id].status]
    <3>1. /\ bounties'[j].status = st
          /\ bounties'[j].funder = bounties[j].funder
          /\ bounties'[j].amount = bounties[j].amount
          /\ bounties'[j].feeSnapshot = bounties[j].feeSnapshot
          /\ bounties'[j].expiry = bounties[j].expiry
          /\ \A i \in BountyId : i # j => bounties'[i] = bounties[i]
      BY <2>1, <2>5, SettledFacts DEF Status
    <3>2. CASE id # j
      BY <3>1, <3>2
    <3>3. CASE id = j
      BY <2>2, <2>5, <3>1, <3>3 DEF Bounty
    <3> QED  BY <3>2, <3>3
  <2>6. \/ bounties'[id] = bounties[id]
        \/ /\ bounties[id].status = "Funded"
           /\ bounties'[id].status \in {"Disbursed", "Refunded"}
           /\ bounties'[id] = [bounties[id] EXCEPT !.status = bounties'[id].status]
    BY <2>4, <2>5, StepKinds
       DEF Disburse, Refund, RefundAccepted, Refundable, Disbursable
  <2> QED  BY <2>3, <2>6
<1> QED  BY <1>1, IInvHolds, PTL DEF Spec, TermsFrozen

\* What takes a fund call away from its sender: time, spending, or another
\* and smaller permit of the sender's, nothing else anybody does.
THEOREM NobodyStealsAFund == Spec => FundNotStolen
<1> DEFINE Excused(a, v, e, p) ==
      FundAccepted(a, v, e, p) /\ ~ FundAccepted(a, v, e, p)' =>
        \/ now' > now
        \/ balance'[a] < balance[a]
        \/ \E q \in signed[a] \ {p} : q < v /\ ApplyPermit(a, q)
<1>1. IInv /\ [Next]_vars =>
        \A a \in Party, v \in Amount, e \in Expiry : \A p \in signed[a] \cup {0} : Excused(a, v, e, p)
  <2> SUFFICES ASSUME IInv, [Next]_vars, NEW a \in Party, NEW v \in Amount, NEW e \in Expiry,
                      NEW p \in signed[a] \cup {0},
                      FundAccepted(a, v, e, p), ~ FundAccepted(a, v, e, p)',
                      ~ (now' > now), ~ (balance'[a] < balance[a])
               PROVE  \E q \in signed[a] \ {p} : q < v /\ ApplyPermit(a, q)
    OBVIOUS
  <2>1. /\ TypeOK /\ balance' \in [Address -> Nat]
        /\ 0 \notin signed[a] /\ signed[a] \subseteq Amount
        /\ v \in Nat /\ Amount \subseteq Nat /\ now \in Nat
    BY InputAssumption, TypeStep DEF IInv, TypeOK
  <2>2. CASE \/ UNCHANGED <<allowance, signed, now>>
             \/ \E h \in Party, x \in Amount : SignPermit(h, x)
    <3>1. p \in signed'[a] <=> p \in signed[a]
      <4>1. ASSUME NEW h \in Party, NEW x \in Amount, SignPermit(h, x)
            PROVE  signed[a] \subseteq signed'[a] /\ 0 \notin signed'[a]
        <5>1. x > 0 /\ x \in Nat /\ signed' = [signed EXCEPT ![h] = signed[h] \cup {x}]
          BY <2>1, <4>1 DEF SignPermit
        <5>2. signed'[a] = IF a = h THEN signed[a] \cup {x} ELSE signed[a]
          BY <2>1, <5>1 DEF TypeOK
        <5>3. x # 0
          BY <5>1
        <5> QED  BY <2>1, <5>2, <5>3
      <4> QED  BY <2>1, <2>2, <4>1
    <3>2. now' = now /\ allowance' = allowance
      BY <2>2 DEF SignPermit
    <3>3. AllowanceSeen(a, p)' = AllowanceSeen(a, p)
      BY <3>1, <3>2 DEF AllowanceSeen
    <3>4. FundAccepted(a, v, e, p)'
      BY <2>1, <3>2, <3>3 DEF FundAccepted, TermsAccepted, TypeOK
    <3> QED  BY <3>4
  <2>3. CASE \E h \in Party, x \in Amount : ApplyPermit(h, x)
    <3> PICK h \in Party, x \in Amount : ApplyPermit(h, x)
      BY <2>3
    <3>1. now' = now /\ balance' = balance
      BY DEF ApplyPermit
    <3>2. ~ (AllowanceSeen(a, p)' >= v)
      BY <3>1 DEF FundAccepted, TermsAccepted
    <3>3. AllowanceSeen(a, p) >= v
      BY DEF FundAccepted
    <3>4. h = a
      BY <3>2, <3>3 DEF ApplyPermit, AllowanceSeen, TypeOK, IInv
    <3>5. signed'[a] = {} /\ allowance'[a] = x /\ x \in signed[a] /\ x \in Nat
      BY <2>1, <3>4 DEF ApplyPermit, TypeOK
    <3>6. x < v
      BY <2>1, <3>2, <3>5 DEF AllowanceSeen
    <3>7. x # p
      BY <2>1, <3>3, <3>5, <3>6 DEF AllowanceSeen
    <3> QED  BY <3>4, <3>5, <3>6, <3>7
  <2>4. CASE \E h \in Party, x \in Amount, y \in Expiry, q \in Permit : Fund(h, x, y, q)
    <3> PICK h \in Party, x \in Amount, y \in Expiry, q \in Permit : Fund(h, x, y, q)
      BY <2>4
    <3>1. h # a
      <4> SUFFICES ASSUME h = a PROVE FALSE
        OBVIOUS
      <4>1. x \in Nat /\ x >= MIN_BOUNTY /\ MIN_BOUNTY \in Nat \ {0}
        BY <2>1, ParameterAssumption DEF Fund, FundAccepted, TermsAccepted
      <4>2. balance'[a] = balance[a] - x
        BY <2>1, AddressAssumption DEF Fund, Moved, TypeOK
      <4> QED  BY <2>1, <4>1, <4>2 DEF TypeOK
    <3>2. signed'[a] = signed[a] /\ allowance'[a] = allowance[a] /\ now' = now
      BY <2>1, <3>1 DEF Fund, TypeOK
    <3>3. AllowanceSeen(a, p)' = AllowanceSeen(a, p)
      BY <3>2 DEF AllowanceSeen
    <3>4. FundAccepted(a, v, e, p)'
      BY <2>1, <3>2, <3>3 DEF FundAccepted, TermsAccepted, TypeOK
    <3> QED  BY <3>4
  <2>5. ~ Tick
    BY <2>1 DEF Tick
  <2>6. CASE AdminStep
    BY <2>2, <2>6 DEF AdminStep, SetFeeRate, SetTreasury, SetOracleKey, TransferOwnership,
                      RenounceOwnership, token
  <2>7. CASE BountyStep
    BY <2>2, <2>4, <2>7 DEF BountyStep, Disburse, Refund
  <2>8. CASE TokenStep
    BY <2>2, <2>3, <2>8 DEF TokenStep, Transfer
  <2>9. CASE UNCHANGED vars
    BY <2>2, <2>9 DEF vars, token
  <2> QED  BY <2>5, <2>6, <2>7, <2>8, <2>9 DEF Next
<1> QED  BY <1>1, IInvHolds, PTL DEF Spec, FundNotStolen

----------------------------------------------------------------------------
\* The contract implements the abstract promise.
LEMMA PromiseInit == Init => Promise!Init
BY DEF Init, Promise!Init, Promise!Unopened, Promise!Open, Deals, Outcomes, Phase,
       EmptyBounty, NoReceipt

\* The abstract deal follows its bounty, whichever bounty changed.
LEMMA DealsUpdate ==
  ASSUME NEW id \in BountyId, NEW d,
         \A j \in BountyId : j # id => bounties'[j] = bounties[j],
         d = [phase |-> Phase(bounties'[id].status), funder |-> bounties'[id].funder,
              amount |-> bounties'[id].amount, deadline |-> bounties'[id].expiry,
              share |-> bounties'[id].feeSnapshot]
  PROVE  /\ Deals' = [Deals EXCEPT ![id] = d]
         /\ Deals'[id] = d
BY DEF Deals

\* The abstract outcome follows its receipt.
LEMMA OutcomesUpdate ==
  ASSUME NEW id \in BountyId, NEW r, receipt' = [receipt EXCEPT ![id] = r], TypeOK
  PROVE  /\ Outcomes' = [Outcomes EXCEPT ![id] = [to |-> r.to, paid |-> r.paid, fee |-> r.fee]]
         /\ Outcomes'[id] = [to |-> r.to, paid |-> r.paid, fee |-> r.fee]
BY DEF Outcomes, TypeOK

\* fund is OpenDeal.
LEMMA OpenStep ==
  ASSUME IInv, NEW a \in Party, NEW v \in Amount, NEW e \in Expiry, NEW p \in Permit,
         Fund(a, v, e, p)
  PROVE  Promise!OpenDeal(nextBountyId)
<1> DEFINE id == nextBountyId
           d == [phase |-> "open", funder |-> a, amount |-> v, deadline |-> e, share |-> feeRate]
<1>1. TypeOK /\ IdsInOrder
  BY DEF IInv
<1>2. /\ id \in BountyId
      /\ bounties'[id].status = "Funded" /\ bounties'[id].funder = a
      /\ bounties'[id].amount = v /\ bounties'[id].expiry = e
      /\ bounties'[id].feeSnapshot = feeRate
      /\ \A j \in BountyId : j # id => bounties'[j] = bounties[j]
  BY <1>1, FundFacts, ZenonT(30)
<1>3. Deals' = [Deals EXCEPT ![id] = d] /\ Deals'[id] = d
  BY <1>2, DealsUpdate DEF Phase
<1>4. Deals[id].phase = "none"
  <2>1. bounties[id].status = "None"
    BY <1>1, <1>2 DEF IdsInOrder, TypeOK
  <2> QED  BY <1>2, <2>1 DEF Deals, Phase
<1>5. v \in Nat /\ v >= MIN_BOUNTY /\ e \in Nat /\ e >= now + MIN_DURATION
      /\ feeRate \in 0..MAX_FEE
  BY InputAssumption, ParameterAssumption DEF Fund, FundAccepted, TermsAccepted, IInv, TypeOK, FeeCapped
<1>6. UNCHANGED <<Outcomes, now>>
  BY DEF Fund, Outcomes
<1>7. /\ Deals'[id] = [phase |-> "open", funder |-> Deals'[id].funder,
                       amount |-> Deals'[id].amount, deadline |-> Deals'[id].deadline,
                       share |-> Deals'[id].share]
      /\ Deals'[id].funder = a /\ Deals'[id].amount = v /\ Deals'[id].deadline = e
      /\ Deals'[id].share = feeRate
  BY <1>3
<1>8. Deals' = [Deals EXCEPT ![id] = Deals'[id]]
  BY <1>3
<1>9. /\ Deals'[id].amount \in Nat /\ Deals'[id].amount >= MIN_BOUNTY
      /\ Deals'[id].deadline \in Nat /\ Deals'[id].deadline >= now + MIN_DURATION
      /\ Deals'[id].funder \in Party /\ Deals'[id].share \in 0..MAX_FEE
  BY <1>5, <1>7
<1> HIDE DEF id, d
<1>10. Promise!OpenDeal(id)
  BY <1>4, <1>6, <1>7, <1>8, <1>9 DEF Promise!OpenDeal
<1> QED  BY <1>10 DEF id

\* disburse is PayOut: before the deadline, to a wallet entitled to it, whole,
\* less at most the share it was funded under.
LEMMA PayOutStep ==
  ASSUME IInv, NEW id \in BountyId, NEW to \in Address \cup {ZeroAddress},
         NEW sig \in Attested, Disburse(id, to, sig)
  PROVE  Promise!PayOut(id)
<1> DEFINE b == bounties[id]
           d == [phase |-> "paid", funder |-> b.funder, amount |-> b.amount,
                 deadline |-> b.expiry, share |-> b.feeSnapshot]
           r == [to |-> to, paid |-> Payout(b), fee |-> Fee(b), at |-> now, by |-> oracleSigner]
           o == [to |-> to, paid |-> Payout(b), fee |-> Fee(b)]
<1>1. TypeOK /\ FeeCapped
  BY DEF IInv
<1>2. /\ b.status = "Funded" /\ now < b.expiry /\ UNCHANGED now
      /\ bounties' = Settled(id, "Disbursed") /\ receipt' = [receipt EXCEPT ![id] = r]
  BY DEF Disburse, Disbursable
<1>3. /\ bounties'[id].status = "Disbursed" /\ bounties'[id].funder = b.funder
      /\ bounties'[id].amount = b.amount /\ bounties'[id].expiry = b.expiry
      /\ bounties'[id].feeSnapshot = b.feeSnapshot
      /\ \A j \in BountyId : j # id => bounties'[j] = bounties[j]
  BY <1>1, <1>2, SettledFacts DEF Status
<1>4. Deals' = [Deals EXCEPT ![id] = d]
  <2>1. d = [phase |-> Phase(bounties'[id].status), funder |-> bounties'[id].funder,
             amount |-> bounties'[id].amount, deadline |-> bounties'[id].expiry,
             share |-> bounties'[id].feeSnapshot]
    BY <1>3 DEF Phase
  <2> QED  BY <1>3, <2>1, DealsUpdate, ZenonT(30)
<1>5. Deals[id] = [phase |-> "open", funder |-> b.funder, amount |-> b.amount,
                   deadline |-> b.expiry, share |-> b.feeSnapshot]
  BY <1>2 DEF Deals, Phase
<1>6. d = [Deals[id] EXCEPT !.phase = "paid"]
  BY <1>5
<1>7. Outcomes' = [Outcomes EXCEPT ![id] = o] /\ Outcomes'[id] = o
  BY <1>1, <1>2, OutcomesUpdate, ZenonT(30)
<1>8. /\ Fee(b) \in Nat /\ Payout(b) \in Nat /\ Payout(b) + Fee(b) = b.amount
      /\ Fee(b) * FeeDenominator <= b.amount * b.feeSnapshot
  BY <1>1, DisbursePays
<1>9. Deals[id].share = b.feeSnapshot
  BY <1>5
<1>10. <<id, to>> \in Named
  <2>1. sig \in Attestation /\ oracleSigner \in Key /\ NoKey \notin Key
    BY <1>1, AddressAssumption DEF TypeOK
  <2>2. sig.domain = ThisDomain /\ sig.bountyId = id /\ sig.recipient = to
    BY <2>1 DEF Disburse, Recover
  <2> QED  BY <2>2 DEF Named
<1>11. Deals[id].phase = "open" /\ Deals[id].amount = b.amount /\ Deals[id].deadline = b.expiry
  BY <1>5
<1>12. Deals' = [Deals EXCEPT ![id].phase = "paid"]
  BY <1>4, <1>6
<1>13. /\ Outcomes'[id] = [to |-> Outcomes'[id].to, paid |-> Outcomes'[id].paid,
                           fee |-> Outcomes'[id].fee]
       /\ Outcomes'[id].to = to /\ Outcomes'[id].paid = Payout(b) /\ Outcomes'[id].fee = Fee(b)
  BY <1>7
<1>14. Outcomes' = [Outcomes EXCEPT ![id] = Outcomes'[id]]
  BY <1>7
<1> HIDE DEF b, o, d
<1> QED
  BY <1>2, <1>8, <1>9, <1>10, <1>11, <1>12, <1>13, <1>14 DEF Promise!PayOut

\* refund is GiveBack: from the deadline on, whole, to the funder.
LEMMA GiveBackStep ==
  ASSUME IInv, NEW id \in BountyId, NEW a \in Party, Refund(id, a)
  PROVE  Promise!GiveBack(id)
<1> DEFINE b == bounties[id]
           d == [phase |-> "returned", funder |-> b.funder, amount |-> b.amount,
                 deadline |-> b.expiry, share |-> b.feeSnapshot]
           r == [to |-> b.funder, paid |-> b.amount, fee |-> 0, at |-> now, by |-> NoKey]
<1>1. TypeOK
  BY DEF IInv
<1>2. /\ b.status = "Funded" /\ now >= b.expiry /\ UNCHANGED now
      /\ bounties' = Settled(id, "Refunded") /\ receipt' = [receipt EXCEPT ![id] = r]
  BY DEF Refund, RefundAccepted, Refundable
<1>3. /\ bounties'[id].status = "Refunded" /\ bounties'[id].funder = b.funder
      /\ bounties'[id].amount = b.amount /\ bounties'[id].expiry = b.expiry
      /\ bounties'[id].feeSnapshot = b.feeSnapshot
      /\ \A j \in BountyId : j # id => bounties'[j] = bounties[j]
  BY <1>1, <1>2, SettledFacts DEF Status
<1>4. Deals' = [Deals EXCEPT ![id] = d]
  <2>1. d = [phase |-> Phase(bounties'[id].status), funder |-> bounties'[id].funder,
             amount |-> bounties'[id].amount, deadline |-> bounties'[id].expiry,
             share |-> bounties'[id].feeSnapshot]
    BY <1>3 DEF Phase
  <2> QED  BY <1>3, <2>1, DealsUpdate, ZenonT(30)
<1>5. Deals[id] = [phase |-> "open", funder |-> b.funder, amount |-> b.amount,
                   deadline |-> b.expiry, share |-> b.feeSnapshot]
  BY <1>2 DEF Deals, Phase
<1>6. d = [Deals[id] EXCEPT !.phase = "returned"]
  BY <1>5
<1>7. Outcomes' = [Outcomes EXCEPT ![id] = [to |-> b.funder, paid |-> b.amount, fee |-> 0]]
  <2>1. r.to = b.funder /\ r.paid = b.amount /\ r.fee = 0
    OBVIOUS
  <2>2. receipt' = [receipt EXCEPT ![id] = r]
    BY <1>2
  <2> HIDE DEF r
  <2>3. Outcomes' = [Outcomes EXCEPT ![id] = [to |-> r.to, paid |-> r.paid, fee |-> r.fee]]
    BY <1>1, <2>2, OutcomesUpdate
  <2> QED  BY <2>1, <2>3, ZenonT(30)
<1>8. /\ Deals[id].phase = "open" /\ Deals[id].funder = b.funder
      /\ Deals[id].amount = b.amount /\ Deals[id].deadline = b.expiry
  BY <1>5
<1>9. Deals' = [Deals EXCEPT ![id].phase = "returned"]
  BY <1>4, <1>6
<1> HIDE DEF b
<1> QED  BY <1>2, <1>7, <1>8, <1>9 DEF Promise!GiveBack

\* Every transaction is an abstract step or a stutter.
LEMMA PromiseStep ==
  IInv /\ [Next]_vars => [Promise!Next]_(Promise!promise)
<1> SUFFICES ASSUME IInv, [Next]_vars PROVE Promise!Next \/ UNCHANGED <<Deals, Outcomes, now>>
  BY DEF Promise!promise
<1>1. CASE Tick
  BY <1>1 DEF Tick, ledger, Deals, Outcomes, Promise!Next, Promise!Pass
<1>2. CASE TokenStep
  BY <1>2 DEF TokenStep, SignPermit, ApplyPermit, Transfer, ledger, Deals, Outcomes
<1>3. CASE AdminStep
  BY <1>3 DEF AdminStep, SetFeeRate, SetTreasury, SetOracleKey, TransferOwnership,
              RenounceOwnership, ledger, Deals, Outcomes
<1>4. ASSUME NEW a \in Party, NEW v \in Amount, NEW e \in Expiry, NEW p \in Permit,
             Fund(a, v, e, p)
      PROVE Promise!Next
  <2>1. nextBountyId \in BountyId
    BY <1>4, FundFacts, ZenonT(30) DEF IInv
  <2>2. Promise!OpenDeal(nextBountyId)
    BY <1>4, OpenStep, Zenon
  <2> QED  BY <2>1, <2>2 DEF Promise!Next
<1>5. ASSUME NEW id \in BountyId, NEW to \in Address \cup {ZeroAddress}, NEW sig \in Attested,
             Disburse(id, to, sig)
      PROVE Promise!Next
  BY <1>5, PayOutStep DEF Promise!Next
<1>6. ASSUME NEW id \in BountyId, NEW a \in Party, Refund(id, a)
      PROVE Promise!Next
  BY <1>6, GiveBackStep DEF Promise!Next
<1>7. CASE UNCHANGED vars
  BY <1>7 DEF vars, ledger, Deals, Outcomes
<1> QED  BY <1>1, <1>2, <1>3, <1>4, <1>5, <1>6, <1>7 DEF Next, BountyStep

\* Every behaviour of the contract is, bounty by bounty, a behaviour of the
\* abstract promise: opened once with acceptable terms, then paid before the
\* deadline to an attested wallet less at most the share of its terms, or given
\* back whole.
THEOREM ImplementsPromise == Spec => KeepsPromise
BY PromiseInit, PromiseStep, IInvHolds, PTL DEF Spec, KeepsPromise, Promise!Spec
=============================================================================

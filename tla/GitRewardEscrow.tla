-------------------------- MODULE GitRewardEscrow --------------------------
(***************************************************************************)
(* The escrow contract, contracts/src/GitRewardEscrow.sol, with the part   *)
(* of the USDC token and of OpenZeppelin's Ownable that it calls.          *)
(*                                                                         *)
(* An action is one transaction that did not revert: its guards are the    *)
(* contract's revert conditions.  fund, disburse and refund are            *)
(* nonReentrant and the token is USDC, which calls nobody back, so a       *)
(* transaction is one step.                                                *)
(*                                                                         *)
(* Three variables are not storage: `receipt' is the log of the Disbursed  *)
(* and Refunded events, `signed' the allowances of the permits a holder    *)
(* has signed over the token's present nonce, of which one can be used,    *)
(* and `surplus' counts the tokens that reached the escrow's account by    *)
(* any way other than fund.                                                *)
(***************************************************************************)
EXTENDS Totals

CONSTANTS
  Party,            \* externally owned accounts: funders, contributors, treasury, owner
  Escrow,           \* the address of this contract
  ZeroAddress,
  Key,              \* addresses of signing keys that could be the oracle's
  NoKey,            \* what ecrecover yields for a signature over something else
  Domain,           \* EIP-712 domains (chain id, contract address)
  ThisDomain,       \* the domain of this deployment
  Attested,         \* the attestations that exist, whoever signed them
  Amount,           \* amounts a caller passes
  FeeRate,          \* rates the owner passes
  Expiry,           \* expiries a caller passes
  MaxTime,          \* bound: the clock stops here
  MaxBounties,      \* bound: bounties that can be funded
  MAX_FEE, MIN_BOUNTY, MIN_DURATION, FeeDenominator,
  InitialOwner, InitialTreasury, InitialOracle, InitialFee, InitialBalance

Address == Party \cup {Escrow}
BountyId == 1..MaxBounties

\* What a permit passed to fund allows; 0 stands for one that reverts.
Permit == Amount \cup {0}

Attestation == [signer : Key, domain : Domain, bountyId : Nat, recipient : Address]

ASSUME AddressAssumption ==
  /\ Escrow \notin Party
  /\ ZeroAddress \notin Address
  /\ ZeroAddress \notin Key
  /\ NoKey \notin Key
  /\ ThisDomain \in Domain
  /\ Attested \subseteq Attestation

ASSUME BoundAssumption ==
  /\ MaxTime \in Nat
  /\ MaxBounties \in Nat

ASSUME InputAssumption ==
  /\ Amount \subseteq Nat
  /\ FeeRate \subseteq Nat
  /\ Expiry \subseteq Nat

ASSUME ParameterAssumption ==
  /\ MIN_BOUNTY \in Nat \ {0}
  /\ MIN_DURATION \in Nat \ {0}
  /\ FeeDenominator \in Nat \ {0}
  /\ MAX_FEE \in Nat
  /\ MAX_FEE <= FeeDenominator

\* The constructor's checks (lines 118-130) and Ownable's.
ASSUME DeploymentAssumption ==
  /\ InitialOwner \in Address
  /\ InitialTreasury \in Address
  /\ InitialOracle \in Key
  /\ InitialFee \in Nat
  /\ InitialFee <= MAX_FEE
  /\ InitialBalance \in [Address -> Nat]
  /\ InitialBalance[Escrow] = 0

VARIABLES
  bounties, nextBountyId, feeRate, treasury, oracleSigner, owner,  \* storage
  balance, allowance, signed,   \* the USDC token, and permits not yet used
  now,                          \* block.timestamp
  receipt, surplus

token    == <<balance, allowance, signed>>
admin    == <<feeRate, treasury, oracleSigner, owner>>
ledger   == <<bounties, nextBountyId, receipt>>
vars     == <<ledger, admin, token, now, surplus>>

----------------------------------------------------------------------------
Status == {"None", "Funded", "Disbursed", "Refunded"}

Bounty == [funder : Party \cup {ZeroAddress}, amount : Nat, feeSnapshot : Nat,
           expiry : Nat, status : Status]

\* An entry of the mapping that was never written.
EmptyBounty == [funder |-> ZeroAddress, amount |-> 0, feeSnapshot |-> 0,
                expiry |-> 0, status |-> "None"]

\* What an event says: who was paid, how much went to them and to the
\* treasury, in a block of what time, and the oracle key of that block.
Receipt == [to : Address \cup {ZeroAddress}, paid : Nat, fee : Nat, at : Nat,
            by : Key \cup {NoKey}]

NoReceipt == [to |-> ZeroAddress, paid |-> 0, fee |-> 0, at |-> 0, by |-> NoKey]

\* A transfer of v tokens: debit, then credit, so that a transfer to oneself
\* changes nothing.
Moved(funds, from, to, v) ==
  LET debited == [funds EXCEPT ![from] = @ - v]
  IN  [debited EXCEPT ![to] = @ + v]

\* The tokens a payment leaves in the escrow's own account.
Kept(to, v) == IF to = Escrow THEN v ELSE 0

\* Mutant: the rate of today instead of the one snapshotted at funding.
FeeLive(b) == (b.amount * feeRate) \div FeeDenominator

\* The treasury's part of a disbursed bounty, rounded down, and the rest.
Fee(b) == (b.amount * b.feeSnapshot) \div FeeDenominator

\* Mutant: the payout is rounded on its own, and dust stays behind.
PayoutRounded(b) == (b.amount * (FeeDenominator - b.feeSnapshot)) \div FeeDenominator

Payout(b) == b.amount - Fee(b)

\* What a bounty still claims of the escrow's balance.
Claim(b) == IF b.status = "Funded" THEN b.amount ELSE 0

\* fundedTotal() of the Foundry invariant test.
FundedTotal == SumTo([id \in BountyId |-> Claim(bounties[id])], MaxBounties)

----------------------------------------------------------------------------
Init ==
  /\ bounties = [id \in BountyId |-> EmptyBounty]
  /\ nextBountyId = 1
  /\ feeRate = InitialFee
  /\ treasury = InitialTreasury
  /\ oracleSigner = InitialOracle
  /\ owner = InitialOwner
  /\ balance = InitialBalance
  /\ allowance = [a \in Party |-> 0]
  /\ signed = [a \in Party |-> {}]
  /\ now = 0
  /\ receipt = [id \in BountyId |-> NoReceipt]
  /\ surplus = 0

Tick ==
  /\ now < MaxTime
  /\ now' = now + 1
  /\ UNCHANGED <<ledger, admin, token, surplus>>

\* A holder signs an EIP-2612 permit for the escrow in the wallet, again on
\* every attempt: several can be out on one nonce (wallet_controller.js
\* 118-144).
SignPermit(holder, value) ==
  /\ value > 0
  /\ signed' = [signed EXCEPT ![holder] = @ \cup {value}]
  /\ UNCHANGED <<ledger, admin, balance, allowance, now, surplus>>

\* Anyone may submit a permit seen in the mempool: the nonce is used up.
ApplyPermit(holder, value) ==
  /\ value \in signed[holder]
  /\ allowance' = [allowance EXCEPT ![holder] = value]
  /\ signed' = [signed EXCEPT ![holder] = {}]
  /\ UNCHANGED <<ledger, admin, balance, now, surplus>>

\* A plain token transfer between accounts, the escrow's included.
Transfer(from, to, v) ==
  /\ v > 0
  /\ from # to
  /\ balance[from] >= v
  /\ balance' = Moved(balance, from, to, v)
  /\ surplus' = surplus + Kept(to, v)
  /\ UNCHANGED <<ledger, admin, allowance, signed, now>>

----------------------------------------------------------------------------
\* Mutant: a permit that reverts makes fund revert.
AllowanceUncaught(sender, permit) ==
  IF permit \in signed[sender] THEN permit ELSE 0

\* The allowance transferFrom sees after the try/catch around permit: a
\* permit that reverts (its nonce is used, its signature or deadline is
\* wrong) leaves the allowance as it was.
AllowanceSeen(sender, permit) ==
  IF permit \in signed[sender] THEN permit ELSE allowance[sender]

TermsAccepted(amount, expiry) ==
  /\ amount >= MIN_BOUNTY
  /\ expiry >= now + MIN_DURATION

\* Mutant: the allowance is not consulted.
FundUnapproved(sender, amount, expiry, permit) ==
  /\ TermsAccepted(amount, expiry)
  /\ balance[sender] >= amount

\* fund does not revert.
FundAccepted(sender, amount, expiry, permit) ==
  /\ TermsAccepted(amount, expiry)
  /\ AllowanceSeen(sender, permit) >= amount
  /\ balance[sender] >= amount

Fund(sender, amount, expiry, permit) ==
  /\ nextBountyId <= MaxBounties
  /\ FundAccepted(sender, amount, expiry, permit)
  /\ bounties' = [bounties EXCEPT ![nextBountyId] =
                    [funder |-> sender, amount |-> amount, feeSnapshot |-> feeRate,
                     expiry |-> expiry, status |-> "Funded"]]
  /\ nextBountyId' = nextBountyId + 1
  /\ allowance' = [allowance EXCEPT ![sender] = AllowanceSeen(sender, permit) - amount]
  /\ signed' = IF permit \in signed[sender] THEN [signed EXCEPT ![sender] = {}] ELSE signed
  /\ balance' = Moved(balance, sender, Escrow, amount)
  /\ UNCHANGED <<receipt, admin, now, surplus>>

----------------------------------------------------------------------------
\* Mutant: the recipient is not part of what is signed.
RecoverAnyRecipient(id, recipient, sig) ==
  IF sig.domain = ThisDomain /\ sig.bountyId = id THEN sig.signer ELSE NoKey

\* ECDSA.recover over the typed-data digest of (bountyId, recipient): a
\* signature made over anything else recovers to nobody's key.
Recover(id, recipient, sig) ==
  IF sig.domain = ThisDomain /\ sig.bountyId = id /\ sig.recipient = recipient
  THEN sig.signer ELSE NoKey

Disbursable(id) ==
  /\ bounties[id].status = "Funded"
  /\ now < bounties[id].expiry

Settled(id, status) == [bounties EXCEPT ![id].status = status]

Disburse(id, recipient, sig) ==
  LET b        == bounties[id]
      afterFee == Moved(balance, Escrow, treasury, Fee(b))
  IN  /\ recipient # ZeroAddress
      /\ Disbursable(id)
      /\ Recover(id, recipient, sig) = oracleSigner
      /\ balance[Escrow] >= Fee(b)
      /\ afterFee[Escrow] >= Payout(b)
      /\ bounties' = Settled(id, "Disbursed")
      /\ balance' = Moved(afterFee, Escrow, recipient, Payout(b))
      /\ surplus' = surplus + Kept(treasury, Fee(b)) + Kept(recipient, Payout(b))
      /\ receipt' = [receipt EXCEPT ![id] =
                       [to |-> recipient, paid |-> Payout(b), fee |-> Fee(b), at |-> now,
                        by |-> oracleSigner]]
      /\ UNCHANGED <<nextBountyId, admin, allowance, signed, now>>

\* Mutant: refunds need the owner.
RefundableByOwner(id, sender) ==
  /\ bounties[id].status = "Funded"
  /\ sender = owner
  /\ now >= bounties[id].expiry

Refundable(id, sender) ==
  /\ bounties[id].status = "Funded"
  /\ sender = bounties[id].funder
  /\ now >= bounties[id].expiry

\* refund does not revert.
RefundAccepted(id, sender) ==
  /\ Refundable(id, sender)
  /\ balance[Escrow] >= bounties[id].amount

Refund(id, sender) ==
  LET b == bounties[id]
  IN  /\ RefundAccepted(id, sender)
      /\ bounties' = Settled(id, "Refunded")
      /\ balance' = Moved(balance, Escrow, b.funder, b.amount)
      /\ receipt' = [receipt EXCEPT ![id] =
                       [to |-> b.funder, paid |-> b.amount, fee |-> 0, at |-> now,
                        by |-> NoKey]]
      /\ UNCHANGED <<nextBountyId, admin, allowance, signed, now, surplus>>

----------------------------------------------------------------------------
OnlyOwner(sender) == sender = owner

SetFeeRate(sender, rate) ==
  /\ OnlyOwner(sender)
  /\ rate <= MAX_FEE
  /\ feeRate' = rate
  /\ UNCHANGED <<ledger, treasury, oracleSigner, owner, token, now, surplus>>

SetTreasury(sender, account) ==
  /\ OnlyOwner(sender)
  /\ account # ZeroAddress
  /\ treasury' = account
  /\ UNCHANGED <<ledger, feeRate, oracleSigner, owner, token, now, surplus>>

SetOracleKey(sender, key) ==
  /\ OnlyOwner(sender)
  /\ key # ZeroAddress
  /\ oracleSigner' = key
  /\ UNCHANGED <<ledger, feeRate, treasury, owner, token, now, surplus>>

TransferOwnership(sender, account) ==
  /\ OnlyOwner(sender)
  /\ account # ZeroAddress
  /\ owner' = account
  /\ UNCHANGED <<ledger, feeRate, treasury, oracleSigner, token, now, surplus>>

RenounceOwnership(sender) ==
  /\ OnlyOwner(sender)
  /\ owner' = ZeroAddress
  /\ UNCHANGED <<ledger, feeRate, treasury, oracleSigner, token, now, surplus>>

----------------------------------------------------------------------------
TokenStep ==
  \/ \E a \in Party, v \in Amount : SignPermit(a, v)
  \/ \E a \in Party, v \in Amount : ApplyPermit(a, v)
  \/ \E a \in Party, to \in Address, v \in Amount : Transfer(a, to, v)

BountyStep ==
  \/ \E a \in Party, v \in Amount, e \in Expiry, p \in Permit : Fund(a, v, e, p)
  \/ \E id \in BountyId, to \in Address \cup {ZeroAddress}, sig \in Attested :
       Disburse(id, to, sig)
  \/ \E id \in BountyId, a \in Party : Refund(id, a)

AdminStep ==
  \/ \E a \in Party, r \in FeeRate : SetFeeRate(a, r)
  \/ \E a \in Party, t \in Address \cup {ZeroAddress} : SetTreasury(a, t)
  \/ \E a \in Party, k \in Key \cup {ZeroAddress} : SetOracleKey(a, k)
  \/ \E a \in Party, t \in Address \cup {ZeroAddress} : TransferOwnership(a, t)
  \/ \E a \in Party : RenounceOwnership(a)

Next == Tick \/ TokenStep \/ BountyStep \/ AdminStep

Spec == Init /\ [][Next]_vars

\* Blocks keep coming, and a funder whose refund is open keeps asking for it
\* (the refund button of wallet_controller.js): what a dead oracle, a lost
\* owner or a hostile one do is left free.
FunderFairness == \A id \in BountyId : WF_vars(\E a \in Party : Refund(id, a))

FairSpec == Spec /\ WF_vars(Tick) /\ FunderFairness
----------------------------------------------------------------------------
TypeOK ==
  /\ bounties \in [BountyId -> Bounty]
  /\ nextBountyId \in 1..(MaxBounties + 1)
  /\ feeRate \in Nat
  /\ treasury \in Address
  /\ oracleSigner \in Key
  /\ owner \in Address \cup {ZeroAddress}
  /\ balance \in [Address -> Nat]
  /\ allowance \in [Party -> Nat]
  /\ signed \in [Party -> SUBSET (Amount \ {0})]
  /\ now \in Nat
  /\ receipt \in [BountyId -> Receipt]
  /\ surplus \in Nat

\* Conservation: the escrow's token balance is exactly what the funded
\* bounties claim plus what reached it outside fund: no path pays twice,
\* pays too much or strands dust (contracts/test/GitRewardEscrowInvariant.t.sol).
Conservation == balance[Escrow] = FundedTotal + surplus

\* Ids are handed out in order: exactly the ids below the counter are in use.
IdsInOrder == \A id \in BountyId : bounties[id].status = "None" <=> id >= nextBountyId

\* How a bounty that left "Funded" was settled, and that one still there
\* was paid to nobody.
SettledRight(id) ==
  LET b == bounties[id]
      r == receipt[id]
  IN  /\ b.status \in {"None", "Funded"} => r = NoReceipt
      /\ b.status = "Disbursed" =>
           /\ r.at < b.expiry
           /\ r.paid + r.fee = b.amount
           /\ r.fee * FeeDenominator <= b.amount * b.feeSnapshot
           /\ [signer |-> r.by, domain |-> ThisDomain, bountyId |-> id,
               recipient |-> r.to] \in Attested
      /\ b.status = "Refunded" =>
           /\ r.at >= b.expiry
           /\ r.to = b.funder /\ r.paid = b.amount /\ r.fee = 0

\* Settlement: a disbursed bounty was paid before its expiry, to a wallet
\* that the oracle key of that block attested for this id on this deployment,
\* whole, with at most the fee it was funded under; a refunded one was given
\* back whole to its funder, not before its expiry.
Settlement == \A id \in BountyId : SettledRight(id)

\* Only a bounty that was funded has a funder and terms that were accepted.
FundedTerms ==
  \A id \in BountyId :
    bounties[id].status # "None" =>
      bounties[id].funder \in Party /\ bounties[id].amount >= MIN_BOUNTY

\* The advertised cap: no bounty carries a fee above MAX_FEE, so no bounty
\* pays more fee than it holds (line 28).
FeeCapped ==
  /\ feeRate <= MAX_FEE
  /\ \A id \in BountyId : bounties[id].feeSnapshot <= MAX_FEE

\* The inductive invariant of the proofs.
IInv == TypeOK /\ FeeCapped /\ IdsInOrder /\ FundedTerms /\ Settlement /\ Conservation

\* Refunds are the liveness backstop (line 230): once a funded bounty has
\* expired nothing that happened before, admin calls and other bounties'
\* settlements included, makes its refund revert.
RefundNeverBlocked ==
  \A id \in BountyId :
    bounties[id].status = "Funded" /\ now >= bounties[id].expiry
      => \E a \in Party : RefundAccepted(id, a)

\* One-shot lifecycle (line 44): a bounty's terms never change once written,
\* whatever the owner sets later, and its status only moves forward.
TermsFrozen ==
  [][\A id \in BountyId :
       bounties[id].status # "None" =>
         /\ bounties'[id] = [bounties[id] EXCEPT !.status = bounties'[id].status]
         /\ bounties'[id].status # bounties[id].status =>
              /\ bounties[id].status = "Funded"
              /\ bounties'[id].status \in {"Disbursed", "Refunded"}]_vars

\* Submitting somebody's permit first does not defeat the fund call that
\* carries it (lines 161-167).  A call that would be accepted, with whatever
\* permit or on the standing allowance alone, stops being so only when time
\* passes, when its sender's own tokens are spent, or when another permit the
\* sender signed over the same nonce, for less than the call takes, is
\* submitted first: what the admin and every other account do cannot stop it.
FundNotStolen ==
  [][\A a \in Party, v \in Amount, e \in Expiry : \A p \in signed[a] \cup {0} :
       FundAccepted(a, v, e, p) /\ ~ FundAccepted(a, v, e, p)' =>
         \/ now' > now
         \/ balance'[a] < balance[a]
         \/ \E q \in signed[a] \ {p} : q < v /\ ApplyPermit(a, q)]_vars

\* Money never stays locked: every funded bounty is disbursed or refunded.
EveryBountySettles ==
  \A id \in BountyId : bounties[id].status = "Funded"
                         ~> bounties[id].status \in {"Disbursed", "Refunded"}

----------------------------------------------------------------------------
\* The promise a bounty makes, read off the contract's state.
Phase(status) == CASE status = "None"      -> "none"
                   [] status = "Funded"    -> "open"
                   [] status = "Disbursed" -> "paid"
                   [] status = "Refunded"  -> "returned"

Deals == [id \in BountyId |->
           [phase |-> Phase(bounties[id].status), funder |-> bounties[id].funder,
            amount |-> bounties[id].amount, deadline |-> bounties[id].expiry,
            share |-> bounties[id].feeSnapshot]]

Outcomes == [id \in BountyId |->
              [to |-> receipt[id].to, paid |-> receipt[id].paid, fee |-> receipt[id].fee]]

\* The wallets an attestation by some key names for a bounty of this
\* deployment.
Named == {<<sig.bountyId, sig.recipient>> : sig \in {s \in Attested : s.domain = ThisDomain}}

Promise == INSTANCE BountyPromise WITH
  Funder <- Party, Nobody <- ZeroAddress, DealId <- BountyId, Entitled <- Named,
  MinAmount <- MIN_BOUNTY, MinDuration <- MIN_DURATION,
  MaxShare <- MAX_FEE, Denominator <- FeeDenominator,
  deal <- Deals, outcome <- Outcomes, clock <- now

\* The contract keeps the promise: every transaction is a step of the
\* abstract specification, or changes nothing it speaks of.
KeepsPromise == Promise!Spec
=============================================================================

--------------------------- MODULE BountyPromise ---------------------------
(***************************************************************************)
(* What the escrow promises the two sides of every bounty, without tokens, *)
(* allowances, signatures or an owner.  A deal is opened with its terms,   *)
(* the share share/Denominator that may be kept as a fee among them;       *)
(* before the deadline it may be closed once by paying somebody named by   *)
(* an attestation, less at most that share; from the deadline on it can    *)
(* only be closed by giving the whole amount back to who opened it.  See   *)
(* the lifecycle in contracts/src/GitRewardEscrow.sol, lines 44, 52-58 and *)
(* 186-231.                                                                *)
(***************************************************************************)
EXTENDS Integers

CONSTANTS
  Funder,        \* who can open a deal
  Nobody,
  DealId,
  Entitled,      \* <<id, payee>>: an attestation names payee for this deal
  MinAmount, MinDuration, MaxShare, Denominator

VARIABLES
  deal,          \* terms and phase of every deal
  outcome,       \* how it was closed
  clock

promise == <<deal, outcome, clock>>

Unopened == [phase |-> "none", funder |-> Nobody, amount |-> 0, deadline |-> 0, share |-> 0]
Open     == [to |-> Nobody, paid |-> 0, fee |-> 0]

Init ==
  /\ deal = [id \in DealId |-> Unopened]
  /\ outcome = [id \in DealId |-> Open]
  /\ clock = 0

OpenDeal(id) ==
  /\ deal[id].phase = "none"
  /\ LET terms == deal'[id]
     IN  /\ terms = [phase |-> "open", funder |-> terms.funder, amount |-> terms.amount,
                     deadline |-> terms.deadline, share |-> terms.share]
         /\ terms.funder \in Funder
         /\ terms.amount \in Nat /\ terms.amount >= MinAmount
         /\ terms.deadline \in Nat /\ terms.deadline >= clock + MinDuration
         /\ terms.share \in 0..MaxShare
         /\ deal' = [deal EXCEPT ![id] = terms]
  /\ UNCHANGED <<outcome, clock>>

PayOut(id) ==
  /\ deal[id].phase = "open"
  /\ clock < deal[id].deadline
  /\ deal' = [deal EXCEPT ![id].phase = "paid"]
  /\ LET result == outcome'[id]
     IN  /\ result = [to |-> result.to, paid |-> result.paid, fee |-> result.fee]
         /\ <<id, result.to>> \in Entitled
         /\ result.paid \in Nat /\ result.fee \in Nat
         /\ result.paid + result.fee = deal[id].amount
         /\ result.fee * Denominator <= deal[id].amount * deal[id].share
         /\ outcome' = [outcome EXCEPT ![id] = result]
  /\ UNCHANGED clock

GiveBack(id) ==
  /\ deal[id].phase = "open"
  /\ clock >= deal[id].deadline
  /\ deal' = [deal EXCEPT ![id].phase = "returned"]
  /\ outcome' = [outcome EXCEPT ![id] =
                   [to |-> deal[id].funder, paid |-> deal[id].amount, fee |-> 0]]
  /\ UNCHANGED clock

Pass ==
  /\ clock' = clock + 1
  /\ UNCHANGED <<deal, outcome>>

Next == Pass \/ \E id \in DealId : OpenDeal(id) \/ PayOut(id) \/ GiveBack(id)

Spec == Init /\ [][Next]_promise
=============================================================================

----------------------------- MODULE FundingFlow -----------------------------
(***************************************************************************)
(* Funding and refunding a bounty from the browser: the pages' script      *)
(* platform/app/javascript/controllers/wallet_controller.js, the wallet it *)
(* talks to, the actions of bounties_controller.rb it posts to, and as     *)
(* much of the chain and of the indexer as decides what becomes of a       *)
(* transaction.                                                            *)
(*                                                                         *)
(* A repository has one maintainer (current_user_repositories), who may    *)
(* open it in several tabs and use several accounts of one wallet.  A tab  *)
(* is cut at every await of the script; there the wallet, the chain, the   *)
(* server and other tabs move.  A transaction is named by its position in  *)
(* `txs', which stands for its hash, and a bounty by the transaction that  *)
(* funded it.  Amounts are base units of USDC, times hours.                *)
(***************************************************************************)
EXTENDS Totals, Sequences

CONSTANTS
  Tab, Account, Issue, None,
  Amount,          \* amounts typed into the form
  Days,            \* expiries typed into the form
  Rate,            \* fee rates the escrow's owner sets
  FallbackRate,    \* live_fee_bps when the chain cannot be reached
  Lag,             \* hours the browser's clock may be behind the chain's
  MinAmount, MinDays, HOUR, DAY, FeeDenominator,
  CENT,            \* base units in the smallest amount the page shows
  MaxTime, MaxTx   \* bounds

ASSUME FundingAssumption ==
  /\ None \notin Issue
  /\ Amount \subseteq Nat
  /\ Days \subseteq Nat
  /\ Rate \subseteq 0..FeeDenominator
  /\ FallbackRate \in 0..FeeDenominator
  /\ Lag \subseteq Nat
  /\ MinDays \in Nat /\ HOUR \in Nat \ {0} /\ DAY \in Nat \ {0}
  /\ FeeDenominator \in Nat \ {0} /\ CENT \in Nat \ {0}
  /\ MaxTime \in Nat /\ MaxTx \in Nat

VARIABLES
  tab,        \* the page of each tab and the call its script is waiting for
  wallet,     \* the account selected in the wallet
  rows,       \* bounties table, by funding transaction
  now,
  txs,        \* transactions sent from the tabs
  permits,    \* per account, the transactions whose permit the token has taken
  allowance,  \* what the escrow may take from each account
  log,        \* the escrow's events
  cursor      \* how many of them the indexer has handled

browser == <<tab, wallet>>
token   == <<permits, allowance>>
chain   == <<now, txs, log>>
vars    == <<browser, rows, chain, token, cursor>>

MIN_DURATION == MinDays * DAY

Blank == [pc |-> "closed", page |-> None, offered |-> {}, shown |-> 0, bounty |-> 0,
          issue |-> None, amount |-> 0, expiry |-> 0, deadline |-> 0,
          account |-> None, nonce |-> 0, tx |-> 0]

NoRow == [status |-> "none", issue |-> None, amount |-> 0, fee |-> 0, refund |-> 0]

Init ==
  /\ tab = [t \in Tab |-> Blank]
  /\ wallet \in Account
  /\ rows = [h \in 1..MaxTx |-> NoRow]
  /\ now = 0
  /\ txs = <<>>
  /\ permits = [a \in Account |-> <<>>]
  /\ allowance = [a \in Account |-> 0]
  /\ log = <<>>
  /\ cursor = 0

----------------------------------------------------------------------------
(* The chain: the mempool, the token's permits, the escrow. *)

Event(kind, h, tx, fee) == [kind |-> kind, bounty |-> h, tx |-> tx, fee |-> fee]

Events == {log[i] : i \in DOMAIN log}

FundedAt(h)  == {e \in Events : e.kind = "Funded" /\ e.bounty = h}
SettledAt(h) == {e \in Events : e.kind # "Funded" /\ e.bounty = h}

Open(h) == FundedAt(h) # {} /\ SettledAt(h) = {}

\* A wallet's transactions are mined in the order it numbered them.
Next1(h) ==
  /\ txs[h].state = "pending"
  /\ \A q \in 1..(h - 1) : txs[q].by = txs[h].by => txs[q].state # "pending"

Ends(h, state) == txs' = [txs EXCEPT ![h].state = state]

PermitValid(h) ==
  /\ now <= txs[h].deadline
  /\ txs[h].nonce = Len(permits[txs[h].by])

Take(h) == permits' = [permits EXCEPT ![txs[h].by] = Append(@, h)]

\* Anyone may submit a permit seen in the mempool on its own, while its
\* transaction waits or long after it was lost or reverted: the permit is
\* good until its nonce is used or its deadline passes.
FrontRun(h) ==
  /\ txs[h].kind = "fund"
  /\ PermitValid(h)
  /\ Take(h)
  /\ allowance' = [allowance EXCEPT ![txs[h].by] = txs[h].value]
  /\ UNCHANGED <<browser, rows, chain, cursor>>

AllowanceSeen(h) == IF PermitValid(h) THEN txs[h].value ELSE allowance[txs[h].by]

ExpiryAccepted(h) == txs[h].expiry >= now + MIN_DURATION

\* The escrow's fund, at the rate its owner has set by then: a permit that
\* fails is caught, the transfer is not.
MineFund(h, rate) ==
  /\ txs[h].kind = "fund" /\ Next1(h)
  /\ ExpiryAccepted(h)
  /\ AllowanceSeen(h) >= txs[h].amount
  /\ IF PermitValid(h) THEN Take(h) ELSE UNCHANGED permits
  /\ allowance' = [allowance EXCEPT ![txs[h].by] = AllowanceSeen(h) - txs[h].amount]
  /\ log' = Append(log, Event("Funded", h, h, rate))
  /\ Ends(h, "mined")
  /\ UNCHANGED <<browser, rows, now, cursor>>

\* The escrow's refund.
MineRefund(h) ==
  LET b == txs[h].bounty
  IN  /\ txs[h].kind = "refund" /\ Next1(h)
      /\ Open(b)
      /\ txs[b].by = txs[h].by
      /\ now >= txs[b].expiry
      /\ log' = Append(log, Event("Refunded", b, h, 0))
      /\ Ends(h, "mined")
      /\ UNCHANGED <<browser, rows, now, token, cursor>>

\* Whatever the escrow would say, a transaction can also revert because gas
\* or balance run out, be replaced, or leave the mempool.
Lose(h) ==
  /\ Next1(h)
  /\ Ends(h, "lost")
  /\ UNCHANGED <<browser, rows, now, token, log, cursor>>

\* disburse, by the payout pipeline.
Disburse(h) ==
  /\ Open(h)
  /\ now < txs[h].expiry
  /\ log' = Append(log, Event("Disbursed", h, 0, 0))
  /\ UNCHANGED <<browser, rows, now, txs, token, cursor>>

Tick ==
  /\ now < MaxTime
  /\ now' = now + 1
  /\ UNCHANGED <<browser, rows, txs, token, log, cursor>>

----------------------------------------------------------------------------
(* The indexer, reduced to one event at a time, in order and unfailing. *)

\* Mutant: any row of the same issue will do.
RowByIssue(e) ==
  {h \in 1..MaxTx : rows[h] # NoRow /\ rows[h].issue = txs[e.bounty].issue}

\* The row of a funding transaction, by its hash.
FundedRow(e) == {h \in 1..MaxTx : rows[h] # NoRow /\ h = e.bounty}

\* The row that has the chain's id: only on_funded writes it.
SettledRow(e) ==
  {h \in 1..MaxTx : rows[h].status \notin {"none", "pending"} /\ h = e.bounty}

Funded(row, e) == [row EXCEPT !.status = "funded", !.fee = e.fee]

Settled(row, e) ==
  IF e.kind = "Refunded" THEN [row EXCEPT !.status = "refunded", !.refund = e.tx]
                         ELSE [row EXCEPT !.status = "disbursed"]

Index ==
  LET e == log[cursor + 1]
  IN  /\ cursor < Len(log)
      /\ cursor' = cursor + 1
      /\ rows' = [h \in 1..MaxTx |->
                    IF e.kind = "Funded" /\ h \in FundedRow(e) THEN Funded(rows[h], e)
                    ELSE IF e.kind # "Funded" /\ h \in SettledRow(e) THEN Settled(rows[h], e)
                    ELSE rows[h]]
      /\ UNCHANGED <<browser, chain, token>>

----------------------------------------------------------------------------
(* The pages. *)

Active == {"pending", "funded"}

Taken(i) == \E h \in 1..MaxTx : rows[h].status \in Active /\ rows[h].issue = i

\* The funding form: the issues without an active bounty, or none if GitHub
\* does not answer, and the fee as it is now or the default.
OpenForm(t) ==
  /\ tab[t].pc = "closed"
  /\ \E rate \in Rate \cup {FallbackRate}, free \in {{}, {i \in Issue : ~ Taken(i)}} :
       tab' = [tab EXCEPT ![t] = [Blank EXCEPT !.pc = "ready", !.page = "form",
                                               !.shown = rate, !.offered = free]]
  /\ UNCHANGED <<wallet, rows, chain, token, cursor>>

\* The page of a bounty, when it has the refund button.
OpenBounty(t, h) ==
  /\ tab[t].pc = "closed"
  /\ rows[h].status = "funded"
  /\ txs[h].expiry < now
  /\ tab' = [tab EXCEPT ![t] = [Blank EXCEPT !.pc = "ready", !.page = "bounty", !.bounty = h]]
  /\ UNCHANGED <<wallet, rows, chain, token, cursor>>

\* Reloaded, left or crashed, at any point.
Close(t) ==
  /\ tab[t].pc # "closed"
  /\ tab' = [tab EXCEPT ![t] = Blank]
  /\ UNCHANGED <<wallet, rows, chain, token, cursor>>

\* The user selects another account.
SwitchWallet(a) ==
  /\ wallet' = a
  /\ UNCHANGED <<tab, rows, chain, token, cursor>>

----------------------------------------------------------------------------
(* The script. *)

At(t, pc) == tab[t].pc = pc

\* Mutant: the fee is added to what the contributor gets.
RecalcPlus(v, r) == (2 * v * (FeeDenominator + r) + FeeDenominator * CENT)
                      \div (2 * FeeDenominator * CENT)

\* recalc: the net amount the form shows, rounded to cents (toFixed).
Recalc(v, r) == (2 * v * (FeeDenominator - r) + FeeDenominator * CENT)
                  \div (2 * FeeDenominator * CENT)

Idle(t) == [Blank EXCEPT !.pc = "ready", !.page = tab[t].page, !.shown = tab[t].shown,
                         !.offered = tab[t].offered, !.bounty = tab[t].bounty]

\* Mutant: the expiry is what the days say, without the extra hour.
FormExpiryBare(clock, d) == clock + d * DAY

FormExpiry(clock, d) == clock + d * DAY + HOUR

\* fund, up to its first await: refused inputs leave the page as it is.
ClickFund(t, i, v, d, lag) ==
  /\ At(t, "ready") /\ tab[t].page = "form"
  /\ i \in tab[t].offered
  /\ v >= MinAmount
  /\ d >= MinDays
  /\ tab' = [tab EXCEPT ![t] = [@ EXCEPT !.pc = "connect", !.issue = i, !.amount = v,
                                  !.expiry = FormExpiry(now - lag, d),
                                  !.deadline = now - lag + HOUR]]
  /\ UNCHANGED <<wallet, rows, chain, token, cursor>>

\* refund, up to its first await.
ClickRefund(t) ==
  /\ At(t, "ready") /\ tab[t].page = "bounty"
  /\ tab' = [tab EXCEPT ![t].pc = "connect"]
  /\ UNCHANGED <<wallet, rows, chain, token, cursor>>

\* requestAddresses and ensureChain: the account selected now is used to the
\* end, and the wallet is on our chain, is switched to it, or is taught it.
\* (If it leaves that chain again, what follows fails.)
Connect(t) ==
  /\ At(t, "connect")
  /\ tab' = [tab EXCEPT ![t].pc = IF tab[t].page = "form" THEN "read" ELSE "send",
                         ![t].account = wallet]
  /\ UNCHANGED <<wallet, rows, chain, token, cursor>>

\* The token's name and the account's permit nonce.
ReadPermit(t) ==
  /\ At(t, "read")
  /\ tab' = [tab EXCEPT ![t].pc = "send", ![t].nonce = Len(permits[tab[t].account])]
  /\ UNCHANGED <<wallet, rows, chain, token, cursor>>

\* Mutant: the permit is for more than this bounty.
PermitValueTwice(v) == 2 * v

\* permitValue, the allowance signed and passed to fund.
PermitValue(v) == v

\* The user signs the permit and the transaction (signTypedData,
\* writeContract), which is in the mempool once its hash is known.
Send(t) ==
  LET p == tab[t]
  IN  /\ At(t, "send")
      /\ Len(txs) < MaxTx
      /\ txs' = Append(txs,
                  [kind |-> IF p.page = "form" THEN "fund" ELSE "refund",
                   by |-> p.account, issue |-> p.issue, amount |-> p.amount,
                   value |-> PermitValue(p.amount), nonce |-> p.nonce, shown |-> p.shown,
                   deadline |-> p.deadline, expiry |-> p.expiry, bounty |-> p.bounty,
                   state |-> "pending"])
      /\ tab' = [tab EXCEPT ![t].pc = "record", ![t].tx = Len(txs) + 1]
      /\ UNCHANGED <<wallet, rows, now, token, log, cursor>>

\* BountiesController#create: a pending row, unless the index over active
\* rows of the issue refuses it.
Created(p) ==
  [rows EXCEPT ![p.tx] = [status |-> "pending", issue |-> p.issue, amount |-> p.amount,
                          fee |-> p.shown, refund |-> 0]]

\* BountiesController#refund: the hash is stored whatever the row says.
RefundSaved(p) == [rows EXCEPT ![p.bounty].refund = p.tx]

\* The POST; its answer may be lost, and then the script reports a failure.
Record(t) ==
  LET p == tab[t]
      refused == p.page = "form" /\ Taken(p.issue)
  IN  /\ At(t, "record")
      /\ rows' = IF refused THEN rows ELSE IF p.page = "form" THEN Created(p) ELSE RefundSaved(p)
      /\ \/ ~ refused /\ tab' = [tab EXCEPT ![t] = Blank]
         \/ tab' = [tab EXCEPT ![t] = Idle(t)]
      /\ UNCHANGED <<wallet, chain, token, cursor>>

Busy(t) == tab[t].pc \notin {"closed", "ready"}

\* Mutant: an error that is not caught leaves the button disabled.
AfterFailureUncaught(t) == [tab[t] EXCEPT !.pc = "hung"]

\* fail: the message is shown and the button works again.
AfterFailure(t) == Idle(t)

\* The user rejects, the wallet is elsewhere, the RPC or the POST fails.
Fail(t) ==
  /\ Busy(t)
  /\ tab[t].pc # "hung"
  /\ tab' = [tab EXCEPT ![t] = AfterFailure(t)]
  /\ UNCHANGED <<wallet, rows, chain, token, cursor>>

----------------------------------------------------------------------------
Answer(t) ==
  Connect(t) \/ ReadPermit(t) \/ Send(t) \/ Record(t) \/ Fail(t)

UserStep(t) ==
  \/ OpenForm(t) \/ Close(t) \/ ClickRefund(t)
  \/ \E h \in DOMAIN txs : OpenBounty(t, h)
  \/ \E i \in Issue, v \in Amount, d \in Days, lag \in Lag : ClickFund(t, i, v, d, lag)

ChainStep ==
  \/ Tick
  \/ \E h \in DOMAIN txs :
       \/ FrontRun(h) \/ MineRefund(h) \/ Lose(h) \/ Disburse(h)
       \/ \E rate \in Rate : MineFund(h, rate)

Next ==
  \/ \E t \in Tab : UserStep(t) \/ Answer(t)
  \/ \E a \in Account : SwitchWallet(a)
  \/ ChainStep
  \/ Index

Spec == Init /\ [][Next]_vars

----------------------------------------------------------------------------
Tx == [kind : {"fund", "refund"}, by : Account, issue : Issue \cup {None},
       amount : Nat, value : Nat, nonce : Nat, shown : Nat, deadline : Int,
       expiry : Int, bounty : Nat, state : {"pending", "mined", "lost"}]

TabState ==
  [pc : {"closed", "ready", "connect", "read", "send", "record"},
   page : {"form", "bounty", None}, offered : SUBSET Issue, shown : Nat, bounty : Nat,
   issue : Issue \cup {None}, amount : Nat, expiry : Int, deadline : Int,
   account : Account \cup {None}, nonce : Nat, tx : Nat]

BountyRow ==
  [status : {"none", "pending", "funded", "disbursed", "refunded"},
   issue : Issue \cup {None}, amount : Nat, fee : Nat, refund : Nat]

EscrowEvent == [kind : {"Funded", "Disbursed", "Refunded"}, bounty : Nat, tx : Nat, fee : Nat]

TypeOK ==
  /\ tab \in [Tab -> TabState]
  /\ wallet \in Account
  /\ rows \in [1..MaxTx -> BountyRow]
  /\ now \in Nat
  /\ txs \in Seq(Tx)
  /\ permits \in [Account -> Seq(Nat)]
  /\ allowance \in [Account -> Nat]
  /\ log \in Seq(EscrowEvent)
  /\ cursor \in Nat
----------------------------------------------------------------------------
\* What a's bounties took, and what a typed into the forms whose permits the
\* token has taken.
Spent(a) == SumTo([h \in 1..MaxTx |-> IF h \in DOMAIN txs /\ txs[h].by = a /\ FundedAt(h) # {}
                                      THEN txs[h].amount ELSE 0], MaxTx)

Permitted(h) == \E i \in DOMAIN permits[txs[h].by] : permits[txs[h].by][i] = h

SignedFor(a) == SumTo([h \in 1..MaxTx |-> IF h \in DOMAIN txs /\ txs[h].by = a /\ Permitted(h)
                                          THEN txs[h].amount ELSE 0], MaxTx)

(* Retries after an error, a second tab on the same nonce, a permit that     *)
(* somebody else submits first: what the escrow took from an account and may *)
(* still take is never more than the user typed into forms and signed for.   *)
(* The page signs for exactly the amount it funds (wallet_controller.js      *)
(* 123-144).                                                                 *)
SignedForAll == \A a \in Account : Spent(a) + allowance[a] <= SignedFor(a)

(* As long as the permit of a fund transaction can be used, so can its       *)
(* expiry, even the shortest, however long wallet and mempool take and       *)
(* however far the browser's clock is behind: the extra hour of              *)
(* wallet_controller.js 100-104 is the permit's hour.                        *)
BufferHolds ==
  \A h \in DOMAIN txs :
    txs[h].kind = "fund" /\ txs[h].state = "pending" /\ now <= txs[h].deadline
      => ExpiryAccepted(h)

Seen == {log[i] : i \in 1..cursor}

(* A row stops being pending only when its own transaction has funded a      *)
(* bounty, and then says what the events handled so far say: the fee that is *)
(* charged rather than the one the form showed, and how the bounty ended     *)
(* (bounties_controller.rb 37-39, event_indexer.rb 55-95).                   *)
RowsFollowChain ==
  \A h \in 1..MaxTx : rows[h].status \notin {"none", "pending"} =>
    /\ h \in DOMAIN txs /\ rows[h].amount = txs[h].amount
    /\ \E e \in Seen : e.kind = "Funded" /\ e.bounty = h /\ e.fee = rows[h].fee
    /\ \A kind \in {"Disbursed", "Refunded"} :
         (\E e \in Seen : e.kind = kind /\ e.bounty = h)
           <=> rows[h].status = (IF kind = "Refunded" THEN "refunded" ELSE "disbursed")

\* payout_base_units, which computes what the escrow does.
Payout(v, r) == v - (v * r) \div FeeDenominator

(* If the fee charged is the one the form showed, the payout is the amount   *)
(* the form showed, to the cent: the page computes with rounded fractions    *)
(* (wallet_controller.js 24-33), the contract rounds the fee down.           *)
ShownNetClose ==
  \A e \in Events :
    e.kind = "Funded" /\ e.fee = txs[e.bounty].shown =>
      LET gap == Recalc(txs[e.bounty].amount, e.fee) * CENT - Payout(txs[e.bounty].amount, e.fee)
      IN  2 * gap <= CENT /\ 2 * gap >= - CENT - 2
=============================================================================

-------------------------- MODULE FundingFlowProofs --------------------------
(***************************************************************************)
(* Theorems about the funding form and the refund button, for any number   *)
(* of tabs, accounts, issues and transactions, any amounts, expiries and   *)
(* rates, and any lag of the browser's clock.                              *)
(***************************************************************************)
EXTENDS FundingFlow, TotalsProofs

\* A deadline that is kept keeps the expiry, even the shortest.
Buffered(expiry, deadline) == expiry >= deadline + MIN_DURATION

\* What a page is sure of, of the transactions T and the rows R.
Holds(p, T, R) ==
  /\ p.pc \in {"connect", "read", "send"} /\ p.page = "form" => Buffered(p.expiry, p.deadline)
  /\ p.pc \in {"read", "send"} => p.account \in Account
  /\ p.pc # "closed" => p.page \in {"form", "bounty"}
  /\ p.pc # "closed" /\ p.page = "bounty" => p.bounty \in 1..MaxTx /\ R[p.bounty].status # "none"
  /\ p.pc = "record" => p.tx \in DOMAIN T /\ T[p.tx].amount = p.amount

TabsHold == \A t \in Tab : Holds(tab[t], txs, rows)

\* The permit of a transaction is for its amount, and its expiry is buffered.
TxsSound ==
  /\ Len(txs) <= MaxTx
  /\ \A h \in DOMAIN txs :
       /\ txs[h].value = txs[h].amount
       /\ txs[h].kind = "fund" => Buffered(txs[h].expiry, txs[h].deadline)

\* The position of a permit that was taken is its nonce.
PermitsInOrder ==
  \A a \in Account : \A i \in DOMAIN permits[a] :
    /\ permits[a][i] \in DOMAIN txs
    /\ txs[permits[a][i]].by = a
    /\ txs[permits[a][i]].nonce = i - 1

\* A bounty is funded by its own transaction, once; it is settled once, and
\* after it was funded.
LogTrue(l, T) ==
  /\ \A i \in DOMAIN l : /\ l[i].bounty \in DOMAIN T
                         /\ l[i].kind = "Funded" => T[l[i].bounty].state = "mined"
  /\ \A i, j \in DOMAIN l :
       l[i].bounty = l[j].bounty /\ (l[i].kind = "Funded" <=> l[j].kind = "Funded") => i = j
  /\ \A j \in DOMAIN l : l[j].kind # "Funded" =>
       \E i \in 1..(j - 1) : l[i].kind = "Funded" /\ l[i].bounty = l[j].bounty

\* A row is that of a transaction that was sent.
RowsPosted ==
  \A h \in 1..MaxTx :
    IF rows[h].status = "none" THEN rows[h] = NoRow
    ELSE h \in DOMAIN txs /\ rows[h].amount = txs[h].amount

IInv ==
  /\ TypeOK /\ TabsHold /\ TxsSound /\ PermitsInOrder /\ LogTrue(log, txs) /\ RowsPosted
  /\ cursor <= Len(log) /\ SignedForAll /\ RowsFollowChain

----------------------------------------------------------------------------
\* Steps of the pages, which change nothing else.
PageStep ==
  \/ \E t \in Tab : UserStep(t) \/ Connect(t) \/ ReadPermit(t) \/ Fail(t)
  \/ \E a \in Account : SwitchWallet(a)

\* Constants, as numbers.
LEMMA Numbers ==
  /\ MIN_DURATION \in Nat /\ MaxTx \in Nat /\ MaxTime \in Nat /\ HOUR \in Nat
  /\ Rate \subseteq Nat /\ FallbackRate \in Nat
  /\ \A d \in Days, lag \in Lag, clock \in Nat :
       /\ clock - lag \in Int
       /\ FormExpiry(clock - lag, d) \in Int /\ clock - lag + HOUR \in Int
       /\ d >= MinDays => Buffered(FormExpiry(clock - lag, d), clock - lag + HOUR)
<1> USE FundingAssumption
<1>1. MinDays \in Nat /\ DAY \in Nat /\ HOUR \in Nat /\ MinDays * DAY \in Nat
  OBVIOUS
<1>2. Rate \subseteq Nat /\ FallbackRate \in Nat
  OBVIOUS
<1>3. ASSUME NEW d \in Days, NEW lag \in Lag, NEW clock \in Nat
      PROVE  /\ clock - lag \in Int
             /\ FormExpiry(clock - lag, d) \in Int /\ clock - lag + HOUR \in Int
             /\ d >= MinDays => Buffered(FormExpiry(clock - lag, d), clock - lag + HOUR)
  <2>1. d \in Nat /\ lag \in Nat /\ d * DAY \in Nat
    OBVIOUS
  <2>2. d >= MinDays => d * DAY >= MinDays * DAY
    BY <1>1, <2>1
  <2> DEFINE x == d * DAY
             y == MinDays * DAY
  <2>3. x \in Nat /\ y \in Nat /\ (d >= MinDays => x >= y)
    BY <1>1, <2>1, <2>2
  <2>4. FormExpiry(clock - lag, d) = (clock - lag) + x + HOUR /\ MIN_DURATION = y
    BY DEF FormExpiry, MIN_DURATION
  <2> HIDE DEF x, y
  <2> QED  BY <1>1, <1>3, <2>1, <2>3, <2>4 DEF Buffered
<1> QED  BY <1>1, <1>2, <1>3 DEF MIN_DURATION

\* The step leaves everything but the pages and the wallet as it is.
LEMMA PagesOnly ==
  ASSUME PageStep
  PROVE  UNCHANGED <<rows, chain, token, cursor>>
<1>1. ASSUME NEW t \in Tab, UserStep(t) PROVE UNCHANGED <<rows, chain, token, cursor>>
  BY <1>1 DEF UserStep, OpenForm, Close, ClickRefund, OpenBounty, ClickFund
<1>2. ASSUME NEW t \in Tab, Connect(t) \/ ReadPermit(t) \/ Fail(t)
      PROVE  UNCHANGED <<rows, chain, token, cursor>>
  BY <1>2 DEF Connect, ReadPermit, Fail
<1>3. ASSUME NEW a \in Account, SwitchWallet(a) PROVE UNCHANGED <<rows, chain, token, cursor>>
  BY <1>3 DEF SwitchWallet
<1> QED  BY <1>1, <1>2, <1>3 DEF PageStep

LEMMA NextIs ==
  ASSUME Next
  PROVE  \/ PageStep \/ Tick \/ Index
         \/ \E t \in Tab : Send(t) \/ Record(t)
         \/ \E h \in DOMAIN txs : FrontRun(h) \/ MineRefund(h) \/ Lose(h) \/ Disburse(h)
                                  \/ \E rate \in Rate : MineFund(h, rate)
BY DEF Next, PageStep, Answer, ChainStep

\* A page whose script has failed or ended is idle.
LEMMA IdleHolds ==
  ASSUME IInv, NEW t \in Tab, tab[t].pc \in {"ready", "connect", "read", "send", "record"}
  PROVE  Idle(t) \in TabState /\ Holds(Idle(t), txs, rows)
<1>0. tab[t] \in TabState /\ Holds(tab[t], txs, rows) /\ Blank \in TabState
  BY DEF IInv, TypeOK, TabsHold, Blank, TabState
<1>1. /\ Idle(t) \in TabState /\ Idle(t).pc = "ready" /\ Idle(t).page = tab[t].page
      /\ Idle(t).bounty = tab[t].bounty
  BY <1>0 DEF Idle, Blank, TabState
<1> QED  BY <1>0, <1>1 DEF Holds

\* A page after a step of the pages.
LEMMA PageTypes ==
  ASSUME IInv, PageStep
  PROVE  tab' \in [Tab -> TabState] /\ wallet' \in Account /\ TabsHold'
<1> USE DEF IInv
<1>0. /\ tab \in [Tab -> TabState] /\ wallet \in Account /\ now \in Nat
      /\ UNCHANGED <<rows, chain, token, cursor>>
      /\ permits \in [Account -> Seq(Nat)] /\ rows \in [1..MaxTx -> BountyRow]
      /\ Blank \in TabState
  BY PagesOnly DEF TypeOK, Blank, TabState
<1>1. ASSUME NEW t \in Tab, NEW p \in TabState, tab' = [tab EXCEPT ![t] = p], Holds(p, txs, rows),
             wallet' = wallet
      PROVE  tab' \in [Tab -> TabState] /\ wallet' \in Account /\ TabsHold'
  <2>1. \A u \in Tab : tab'[u] = IF u = t THEN p ELSE tab[u]
    BY <1>0, <1>1
  <2> QED  BY <1>0, <1>1, <2>1 DEF TabsHold, chain
<1>2. ASSUME NEW t \in Tab, OpenForm(t) PROVE tab' \in [Tab -> TabState] /\ wallet' \in Account /\ TabsHold'
  <2>1. PICK rate \in Rate \cup {FallbackRate}, free \in {{}, {i \in Issue : ~ Taken(i)}} :
          tab' = [tab EXCEPT ![t] = [Blank EXCEPT !.pc = "ready", !.page = "form",
                                                  !.shown = rate, !.offered = free]]
    BY <1>2 DEF OpenForm
  <2> DEFINE p == [Blank EXCEPT !.pc = "ready", !.page = "form", !.shown = rate, !.offered = free]
  <2>2. rate \in Nat /\ free \in SUBSET Issue
    BY Numbers
  <2>3. p \in TabState /\ p.pc = "ready" /\ p.page = "form"
    BY <1>0, <2>2 DEF TabState, Blank
  <2>4. Holds(p, txs, rows)
    BY <2>3 DEF Holds
  <2> HIDE DEF p
  <2> QED  BY <1>1, <1>2, <2>1, <2>3, <2>4 DEF OpenForm, p
<1>3. ASSUME NEW t \in Tab, Close(t) PROVE tab' \in [Tab -> TabState] /\ wallet' \in Account /\ TabsHold'
  <2>1. Holds(Blank, txs, rows)
    BY FundingAssumption DEF Holds, Blank
  <2> QED  BY <1>0, <1>1, <1>3, <2>1 DEF Close
<1>4. ASSUME NEW t \in Tab, NEW h \in DOMAIN txs, OpenBounty(t, h)
      PROVE tab' \in [Tab -> TabState] /\ wallet' \in Account /\ TabsHold'
  <2> DEFINE p == [Blank EXCEPT !.pc = "ready", !.page = "bounty", !.bounty = h]
  <2>1. Len(txs) \in Nat /\ Len(txs) <= MaxTx /\ DOMAIN txs = 1..Len(txs)
    BY DEF TypeOK, TxsSound
  <2>2. h \in Nat /\ h \in 1..MaxTx
    BY <2>1, Numbers
  <2>3. p \in TabState /\ p.pc = "ready" /\ p.page = "bounty" /\ p.bounty = h
    BY <1>0, <2>2 DEF TabState, Blank
  <2>4. rows[h].status # "none" /\ wallet' = wallet /\ tab' = [tab EXCEPT ![t] = p]
    BY <1>4 DEF OpenBounty
  <2> HIDE DEF p
  <2>5. Holds(p, txs, rows)
    BY <2>2, <2>3, <2>4 DEF Holds
  <2> QED  BY <1>1, <2>3, <2>4, <2>5
<1>5. ASSUME NEW t \in Tab, ClickRefund(t)
      PROVE tab' \in [Tab -> TabState] /\ wallet' \in Account /\ TabsHold'
  <2> DEFINE p == [tab[t] EXCEPT !.pc = "connect"]
  <2>1. p \in TabState /\ p.pc = "connect" /\ p.page = tab[t].page /\ p.bounty = tab[t].bounty
    BY <1>0 DEF TabState
  <2>2. /\ Holds(tab[t], txs, rows) /\ tab[t].pc = "ready" /\ tab[t].page = "bounty"
        /\ tab' = [tab EXCEPT ![t] = p] /\ wallet' = wallet
    BY <1>5 DEF ClickRefund, At, TabsHold
  <2> HIDE DEF p
  <2>3. Holds(p, txs, rows)
    BY <2>1, <2>2 DEF Holds
  <2> QED  BY <1>1, <2>1, <2>2, <2>3
<1>6. ASSUME NEW t \in Tab, NEW i \in Issue, NEW v \in Amount, NEW d \in Days, NEW lag \in Lag,
             ClickFund(t, i, v, d, lag)
      PROVE tab' \in [Tab -> TabState] /\ wallet' \in Account /\ TabsHold'
  <2> DEFINE x == FormExpiry(now - lag, d)
             y == now - lag + HOUR
             p == [tab[t] EXCEPT !.pc = "connect", !.issue = i, !.amount = v, !.expiry = x,
                                 !.deadline = y]
  <2>1. x \in Int /\ y \in Int /\ v \in Nat /\ (d >= MinDays => Buffered(x, y))
    BY <1>0, Numbers, FundingAssumption
  <2>2. /\ tab[t].pc = "ready" /\ tab[t].page = "form" /\ d >= MinDays
        /\ tab' = [tab EXCEPT ![t] = p] /\ wallet' = wallet /\ Holds(tab[t], txs, rows)
    BY <1>6 DEF ClickFund, At, TabsHold
  <2> HIDE DEF x, y
  <2>3. /\ p \in TabState /\ p.pc = "connect" /\ p.page = tab[t].page /\ p.bounty = tab[t].bounty
        /\ p.expiry = x /\ p.deadline = y
    BY <1>0, <2>1 DEF TabState
  <2> HIDE DEF p
  <2>4. Holds(p, txs, rows)
    BY <2>1, <2>2, <2>3 DEF Holds
  <2> QED  BY <1>1, <2>2, <2>3, <2>4
<1>7. ASSUME NEW t \in Tab, Connect(t) PROVE tab' \in [Tab -> TabState] /\ wallet' \in Account /\ TabsHold'
  <2> DEFINE pc == IF tab[t].page = "form" THEN "read" ELSE "send"
             p  == [tab[t] EXCEPT !.pc = pc, !.account = wallet]
  <2>1. /\ p \in TabState /\ p.pc = pc /\ p.page = tab[t].page /\ p.bounty = tab[t].bounty
        /\ p.expiry = tab[t].expiry /\ p.deadline = tab[t].deadline /\ p.account = wallet
    BY <1>0 DEF TabState
  <2>2. /\ tab[t].pc = "connect" /\ Holds(tab[t], txs, rows)
        /\ tab' = [tab EXCEPT ![t] = p] /\ wallet' = wallet
    BY <1>7 DEF Connect, At, TabsHold
  <2>3. pc \in {"read", "send"}
    OBVIOUS
  <2> HIDE DEF p, pc
  <2>4. Holds(p, txs, rows)
    BY <1>0, <2>1, <2>2, <2>3 DEF Holds
  <2> QED  BY <1>1, <2>1, <2>2, <2>4
<1>8. ASSUME NEW t \in Tab, ReadPermit(t) PROVE tab' \in [Tab -> TabState] /\ wallet' \in Account /\ TabsHold'
  <2> DEFINE n == Len(permits[tab[t].account])
             p == [tab[t] EXCEPT !.pc = "send", !.nonce = n]
  <2>1. /\ tab[t].pc = "read" /\ Holds(tab[t], txs, rows)
        /\ tab' = [tab EXCEPT ![t] = p] /\ wallet' = wallet
    BY <1>8 DEF ReadPermit, At, TabsHold
  <2>2. tab[t].account \in Account
    BY <2>1 DEF Holds
  <2>3. n \in Nat
    BY <1>0, <2>2
  <2> HIDE DEF n
  <2>4. /\ p \in TabState /\ p.pc = "send" /\ p.page = tab[t].page /\ p.bounty = tab[t].bounty
        /\ p.expiry = tab[t].expiry /\ p.deadline = tab[t].deadline /\ p.account = tab[t].account
    BY <1>0, <2>3 DEF TabState
  <2> HIDE DEF p
  <2>5. Holds(p, txs, rows)
    BY <2>1, <2>2, <2>4 DEF Holds
  <2> QED  BY <1>1, <2>1, <2>4, <2>5
<1>9. ASSUME NEW t \in Tab, Fail(t) PROVE tab' \in [Tab -> TabState] /\ wallet' \in Account /\ TabsHold'
  <2>1. /\ tab[t].pc \notin {"closed", "ready"} /\ Holds(tab[t], txs, rows)
        /\ tab' = [tab EXCEPT ![t] = Idle(t)] /\ wallet' = wallet
    BY <1>9 DEF Fail, Busy, AfterFailure, TabsHold
  <2>2. tab[t].pc \in {"connect", "read", "send", "record"}
    BY <1>0, <2>1 DEF TabState
  <2>3. Idle(t) \in TabState /\ Holds(Idle(t), txs, rows)
    BY <2>1, <2>2, IdleHolds
  <2> QED  BY <1>1, <2>1, <2>3
<1>10. ASSUME NEW a \in Account, SwitchWallet(a)
       PROVE tab' \in [Tab -> TabState] /\ wallet' \in Account /\ TabsHold'
  BY <1>0, <1>10 DEF SwitchWallet, TabsHold, chain
<1> QED  BY <1>2, <1>3, <1>4, <1>5, <1>6, <1>7, <1>8, <1>9, <1>10 DEF PageStep, UserStep

----------------------------------------------------------------------------
\* What a step does to the transactions: it adds some and ends some.
Grow ==
  /\ txs' \in Seq(Tx) /\ Len(txs) \in Nat /\ Len(txs') \in Nat /\ Len(txs) <= Len(txs')
  /\ \A h \in DOMAIN txs :
       /\ h \in DOMAIN txs'
       /\ txs'[h] = [txs[h] EXCEPT !.state = txs'[h].state]
       /\ txs[h].state = "mined" => txs'[h].state = "mined"

\* What stays the same of a transaction.
LEMMA SameTx ==
  ASSUME IInv, Grow, NEW h \in DOMAIN txs
  PROVE  /\ h \in DOMAIN txs'
         /\ txs'[h].kind = txs[h].kind /\ txs'[h].by = txs[h].by
         /\ txs'[h].amount = txs[h].amount /\ txs'[h].value = txs[h].value
         /\ txs'[h].nonce = txs[h].nonce /\ txs'[h].deadline = txs[h].deadline
         /\ txs'[h].expiry = txs[h].expiry
<1>1. txs[h] \in Tx
  BY DEF IInv, TypeOK
<1> QED  BY <1>1 DEF Grow, Tx

\* A transaction ends, or nothing happens to any.
LEMMA EndsGrow ==
  ASSUME IInv,
         \/ txs' = txs
         \/ \E h \in DOMAIN txs, state \in {"mined", "lost"} :
              txs[h].state = "pending" /\ Ends(h, state)
  PROVE  Grow /\ TxsSound' /\ Len(txs') = Len(txs)
<1> USE DEF IInv
<1>0. txs \in Seq(Tx) /\ Len(txs) \in Nat /\ DOMAIN txs = 1..Len(txs) /\ \A h \in DOMAIN txs : txs[h] \in Tx
  BY DEF TypeOK
<1>1. CASE txs' = txs
  <2>1. Grow
    BY <1>0, <1>1 DEF Grow, Tx
  <2> QED  BY <1>1, <2>1 DEF TxsSound
<1>2. ASSUME NEW h \in DOMAIN txs, NEW state \in {"mined", "lost"},
             txs[h].state = "pending", Ends(h, state)
      PROVE  Grow /\ TxsSound' /\ Len(txs') = Len(txs)
  <2> DEFINE new == [txs[h] EXCEPT !.state = state]
  <2>1. txs' = [txs EXCEPT ![h] = new]
    BY <1>0, <1>2 DEF Ends
  <2>2. /\ new \in Tx /\ new.state = state /\ new.value = new.amount
        /\ new.kind = "fund" => Buffered(new.expiry, new.deadline)
    <3> DEFINE t == txs[h]
    <3>1. t \in Tx /\ t.value = t.amount /\ (t.kind = "fund" => Buffered(t.expiry, t.deadline))
      BY <1>0 DEF TxsSound
    <3> HIDE DEF t, IInv
    <3> QED  BY <3>1 DEF Tx, t
  <2>3. new = [txs[h] EXCEPT !.state = new.state]
    BY <2>2
  <2> HIDE DEF new
  <2>4. /\ txs' \in Seq(Tx) /\ Len(txs') = Len(txs) /\ DOMAIN txs' = DOMAIN txs
        /\ \A q \in DOMAIN txs : txs'[q] = IF q = h THEN new ELSE txs[q]
    BY <1>0, <2>1, <2>2
  <2>5. \A q \in DOMAIN txs : txs[q] = [txs[q] EXCEPT !.state = txs[q].state]
    BY <1>0 DEF Tx
  <2>6. Grow
    BY <1>0, <1>2, <2>3, <2>4, <2>5 DEF Grow
  <2>7. TxsSound'
    BY <2>2, <2>4 DEF TxsSound
  <2> QED  BY <2>4, <2>6, <2>7
<1> QED  BY <1>1, <1>2

\* A transaction is sent.
LEMMA SendGrows ==
  ASSUME IInv, NEW t \in Tab, Send(t)
  PROVE  /\ Grow /\ TxsSound' /\ Len(txs') = Len(txs) + 1
         /\ txs'[Len(txs) + 1].amount = tab[t].amount
<1> USE DEF IInv
<1> DEFINE p == tab[t]
           n == Len(txs)
           new == [kind |-> IF p.page = "form" THEN "fund" ELSE "refund",
                   by |-> p.account, issue |-> p.issue, amount |-> p.amount,
                   value |-> PermitValue(p.amount), nonce |-> p.nonce, shown |-> p.shown,
                   deadline |-> p.deadline, expiry |-> p.expiry, bounty |-> p.bounty,
                   state |-> "pending"]
<1>0. /\ p \in TabState /\ Holds(p, txs, rows) /\ p.pc = "send" /\ n < MaxTx
      /\ txs' = Append(txs, new)
      /\ txs \in Seq(Tx) /\ n \in Nat /\ DOMAIN txs = 1..n /\ \A h \in DOMAIN txs : txs[h] \in Tx
  BY DEF TypeOK, TabsHold, Send, At
<1>1. p.account \in Account /\ (p.page = "form" => Buffered(p.expiry, p.deadline))
  BY <1>0 DEF Holds
<1>2. /\ new \in Tx /\ new.value = new.amount /\ new.amount = p.amount
      /\ new.kind = "fund" => Buffered(new.expiry, new.deadline)
  BY <1>0, <1>1 DEF Tx, TabState, PermitValue
<1> HIDE DEF new
<1>3. /\ txs' \in Seq(Tx) /\ Len(txs') = n + 1 /\ DOMAIN txs' = 1..(n + 1)
      /\ txs'[n + 1] = new /\ \A h \in 1..n : txs'[h] = txs[h]
  BY <1>0, <1>2
<1>4. \A h \in 1..n : txs[h] = [txs[h] EXCEPT !.state = txs[h].state]
  BY <1>0 DEF Tx
<1>5. Grow
  BY <1>0, <1>3, <1>4 DEF Grow
<1>6. TxsSound'
  BY <1>0, <1>2, <1>3, Numbers DEF TxsSound
<1> QED  BY <1>2, <1>3, <1>5, <1>6

\* Every step.
LEMMA TxsStep == ASSUME IInv, [Next]_vars PROVE Grow /\ TxsSound'
<1>1. ASSUME NEW t \in Tab, Send(t) PROVE Grow /\ TxsSound'
  BY <1>1, SendGrows
<1>2. CASE txs' = txs
  BY <1>2, EndsGrow
<1>3. ASSUME NEW h \in DOMAIN txs, Lose(h) \/ MineRefund(h) \/ \E rate \in Rate : MineFund(h, rate)
      PROVE  Grow /\ TxsSound'
  <2>1. txs[h].state = "pending" /\ \E state \in {"mined", "lost"} : Ends(h, state)
    BY <1>3 DEF Lose, MineRefund, MineFund, Next1
  <2> QED  BY <2>1, EndsGrow
<1>4. PageStep => txs' = txs
  BY PagesOnly DEF chain
<1>5. \A t \in Tab : Record(t) => txs' = txs
  BY DEF Record, chain
<1>6. \A h \in DOMAIN txs : FrontRun(h) \/ Disburse(h) => txs' = txs
  BY DEF FrontRun, Disburse, chain
<1>7. Tick \/ Index => txs' = txs
  BY DEF Tick, Index, chain
<1>8. UNCHANGED vars => txs' = txs
  BY DEF vars, chain
<1> QED  BY <1>1, <1>2, <1>3, <1>4, <1>5, <1>6, <1>7, <1>8, NextIs

----------------------------------------------------------------------------
\* What the server may do to one row: h stays that of its own transaction.
RowStep(h, old, new) ==
  /\ new \in BountyRow
  /\ old.status # "none" => new.status # "none"
  /\ new = old \/ (h \in DOMAIN txs /\ new.status # "none" /\ new.amount = txs[h].amount)

\* The indexer and the controller write rows of transactions that were sent.
LEMMA RowSteps ==
  ASSUME IInv, [Next]_vars
  PROVE  /\ rows' \in [1..MaxTx -> BountyRow]
         /\ \A h \in 1..MaxTx : RowStep(h, rows[h], rows'[h])
<1> USE DEF IInv
<1>0. /\ rows \in [1..MaxTx -> BountyRow] /\ tab \in [Tab -> TabState]
      /\ log \in Seq(EscrowEvent) /\ cursor \in Nat /\ Len(log) \in Nat
      /\ Len(txs) \in Nat /\ DOMAIN txs = 1..Len(txs) /\ DOMAIN log = 1..Len(log)
      /\ DOMAIN txs \subseteq 1..MaxTx
  <2>1. Len(txs) <= MaxTx /\ MaxTx \in Nat
    BY Numbers DEF TxsSound
  <2> QED  BY <2>1 DEF TypeOK
<1>1. CASE rows' = rows
  BY <1>0, <1>1 DEF RowStep
<1>2. CASE Index
  <2> DEFINE e == log[cursor + 1]
  <2>1. e \in EscrowEvent /\ e.fee \in Nat /\ e.tx \in Nat
    <3>1. cursor + 1 \in DOMAIN log
      BY <1>0, <1>2 DEF Index
    <3>2. e \in EscrowEvent
      BY <1>0, <3>1
    <3> QED  BY <3>2 DEF EscrowEvent
  <2>2. /\ rows' = [h \in 1..MaxTx |->
                    IF e.kind = "Funded" /\ h \in FundedRow(e) THEN Funded(rows[h], e)
                    ELSE IF e.kind # "Funded" /\ h \in SettledRow(e) THEN Settled(rows[h], e)
                    ELSE rows[h]]
    BY <1>2 DEF Index
  <2> HIDE DEF e
  <2>3. ASSUME NEW h \in 1..MaxTx PROVE RowStep(h, rows[h], rows'[h])
    <3>1. rows[h] \in BountyRow
      BY <1>0
    <3>2. ASSUME rows[h].status # "none"
          PROVE  RowStep(h, rows[h], Funded(rows[h], e)) /\ RowStep(h, rows[h], Settled(rows[h], e))
      <4>1. h \in DOMAIN txs /\ rows[h].amount = txs[h].amount
        BY <3>2 DEF RowsPosted
      <4>2. Funded(rows[h], e) \in BountyRow /\ Settled(rows[h], e) \in BountyRow
        BY <2>1, <3>1 DEF Funded, Settled, BountyRow
      <4>3. /\ Funded(rows[h], e).status # "none" /\ Settled(rows[h], e).status # "none"
            /\ Funded(rows[h], e).amount = rows[h].amount
            /\ Settled(rows[h], e).amount = rows[h].amount
        BY <3>1 DEF Funded, Settled, BountyRow
      <4> QED  BY <4>1, <4>2, <4>3 DEF RowStep
    <3>3. h \in FundedRow(e) => rows[h].status # "none"
      BY DEF FundedRow, RowsPosted
    <3>4. h \in SettledRow(e) => rows[h].status # "none"
      BY DEF SettledRow
    <3>5. RowStep(h, rows[h], rows[h])
      BY <3>1 DEF RowStep
    <3> QED  BY <2>2, <3>2, <3>3, <3>4, <3>5
  <2> QED  BY <2>2, <2>3 DEF RowStep
<1>3. ASSUME NEW t \in Tab, Record(t)
      PROVE  /\ rows' \in [1..MaxTx -> BountyRow]
             /\ \A h \in 1..MaxTx : RowStep(h, rows[h], rows'[h])
  <2> DEFINE p == tab[t]
  <2>1. p \in TabState /\ p.pc = "record" /\ Holds(p, txs, rows)
    BY <1>0, <1>3 DEF Record, At, TabsHold
  <2>2. rows' = rows \/ (p.page = "form" /\ rows' = Created(p))
                     \/ (p.page # "form" /\ rows' = RefundSaved(p))
    BY <1>3 DEF Record
  <2> HIDE DEF p
  <2>3. p.tx \in DOMAIN txs /\ txs[p.tx].amount = p.amount /\ p.tx \in Nat
    BY <2>1 DEF Holds, TabState
  <2>4. CASE p.page = "form" /\ rows' = Created(p)
    <3> DEFINE new == [status |-> "pending", issue |-> p.issue, amount |-> p.amount,
                       fee |-> p.shown, refund |-> 0]
    <3>1. new \in BountyRow /\ new.status = "pending" /\ new.amount = p.amount
      BY <2>1 DEF TabState, BountyRow
    <3>2. rows' = [rows EXCEPT ![p.tx] = new]
      BY <2>4 DEF Created
    <3> HIDE DEF new
    <3>3. \A h \in 1..MaxTx : rows'[h] = IF h = p.tx THEN new ELSE rows[h]
      BY <1>0, <3>2
    <3> QED  BY <1>0, <2>3, <3>1, <3>2, <3>3 DEF RowStep
  <2>5. CASE p.page # "form" /\ rows' = RefundSaved(p)
    <3>1. p.bounty \in 1..MaxTx /\ rows[p.bounty].status # "none"
      BY <2>1, <2>5 DEF Holds
    <3> DEFINE new == [rows[p.bounty] EXCEPT !.refund = p.tx]
    <3>2. /\ new \in BountyRow /\ new.status = rows[p.bounty].status
          /\ new.amount = rows[p.bounty].amount
      BY <1>0, <2>3, <3>1 DEF BountyRow
    <3>3. rows' = [rows EXCEPT ![p.bounty] = new]
      BY <1>0, <2>5, <3>1 DEF RefundSaved
    <3>4. p.bounty \in DOMAIN txs /\ rows[p.bounty].amount = txs[p.bounty].amount
      BY <3>1 DEF RowsPosted
    <3> HIDE DEF new
    <3>5. \A h \in 1..MaxTx : rows'[h] = IF h = p.bounty THEN new ELSE rows[h]
      BY <1>0, <3>3
    <3> QED  BY <1>0, <3>1, <3>2, <3>3, <3>4, <3>5 DEF RowStep
  <2> QED  BY <1>1, <2>2, <2>4, <2>5
<1>4. PageStep => rows' = rows
  BY PagesOnly
<1>5. \A t \in Tab : Send(t) => rows' = rows
  BY DEF Send
<1>6. \A h \in DOMAIN txs :
        FrontRun(h) \/ MineRefund(h) \/ Lose(h) \/ Disburse(h) \/ (\E rate \in Rate : MineFund(h, rate))
          => rows' = rows
  BY DEF FrontRun, MineRefund, Lose, Disburse, MineFund
<1>7. Tick \/ UNCHANGED vars => rows' = rows
  BY DEF Tick, vars
<1> QED  BY <1>1, <1>2, <1>3, <1>4, <1>5, <1>6, <1>7, NextIs

\* Every row is still that of a transaction that was sent.
LEMMA RowsStep ==
  ASSUME IInv, [Next]_vars
  PROVE  /\ rows' \in [1..MaxTx -> BountyRow] /\ RowsPosted'
         /\ \A h \in 1..MaxTx : rows[h].status # "none" => rows'[h].status # "none"
<1>0. Grow /\ rows' \in [1..MaxTx -> BountyRow] /\ \A h \in 1..MaxTx : RowStep(h, rows[h], rows'[h])
  BY TxsStep, RowSteps
<1>1. ASSUME NEW h \in 1..MaxTx
      PROVE IF rows'[h].status = "none" THEN rows'[h] = NoRow
            ELSE h \in DOMAIN txs' /\ rows'[h].amount = txs'[h].amount
  <2>1. IF rows[h].status = "none" THEN rows[h] = NoRow
        ELSE h \in DOMAIN txs /\ rows[h].amount = txs[h].amount
    BY DEF IInv, RowsPosted
  <2>2. h \in DOMAIN txs => h \in DOMAIN txs' /\ txs'[h].amount = txs[h].amount
    BY <1>0, SameTx
  <2> QED  BY <1>0, <2>1, <2>2 DEF RowStep
<1> QED  BY <1>0, <1>1 DEF RowsPosted, RowStep

----------------------------------------------------------------------------
\* What a page is sure of stays true while others move.
LEMMA HoldsOn ==
  ASSUME IInv, [Next]_vars, NEW p \in TabState, Holds(p, txs, rows)
  PROVE  Holds(p, txs', rows')
<1>1. Grow /\ \A h \in 1..MaxTx : rows[h].status # "none" => rows'[h].status # "none"
  BY TxsStep, RowsStep
<1>2. \A h \in DOMAIN txs : h \in DOMAIN txs' /\ txs'[h].amount = txs[h].amount
  BY <1>1, SameTx
<1> QED  BY <1>1, <1>2 DEF Holds

\* The pages after any step.
LEMMA TabsStep ==
  ASSUME IInv, [Next]_vars
  PROVE  tab' \in [Tab -> TabState] /\ wallet' \in Account /\ TabsHold'
<1> USE DEF IInv
<1>0. tab \in [Tab -> TabState] /\ wallet \in Account /\ Blank \in TabState
  BY DEF TypeOK, Blank, TabState
<1>1. CASE PageStep
  BY <1>1, PageTypes
<1>2. CASE UNCHANGED <<tab, wallet>>
  <2>1. \A t \in Tab : Holds(tab[t], txs', rows')
    BY <1>0, HoldsOn DEF TabsHold
  <2> QED  BY <1>0, <1>2, <2>1 DEF TabsHold
<1>3. ASSUME NEW t \in Tab, NEW p \in TabState, Holds(p, txs', rows'),
             tab' = [tab EXCEPT ![t] = p], wallet' = wallet
      PROVE  tab' \in [Tab -> TabState] /\ wallet' \in Account /\ TabsHold'
  <2>1. \A u \in Tab : tab'[u] = IF u = t THEN p ELSE tab[u]
    BY <1>0, <1>3
  <2>2. \A u \in Tab : Holds(tab[u], txs', rows')
    BY <1>0, HoldsOn DEF TabsHold
  <2> QED  BY <1>0, <1>3, <2>1, <2>2 DEF TabsHold
<1>4. ASSUME NEW t \in Tab, Send(t)
      PROVE  tab' \in [Tab -> TabState] /\ wallet' \in Account /\ TabsHold'
  <2> DEFINE n == Len(txs) + 1
             p == [tab[t] EXCEPT !.pc = "record", !.tx = n]
  <2>1. n \in Nat
    BY DEF TypeOK
  <2>2. tab[t].pc = "send" /\ tab' = [tab EXCEPT ![t] = p] /\ wallet' = wallet
    BY <1>4 DEF Send, At
  <2>3. Len(txs') = n /\ txs' \in Seq(Tx) /\ txs'[n].amount = tab[t].amount
    BY <1>4, SendGrows DEF Grow
  <2> HIDE DEF n
  <2>4. /\ p \in TabState /\ p.pc = "record" /\ p.tx = n /\ p.amount = tab[t].amount
        /\ p.page = tab[t].page /\ p.bounty = tab[t].bounty
    BY <1>0, <2>1 DEF TabState
  <2> HIDE DEF p
  <2>5. n \in DOMAIN txs'
    <3>1. n # 0
      BY DEF TypeOK, n
    <3> QED  BY <2>1, <2>3, <3>1
  <2>6. Holds(tab[t], txs', rows')
    BY <1>0, HoldsOn DEF TabsHold
  <2>7. Holds(p, txs', rows')
    BY <2>2, <2>3, <2>4, <2>5, <2>6 DEF Holds
  <2> QED  BY <1>3, <2>2, <2>4, <2>7
<1>5. ASSUME NEW t \in Tab, Record(t)
      PROVE  tab' \in [Tab -> TabState] /\ wallet' \in Account /\ TabsHold'
  <2>1. wallet' = wallet /\ tab[t].pc = "record"
        /\ (tab' = [tab EXCEPT ![t] = Blank] \/ tab' = [tab EXCEPT ![t] = Idle(t)])
    BY <1>5 DEF Record, At
  <2>2. Holds(Blank, txs', rows')
    BY DEF Holds, Blank
  <2>3. Idle(t) \in TabState /\ Holds(Idle(t), txs', rows')
    BY <2>1, IdleHolds, HoldsOn
  <2> QED  BY <1>0, <1>3, <2>1, <2>2, <2>3
<1>6. \A h \in DOMAIN txs :
        FrontRun(h) \/ MineRefund(h) \/ Lose(h) \/ Disburse(h) \/ (\E rate \in Rate : MineFund(h, rate))
          => UNCHANGED <<tab, wallet>>
  BY DEF FrontRun, MineRefund, Lose, Disburse, MineFund, browser
<1>7. Tick \/ Index \/ UNCHANGED vars => UNCHANGED <<tab, wallet>>
  BY DEF Tick, Index, vars, browser
<1> QED  BY <1>1, <1>2, <1>4, <1>5, <1>6, <1>7, NextIs

----------------------------------------------------------------------------
\* What the escrow can take when a fund transaction is mined is a natural.
LEMMA SeenNat ==
  ASSUME IInv, NEW h \in DOMAIN txs
  PROVE  /\ txs[h] \in Tx /\ h \in Nat /\ txs[h].by \in Account /\ txs[h].amount \in Nat
         /\ txs[h].value = txs[h].amount /\ txs[h].nonce \in Nat
         /\ AllowanceSeen(h) \in Nat /\ allowance[txs[h].by] \in Nat
         /\ permits[txs[h].by] \in Seq(Nat)
<1>1. /\ txs \in Seq(Tx) /\ allowance \in [Account -> Nat] /\ permits \in [Account -> Seq(Nat)]
      /\ txs[h].value = txs[h].amount
  BY DEF IInv, TypeOK, TxsSound
<1>2. txs[h] \in Tx /\ h \in Nat
  BY <1>1
<1>3. txs[h].by \in Account /\ txs[h].amount \in Nat /\ txs[h].nonce \in Nat
  BY <1>2 DEF Tx
<1> QED  BY <1>1, <1>2, <1>3 DEF AllowanceSeen

\* The token after any step: a permit is taken in the order of its nonce.
LEMMA TokenStep ==
  ASSUME IInv, [Next]_vars
  PROVE  /\ permits' \in [Account -> Seq(Nat)] /\ allowance' \in [Account -> Nat]
         /\ PermitsInOrder'
<1> USE DEF IInv
<1>0. /\ Grow /\ permits \in [Account -> Seq(Nat)] /\ allowance \in [Account -> Nat]
  BY TxsStep DEF TypeOK
<1>1. ASSUME permits' = permits PROVE permits' \in [Account -> Seq(Nat)] /\ PermitsInOrder'
  <2>1. ASSUME NEW a \in Account, NEW i \in DOMAIN permits[a]
        PROVE  /\ permits[a][i] \in DOMAIN txs' /\ txs'[permits[a][i]].by = a
               /\ txs'[permits[a][i]].nonce = i - 1
    <3>1. /\ permits[a][i] \in DOMAIN txs /\ txs[permits[a][i]].by = a
          /\ txs[permits[a][i]].nonce = i - 1
      BY DEF PermitsInOrder
    <3> QED  BY <1>0, <3>1, SameTx
  <2> QED  BY <1>0, <1>1, <2>1 DEF PermitsInOrder
<1>2. ASSUME NEW h \in DOMAIN txs, PermitValid(h), Take(h)
      PROVE  permits' \in [Account -> Seq(Nat)] /\ PermitsInOrder'
  <2> DEFINE b == txs[h].by
             new == Append(permits[b], h)
  <2>1. b \in Account /\ permits[b] \in Seq(Nat) /\ h \in Nat /\ txs[h].nonce = Len(permits[b])
    BY <1>2, SeenNat DEF PermitValid
  <2>2. permits' = [permits EXCEPT ![b] = new]
    BY <1>2 DEF Take
  <2>3. /\ new \in Seq(Nat) /\ DOMAIN new = 1..(Len(permits[b]) + 1)
        /\ new[Len(permits[b]) + 1] = h
        /\ \A i \in DOMAIN permits[b] : new[i] = permits[b][i]
    BY <2>1
  <2>4. /\ permits' \in [Account -> Seq(Nat)]
        /\ \A a \in Account : permits'[a] = IF a = b THEN new ELSE permits[a]
    BY <1>0, <2>1, <2>2, <2>3
  <2>5. h \in DOMAIN txs' /\ txs'[h].by = b /\ txs'[h].nonce = Len(permits[b])
    BY <1>0, <2>1, SameTx
  <2>6. ASSUME NEW a \in Account, NEW i \in DOMAIN permits'[a]
        PROVE  /\ permits'[a][i] \in DOMAIN txs' /\ txs'[permits'[a][i]].by = a
               /\ txs'[permits'[a][i]].nonce = i - 1
    <3>1. CASE a = b /\ i = Len(permits[b]) + 1
      <4>1. permits'[a][i] = h /\ i - 1 = Len(permits[b])
        BY <2>1, <2>3, <2>4, <3>1
      <4> QED  BY <2>5, <3>1, <4>1
    <3>2. CASE ~ (a = b /\ i = Len(permits[b]) + 1)
      <4>1. i \in DOMAIN permits[a] /\ permits'[a][i] = permits[a][i]
        <5>1. DOMAIN permits[b] = 1..Len(permits[b]) /\ Len(permits[b]) \in Nat
          BY <2>1
        <5> HIDE DEF new
        <5>2. CASE a = b
          <6>1. permits'[a] = new /\ i \in 1..(Len(permits[b]) + 1)
            BY <2>1, <2>3, <2>4, <5>2
          <6>2. i \in 1..Len(permits[b])
            BY <3>2, <5>1, <5>2, <6>1
          <6> QED  BY <2>3, <5>1, <5>2, <6>1, <6>2
        <5>3. CASE a # b
          BY <2>4, <5>3
        <5> QED  BY <5>2, <5>3
      <4>2. /\ permits[a][i] \in DOMAIN txs /\ txs[permits[a][i]].by = a
            /\ txs[permits[a][i]].nonce = i - 1
        BY <4>1 DEF PermitsInOrder
      <4> QED  BY <1>0, <4>1, <4>2, SameTx
    <3> QED  BY <3>1, <3>2
  <2> QED  BY <2>4, <2>6 DEF PermitsInOrder
<1>3. ASSUME NEW h \in DOMAIN txs, NEW n \in Nat, allowance' = [allowance EXCEPT ![txs[h].by] = n]
      PROVE  allowance' \in [Account -> Nat]
  BY <1>0, <1>3
<1>4. ASSUME NEW h \in DOMAIN txs, FrontRun(h)
      PROVE  permits' \in [Account -> Seq(Nat)] /\ allowance' \in [Account -> Nat] /\ PermitsInOrder'
  <2>1. txs[h].value \in Nat
    BY SeenNat
  <2> QED  BY <1>2, <1>3, <1>4, <2>1 DEF FrontRun
<1>5. ASSUME NEW h \in DOMAIN txs, NEW rate \in Rate, MineFund(h, rate)
      PROVE  permits' \in [Account -> Seq(Nat)] /\ allowance' \in [Account -> Nat] /\ PermitsInOrder'
  <2>1. AllowanceSeen(h) >= txs[h].amount /\ AllowanceSeen(h) \in Nat /\ txs[h].amount \in Nat
    BY <1>5, SeenNat DEF MineFund
  <2>2. AllowanceSeen(h) - txs[h].amount \in Nat
    BY <2>1
  <2>3. allowance' = [allowance EXCEPT ![txs[h].by] = AllowanceSeen(h) - txs[h].amount]
    BY <1>5 DEF MineFund
  <2>4. permits' = permits \/ (PermitValid(h) /\ Take(h))
    BY <1>5 DEF MineFund
  <2> QED  BY <1>1, <1>2, <1>3, <2>2, <2>3, <2>4
<1>6. CASE UNCHANGED token
  BY <1>0, <1>1, <1>6 DEF token
<1>7. PageStep => UNCHANGED token
  BY PagesOnly
<1>8. \A t \in Tab : Send(t) \/ Record(t) => UNCHANGED token
  BY DEF Send, Record
<1>9. \A h \in DOMAIN txs : MineRefund(h) \/ Lose(h) \/ Disburse(h) => UNCHANGED token
  BY DEF MineRefund, Lose, Disburse
<1>10. Tick \/ Index \/ UNCHANGED vars => UNCHANGED token
  BY DEF Tick, Index, vars
<1> QED  BY <1>4, <1>5, <1>6, <1>7, <1>8, <1>9, <1>10, NextIs

----------------------------------------------------------------------------
\* The log after an event that may follow it.
LEMMA AppendTrue ==
  ASSUME IInv, Grow, NEW e \in EscrowEvent, log' = Append(log, e), e.bounty \in DOMAIN txs,
         e.kind = "Funded" => txs'[e.bounty].state = "mined" /\ FundedAt(e.bounty) = {},
         e.kind # "Funded" => Open(e.bounty)
  PROVE  log' \in Seq(EscrowEvent) /\ Len(log') = Len(log) + 1 /\ LogTrue(log', txs')
<1> USE DEF IInv
<1> DEFINE n == Len(log)
           b == e.bounty
<1>0. log \in Seq(EscrowEvent) /\ n \in Nat /\ DOMAIN log = 1..n
  BY DEF TypeOK
<1>1. /\ log' \in Seq(EscrowEvent) /\ Len(log') = n + 1 /\ DOMAIN log' = 1..(n + 1)
      /\ log'[n + 1] = e /\ \A i \in 1..n : log'[i] = log[i]
  BY <1>0
<1>2. \A h \in DOMAIN txs : h \in DOMAIN txs' /\ (txs[h].state = "mined" => txs'[h].state = "mined")
  BY DEF Grow
<1>3. \A i \in 1..n : log[i].bounty = b /\ log[i].kind = "Funded" => e.kind # "Funded"
  BY <1>0 DEF FundedAt, Events
<1>4. \A i \in 1..n : log[i].bounty = b /\ log[i].kind # "Funded" => e.kind = "Funded"
  BY <1>0 DEF Open, SettledAt, Events
<1>5. e.kind # "Funded" => \E i \in 1..n : log[i].kind = "Funded" /\ log[i].bounty = b
  BY <1>0 DEF Open, FundedAt, Events
<1>6. /\ \A i \in 1..n : /\ log[i].bounty \in DOMAIN txs
                         /\ log[i].kind = "Funded" => txs[log[i].bounty].state = "mined"
      /\ \A i, j \in 1..n :
           log[i].bounty = log[j].bounty /\ (log[i].kind = "Funded" <=> log[j].kind = "Funded")
             => i = j
      /\ \A j \in 1..n : log[j].kind # "Funded" =>
           \E i \in 1..(j - 1) : log[i].kind = "Funded" /\ log[i].bounty = log[j].bounty
  BY <1>0 DEF LogTrue
<1>7. \A i \in 1..(n + 1) :
        /\ log'[i].bounty \in DOMAIN txs'
        /\ log'[i].kind = "Funded" => txs'[log'[i].bounty].state = "mined"
  <2>1. ASSUME NEW i \in 1..(n + 1), i # n + 1
        PROVE  /\ log'[i].bounty \in DOMAIN txs'
               /\ log'[i].kind = "Funded" => txs'[log'[i].bounty].state = "mined"
    <3>1. i \in 1..n
      BY <1>0, <2>1
    <3> QED  BY <1>1, <1>2, <1>6, <3>1
  <2>2. b \in DOMAIN txs'
    BY <1>2
  <2> QED  BY <1>1, <2>1, <2>2
<1>8. ASSUME NEW i \in 1..(n + 1), NEW j \in 1..(n + 1), log'[i].bounty = log'[j].bounty,
             log'[i].kind = "Funded" <=> log'[j].kind = "Funded"
      PROVE  i = j
  <2>1. CASE i \in 1..n /\ j \in 1..n
    BY <1>1, <1>6, <1>8, <2>1
  <2>2. CASE i = n + 1 /\ j \in 1..n
    BY <1>1, <1>3, <1>4, <1>8, <2>2
  <2>3. CASE i \in 1..n /\ j = n + 1
    BY <1>1, <1>3, <1>4, <1>8, <2>3
  <2>4. (i = n + 1 \/ i \in 1..n) /\ (j = n + 1 \/ j \in 1..n)
    BY <1>0
  <2> QED  BY <2>1, <2>2, <2>3, <2>4
<1>9. ASSUME NEW j \in 1..(n + 1), log'[j].kind # "Funded"
      PROVE  \E i \in 1..(j - 1) : log'[i].kind = "Funded" /\ log'[i].bounty = log'[j].bounty
  <2>1. CASE j = n + 1
    <3>1. PICK i \in 1..n : log[i].kind = "Funded" /\ log[i].bounty = b
      BY <1>1, <1>5, <1>9, <2>1
    <3>2. i \in 1..(j - 1)
      BY <1>0, <2>1
    <3> QED  BY <1>1, <2>1, <3>1, <3>2
  <2>2. CASE j # n + 1
    <3>1. j \in 1..n
      BY <1>0, <2>2
    <3>2. PICK i \in 1..(j - 1) : log[i].kind = "Funded" /\ log[i].bounty = log[j].bounty
      BY <1>1, <1>6, <1>9, <3>1
    <3>3. i \in 1..n
      BY <1>0, <3>1
    <3> QED  BY <1>1, <3>1, <3>2, <3>3
  <2> QED  BY <2>1, <2>2
<1> HIDE DEF IInv
<1>10. \A i \in DOMAIN log' :
         /\ log'[i].bounty \in DOMAIN txs'
         /\ log'[i].kind = "Funded" => txs'[log'[i].bounty].state = "mined"
  BY <1>1, <1>7
<1>11. \A i, j \in DOMAIN log' : log'[i].bounty = log'[j].bounty
                             /\ (log'[i].kind = "Funded" <=> log'[j].kind = "Funded") => i = j
  BY <1>1, <1>8
<1>12. \A j \in DOMAIN log' : log'[j].kind # "Funded" =>
         \E i \in 1..(j - 1) : log'[i].kind = "Funded" /\ log'[i].bounty = log'[j].bounty
  BY <1>1, <1>9
<1>13. LogTrue(log', txs')
  BY <1>10, <1>11, <1>12 DEF LogTrue
<1> QED  BY <1>1, <1>13

\* The log only grows, by one event; the indexer stays within it.
LEMMA LogStep ==
  ASSUME IInv, [Next]_vars
  PROVE  /\ log' \in Seq(EscrowEvent) /\ LogTrue(log', txs')
         /\ cursor' \in Nat /\ cursor' <= Len(log')
<1> USE DEF IInv
<1>0. /\ Grow /\ log \in Seq(EscrowEvent) /\ cursor \in Nat /\ cursor <= Len(log)
      /\ Len(log) \in Nat /\ DOMAIN txs \subseteq Nat
  BY TxsStep DEF TypeOK
<1>1. CASE UNCHANGED <<log, cursor>>
  <2>1. \A h \in DOMAIN txs : h \in DOMAIN txs' /\ (txs[h].state = "mined" => txs'[h].state = "mined")
    BY <1>0 DEF Grow
  <2>2. LogTrue(log, txs')
    BY <2>1 DEF LogTrue
  <2> QED  BY <1>0, <1>1, <2>2
<1>2. CASE Index
  <2>1. log' = log /\ txs' = txs /\ cursor' = cursor + 1 /\ cursor < Len(log)
    BY <1>2 DEF Index, chain
  <2> QED  BY <1>0, <2>1
<1>3. ASSUME NEW e \in EscrowEvent, log' = Append(log, e), e.bounty \in DOMAIN txs,
             e.kind = "Funded" => txs'[e.bounty].state = "mined" /\ FundedAt(e.bounty) = {},
             e.kind # "Funded" => Open(e.bounty), cursor' = cursor
      PROVE  /\ log' \in Seq(EscrowEvent) /\ LogTrue(log', txs')
             /\ cursor' \in Nat /\ cursor' <= Len(log')
  <2>1. log' \in Seq(EscrowEvent) /\ Len(log') = Len(log) + 1 /\ LogTrue(log', txs')
    BY <1>0, <1>3, AppendTrue
  <2> QED  BY <1>0, <1>3, <2>1
<1>4. ASSUME NEW h \in DOMAIN txs, NEW rate \in Rate, MineFund(h, rate)
      PROVE  /\ log' \in Seq(EscrowEvent) /\ LogTrue(log', txs')
             /\ cursor' \in Nat /\ cursor' <= Len(log')
  <2> DEFINE e == Event("Funded", h, h, rate)
  <2>1. e \in EscrowEvent /\ e.bounty = h /\ e.kind = "Funded"
    BY <1>0, Numbers DEF Event, EscrowEvent
  <2>2. /\ log' = Append(log, e) /\ cursor' = cursor /\ txs[h].state = "pending"
        /\ txs' = [txs EXCEPT ![h].state = "mined"]
    BY <1>4 DEF MineFund, Next1, Ends
  <2>3. FundedAt(h) = {}
    BY <2>2 DEF LogTrue, FundedAt, Events
  <2>4. txs'[h].state = "mined"
    <3>1. txs[h] \in Tx /\ txs \in Seq(Tx)
      BY SeenNat DEF TypeOK
    <3> QED  BY <2>2, <3>1 DEF Tx
  <2> HIDE DEF e
  <2> QED  BY <1>3, <2>1, <2>2, <2>3, <2>4
<1>5. ASSUME NEW h \in DOMAIN txs, NEW b, Open(b), NEW kind \in {"Refunded", "Disbursed"},
             NEW q \in Nat, log' = Append(log, Event(kind, b, q, 0)), cursor' = cursor
      PROVE  /\ log' \in Seq(EscrowEvent) /\ LogTrue(log', txs')
             /\ cursor' \in Nat /\ cursor' <= Len(log')
  <2>1. b \in DOMAIN txs
    BY <1>5 DEF Open, FundedAt, Events, LogTrue
  <2> DEFINE e == Event(kind, b, q, 0)
  <2>2. e \in EscrowEvent /\ e.bounty = b /\ e.kind # "Funded"
    BY <1>0, <2>1 DEF Event, EscrowEvent
  <2> HIDE DEF e
  <2> QED  BY <1>3, <1>5, <2>1, <2>2 DEF e
<1>6. \A h \in DOMAIN txs :
        MineRefund(h) => /\ Open(txs[h].bounty) /\ cursor' = cursor
                         /\ log' = Append(log, Event("Refunded", txs[h].bounty, h, 0))
  BY DEF MineRefund
<1>7. \A h \in DOMAIN txs :
        Disburse(h) => Open(h) /\ cursor' = cursor /\ log' = Append(log, Event("Disbursed", h, 0, 0))
  BY DEF Disburse
<1>8. \A h \in DOMAIN txs : MineRefund(h) \/ Disburse(h) =>
        /\ log' \in Seq(EscrowEvent) /\ LogTrue(log', txs')
        /\ cursor' \in Nat /\ cursor' <= Len(log')
  BY <1>0, <1>5, <1>6, <1>7
<1>9. PageStep => UNCHANGED <<log, cursor>>
  BY PagesOnly DEF chain
<1>10. \A t \in Tab : Send(t) \/ Record(t) => UNCHANGED <<log, cursor>>
  BY DEF Send, Record, chain
<1>11. \A h \in DOMAIN txs : FrontRun(h) \/ Lose(h) => UNCHANGED <<log, cursor>>
  BY DEF FrontRun, Lose, chain
<1>12. Tick \/ UNCHANGED vars => UNCHANGED <<log, cursor>>
  BY DEF Tick, vars, chain
<1> QED  BY <1>1, <1>2, <1>4, <1>8, <1>9, <1>10, <1>11, <1>12, NextIs

----------------------------------------------------------------------------
\* What a typed into those of its forms whose transactions are in C.
Total(C, T, a) == SumTo([h \in 1..MaxTx |-> IF h \in DOMAIN T /\ T[h].by = a /\ h \in C
                                            THEN T[h].amount ELSE 0], MaxTx)

FundedIn(l) == {l[i].bounty : i \in {j \in DOMAIN l : l[j].kind = "Funded"}}

TakenOf(s) == {s[i] : i \in DOMAIN s}

\* Both sides of SignedForAll are totals of sets of transactions.
LEMMA AsTotals ==
  ASSUME NEW a
  PROVE  /\ Spent(a) = Total(FundedIn(log), txs, a)
         /\ Spent(a)' = Total(FundedIn(log'), txs', a)
         /\ SignedFor(a) = Total(TakenOf(permits[a]), txs, a)
         /\ SignedFor(a)' = Total(TakenOf(permits'[a]), txs', a)
<1>1. /\ \A h : FundedAt(h) # {} <=> h \in FundedIn(log)
      /\ \A h : (FundedAt(h) # {})' <=> h \in FundedIn(log')
  BY DEF FundedAt, Events, FundedIn
<1>2. Spent(a) = Total(FundedIn(log), txs, a)
  BY <1>1 DEF Spent, Total
<1>3. Spent(a)' = Total(FundedIn(log'), txs', a)
  BY <1>1 DEF Spent, Total
<1>4. SignedFor(a) = Total(TakenOf(permits[a]), txs, a)
  <2>1. \A h : txs[h].by = a => (Permitted(h) <=> h \in TakenOf(permits[a]))
    BY DEF Permitted, TakenOf
  <2> QED  BY <2>1 DEF SignedFor, Total
<1>5. SignedFor(a)' = Total(TakenOf(permits'[a]), txs', a)
  <2>1. \A h : txs'[h].by = a => (Permitted(h)' <=> h \in TakenOf(permits'[a]))
    BY DEF Permitted, TakenOf
  <2> QED  BY <2>1 DEF SignedFor, Total
<1> QED  BY <1>2, <1>3, <1>4, <1>5

\* A total is a natural; transactions that are only sent or ended leave it.
LEMMA TotalKept ==
  ASSUME IInv, Grow, NEW C, C \subseteq DOMAIN txs, NEW a
  PROVE  Total(C, txs, a) \in Nat /\ Total(C, txs', a) = Total(C, txs, a)
<1> DEFINE f == [h \in 1..MaxTx |-> IF h \in DOMAIN txs /\ txs[h].by = a /\ h \in C
                                    THEN txs[h].amount ELSE 0]
           g == [h \in 1..MaxTx |-> IF h \in DOMAIN txs' /\ txs'[h].by = a /\ h \in C
                                    THEN txs'[h].amount ELSE 0]
<1>1. f \in [1..MaxTx -> Nat]
  <2>1. \A h \in DOMAIN txs : txs[h].amount \in Nat
    BY SeenNat
  <2> QED  BY <2>1
<1>2. \A h \in DOMAIN txs : /\ h \in DOMAIN txs' /\ txs'[h].by = txs[h].by
                            /\ txs'[h].amount = txs[h].amount
  BY SameTx
<1>3. f = g
  BY <1>2
<1>4. Total(C, txs, a) = SumTo(f, MaxTx) /\ Total(C, txs', a) = SumTo(g, MaxTx)
  BY DEF Total
<1> HIDE DEF f, g
<1> QED  BY <1>1, <1>3, <1>4, Numbers, SumToNat

\* A transaction that is counted in addition.
LEMMA TotalAdds ==
  ASSUME IInv, NEW C, NEW h \in DOMAIN txs, h \notin C, NEW a
  PROVE  Total(C \cup {h}, txs, a) =
           Total(C, txs, a) + (IF txs[h].by = a THEN txs[h].amount ELSE 0)
<1> DEFINE f == [q \in 1..MaxTx |-> IF q \in DOMAIN txs /\ txs[q].by = a /\ q \in C
                                    THEN txs[q].amount ELSE 0]
           g == [q \in 1..MaxTx |-> IF q \in DOMAIN txs /\ txs[q].by = a /\ q \in C \cup {h}
                                    THEN txs[q].amount ELSE 0]
<1>1. f \in [1..MaxTx -> Nat] /\ g \in [1..MaxTx -> Nat]
  <2>1. \A q \in DOMAIN txs : txs[q].amount \in Nat
    BY SeenNat
  <2> QED  BY <2>1
<1>2. h \in 1..MaxTx
  <2>1. Len(txs) \in Nat /\ Len(txs) <= MaxTx /\ DOMAIN txs = 1..Len(txs) /\ MaxTx \in Nat
    BY Numbers DEF IInv, TypeOK, TxsSound
  <2> QED  BY <2>1
<1>3. /\ f[h] = 0 /\ g[h] = (IF txs[h].by = a THEN txs[h].amount ELSE 0)
      /\ \A q \in 1..MaxTx : q # h => g[q] = f[q]
  BY <1>2
<1>4. Total(C, txs, a) = SumTo(f, MaxTx) /\ Total(C \cup {h}, txs, a) = SumTo(g, MaxTx)
  BY DEF Total
<1> HIDE DEF f, g
<1>5. SumTo(g, MaxTx) = SumTo(f, MaxTx) - f[h] + g[h]
  <2>1. MaxTx \in Nat /\ \A q \in 1..MaxTx : q # h => g[q] = f[q]
    BY <1>3, Numbers
  <2> QED  BY <1>1, <1>2, <2>1, SumToUpdate
<1>6. SumTo(f, MaxTx) \in Nat /\ SumTo(g, MaxTx) \in Nat
  BY <1>1, Numbers, SumToNat
<1>7. g[h] \in Nat
  BY <1>1, <1>2
<1> QED  BY <1>3, <1>4, <1>5, <1>6, <1>7

\* What counts are transactions that were sent.
LEMMA Counted ==
  ASSUME IInv
  PROVE  /\ FundedIn(log) \subseteq DOMAIN txs
         /\ \A a \in Account : TakenOf(permits[a]) \subseteq DOMAIN txs
<1>1. FundedIn(log) \subseteq DOMAIN txs
  BY DEF IInv, LogTrue, FundedIn
<1>2. \A a \in Account : TakenOf(permits[a]) \subseteq DOMAIN txs
  BY DEF IInv, PermitsInOrder, TakenOf
<1> QED  BY <1>1, <1>2

\* Taking a permit signs for its amount.
LEMMA TakeSigns ==
  ASSUME IInv, Grow, NEW h \in DOMAIN txs, PermitValid(h), Take(h), NEW a \in Account
  PROVE  SignedFor(a)' = SignedFor(a) + (IF txs[h].by = a THEN txs[h].amount ELSE 0)
<1> DEFINE b == txs[h].by
           C == TakenOf(permits[a])
<1>1. /\ b \in Account /\ permits \in [Account -> Seq(Nat)] /\ h \in Nat
      /\ permits[b] \in Seq(Nat) /\ txs[h].nonce = Len(permits[b])
      /\ permits' = [permits EXCEPT ![b] = Append(permits[b], h)]
  BY SeenNat DEF IInv, TypeOK, PermitValid, Take
<1>2. Total(C, txs', a) = Total(C, txs, a) /\ Total(C, txs, a) \in Nat
  BY Counted, TotalKept
<1>3. CASE a = b
  <2>1. permits'[a] = Append(permits[a], h)
    BY <1>1, <1>3
  <2>2. TakenOf(permits'[a]) = C \cup {h}
    <3>1. /\ DOMAIN permits'[a] = 1..(Len(permits[a]) + 1) /\ DOMAIN permits[a] = 1..Len(permits[a])
          /\ permits'[a][Len(permits[a]) + 1] = h /\ Len(permits[a]) \in Nat
          /\ \A i \in 1..Len(permits[a]) : permits'[a][i] = permits[a][i]
      BY <1>1, <1>3, <2>1
    <3>2. \A i \in 1..(Len(permits[a]) + 1) :
            i \in 1..Len(permits[a]) \/ i = Len(permits[a]) + 1
      BY <3>1
    <3>3. /\ 1..Len(permits[a]) \subseteq 1..(Len(permits[a]) + 1)
          /\ Len(permits[a]) + 1 \in 1..(Len(permits[a]) + 1)
      BY <3>1
    <3> QED  BY <3>1, <3>2, <3>3 DEF TakenOf
  <2>3. h \notin C
    <3>1. ASSUME NEW i \in DOMAIN permits[a], permits[a][i] = h PROVE FALSE
      <4>1. txs[h].nonce = i - 1 /\ i \in 1..Len(permits[a]) /\ Len(permits[a]) \in Nat
        BY <1>1, <1>3, <3>1 DEF IInv, PermitsInOrder
      <4> QED  BY <1>1, <1>3, <4>1
    <3> QED  BY <3>1 DEF TakenOf
  <2>4. C \cup {h} \subseteq DOMAIN txs
    BY Counted
  <2>5. Total(C \cup {h}, txs', a) = Total(C \cup {h}, txs, a)
    BY <2>4, TotalKept
  <2>6. Total(C \cup {h}, txs, a) = Total(C, txs, a) + (IF txs[h].by = a THEN txs[h].amount ELSE 0)
    BY <2>3, TotalAdds
  <2>7. SignedFor(a)' = Total(C \cup {h}, txs', a) /\ SignedFor(a) = Total(C, txs, a)
    BY <2>2, AsTotals
  <2> HIDE DEF C
  <2> QED  BY <2>5, <2>6, <2>7
<1>4. CASE a # b
  <2>1. permits'[a] = permits[a]
    BY <1>1, <1>4
  <2> QED  BY <1>2, <1>4, <2>1, AsTotals
<1> QED  BY <1>3, <1>4

\* A step that settles a bounty appends the event that says so.
LEMMA Settles ==
  ASSUME IInv, NEW h \in DOMAIN txs, MineRefund(h) \/ Disburse(h)
  PROVE  \E e \in EscrowEvent : e.kind # "Funded" /\ log' = Append(log, e)
<1>0. DOMAIN txs \subseteq Nat
  BY DEF IInv, TypeOK
<1>1. ASSUME NEW b, Open(b), NEW kind \in {"Refunded", "Disbursed"}, NEW q \in Nat
      PROVE  Event(kind, b, q, 0) \in EscrowEvent /\ Event(kind, b, q, 0).kind # "Funded"
  <2>1. b \in DOMAIN txs
    BY <1>1 DEF Open, FundedAt, Events, IInv, LogTrue
  <2> QED  BY <1>0, <1>1, <2>1 DEF Event, EscrowEvent
<1>2. CASE MineRefund(h)
  BY <1>0, <1>1, <1>2 DEF MineRefund
<1>3. CASE Disburse(h)
  BY <1>1, <1>3 DEF Disburse
<1> QED  BY <1>2, <1>3

\* No other event or transaction counts as spent, no other permit as signed.
LEMMA SpentKept ==
  ASSUME IInv, Grow, NEW a \in Account,
         log' = log \/ \E e \in EscrowEvent : e.kind # "Funded" /\ log' = Append(log, e)
  PROVE  Spent(a)' = Spent(a)
<1>1. Total(FundedIn(log), txs', a) = Total(FundedIn(log), txs, a)
  BY Counted, TotalKept
<1>2. FundedIn(log') = FundedIn(log)
  <2>1. ASSUME NEW e \in EscrowEvent, e.kind # "Funded", log' = Append(log, e)
        PROVE  FundedIn(log') = FundedIn(log)
    <3>1. log \in Seq(EscrowEvent) /\ DOMAIN log = 1..Len(log) /\ Len(log) \in Nat
      BY DEF IInv, TypeOK
    <3>2. /\ DOMAIN log' = 1..(Len(log) + 1) /\ log'[Len(log) + 1] = e
          /\ \A i \in 1..Len(log) : log'[i] = log[i]
      <4>1. ASSUME NEW l, l = Append(log, e)
            PROVE  /\ DOMAIN l = 1..(Len(log) + 1) /\ l[Len(log) + 1] = e
                   /\ \A i \in 1..Len(log) : l[i] = log[i]
        BY <3>1, <4>1
      <4> QED  BY <2>1, <4>1
    <3>3. \A i \in 1..(Len(log) + 1) : i \in 1..Len(log) \/ i = Len(log) + 1
      BY <3>1
    <3>4. ASSUME NEW b PROVE b \in FundedIn(log') <=> b \in FundedIn(log)
      <4>1. b \in FundedIn(log') <=>
              \E i \in 1..(Len(log) + 1) : log'[i].kind = "Funded" /\ log'[i].bounty = b
        BY <3>2 DEF FundedIn
      <4>2. b \in FundedIn(log) <=>
              \E i \in 1..Len(log) : log[i].kind = "Funded" /\ log[i].bounty = b
        BY <3>1 DEF FundedIn
      <4>3. 1..Len(log) \subseteq 1..(Len(log) + 1)
        BY <3>1
      <4> QED  BY <2>1, <3>2, <3>3, <4>1, <4>2, <4>3
    <3>5. \A b : b \in FundedIn(log') <=> b \in FundedIn(log)
      BY <3>4
    <3> QED  BY <3>5 DEF FundedIn
  <2> QED  BY <2>1
<1> QED  BY <1>1, <1>2, AsTotals

LEMMA SignedKept ==
  ASSUME IInv, Grow, NEW a \in Account, permits' = permits
  PROVE  SignedFor(a)' = SignedFor(a)
<1>1. Total(TakenOf(permits[a]), txs', a) = Total(TakenOf(permits[a]), txs, a)
  BY Counted, TotalKept
<1> QED  BY <1>1, AsTotals

\* Both are naturals.
LEMMA TotalsNat ==
  ASSUME IInv, Grow, NEW a \in Account
  PROVE  Spent(a) \in Nat /\ SignedFor(a) \in Nat
BY Counted, TotalKept, AsTotals

\* A fund that is mined spends its amount.
LEMMA FundSpends ==
  ASSUME IInv, Grow, NEW h \in DOMAIN txs, NEW rate \in Rate, MineFund(h, rate), NEW a \in Account
  PROVE  Spent(a)' = Spent(a) + (IF txs[h].by = a THEN txs[h].amount ELSE 0)
<1> DEFINE C == FundedIn(log)
           e == Event("Funded", h, h, rate)
<1>0. log' = Append(log, e) /\ txs[h].state = "pending" /\ e.kind = "Funded" /\ e.bounty = h
  BY DEF MineFund, Next1, Event
<1> HIDE DEF e
<1>1. log \in Seq(EscrowEvent) /\ DOMAIN log = 1..Len(log) /\ Len(log) \in Nat
  BY DEF IInv, TypeOK
<1>2. /\ DOMAIN log' = 1..(Len(log) + 1) /\ log'[Len(log) + 1] = e
      /\ \A i \in 1..Len(log) : log'[i] = log[i]
  BY <1>0, <1>1
<1>3. /\ \A i \in 1..(Len(log) + 1) : i \in 1..Len(log) \/ i = Len(log) + 1
      /\ 1..Len(log) \subseteq 1..(Len(log) + 1) /\ Len(log) + 1 \in 1..(Len(log) + 1)
  BY <1>1
<1>4. FundedIn(log') = C \cup {h}
  <2>1. ASSUME NEW b PROVE b \in FundedIn(log') <=> b \in C \cup {h}
    <3>1. b \in FundedIn(log') <=> \E i \in 1..(Len(log) + 1) : log'[i].kind = "Funded" /\ log'[i].bounty = b
      BY <1>2 DEF FundedIn
    <3>2. b \in C <=> \E i \in 1..Len(log) : log[i].kind = "Funded" /\ log[i].bounty = b
      BY <1>1 DEF FundedIn
    <3> HIDE DEF C
    <3> QED  BY <1>0, <1>2, <1>3, <3>1, <3>2
  <2> QED  BY <2>1
<1>5. h \notin C
  BY <1>0 DEF FundedIn, IInv, LogTrue
<1>6. Total(C \cup {h}, txs', a) = Total(C \cup {h}, txs, a)
  BY Counted, TotalKept
<1>7. Total(C \cup {h}, txs, a) = Total(C, txs, a) + (IF txs[h].by = a THEN txs[h].amount ELSE 0)
  BY <1>5, TotalAdds
<1>8. Spent(a)' = Total(C \cup {h}, txs', a) /\ Spent(a) = Total(C, txs, a)
  BY <1>4, AsTotals
<1> HIDE DEF C
<1> QED  BY <1>6, <1>7, <1>8

\* No step lets the escrow take more than was signed for.
LEMMA SignedStep == ASSUME IInv, [Next]_vars PROVE SignedForAll'
<1>0. /\ Grow /\ allowance \in [Account -> Nat] /\ allowance' \in [Account -> Nat]
      /\ \A a \in Account : Spent(a) \in Nat /\ SignedFor(a) \in Nat
                            /\ Spent(a) + allowance[a] <= SignedFor(a)
  BY TxsStep, TokenStep, TotalsNat DEF IInv, TypeOK, SignedForAll
<1>1. ASSUME UNCHANGED token,
             log' = log \/ \E e \in EscrowEvent : e.kind # "Funded" /\ log' = Append(log, e)
      PROVE  SignedForAll'
  <2>1. \A a \in Account : Spent(a)' = Spent(a) /\ SignedFor(a)' = SignedFor(a)
    BY <1>0, <1>1, SpentKept, SignedKept DEF token
  <2> QED  BY <1>0, <1>1, <2>1 DEF SignedForAll, token
<1>2. ASSUME NEW h \in DOMAIN txs, FrontRun(h) PROVE SignedForAll'
  <2>1. /\ PermitValid(h) /\ Take(h) /\ log' = log
        /\ allowance' = [allowance EXCEPT ![txs[h].by] = txs[h].value]
        /\ txs[h].value = txs[h].amount /\ txs[h].amount \in Nat
    BY <1>2, SeenNat DEF FrontRun, chain
  <2>2. ASSUME NEW a \in Account PROVE Spent(a)' + allowance'[a] <= SignedFor(a)'
    <3>1. /\ Spent(a)' = Spent(a)
          /\ SignedFor(a)' = SignedFor(a) + (IF txs[h].by = a THEN txs[h].amount ELSE 0)
      BY <1>0, <2>1, SpentKept, TakeSigns
    <3>2. allowance'[a] = IF txs[h].by = a THEN txs[h].amount ELSE allowance[a]
      BY <1>0, <2>1
    <3> QED  BY <1>0, <2>1, <3>1, <3>2
  <2> QED  BY <2>2 DEF SignedForAll
<1>3. ASSUME NEW h \in DOMAIN txs, NEW rate \in Rate, MineFund(h, rate) PROVE SignedForAll'
  <2>1. /\ AllowanceSeen(h) >= txs[h].amount /\ txs[h].amount \in Nat /\ AllowanceSeen(h) \in Nat
        /\ allowance' = [allowance EXCEPT ![txs[h].by] = AllowanceSeen(h) - txs[h].amount]
        /\ txs[h].value = txs[h].amount
    BY <1>3, SeenNat DEF MineFund
  <2>2. ASSUME NEW a \in Account PROVE Spent(a)' + allowance'[a] <= SignedFor(a)'
    <3>1. Spent(a)' = Spent(a) + (IF txs[h].by = a THEN txs[h].amount ELSE 0)
      BY <1>0, <1>3, FundSpends
    <3>2. allowance'[a] = IF txs[h].by = a THEN AllowanceSeen(h) - txs[h].amount ELSE allowance[a]
      BY <1>0, <2>1
    <3>3. CASE PermitValid(h)
      <4>1. Take(h) /\ AllowanceSeen(h) = txs[h].amount
        BY <1>3, <2>1, <3>3 DEF MineFund, AllowanceSeen
      <4>2. SignedFor(a)' = SignedFor(a) + (IF txs[h].by = a THEN txs[h].amount ELSE 0)
        BY <1>0, <3>3, <4>1, TakeSigns
      <4> QED  BY <1>0, <2>1, <3>1, <3>2, <4>1, <4>2
    <3>4. CASE ~ PermitValid(h)
      <4>1. permits' = permits /\ AllowanceSeen(h) = allowance[txs[h].by]
        BY <1>3, <3>4 DEF MineFund, AllowanceSeen
      <4>2. SignedFor(a)' = SignedFor(a)
        BY <1>0, <4>1, SignedKept
      <4> QED  BY <1>0, <2>1, <3>1, <3>2, <4>1, <4>2
    <3> QED  BY <3>3, <3>4
  <2> QED  BY <2>2 DEF SignedForAll
<1>4. \A h \in DOMAIN txs : MineRefund(h) \/ Disburse(h) =>
        UNCHANGED token /\ \E e \in EscrowEvent : e.kind # "Funded" /\ log' = Append(log, e)
  BY Settles DEF MineRefund, Disburse
<1>5. \A h \in DOMAIN txs : Lose(h) => UNCHANGED token /\ log' = log
  BY DEF Lose
<1>6. PageStep => UNCHANGED token /\ log' = log
  BY PagesOnly DEF chain
<1>7. \A t \in Tab : Send(t) \/ Record(t) => UNCHANGED token /\ log' = log
  BY DEF Send, Record, chain
<1>8. Tick \/ Index \/ UNCHANGED vars => UNCHANGED token /\ log' = log
  BY DEF Tick, Index, vars, chain
<1> QED  BY <1>1, <1>2, <1>3, <1>4, <1>5, <1>6, <1>7, <1>8, NextIs

----------------------------------------------------------------------------
\* What the events handled so far say of the row h, when it says something.
Follows(h, row, T, seen) ==
  row.status \notin {"none", "pending"} =>
    /\ h \in DOMAIN T /\ row.amount = T[h].amount
    /\ \E e \in seen : e.kind = "Funded" /\ e.bounty = h /\ e.fee = row.fee
    /\ \A kind \in {"Disbursed", "Refunded"} :
         (\E e \in seen : e.kind = kind /\ e.bounty = h)
           <=> row.status = (IF kind = "Refunded" THEN "refunded" ELSE "disbursed")

LEMMA RowsFollowIs ==
  /\ RowsFollowChain <=> \A h \in 1..MaxTx : Follows(h, rows[h], txs, Seen)
  /\ RowsFollowChain' <=> \A h \in 1..MaxTx : Follows(h, rows'[h], txs', Seen')
BY DEF RowsFollowChain, Follows

\* The events that are handled stay so.
LEMMA SeenKept ==
  ASSUME IInv, cursor' = cursor, log' = log \/ \E e \in EscrowEvent : log' = Append(log, e)
  PROVE  Seen' = Seen
<1>1. cursor \in Nat /\ cursor <= Len(log) /\ log \in Seq(EscrowEvent) /\ Len(log) \in Nat
  BY DEF IInv, TypeOK
<1>2. \A i \in 1..cursor : log'[i] = log[i]
  BY <1>1
<1> QED  BY <1>2 DEF Seen

\* The event that Index handles is the only one of its kind, and the funding
\* of its bounty was handled before it.
LEMMA NextEvent ==
  ASSUME IInv, Index
  PROVE  LET e == log[cursor + 1]
         IN  /\ e \in EscrowEvent /\ Seen' = Seen \cup {e}
             /\ \A s \in Seen : s.bounty = e.bounty => (s.kind = "Funded" <=> e.kind # "Funded")
<1> DEFINE e == log[cursor + 1]
<1>1. /\ cursor \in Nat /\ cursor < Len(log) /\ log \in Seq(EscrowEvent) /\ Len(log) \in Nat
      /\ cursor' = cursor + 1 /\ log' = log /\ DOMAIN log = 1..Len(log)
  BY DEF IInv, TypeOK, Index, chain
<1>2. /\ cursor + 1 \in DOMAIN log /\ cursor + 1 \in 1..(cursor + 1) /\ 1..cursor \subseteq DOMAIN log
      /\ 1..cursor \subseteq 1..(cursor + 1)
      /\ \A i \in 1..(cursor + 1) : i \in 1..cursor \/ i = cursor + 1
      /\ cursor + 1 \notin 1..cursor
  BY <1>1
<1>3. e \in EscrowEvent
  BY <1>1, <1>2
<1>4. Seen' = Seen \cup {e}
  BY <1>1, <1>2 DEF Seen
<1>5. ASSUME NEW s \in Seen, s.bounty = e.bounty PROVE s.kind = "Funded" <=> e.kind # "Funded"
  <2>1. PICK i \in 1..cursor : s = log[i]
    BY DEF Seen
  <2>2. i \in DOMAIN log /\ i # cursor + 1
    BY <1>2
  <2>3. ~ (log[i].kind = "Funded" <=> log[cursor + 1].kind = "Funded")
    BY <1>2, <1>5, <2>1, <2>2 DEF IInv, LogTrue
  <2> QED  BY <2>1, <2>3
<1> QED  BY <1>3, <1>4, <1>5

\* A row follows the chain after the step that handles an event.
LEMMA IndexFollows == ASSUME IInv, Index PROVE RowsFollowChain'
<1> DEFINE e == log[cursor + 1]
<1>0. /\ e \in EscrowEvent /\ Seen' = Seen \cup {e}
      /\ \A s \in Seen : s.bounty = e.bounty => (s.kind = "Funded" <=> e.kind # "Funded")
  BY NextEvent
<1>1. /\ txs' = txs /\ rows \in [1..MaxTx -> BountyRow]
      /\ rows' = [h \in 1..MaxTx |->
                    IF e.kind = "Funded" /\ h \in FundedRow(e) THEN Funded(rows[h], e)
                    ELSE IF e.kind # "Funded" /\ h \in SettledRow(e) THEN Settled(rows[h], e)
                    ELSE rows[h]]
  BY DEF Index, chain, IInv, TypeOK
<1> HIDE DEF e
<1>2. ASSUME NEW h \in 1..MaxTx PROVE Follows(h, rows'[h], txs, Seen \cup {e})
  <2>1. /\ Follows(h, rows[h], txs, Seen) /\ rows[h] \in BountyRow
        /\ (rows[h].status # "none" => h \in DOMAIN txs /\ rows[h].amount = txs[h].amount)
    BY <1>1, RowsFollowIs DEF IInv, RowsPosted
  <2>2. CASE e.kind = "Funded" /\ h \in FundedRow(e)
    <3>1. rows'[h] = Funded(rows[h], e) /\ e.bounty = h /\ rows[h].status # "none"
      BY <1>1, <2>2 DEF FundedRow, IInv, RowsPosted
    <3>2. /\ Funded(rows[h], e).status = "funded" /\ Funded(rows[h], e).fee = e.fee
          /\ Funded(rows[h], e).amount = rows[h].amount
      BY <2>1 DEF Funded, BountyRow
    <3>3. \A s \in Seen \cup {e} : s.bounty = h => s.kind \notin {"Disbursed", "Refunded"}
      <4>1. \A s \in Seen : s.bounty = h => s.kind \notin {"Disbursed", "Refunded"}
        <5>1. ASSUME NEW s \in Seen, s.bounty = h PROVE s.kind \notin {"Disbursed", "Refunded"}
          <6>1. PICK j \in 1..cursor : s = log[j]
            BY DEF Seen
          <6>2. /\ cursor \in Nat /\ cursor < Len(log) /\ Len(log) \in Nat /\ DOMAIN log = 1..Len(log)
            BY DEF IInv, TypeOK, Index
          <6>3. j \in DOMAIN log /\ 1..(j - 1) \subseteq 1..cursor
            BY <6>2
          <6>4. CASE s.kind # "Funded"
            <7>1. PICK i \in 1..(j - 1) : log[i].kind = "Funded" /\ log[i].bounty = h
              BY <5>1, <6>1, <6>3, <6>4 DEF IInv, LogTrue
            <7>2. log[i] \in Seen
              BY <6>3, <7>1 DEF Seen
            <7> QED  BY <1>0, <2>2, <3>1, <7>1, <7>2
          <6> QED  BY <6>4
        <5> QED  BY <5>1
      <4> QED  BY <2>2, <4>1
    <3> QED  BY <2>1, <2>2, <3>1, <3>2, <3>3 DEF Follows
  <2>3. CASE e.kind # "Funded" /\ h \in SettledRow(e)
    <3>1. /\ rows'[h] = Settled(rows[h], e) /\ e.bounty = h
          /\ rows[h].status \notin {"none", "pending"}
      BY <1>1, <2>3 DEF SettledRow
    <3>2. /\ Settled(rows[h], e).status = (IF e.kind = "Refunded" THEN "refunded" ELSE "disbursed")
          /\ Settled(rows[h], e).fee = rows[h].fee
          /\ Settled(rows[h], e).amount = rows[h].amount
      BY <2>1 DEF Settled, BountyRow
    <3>3. e.kind \in {"Disbursed", "Refunded"}
      BY <1>0, <2>3 DEF EscrowEvent
    <3>4. \A s \in Seen : s.bounty = h => s.kind = "Funded"
      BY <1>0, <2>3, <3>1
    <3> QED  BY <2>1, <2>3, <3>1, <3>2, <3>3, <3>4 DEF Follows
  <2>4. CASE /\ ~ (e.kind = "Funded" /\ h \in FundedRow(e))
             /\ ~ (e.kind # "Funded" /\ h \in SettledRow(e))
    <3>1. rows'[h] = rows[h]
      BY <1>1, <2>4
    <3>2. ASSUME rows[h].status \notin {"none", "pending"} PROVE e.bounty # h
      <4>1. e.kind # "Funded" => e.bounty # h
        BY <2>4, <3>2 DEF SettledRow
      <4>2. rows[h] # NoRow
        BY <3>2 DEF NoRow
      <4>3. e.kind = "Funded" => e.bounty # h
        BY <2>4, <4>2 DEF FundedRow
      <4> QED  BY <4>1, <4>3
    <3> QED  BY <2>1, <3>1, <3>2 DEF Follows
  <2> QED  BY <2>2, <2>3, <2>4
<1> QED  BY <1>0, <1>1, <1>2, RowsFollowIs

\* A row that is posted starts as pending; a refund's hash says nothing.
LEMMA RecordFollows == ASSUME IInv, NEW t \in Tab, Record(t) PROVE RowsFollowChain'
<1> DEFINE p == tab[t]
<1>1. /\ p \in TabState /\ p.pc = "record" /\ Holds(p, txs, rows)
      /\ rows \in [1..MaxTx -> BountyRow] /\ txs' = txs /\ log' = log /\ cursor' = cursor
      /\ rows' = rows \/ rows' = Created(p) \/ (p.page # "form" /\ rows' = RefundSaved(p))
  BY DEF Record, At, IInv, TypeOK, TabsHold, chain
<1> HIDE DEF p
<1>2. Seen' = Seen
  BY <1>1, SeenKept
<1>3. ASSUME NEW h \in 1..MaxTx PROVE Follows(h, rows'[h], txs, Seen)
  <2>1. Follows(h, rows[h], txs, Seen) /\ rows[h] \in BountyRow
    BY <1>1, RowsFollowIs DEF IInv
  <2>2. CASE rows' = Created(p)
    BY <1>1, <2>1, <2>2 DEF Created, Follows
  <2>3. CASE rows' = RefundSaved(p)
    <3>1. /\ rows'[h].status = rows[h].status /\ rows'[h].fee = rows[h].fee
          /\ rows'[h].amount = rows[h].amount
      BY <1>1, <2>1, <2>3 DEF RefundSaved, BountyRow
    <3> QED  BY <2>1, <3>1 DEF Follows
  <2> QED  BY <1>1, <2>1, <2>2, <2>3
<1> QED  BY <1>1, <1>2, <1>3, RowsFollowIs

\* Every step.
LEMMA FollowStep == ASSUME IInv, [Next]_vars PROVE RowsFollowChain'
<1>0. Grow
  BY TxsStep
<1>1. ASSUME UNCHANGED <<rows, cursor>>, log' = log \/ \E e \in EscrowEvent : log' = Append(log, e)
      PROVE  RowsFollowChain'
  <2>1. Seen' = Seen
    BY <1>1, SeenKept
  <2>2. ASSUME NEW h \in 1..MaxTx PROVE Follows(h, rows[h], txs', Seen)
    <3>1. h \in DOMAIN txs => h \in DOMAIN txs' /\ txs'[h].amount = txs[h].amount
      BY <1>0, SameTx
    <3> QED  BY <3>1, RowsFollowIs DEF Follows, IInv
  <2> QED  BY <1>1, <2>1, <2>2, RowsFollowIs
<1>2. PageStep => UNCHANGED <<rows, cursor>> /\ log' = log
  BY PagesOnly DEF chain
<1>3. \A t \in Tab : Send(t) => UNCHANGED <<rows, cursor>> /\ log' = log
  BY DEF Send
<1>4. \A h \in DOMAIN txs :
        FrontRun(h) \/ MineRefund(h) \/ Lose(h) \/ Disburse(h) \/ (\E rate \in Rate : MineFund(h, rate))
          => UNCHANGED <<rows, cursor>>
  BY DEF FrontRun, MineRefund, Lose, Disburse, MineFund
<1>5. \A h \in DOMAIN txs : FrontRun(h) \/ Lose(h) => log' = log
  BY DEF FrontRun, Lose, chain
<1>6. \A h \in DOMAIN txs : MineRefund(h) \/ Disburse(h) \/ (\E rate \in Rate : MineFund(h, rate))
        => \E e \in EscrowEvent : log' = Append(log, e)
  <2>1. ASSUME NEW h \in DOMAIN txs, NEW rate \in Rate PROVE Event("Funded", h, h, rate) \in EscrowEvent
    <3>1. h \in Nat /\ rate \in Nat
      BY SeenNat, Numbers
    <3> QED  BY <3>1 DEF Event, EscrowEvent
  <2> QED  BY <2>1, Settles DEF MineFund
<1>7. Tick \/ UNCHANGED vars => UNCHANGED <<rows, cursor>> /\ log' = log
  BY DEF Tick, vars, chain
<1> QED  BY <1>1, <1>2, <1>3, <1>4, <1>5, <1>6, <1>7, IndexFollows, RecordFollows, NextIs

----------------------------------------------------------------------------
LEMMA NowStep == ASSUME IInv, [Next]_vars PROVE now' \in Nat
<1>0. now \in Nat
  BY DEF IInv, TypeOK
<1>1. PageStep => now' = now
  BY PagesOnly DEF chain
<1>2. \A t \in Tab : Send(t) \/ Record(t) => now' = now
  BY DEF Send, Record, chain
<1>3. \A h \in DOMAIN txs :
        FrontRun(h) \/ MineRefund(h) \/ Lose(h) \/ Disburse(h) \/ (\E rate \in Rate : MineFund(h, rate))
          => now' = now
  BY DEF FrontRun, MineRefund, Lose, Disburse, MineFund, chain
<1>4. Index \/ UNCHANGED vars => now' = now
  BY DEF Index, vars, chain
<1>5. Tick => now' = now + 1
  BY DEF Tick
<1> QED  BY <1>0, <1>1, <1>2, <1>3, <1>4, <1>5, NextIs

\* Nobody has sent anything and nothing was counted.
LEMMA Starts == Init => IInv
<1> SUFFICES ASSUME Init PROVE IInv
  OBVIOUS
<1> USE DEF Init
<1>1. Blank \in TabState /\ Blank.pc = "closed" /\ NoRow \in BountyRow /\ NoRow.status = "none"
  BY DEF Blank, TabState, NoRow, BountyRow
<1>2. txs \in Seq(Tx) /\ log \in Seq(EscrowEvent) /\ Len(txs) = 0 /\ Len(log) = 0
  OBVIOUS
<1>3. DOMAIN txs = {} /\ DOMAIN log = {} /\ \A a \in Account : DOMAIN permits[a] = {}
  OBVIOUS
<1>4. TypeOK
  BY <1>1, <1>2 DEF TypeOK
<1>5. TabsHold
  BY <1>1 DEF TabsHold, Holds
<1>6. TxsSound /\ PermitsInOrder /\ LogTrue(log, txs) /\ cursor <= Len(log)
  BY <1>2, <1>3, Numbers DEF TxsSound, PermitsInOrder, LogTrue
<1>7. RowsPosted /\ RowsFollowChain
  BY <1>1 DEF RowsPosted, RowsFollowChain
<1>8. SignedForAll
  <2>1. ASSUME NEW a \in Account PROVE Spent(a) = 0 /\ SignedFor(a) = 0 /\ allowance[a] = 0
    <3>1. Spent(a) = 0
      <4> DEFINE f == [h \in 1..MaxTx |-> IF h \in DOMAIN txs /\ txs[h].by = a /\ FundedAt(h) # {}
                                          THEN txs[h].amount ELSE 0]
      <4>1. \A h \in 1..MaxTx : f[h] = 0
        BY <1>3
      <4> HIDE DEF f
      <4>2. SumTo(f, MaxTx) = 0
        BY <4>1, Numbers, SumToZero
      <4> QED  BY <4>2 DEF Spent, f
    <3>2. SignedFor(a) = 0
      <4> DEFINE f == [h \in 1..MaxTx |-> IF h \in DOMAIN txs /\ txs[h].by = a /\ Permitted(h)
                                          THEN txs[h].amount ELSE 0]
      <4>1. \A h \in 1..MaxTx : f[h] = 0
        BY <1>3
      <4> HIDE DEF f
      <4>2. SumTo(f, MaxTx) = 0
        BY <4>1, Numbers, SumToZero
      <4> QED  BY <4>2 DEF SignedFor, f
    <3> QED  BY <3>1, <3>2
  <2> QED  BY <2>1 DEF SignedForAll
<1> QED  BY <1>4, <1>5, <1>6, <1>7, <1>8 DEF IInv

LEMMA IInvStep == IInv /\ [Next]_vars => IInv'
<1> SUFFICES ASSUME IInv, [Next]_vars PROVE IInv'
  OBVIOUS
<1>1. TypeOK'
  BY TxsStep, RowsStep, TabsStep, TokenStep, LogStep, NowStep DEF TypeOK, Grow
<1>2. TabsHold' /\ TxsSound' /\ PermitsInOrder' /\ LogTrue(log, txs)' /\ RowsPosted'
  BY TxsStep, RowsStep, TabsStep, TokenStep, LogStep
<1>3. (cursor <= Len(log))' /\ SignedForAll' /\ RowsFollowChain'
  BY LogStep, SignedStep, FollowStep
<1> QED  BY <1>1, <1>2, <1>3 DEF IInv

LEMMA Inductive == Spec => []IInv
BY Starts, IInvStep, PTL DEF Spec

\* The pages, the table, the transactions and the log have the values that
\* wallet_controller.js, the bounties table and the escrow give them.
THEOREM TypeCorrect == Spec => []TypeOK
<1>1. IInv => TypeOK
  BY DEF IInv
<1> QED  BY <1>1, Inductive, PTL

\* Whatever is retried, done in two tabs or with two accounts, or submitted by
\* somebody else: the escrow never has or can take more than was typed and
\* signed for (wallet_controller.js 123-144).
THEOREM NeverMoreThanSigned == Spec => []SignedForAll
<1>1. IInv => SignedForAll
  BY DEF IInv
<1> QED  BY <1>1, Inductive, PTL

\* While a permit can be used, so can the expiry it was signed with, for any
\* lag of the browser's clock (wallet_controller.js 100-104).
THEOREM BufferAlwaysHolds == Spec => []BufferHolds
<1>1. IInv => BufferHolds
  <2> SUFFICES ASSUME IInv, NEW h \in DOMAIN txs, txs[h].kind = "fund", now <= txs[h].deadline
               PROVE  ExpiryAccepted(h)
    BY DEF BufferHolds
  <2>1. txs[h] \in Tx /\ now \in Nat /\ Buffered(txs[h].expiry, txs[h].deadline)
    BY SeenNat DEF IInv, TypeOK, TxsSound
  <2>2. txs[h].expiry \in Int /\ txs[h].deadline \in Int /\ MIN_DURATION \in Nat
    BY <2>1, Numbers DEF Tx
  <2> QED  BY <2>1, <2>2 DEF Buffered, ExpiryAccepted
<1> QED  BY <1>1, Inductive, PTL

\* A row that is no longer pending was funded by its own transaction, shows
\* the fee that was charged and ended as the chain says
\* (bounties_controller.rb 37-39, event_indexer.rb 55-95).
THEOREM RowsAreTrue == Spec => []RowsFollowChain
<1>1. IInv => RowsFollowChain
  BY DEF IInv
<1> QED  BY <1>1, Inductive, PTL

----------------------------------------------------------------------------
\* What a division that rounds down says.
LEMMA FloorDivision ==
  ASSUME NEW n \in Int, NEW d \in Nat \ {0}
  PROVE  n \div d \in Int /\ (n \div d) * d <= n /\ n < (n \div d) * d + d
OBVIOUS

LEMMA ProductOrder ==
  ASSUME NEW m \in Int, NEW n \in Int, NEW d \in Nat \ {0}
  PROVE  /\ d * m <= d * n => m <= n
         /\ d * m < d * n => m < n
<1>1. ASSUME m >= n + 1 PROVE d * m >= d * n + d
  <2>1. PICK k \in Nat : m = n + 1 + k
    <3>1. m - n - 1 \in Nat /\ m = n + 1 + (m - n - 1)
      BY <1>1
    <3> QED  BY <3>1
  <2>2. d * m = d * n + d + d * k /\ d * k \in Nat /\ d * n \in Int
    BY <2>1
  <2> QED  BY <2>2
<1>2. d * m \in Int /\ d * n \in Int
  OBVIOUS
<1>3. ASSUME m = n PROVE d * m = d * n
  BY <1>3
<1> QED  BY <1>1, <1>2, <1>3

\* The sum both sides of the page's claim reduce to: the numerator of the
\* rounding is the net amount times 2 * FeeDenominator * CENT, and the
\* payout's fee is rounded down.
LEMMA RoundingClose ==
  ASSUME NEW v \in Nat, NEW r \in Nat
  PROVE  LET gap == Recalc(v, r) * CENT - Payout(v, r)
         IN  2 * gap <= CENT /\ 2 * gap >= - CENT - 2
<1> USE FundingAssumption
<1> DEFINE D == FeeDenominator
           DC == D * CENT
           vD == v * D
           vr == v * r
           q == Recalc(v, r)
           p == (v * r) \div D
           gap == q * CENT - (v - p)
<1>0. D \in Nat \ {0} /\ CENT \in Nat \ {0}
  OBVIOUS
<1>1. DC \in Nat \ {0} /\ vD \in Nat /\ vr \in Nat /\ 2 * DC \in Nat \ {0}
  BY <1>0
<1>2. 2 * v * (D - r) + DC = 2 * (vD - vr) + DC
  BY <1>0
<1>3. q = (2 * (vD - vr) + DC) \div (2 * DC)
  <2>1. 2 * D * CENT = 2 * DC
    BY <1>0
  <2> QED  BY <1>2, <2>1 DEF Recalc
<1>4. p \in Int /\ p * D <= vr /\ vr < p * D + D
  BY <1>0, <1>1, FloorDivision
<1>5. /\ q \in Int /\ q * (2 * DC) <= 2 * (vD - vr) + DC
      /\ 2 * (vD - vr) + DC < q * (2 * DC) + 2 * DC
  <2> DEFINE n == 2 * (vD - vr) + DC
             d == 2 * DC
  <2>1. n \in Int /\ d \in Nat \ {0} /\ q = n \div d
    BY <1>1, <1>3
  <2> HIDE DEF n, d
  <2>2. n \div d \in Int /\ (n \div d) * d <= n /\ n < (n \div d) * d + d
    BY <2>1, FloorDivision
  <2>3. q \in Int /\ q * d <= n /\ n < q * d + d
    BY <2>1, <2>2
  <2> QED  BY <2>3 DEF n, d
<1>6. /\ q * (2 * DC) = 2 * (q * DC) /\ q * DC \in Int /\ p * D \in Int
      /\ D * (2 * gap) = 2 * (q * DC) - 2 * vD + 2 * (p * D)
      /\ gap \in Int
  <2>1. q \in Int /\ p \in Int
    BY <1>4, <1>5
  <2> HIDE DEF q, p
  <2> QED  BY <1>0, <2>1
<1>7. D * (2 * gap) <= D * CENT /\ D * (- CENT - 2) < D * (2 * gap)
  <2>1. D * (- CENT - 2) = - DC - 2 * D
    BY <1>0
  <2> DEFINE qDC == q * DC
             pD == p * D
             g == D * (2 * gap)
  <2>2. /\ qDC \in Int /\ pD \in Int /\ g = 2 * qDC - 2 * vD + 2 * pD
        /\ pD <= vr /\ vr < pD + D
        /\ 2 * qDC <= 2 * (vD - vr) + DC /\ 2 * (vD - vr) + DC < 2 * qDC + 2 * DC
    BY <1>4, <1>5, <1>6
  <2>3. vD \in Int /\ vr \in Int /\ DC \in Int
    BY <1>1
  <2> HIDE DEF qDC, pD, g, vD, vr, DC
  <2>4. g <= DC /\ - DC - 2 * D < g
    BY <1>0, <2>2, <2>3
  <2> QED  BY <2>1, <2>4 DEF g, DC
<1>8. 2 * gap \in Int /\ - CENT - 2 \in Int /\ gap = q * CENT - Payout(v, r)
  BY <1>0, <1>6 DEF Payout
<1> HIDE DEF gap
<1>9. 2 * gap <= CENT /\ - CENT - 2 < 2 * gap
  BY <1>0, <1>7, <1>8, ProductOrder
<1> QED  BY <1>0, <1>8, <1>9

\* What the form promises is what the escrow pays, to the cent, when the fee
\* is the one the form showed: for every amount, rate and denominator
\* (wallet_controller.js 24-33, bounty.rb 48-54).
THEOREM ShownNetIsPaid == Spec => []ShownNetClose
<1>1. IInv => ShownNetClose
  <2> SUFFICES ASSUME IInv, NEW i \in DOMAIN log, log[i].fee = txs[log[i].bounty].shown
               PROVE  LET v == txs[log[i].bounty].amount
                          gap == Recalc(v, log[i].fee) * CENT - Payout(v, log[i].fee)
                      IN  2 * gap <= CENT /\ 2 * gap >= - CENT - 2
    BY DEF ShownNetClose, Events
  <2>1. log[i] \in EscrowEvent /\ log[i].bounty \in DOMAIN txs
    BY DEF IInv, TypeOK, LogTrue
  <2>2. txs[log[i].bounty] \in Tx
    BY <2>1 DEF IInv, TypeOK
  <2>3. txs[log[i].bounty].amount \in Nat /\ log[i].fee \in Nat
    BY <2>1, <2>2 DEF Tx, EscrowEvent
  <2> QED  BY <2>3, RoundingClose
<1> QED  BY <1>1, Inductive, PTL
=============================================================================

------------------------- MODULE DisbursementProofs -------------------------
(***************************************************************************)
(* Theorems about the payout pipeline, for any number of workers,          *)
(* deliveries, bounties and wallets and any wiring between them, with      *)
(* every failure and any number of crashes, redeliveries and overlaps.     *)
(***************************************************************************)
EXTENDS Disbursement, TLAPS

\* Where a job is past its event; where it holds a wallet; where its
\* transaction is out; where it has seen it mined.
Paying    == {"check", "lookup", "find", "validate", "insert", "sign", "submit", "wait",
              "save_tx", "save_bounty", "comment"}
Holding   == Paying \ {"check", "lookup"}
Confirmed == {"save_tx", "save_bounty", "comment"}
Sent      == Confirmed \cup {"wait"}

\* A merge of d pays b.
Earned(d, b) == d \in Merged /\ b \in Closes[d] /\ b \in IntoTarget[d]

\* What a job knows, of the events E, the wallets L that were linked, the
\* transactions T and the bounties U of which a payment was undone.
Informed(j, E, L, T, U) ==
  LET d == j.delivery
  IN  /\ j.pc # "idle" => d \in Delivery
      /\ j.pc = "record" /\ j.bounty # None => d \in Merged /\ j.bounty \in Closes[d]
      /\ j.pc \in Paying => j.bounty \in Bounty /\ d \in E /\ Earned(d, j.bounty)
      /\ j.pc \in Holding => j.wallet \in Wallet /\ j.wallet \in L[Author[d]]
      /\ j.pc \in Paying \ Sent => T[d].state = "none"
      /\ j.pc \in Sent => T[d].state # "none" /\ T[d].bounty = j.bounty /\ T[d].to = j.wallet
      /\ j.pc \in Confirmed => T[d].state = "mined" \/ j.bounty \in U

JobsInformed == \A w \in Worker : Informed(job[w], events, wasLinked, tx, undone)

\* Of the jobs of one delivery one gets past the event.
OneGoesOn ==
  \A w, x \in Worker :
    w # x /\ job[w].pc \in Paying /\ job[x].pc \in Paying => job[w].delivery # job[x].delivery

\* A transaction that was sent pays what a merge earned; a mined one has paid.
Justified(t, d, E, L, esc) ==
  /\ t.state = "none" => t.bounty = None
  /\ t.state # "none" => /\ t.bounty \in Bounty /\ t.to \in Wallet
                         /\ d \in E /\ Earned(d, t.bounty) /\ t.to \in L[Author[d]]
  /\ t.state = "mined" => esc[t.bounty] = [status |-> "disbursed", to |-> t.to]

TxJustified == \A d \in Delivery : Justified(tx[d], d, events, wasLinked, escrow)

WalletsLinked == \A u \in User : activeWallet[u] # None => activeWallet[u] \in wasLinked[u]

\* The chain names a recipient exactly when it has paid.
RecipientIfPaid == \A b \in Bounty : escrow[b].to # None <=> escrow[b].status = "disbursed"

IInv ==
  /\ TypeOK /\ JobsInformed /\ OneGoesOn /\ TxJustified /\ WalletsLinked /\ RecipientIfPaid
  /\ PayoutEarned /\ RecordsReal

----------------------------------------------------------------------------
\* Nothing has happened yet.
LEMMA Initially == Init => IInv
<1> SUFFICES ASSUME Init PROVE IInv
  OBVIOUS
<1>1. TypeOK
  BY WiringAssumption DEF Init, TypeOK, Job, Steps, Idle, AttestationRow, NoAttestation,
     BountyRow, Told, Transaction, Deposit
<1>2. JobsInformed /\ OneGoesOn
  BY DEF Init, JobsInformed, OneGoesOn, Informed, Idle, Paying, Holding, Sent, Confirmed
<1>3. TxJustified /\ WalletsLinked /\ RecipientIfPaid
  BY DEF Init, TxJustified, Justified, WalletsLinked, RecipientIfPaid
<1>4. PayoutEarned /\ RecordsReal
  BY DEF Init, PayoutEarned, RecordsReal, NoAttestation
<1> QED  BY <1>1, <1>2, <1>3, <1>4 DEF IInv

\* Goto and Done change one job.
LEMMA Went ==
  ASSUME job \in [Worker -> Job], NEW w \in Worker, NEW pc \in Steps, Goto(w, pc)
  PROVE  /\ job' \in [Worker -> Job]
         /\ \A x \in Worker \ {w} : job'[x] = job[x]
         /\ job'[w].pc = pc /\ job'[w].delivery = job[w].delivery
         /\ job'[w].bounty = job[w].bounty /\ job'[w].wallet = job[w].wallet
BY DEF Goto, Job

\* Done, likewise.
LEMMA Ended ==
  ASSUME job \in [Worker -> Job], NEW w \in Worker, Done(w)
  PROVE  /\ job' \in [Worker -> Job]
         /\ \A x \in Worker \ {w} : job'[x] = job[x]
         /\ job'[w] = Idle /\ job'[w].pc = "idle"
BY DEF Done, Job, Idle, Steps

\* What a job of worker w refers to is there.
LEMMA InHand ==
  ASSUME TypeOK, JobsInformed, NEW w \in Worker
  PROVE  /\ job[w] \in Job
         /\ job[w].pc # "idle" => job[w].delivery \in Delivery
         /\ job[w].pc \in Paying => job[w].bounty \in Bounty
         /\ job[w].pc \in Holding => job[w].wallet \in Wallet
BY DEF TypeOK, JobsInformed, Informed

----------------------------------------------------------------------------
\* The chain, GitHub and the users keep every table well typed.
LEMMA TypeOutside ==
  ASSUME TypeOK, TxJustified
  PROVE  /\ Tick => TypeOK'
         /\ \A d \in Delivery : Deliver(d) \/ Mine(d) \/ SubmittedByAnother(d) => TypeOK'
         /\ \A u \in User, a \in Wallet : LinkWallet(u, a) => TypeOK'
         /\ \A b \in Bounty : Index(b) \/ Refund(b) \/ Reorg(b) => TypeOK'
<1> USE DEF TypeOK, rows, users, chain
<1>1. ASSUME Tick PROVE TypeOK'
  BY <1>1, WiringAssumption DEF Tick
<1>2. ASSUME NEW d \in Delivery, Deliver(d) PROVE TypeOK'
  BY <1>2 DEF Deliver
<1>3. ASSUME NEW d \in Delivery, tx[d].state # "none"
      PROVE  PaidTo(tx[d].bounty, tx[d].to) \in [Bounty -> Deposit]
  <2>1. tx[d].bounty \in Bounty /\ tx[d].to \in Wallet
    BY <1>3 DEF TxJustified, Justified
  <2>2. [status |-> "disbursed", to |-> tx[d].to] \in Deposit
    BY <2>1 DEF Deposit
  <2> QED  BY <2>1, <2>2 DEF PaidTo
<1>4. ASSUME NEW d \in Delivery, Mine(d) PROVE TypeOK'
  <2>1. tx[d] \in Transaction
    OBVIOUS
  <2>2. tx' \in [Delivery -> Transaction]
    <3>1. ASSUME NEW s \in {"mined", "reverted"}, tx' = [tx EXCEPT ![d].state = s]
          PROVE  tx' \in [Delivery -> Transaction]
      BY <2>1, <3>1 DEF Transaction
    <3> QED  BY <1>4, <3>1 DEF Mine
  <2>3. escrow' \in [Bounty -> Deposit]
    BY <1>3, <1>4 DEF Mine
  <2> QED  BY <1>4, <2>2, <2>3 DEF Mine
<1>5. ASSUME NEW d \in Delivery, SubmittedByAnother(d) PROVE TypeOK'
  <2>1. escrow' \in [Bounty -> Deposit]
    BY <1>3, <1>5 DEF SubmittedByAnother
  <2> QED  BY <1>5, <2>1 DEF SubmittedByAnother
<1>6. ASSUME NEW u \in User, NEW a \in Wallet, LinkWallet(u, a) PROVE TypeOK'
  BY <1>6 DEF LinkWallet
<1>7. ASSUME NEW b \in Bounty, Index(b) PROVE TypeOK'
  <2> DEFINE row == [status |-> escrow[b].status,
                     recipient |-> IF escrow[b].to = None THEN mirror[b].recipient
                                   ELSE escrow[b].to]
  <2>1. row \in BountyRow
    BY DEF BountyRow, Deposit
  <2>2. mirror' = [mirror EXCEPT ![b] = row]
    BY <1>7 DEF Index
  <2> HIDE DEF row
  <2> QED  BY <1>7, <2>1, <2>2 DEF Index
<1>8. ASSUME NEW b \in Bounty, Refund(b) PROVE TypeOK'
  <2>1. escrow' \in [Bounty -> Deposit]
    BY <1>8 DEF Refund, Deposit
  <2> QED  BY <1>8, <2>1 DEF Refund
<1>9. ASSUME NEW b \in Bounty, Reorg(b) PROVE TypeOK'
  <2>1. [status |-> "funded", to |-> None] \in Deposit
    BY DEF Deposit
  <2>2. escrow' \in [Bounty -> Deposit]
    BY <1>9, <2>1 DEF Reorg
  <2>3. \A d \in Delivery : Restored(tx[d], b) \in Transaction
    BY DEF Restored, Transaction
  <2>4. tx' \in [Delivery -> Transaction]
    BY <1>9, <2>3 DEF Reorg
  <2> QED  BY <1>9, <2>2, <2>4 DEF Reorg
<1> QED  BY <1>1, <1>2, <1>4, <1>5, <1>6, <1>7, <1>8, <1>9

\* A comment is about a bounty.
LEMMA CommentTyped ==
  ASSUME comments \subseteq Told, NEW b \in Bounty, NEW a \in Wallet, Posted(b, a)
  PROVE  comments' \subseteq Told
BY DEF Posted, Told

\* So do the steps of a job.
LEMMA TypeJob ==
  ASSUME TypeOK, JobsInformed, NEW w \in Worker,
         JobStep(w) \/ Crash(w) \/ \E d \in Delivery : Claim(w, d)
  PROVE  TypeOK'
<1> USE DEF TypeOK, rows, users, chain, At
<1>0. /\ job[w] \in Job
      /\ job[w].pc # "idle" => job[w].delivery \in Delivery
      /\ job[w].pc \in Paying => job[w].bounty \in Bounty
      /\ job[w].pc \in Holding => job[w].wallet \in Wallet
  BY InHand
<1>1. ASSUME NEW now1 \in Job, job' = [job EXCEPT ![w] = now1] PROVE job' \in [Worker -> Job]
  BY <1>1
<1>2. Idle \in Job
  BY DEF Idle, Job, Steps
<1>3. ASSUME NEW d \in Delivery, Claim(w, d) PROVE TypeOK'
  <2>1. [Idle EXCEPT !.pc = "resolve", !.delivery = d] \in Job
    BY <1>2 DEF Job, Steps
  <2>2. job' \in [Worker -> Job]
    BY <1>1, <1>3, <2>1 DEF Claim
  <2> QED  BY <1>3, <2>2 DEF Claim
<1>4. CASE Resolve(w)
  <2>1. PICK b \in Bounty \cup {None} : job' = [job EXCEPT ![w].pc = "record", ![w].bounty = b]
    BY <1>4, WiringAssumption DEF Resolve, Candidates
  <2>2. job' = [job EXCEPT ![w] = [job[w] EXCEPT !.pc = "record", !.bounty = b]]
    BY <2>1
  <2>3. [job[w] EXCEPT !.pc = "record", !.bounty = b] \in Job
    BY <1>0 DEF Job, Steps
  <2>4. job' \in [Worker -> Job]
    BY <1>1, <2>2, <2>3
  <2> QED  BY <1>4, <2>4 DEF Resolve
<1>5. CASE Record(w)
  <2>1. job' \in [Worker -> Job]
    BY <1>5, Went, Ended DEF Record, Steps
  <2> QED  BY <1>0, <1>5, <2>1 DEF Record
<1>6. CASE CheckExpiry(w)
  <2>1. job' \in [Worker -> Job]
    BY <1>6, Went, Ended DEF CheckExpiry, Steps
  <2> QED  BY <1>6, <2>1 DEF CheckExpiry
<1>7. CASE LookupWallet(w)
  <2> DEFINE a == activeWallet[Author[job[w].delivery]]
             now1 == [job[w] EXCEPT !.pc = "find", !.wallet = a]
  <2>1. a \in Wallet \cup {None}
    BY <1>0, <1>7, WiringAssumption DEF LookupWallet
  <2>2. Done(w) \/ job' = [job EXCEPT ![w].pc = "find", ![w].wallet = a]
    BY <1>7 DEF LookupWallet
  <2> HIDE DEF a
  <2>3. now1 \in Job
    BY <1>0, <2>1 DEF Job, Steps
  <2>4. job' = [job EXCEPT ![w].pc = "find", ![w].wallet = a]
        => job' = [job EXCEPT ![w] = now1]
    OBVIOUS
  <2> HIDE DEF now1
  <2>5. job' \in [Worker -> Job]
    BY <1>1, <2>2, <2>3, <2>4, Ended
  <2> QED  BY <1>7, <2>5 DEF LookupWallet
<1>8. CASE FindAttestation(w) \/ ValidateAttestation(w)
  <2>1. job' \in [Worker -> Job]
    BY <1>8, Went, Ended DEF FindAttestation, ValidateAttestation, Steps
  <2> QED  BY <1>8, <2>1 DEF FindAttestation, ValidateAttestation
<1>9. ASSUME NEW b \in Bounty, NEW row \in AttestationRow,
             attestation' = [attestation EXCEPT ![b] = row]
      PROVE  attestation' \in [Bounty -> AttestationRow]
  BY <1>9
<1>10. CASE InsertAttestation(w)
  <2> DEFINE b == job[w].bounty
             row == [attestation[b] EXCEPT !.recipient = job[w].wallet]
  <2>1. job' \in [Worker -> Job]
    BY <1>10, Went DEF InsertAttestation, Steps
  <2>2. b \in Bounty /\ row \in AttestationRow
    BY <1>0, <1>10 DEF InsertAttestation, Paying, Holding, AttestationRow
  <2>3. attestation' = attestation \/ attestation' = [attestation EXCEPT ![b] = row]
    BY <1>10 DEF InsertAttestation
  <2> HIDE DEF row
  <2>4. attestation' \in [Bounty -> AttestationRow]
    BY <1>9, <2>2, <2>3
  <2> QED  BY <1>10, <2>1, <2>4 DEF InsertAttestation
<1>11. CASE Sign(w)
  <2> DEFINE b == job[w].bounty
             row == [attestation[b] EXCEPT !.signedFor = job[w].wallet]
  <2>1. job' \in [Worker -> Job]
    BY <1>11, Went DEF Sign, Steps
  <2>2. b \in Bounty /\ job[w].wallet \in Wallet /\ row \in AttestationRow
    BY <1>0, <1>11 DEF Sign, Paying, Holding, AttestationRow
  <2>3. attestation' = [attestation EXCEPT ![b] = row]
    BY <1>11 DEF Sign
  <2> HIDE DEF row
  <2>4. attestation' \in [Bounty -> AttestationRow]
    BY <1>9, <2>2, <2>3
  <2> QED  BY <1>11, <2>1, <2>2, <2>4 DEF Sign
<1>12. CASE Submit(w)
  <2> DEFINE t == [state |-> "mempool", bounty |-> job[w].bounty, to |-> job[w].wallet]
  <2>1. job' \in [Worker -> Job]
    BY <1>12, Went, Ended DEF Submit, Steps
  <2>2. t \in Transaction
    BY <1>0 DEF Job, Transaction
  <2>3. tx' = [tx EXCEPT ![job[w].delivery] = t] \/ tx' = tx
    BY <1>12 DEF Submit
  <2> HIDE DEF t
  <2>4. tx' \in [Delivery -> Transaction]
    BY <2>2, <2>3
  <2> QED  BY <1>12, <2>1, <2>4 DEF Submit
<1>13. CASE AwaitReceipt(w)
  <2>1. job' \in [Worker -> Job]
    BY <1>13, Went, Ended DEF AwaitReceipt, Steps
  <2> QED  BY <1>13, <2>1 DEF AwaitReceipt
<1>14. CASE SaveTx(w)
  <2> DEFINE b == job[w].bounty
             row == [attestation[b] EXCEPT !.tx = job[w].delivery]
  <2>1. job' \in [Worker -> Job]
    BY <1>14, Went DEF SaveTx, Steps
  <2>2. b \in Bounty /\ row \in AttestationRow
    BY <1>0, <1>14 DEF SaveTx, Paying, AttestationRow
  <2>3. attestation' = [attestation EXCEPT ![b] = row]
    BY <1>14 DEF SaveTx
  <2> HIDE DEF row
  <2>4. attestation' \in [Bounty -> AttestationRow]
    BY <1>9, <2>2, <2>3
  <2> QED  BY <1>14, <2>1, <2>4 DEF SaveTx
<1>15. CASE SaveBounty(w)
  <2>1. job' \in [Worker -> Job]
    BY <1>15, Went DEF SaveBounty, Steps
  <2>2. mirror' \in [Bounty -> BountyRow]
    BY <1>0, <1>15 DEF SaveBounty, Paying, Holding, BountyRow
  <2> QED  BY <1>15, <2>1, <2>2 DEF SaveBounty
<1>16. CASE Comment(w)
  <2>1. job' \in [Worker -> Job]
    BY <1>16, Ended DEF Comment
  <2>2. comments' \subseteq Told
    BY <1>0, <1>16, CommentTyped DEF Comment, Paying, Holding
  <2> QED  BY <1>16, <2>1, <2>2 DEF Comment
<1>17. CASE Crash(w)
  <2>1. job' \in [Worker -> Job]
    BY <1>17, Ended DEF Crash
  <2> QED  BY <1>0, <1>17, <2>1 DEF Crash
<1> QED  BY <1>3, <1>4, <1>5, <1>6, <1>7, <1>8, <1>10, <1>11, <1>12, <1>13, <1>14, <1>15,
            <1>16, <1>17 DEF JobStep

\* Type correctness is kept.
LEMMA TypeStep == ASSUME IInv, [Next]_vars PROVE TypeOK'
<1> USE DEF IInv
<1>1. CASE UNCHANGED vars
  BY <1>1 DEF TypeOK, vars, rows, users, chain
<1> QED  BY <1>1, TypeOutside, TypeJob DEF Next

----------------------------------------------------------------------------
\* How a job moves: the others stay, events only grow, it gets past its event
\* only where that is new, and it sends at most its own transaction.
LEMMA JobMoves ==
  ASSUME TypeOK, JobsInformed, NEW w \in Worker,
         JobStep(w) \/ Crash(w) \/ \E d \in Delivery : Claim(w, d)
  PROVE  /\ \A x \in Worker \ {w} : job'[x] = job[x]
         /\ job'[w].pc \in Paying => /\ job'[w].delivery = job[w].delivery
                                     /\ job[w].pc \in Paying \/ job[w].delivery \notin events
         /\ events \subseteq events' /\ UNCHANGED users /\ UNCHANGED chain
         /\ \A d \in Delivery : tx'[d] # tx[d] => d = job[w].delivery /\ job[w].pc = "submit"
<1> USE DEF At, rows, users, chain
<1>0. job \in [Worker -> Job] /\ job[w] \in Job
  BY DEF TypeOK
<1>1. ASSUME NEW d \in Delivery, Claim(w, d)
      PROVE  (\A x \in Worker \ {w} : job'[x] = job[x]) /\ job'[w].pc \notin Paying
  <2> DEFINE new == [Idle EXCEPT !.pc = "resolve", !.delivery = d]
  <2>1. new.pc = "resolve"
    BY DEF Idle
  <2>2. job' = job \/ job' = [job EXCEPT ![w] = new]
    BY <1>1 DEF Claim
  <2> HIDE DEF new
  <2>3. job[w].pc = "idle"
    BY <1>1 DEF Claim
  <2> QED  BY <1>0, <2>1, <2>2, <2>3 DEF Paying
<1>2. CASE Resolve(w)
  <2>1. PICK b \in Bounty \cup {None} : job' = [job EXCEPT ![w].pc = "record", ![w].bounty = b]
    BY <1>2, WiringAssumption DEF Resolve, Candidates
  <2>2. (\A x \in Worker \ {w} : job'[x] = job[x]) /\ job'[w].pc = "record"
    BY <1>0, <2>1 DEF Job
  <2> QED  BY <1>2, <2>2 DEF Resolve, Paying
<1>3. CASE Record(w)
  <2>1. \/ Done(w) \/ (Goto(w, "check") /\ job[w].delivery \notin events)
    BY <1>3 DEF Record, AlreadyRecorded
  <2>2. /\ \A x \in Worker \ {w} : job'[x] = job[x]
        /\ job'[w].pc = "idle" \/ (job'[w].delivery = job[w].delivery /\ job[w].delivery \notin events)
    BY <1>0, <2>1, Went, Ended DEF Steps
  <2> QED  BY <1>3, <2>2 DEF Record, Paying
<1>4. CASE LookupWallet(w)
  <2>1. PICK a : Done(w) \/ job' = [job EXCEPT ![w].pc = "find", ![w].wallet = a]
    BY <1>4 DEF LookupWallet
  <2>2. CASE Done(w)
    BY <1>0, <1>4, <2>2, Ended DEF LookupWallet, Paying
  <2>3. CASE job' = [job EXCEPT ![w].pc = "find", ![w].wallet = a]
    <3>1. (\A x \in Worker \ {w} : job'[x] = job[x]) /\ job'[w].delivery = job[w].delivery
      BY <1>0, <2>3 DEF Job
    <3> QED  BY <1>4, <3>1 DEF LookupWallet, Paying
  <2> QED  BY <2>1, <2>2, <2>3
<1>5. ASSUME NEW pc \in Steps, Goto(w, pc) \/ Done(w), job[w].pc \in Paying
      PROVE  /\ \A x \in Worker \ {w} : job'[x] = job[x]
             /\ job'[w].pc \in Paying => job'[w].delivery = job[w].delivery
  BY <1>0, <1>5, Went, Ended DEF Paying
<1>6. CASE CheckExpiry(w)
  BY <1>5, <1>6 DEF CheckExpiry, Steps, Paying
<1>7. CASE FindAttestation(w)
  BY <1>5, <1>7 DEF FindAttestation, Steps, Paying
<1>8. CASE ValidateAttestation(w)
  BY <1>5, <1>8 DEF ValidateAttestation, Steps, Paying
<1>9. CASE InsertAttestation(w)
  BY <1>5, <1>9 DEF InsertAttestation, Steps, Paying
<1>10. CASE Sign(w)
  BY <1>5, <1>10 DEF Sign, Steps, Paying
<1>11. CASE Submit(w)
  <2>1. \A d \in Delivery : tx'[d] # tx[d] => d = job[w].delivery
    BY <1>11 DEF Submit, TypeOK
  <2> QED  BY <1>5, <1>11, <2>1 DEF Submit, Steps, Paying
<1>12. CASE AwaitReceipt(w)
  BY <1>5, <1>12 DEF AwaitReceipt, Steps, Paying
<1>13. CASE SaveTx(w)
  BY <1>5, <1>13 DEF SaveTx, Steps, Paying
<1>14. CASE SaveBounty(w)
  BY <1>5, <1>14 DEF SaveBounty, Steps, Paying
<1>15. CASE Comment(w)
  BY <1>5, <1>15 DEF Comment, Steps, Paying
<1>16. CASE Crash(w)
  BY <1>0, <1>16, Ended DEF Crash, Paying
<1> QED  BY <1>1, <1>2, <1>3, <1>4, <1>6, <1>7, <1>8, <1>9, <1>10, <1>11, <1>12, <1>13,
            <1>14, <1>15, <1>16 DEF JobStep, Claim

\* A job stays informed while events and wallets are only added and its
\* transaction stays as it is.
LEMMA InformedKept ==
  ASSUME NEW j \in Job, NEW E, NEW E2, E \subseteq E2, NEW L, NEW L2,
         \A u \in User : L[u] \subseteq L2[u],
         NEW T, NEW T2, j.pc \in Paying => T2[j.delivery] = T[j.delivery], NEW U,
         Informed(j, E, L, T, U)
  PROVE  Informed(j, E2, L2, T2, U)
<1>1. j.pc \in Sent \/ j.pc \in Confirmed \/ j.pc \in Paying \ Sent => j.pc \in Paying
  BY DEF Paying, Sent, Confirmed
<1>2. j.pc # "idle" => Author[j.delivery] \in User
  BY WiringAssumption DEF Informed
<1>3. j.pc \in Holding => j.pc # "idle"
  BY DEF Holding, Paying
<1> QED  BY <1>1, <1>2, <1>3 DEF Informed

\* Of the jobs of one delivery only one ever gets past the event.
LEMMA OneGoesOnStep ==
  ASSUME IInv, NEW w \in Worker,
         JobStep(w) \/ Crash(w) \/ \E d \in Delivery : Claim(w, d)
  PROVE  OneGoesOn'
<1> USE DEF IInv
<1>1. /\ \A x \in Worker \ {w} : job'[x] = job[x]
      /\ job'[w].pc \in Paying => /\ job'[w].delivery = job[w].delivery
                                  /\ job[w].pc \in Paying \/ job[w].delivery \notin events
  BY JobMoves
<1>2. \A x \in Worker : job[x].pc \in Paying => job[x].delivery \in events
  BY DEF JobsInformed, Informed
<1> QED  BY <1>1, <1>2 DEF OneGoesOn

\* Nothing one job does misleads another.
LEMMA OthersInformed ==
  ASSUME IInv, NEW w \in Worker, NEW x \in Worker \ {w},
         JobStep(w) \/ Crash(w) \/ \E d \in Delivery : Claim(w, d)
  PROVE  Informed(job'[x], events', wasLinked', tx', undone')
<1> USE DEF IInv
<1>1. /\ job'[x] = job[x] /\ events \subseteq events' /\ wasLinked' = wasLinked
      /\ undone' = undone
      /\ \A d \in Delivery : tx'[d] # tx[d] => d = job[w].delivery /\ job[w].pc = "submit"
  BY JobMoves DEF users, chain
<1>2. job[x] \in Job /\ Informed(job[x], events, wasLinked, tx, undone)
  BY DEF TypeOK, JobsInformed
<1>3. job[x].pc \in Paying => job[x].delivery \in Delivery
  BY <1>2 DEF Informed, Paying
<1>4. job[x].pc \in Paying => tx'[job[x].delivery] = tx[job[x].delivery]
  BY <1>1, <1>3 DEF OneGoesOn, Paying
<1> QED  BY <1>1, <1>2, <1>4, InformedKept

\* What a job does keeps it informed itself.
LEMMA SelfInformed ==
  ASSUME IInv, NEW w \in Worker,
         JobStep(w) \/ Crash(w) \/ \E d \in Delivery : Claim(w, d)
  PROVE  Informed(job'[w], events', wasLinked', tx', undone')
<1> USE DEF IInv, At, rows, users, chain
<1> DEFINE j == job[w]
           k == job'[w]
           d == j.delivery
<1>0. job \in [Worker -> Job] /\ j \in Job /\ Informed(j, events, wasLinked, tx, undone)
      /\ (j.pc # "idle" => d \in Delivery)
  BY DEF TypeOK, JobsInformed, Informed
<1>1. ASSUME NEW e \in Delivery, Claim(w, e) PROVE Informed(k, events', wasLinked', tx', undone')
  <2> DEFINE new == [Idle EXCEPT !.pc = "resolve", !.delivery = e]
  <2>1. new.pc = "resolve" /\ new.delivery = e
    BY DEF Idle
  <2>2. job' = job \/ job' = [job EXCEPT ![w] = new]
    BY <1>1 DEF Claim
  <2> HIDE DEF new
  <2>3. j.pc = "idle" /\ (k = j \/ k = new)
    BY <1>0, <1>1, <2>2 DEF Claim
  <2> QED  BY <2>1, <2>3 DEF Informed, Paying, Holding, Sent, Confirmed
<1>2. ASSUME Done(w) PROVE Informed(k, events', wasLinked', tx', undone')
  <2>1. k.pc = "idle"
    BY <1>0, <1>2, Ended
  <2> QED  BY <2>1 DEF Informed, Paying, Holding, Sent, Confirmed
<1>3. CASE Resolve(w)
  <2>1. PICK b \in Candidates(d) \cup {None} :
          job' = [job EXCEPT ![w].pc = "record", ![w].bounty = b]
    BY <1>3 DEF Resolve
  <2>2. k.pc = "record" /\ k.delivery = d /\ k.bounty = b
    BY <1>0, <2>1 DEF Job
  <2>3. d \in Delivery
    BY <1>0, <1>3 DEF Resolve
  <2>4. b # None => d \in Merged /\ b \in Closes[d]
    BY <2>1 DEF Candidates
  <2> QED  BY <2>2, <2>3, <2>4 DEF Informed, Paying, Holding, Sent, Confirmed
<1>4. CASE Record(w)
  <2>1. Done(w) \/ (Goto(w, "check") /\ d \notin events /\ j.bounty # None /\ j.bounty \in IntoTarget[d])
    BY <1>4 DEF Record, AlreadyRecorded, StandsDown
  <2>2. j.pc = "record" /\ d \in events' /\ tx' = tx /\ wasLinked' = wasLinked
    BY <1>4 DEF Record
  <2>3. CASE Goto(w, "check") /\ d \notin events /\ j.bounty # None /\ j.bounty \in IntoTarget[d]
    <3>1. k.pc = "check" /\ k.delivery = d /\ k.bounty = j.bounty
      BY <1>0, <2>3, Went DEF Steps
    <3>2. d \in Delivery /\ Earned(d, j.bounty) /\ j.bounty \in Bounty
      BY <1>0, <2>2, <2>3, WiringAssumption DEF Informed, Earned
    <3>3. tx[d].state = "none"
      BY <2>3, <3>2 DEF TxJustified, Justified
    <3> QED  BY <2>2, <3>1, <3>2, <3>3 DEF Informed, Paying, Holding, Sent, Confirmed
  <2> QED  BY <1>2, <2>1, <2>3
<1>5. ASSUME NEW pc \in Steps, Goto(w, pc), UNCHANGED <<events, wasLinked, tx, undone>>,
             j.pc \in Paying,
             pc \in Holding => j.pc \in Holding, pc \notin {"idle", "resolve", "record"},
             pc \in Sent <=> j.pc \in Sent,
             pc \in Confirmed => tx[d].state = "mined" \/ j.bounty \in undone
      PROVE  Informed(k, events', wasLinked', tx', undone')
  <2>1. k.pc = pc /\ k.delivery = d /\ k.bounty = j.bounty /\ k.wallet = j.wallet
    BY <1>0, <1>5, Went
  <2>2. d \in Delivery /\ pc \in Paying
    BY <1>0, <1>5 DEF Paying, Steps
  <2>3. \A c : c \in Sent \/ c \in Confirmed => c \in Paying
    BY DEF Sent, Confirmed, Paying
  <2> QED  BY <1>0, <1>5, <2>1, <2>2, <2>3 DEF Informed
<1> USE DEF Paying, Holding, Sent, Confirmed, Steps
<1>6. CASE CheckExpiry(w)
  BY <1>2, <1>5, <1>6 DEF CheckExpiry
<1>7. CASE LookupWallet(w)
  <2> DEFINE a == activeWallet[Author[d]]
  <2>1. d \in Delivery /\ Author[d] \in User
    BY <1>0, <1>7, WiringAssumption DEF LookupWallet
  <2>2. Done(w) \/ (a # None /\ job' = [job EXCEPT ![w].pc = "find", ![w].wallet = a])
    BY <1>7 DEF LookupWallet, NoWallet
  <2>3. a # None => a \in Wallet /\ a \in wasLinked[Author[d]]
    BY <2>1 DEF WalletsLinked, TypeOK
  <2> HIDE DEF a
  <2>4. CASE a # None /\ job' = [job EXCEPT ![w].pc = "find", ![w].wallet = a]
    <3>1. k.pc = "find" /\ k.delivery = d /\ k.bounty = j.bounty /\ k.wallet = a
      BY <1>0, <2>4 DEF Job
    <3>2. j.pc = "lookup" /\ UNCHANGED <<events, wasLinked, tx>>
      BY <1>7 DEF LookupWallet
    <3> QED  BY <1>0, <2>1, <2>3, <2>4, <3>1, <3>2 DEF Informed
  <2> QED  BY <1>2, <2>2, <2>4
<1>8. CASE FindAttestation(w)
  BY <1>2, <1>5, <1>8 DEF FindAttestation
<1>9. CASE ValidateAttestation(w)
  BY <1>2, <1>5, <1>9 DEF ValidateAttestation
<1>10. CASE InsertAttestation(w)
  BY <1>2, <1>5, <1>10 DEF InsertAttestation
<1>11. CASE Sign(w)
  BY <1>2, <1>5, <1>11 DEF Sign
<1>12. CASE Submit(w)
  <2> DEFINE t == [state |-> "mempool", bounty |-> j.bounty, to |-> j.wallet]
  <2>1. Done(w) \/ (Goto(w, "wait") /\ tx' = [tx EXCEPT ![d] = t])
    BY <1>12 DEF Submit
  <2>2. CASE Goto(w, "wait") /\ tx' = [tx EXCEPT ![d] = t]
    <3>1. k.pc = "wait" /\ k.delivery = d /\ k.bounty = j.bounty /\ k.wallet = j.wallet
      BY <1>0, <2>2, Went
    <3>2. d \in Delivery /\ j.pc = "submit" /\ UNCHANGED <<events, wasLinked>>
      BY <1>0, <1>12 DEF Submit
    <3>3. tx'[d] = t
      BY <2>2, <3>2 DEF TypeOK
    <3> QED  BY <1>0, <3>1, <3>2, <3>3 DEF Informed
  <2> QED  BY <1>2, <2>1, <2>2
<1>13. CASE AwaitReceipt(w)
  BY <1>2, <1>5, <1>13 DEF AwaitReceipt, Succeeded
<1>14. CASE SaveTx(w)
  <2>1. tx[d].state = "mined" \/ j.bounty \in undone
    BY <1>0, <1>14 DEF SaveTx, Informed
  <2> QED  BY <1>5, <1>14, <2>1 DEF SaveTx
<1>15. CASE SaveBounty(w)
  <2>1. tx[d].state = "mined" \/ j.bounty \in undone
    BY <1>0, <1>15 DEF SaveBounty, Informed
  <2> QED  BY <1>5, <1>15, <2>1 DEF SaveBounty
<1>16. CASE Comment(w)
  BY <1>2, <1>16 DEF Comment
<1>17. CASE Crash(w)
  BY <1>2, <1>17 DEF Crash
<1> QED  BY <1>1, <1>3, <1>4, <1>6, <1>7, <1>8, <1>9, <1>10, <1>11, <1>12, <1>13, <1>14,
            <1>15, <1>16, <1>17 DEF JobStep

----------------------------------------------------------------------------
\* How a transaction moves: not at all, out of the mempool, into it once, or
\* back into it when its block is replaced.
TxMoves(d) ==
  \/ tx'[d] = tx[d]
  \/ /\ tx[d].state = "mempool"
     /\ tx'[d].state \in {"mined", "reverted"}
     /\ tx'[d].bounty = tx[d].bounty /\ tx'[d].to = tx[d].to
     /\ tx'[d].state = "mined" =>
          escrow'[tx[d].bounty] = [status |-> "disbursed", to |-> tx[d].to]
  \/ /\ tx[d].state = "none"
     /\ tx'[d].state = "mempool" /\ tx'[d].bounty \in Bounty /\ tx'[d].to \in Wallet
     /\ d \in events /\ Earned(d, tx'[d].bounty) /\ tx'[d].to \in wasLinked[Author[d]]
  \/ /\ tx[d].state \in {"mined", "reverted"}
     /\ tx'[d].state = "mempool" /\ tx[d].bounty \in undone'
     /\ tx'[d].bounty = tx[d].bounty /\ tx'[d].to = tx[d].to

\* How a deposit moves: not at all, to where a sent transaction says, to the
\* maintainer, or back with its block, which leaves no mined transaction on it.
DepositMoves(b) ==
  \/ escrow'[b] = escrow[b]
  \/ /\ escrow[b].status = "funded"
     /\ \E d \in Delivery : /\ tx[d].state # "none" /\ tx[d].bounty = b
                            /\ escrow'[b] = [status |-> "disbursed", to |-> tx[d].to]
  \/ /\ escrow[b].status = "funded"
     /\ escrow'[b].status = "refunded" /\ escrow'[b].to = escrow[b].to
  \/ /\ escrow[b].status = "disbursed" /\ b \in undone'
     /\ escrow'[b] = [status |-> "funded", to |-> None]
     /\ \A d \in Delivery : tx[d].bounty = b => tx'[d].state # "mined"

OutsideStep ==
  \/ Tick
  \/ \E d \in Delivery : Deliver(d) \/ Mine(d) \/ SubmittedByAnother(d)
  \/ \E u \in User, a \in Wallet : LinkWallet(u, a)
  \/ \E b \in Bounty : Index(b) \/ Refund(b) \/ Reorg(b)

WorkerStep(w) == JobStep(w) \/ Crash(w) \/ \E d \in Delivery : Claim(w, d)

\* Every step moves transactions and deposits in these ways only.
LEMMA ChainMoves ==
  ASSUME IInv, [Next]_vars
  PROVE  /\ \A d \in Delivery : TxMoves(d)
         /\ \A b \in Bounty : DepositMoves(b)
         /\ events \subseteq events' /\ undone \subseteq undone'
         /\ \A u \in User : wasLinked[u] \subseteq wasLinked'[u]
<1> USE DEF IInv, users, chain, rows
<1>0. tx \in [Delivery -> Transaction] /\ escrow \in [Bounty -> Deposit]
      /\ wasLinked \in [User -> SUBSET Wallet]
  BY DEF TypeOK
<1>1. ASSUME UNCHANGED <<tx, escrow, undone>>, events \subseteq events',
             \A u \in User : wasLinked[u] \subseteq wasLinked'[u]
      PROVE  /\ \A d \in Delivery : TxMoves(d)
             /\ \A b \in Bounty : DepositMoves(b)
             /\ events \subseteq events' /\ undone \subseteq undone'
             /\ \A u \in User : wasLinked[u] \subseteq wasLinked'[u]
  BY <1>1 DEF TxMoves, DepositMoves
<1>2. ASSUME NEW d \in Delivery, tx[d].state # "none", Payable(tx[d].bounty),
             escrow' = PaidTo(tx[d].bounty, tx[d].to)
      PROVE  /\ \A b \in Bounty : DepositMoves(b)
             /\ escrow'[tx[d].bounty] = [status |-> "disbursed", to |-> tx[d].to]
  <2>1. tx[d].bounty \in Bounty
    BY <1>2 DEF TxJustified, Justified
  <2>2. \A b \in Bounty : escrow'[b] = IF b = tx[d].bounty
                                       THEN [status |-> "disbursed", to |-> tx[d].to]
                                       ELSE escrow[b]
    BY <1>0, <1>2, <2>1 DEF PaidTo
  <2> QED  BY <1>2, <2>1, <2>2 DEF DepositMoves, Payable
<1>3. ASSUME NEW d \in Delivery, Mine(d)
      PROVE  (\A e \in Delivery : TxMoves(e)) /\ \A b \in Bounty : DepositMoves(b)
  <2>1. ASSUME NEW st \in {"mined", "reverted"}, tx' = [tx EXCEPT ![d].state = st]
        PROVE  /\ \A e \in Delivery \ {d} : tx'[e] = tx[e]
               /\ tx'[d].bounty = tx[d].bounty /\ tx'[d].to = tx[d].to /\ tx'[d].state = st
    BY <1>0, <2>1 DEF Transaction
  <2>2. CASE /\ Payable(tx[d].bounty)
             /\ escrow' = PaidTo(tx[d].bounty, tx[d].to)
             /\ tx' = [tx EXCEPT ![d].state = "mined"]
    BY <1>2, <1>3, <2>1, <2>2 DEF Mine, TxMoves
  <2>3. CASE escrow' = escrow /\ tx' = [tx EXCEPT ![d].state = "reverted"]
    BY <1>3, <2>1, <2>3 DEF Mine, TxMoves, DepositMoves
  <2> QED  BY <1>3, <2>2, <2>3 DEF Mine
<1>4. ASSUME NEW d \in Delivery, SubmittedByAnother(d)
      PROVE  (\A e \in Delivery : TxMoves(e)) /\ \A b \in Bounty : DepositMoves(b)
  BY <1>2, <1>4 DEF SubmittedByAnother, TxMoves
<1>5. ASSUME NEW b \in Bounty, Refund(b)
      PROVE  (\A e \in Delivery : TxMoves(e)) /\ \A c \in Bounty : DepositMoves(c)
  <2>1. /\ escrow[b].status = "funded" /\ escrow'[b].status = "refunded"
        /\ escrow'[b].to = escrow[b].to /\ \A c \in Bounty \ {b} : escrow'[c] = escrow[c]
    BY <1>0, <1>5 DEF Refund, Deposit
  <2> QED  BY <1>5, <2>1 DEF Refund, TxMoves, DepositMoves
<1>6. ASSUME NEW b \in Bounty, Reorg(b)
      PROVE  (\A e \in Delivery : TxMoves(e)) /\ \A c \in Bounty : DepositMoves(c)
  <2>1. undone' = undone \cup {b} /\ \A e \in Delivery : tx'[e] = Restored(tx[e], b)
    BY <1>6 DEF Reorg
  <2>2. ASSUME NEW e \in Delivery PROVE TxMoves(e) /\ (tx[e].bounty = b => tx'[e].state # "mined")
    <3>1. CASE tx[e].bounty = b /\ tx[e].state \in {"mined", "reverted"}
      <4>1. tx'[e] = [tx[e] EXCEPT !.state = "mempool"] /\ tx[e] \in Transaction
        BY <1>0, <2>1, <3>1 DEF Restored
      <4>2. tx'[e].state = "mempool" /\ tx'[e].bounty = tx[e].bounty /\ tx'[e].to = tx[e].to
        BY <4>1 DEF Transaction
      <4> QED  BY <2>1, <3>1, <4>2 DEF TxMoves
    <3>2. CASE ~ (tx[e].bounty = b /\ tx[e].state \in {"mined", "reverted"})
      BY <2>1, <3>2 DEF Restored, TxMoves
    <3> QED  BY <3>1, <3>2
  <2>3. ASSUME NEW c \in Bounty PROVE DepositMoves(c)
    <3>1. c # b => escrow'[c] = escrow[c]
      BY <1>0, <1>6 DEF Reorg
    <3>2. escrow[b].status = "disbursed" /\ escrow'[b] = [status |-> "funded", to |-> None]
      BY <1>0, <1>6 DEF Reorg
    <3> QED  BY <2>1, <2>2, <3>1, <3>2 DEF DepositMoves
  <2> QED  BY <2>2, <2>3
<1>7. ASSUME NEW u \in User, NEW a \in Wallet, LinkWallet(u, a)
      PROVE \A v \in User : wasLinked[v] \subseteq wasLinked'[v]
  BY <1>0, <1>7 DEF LinkWallet
<1>8. CASE OutsideStep
  <2>1. CASE \/ Tick
             \/ \E d \in Delivery : Deliver(d)
             \/ \E u \in User, a \in Wallet : LinkWallet(u, a)
             \/ \E b \in Bounty : Index(b)
    BY <1>1, <1>7, <2>1 DEF Tick, Deliver, LinkWallet, Index
  <2>2. CASE \/ \E d \in Delivery : Mine(d) \/ SubmittedByAnother(d)
             \/ \E b \in Bounty : Refund(b) \/ Reorg(b)
    <3>1. (\A e \in Delivery : TxMoves(e)) /\ \A c \in Bounty : DepositMoves(c)
      BY <1>3, <1>4, <1>5, <1>6, <2>2
    <3>2. events' = events /\ wasLinked' = wasLinked /\ undone \subseteq undone'
      BY <2>2 DEF Mine, SubmittedByAnother, Refund, Reorg
    <3> QED  BY <3>1, <3>2
  <2> QED  BY <1>8, <2>1, <2>2 DEF OutsideStep
<1>9. ASSUME NEW w \in Worker, WorkerStep(w)
      PROVE  \A d \in Delivery : TxMoves(d)
  <2> DEFINE j == job[w]
  <2>1. \A d \in Delivery : tx'[d] # tx[d] => d = j.delivery /\ j.pc = "submit"
    BY <1>9, JobMoves DEF WorkerStep
  <2>2. ASSUME j.pc = "submit", tx' # tx
        PROVE  tx' = [tx EXCEPT ![j.delivery] = [state |-> "mempool", bounty |-> j.bounty,
                                                 to |-> j.wallet]]
    BY <1>9, <2>2 DEF WorkerStep, JobStep, Resolve, Record, CheckExpiry, LookupWallet,
       FindAttestation, ValidateAttestation, InsertAttestation, Sign, Submit, AwaitReceipt,
       SaveTx, SaveBounty, Comment, Crash, Claim
  <2>3. j.pc = "submit" => /\ j.delivery \in Delivery /\ j.bounty \in Bounty
                           /\ j.wallet \in Wallet /\ tx[j.delivery].state = "none"
                           /\ j.delivery \in events /\ Earned(j.delivery, j.bounty)
                           /\ j.wallet \in wasLinked[Author[j.delivery]]
    BY DEF JobsInformed, Informed, Paying, Holding, Sent, Confirmed
  <2>4. ASSUME NEW d \in Delivery, tx'[d] # tx[d] PROVE TxMoves(d)
    <3>1. d = j.delivery /\ j.pc = "submit" /\ tx' # tx
      BY <2>1, <2>4
    <3>2. tx'[d] = [state |-> "mempool", bounty |-> j.bounty, to |-> j.wallet]
      BY <1>0, <2>2, <3>1
    <3> QED  BY <2>3, <3>1, <3>2 DEF TxMoves
  <2> QED  BY <2>4 DEF TxMoves
<1>10. ASSUME NEW w \in Worker, WorkerStep(w)
       PROVE  events \subseteq events' /\ UNCHANGED <<users, chain>>
  BY <1>10, JobMoves DEF WorkerStep
<1>11. CASE UNCHANGED vars
  BY <1>1, <1>11 DEF vars
<1>12. (\E w \in Worker : WorkerStep(w)) \/ OutsideStep \/ UNCHANGED vars
  BY DEF Next, WorkerStep, OutsideStep
<1>13. CASE \E w \in Worker : WorkerStep(w)
  <2>1. \A d \in Delivery : TxMoves(d)
    BY <1>9, <1>13
  <2>2. events \subseteq events' /\ escrow' = escrow /\ undone' = undone /\ wasLinked' = wasLinked
    BY <1>10, <1>13
  <2>3. \A b \in Bounty : DepositMoves(b)
    BY <2>2 DEF DepositMoves
  <2> HIDE DEF IInv
  <2> QED  BY <1>0, <2>1, <2>2, <2>3
<1> HIDE DEF IInv
<1> QED  BY <1>8, <1>11, <1>12, <1>13

\* Transactions stay justified: what was paid stays paid.
LEMMA TxJustifiedStep == ASSUME IInv, [Next]_vars PROVE TxJustified'
<1> USE DEF IInv
<1>1. /\ \A d \in Delivery : TxMoves(d)
      /\ \A b \in Bounty : DepositMoves(b)
      /\ events \subseteq events' /\ \A u \in User : wasLinked[u] \subseteq wasLinked'[u]
  BY ChainMoves
<1>2. ASSUME NEW d \in Delivery PROVE Justified(tx'[d], d, events', wasLinked', escrow')
  <2> DEFINE t == tx[d]
             u == tx'[d]
  <2>1. Author[d] \in User /\ Justified(t, d, events, wasLinked, escrow)
    BY WiringAssumption DEF TxJustified
  <2>0. u.state = "none" => u.bounty = None
    BY <1>1, <2>1 DEF TxMoves, Justified
  <2>2. u.state # "none" => /\ u.bounty \in Bounty /\ u.to \in Wallet
                            /\ d \in events' /\ Earned(d, u.bounty) /\ u.to \in wasLinked'[Author[d]]
    BY <1>1, <2>1 DEF TxMoves, Justified
  <2>3. u.state = "mined" => escrow'[u.bounty] = [status |-> "disbursed", to |-> u.to]
    <3>1. CASE u = t /\ t.state = "mined"
      <4>1. escrow[t.bounty].status = "disbursed" /\ t.bounty \in Bounty
        BY <2>1, <3>1 DEF Justified
      <4>2. escrow'[t.bounty] = escrow[t.bounty]
        BY <1>1, <3>1, <4>1 DEF DepositMoves
      <4> QED  BY <2>1, <3>1, <4>2 DEF Justified
    <3>2. CASE u # t \/ t.state # "mined"
      BY <1>1, <3>2 DEF TxMoves
    <3> QED  BY <3>1, <3>2
  <2> QED  BY <2>0, <2>2, <2>3 DEF Justified
<1> QED  BY <1>2 DEF TxJustified

\* The chain keeps naming a recipient exactly when it has paid, and pays only
\* what a merge earned.
LEMMA PayoutStep == ASSUME IInv, [Next]_vars PROVE RecipientIfPaid' /\ PayoutEarned'
<1> USE DEF IInv
<1>1. /\ \A b \in Bounty : DepositMoves(b)
      /\ events \subseteq events' /\ \A u \in User : wasLinked[u] \subseteq wasLinked'[u]
  BY ChainMoves
<1>2. ASSUME NEW b \in Bounty
      PROVE  /\ escrow'[b].to # None <=> escrow'[b].status = "disbursed"
             /\ escrow'[b].status = "disbursed" => EarnedBy(b, escrow[b].to)'
  <2>1. CASE escrow'[b] = escrow[b]
    BY <1>1, <2>1, WiringAssumption DEF RecipientIfPaid, PayoutEarned, EarnedBy
  <2>2. ASSUME NEW d \in Delivery, tx[d].state # "none", tx[d].bounty = b,
               escrow'[b] = [status |-> "disbursed", to |-> tx[d].to]
        PROVE  /\ escrow'[b].to # None /\ escrow'[b].status = "disbursed"
               /\ d \in Merged \cap events' /\ b \in Closes[d] /\ b \in IntoTarget[d]
               /\ escrow'[b].to \in wasLinked'[Author[d]]
    <3>1. /\ tx[d].to \in Wallet /\ d \in events /\ Earned(d, b)
          /\ tx[d].to \in wasLinked[Author[d]] /\ Author[d] \in User
      BY <2>2, WiringAssumption DEF TxJustified, Justified
    <3> QED  BY <1>1, <2>2, <3>1, WiringAssumption DEF Earned
  <2>3. CASE escrow[b].status = "funded" /\ escrow'[b].status = "refunded"
             /\ escrow'[b].to = escrow[b].to
    BY <2>3 DEF RecipientIfPaid
  <2>4. CASE escrow'[b] = [status |-> "funded", to |-> None]
    BY <2>4
  <2> QED  BY <1>1, <2>1, <2>2, <2>3, <2>4 DEF DepositMoves, EarnedBy
<1> QED  BY <1>2 DEF RecipientIfPaid, PayoutEarned

\* A wallet that is active was linked.
LEMMA WalletsStep == ASSUME IInv, [Next]_vars PROVE WalletsLinked'
<1> USE DEF IInv, users, chain
<1>1. CASE UNCHANGED users
  BY <1>1 DEF WalletsLinked
<1>2. ASSUME NEW u \in User, NEW a \in Wallet, LinkWallet(u, a) PROVE WalletsLinked'
  BY <1>2 DEF LinkWallet, WalletsLinked, TypeOK
<1>3. ASSUME NEW w \in Worker, WorkerStep(w) PROVE UNCHANGED users
  BY <1>3, JobMoves DEF WorkerStep
<1> QED  BY <1>1, <1>2, <1>3
         DEF Next, WorkerStep, Tick, Deliver, Mine, SubmittedByAnother, Index, Refund, Reorg, vars

\* Jobs stay informed, whoever moves.
LEMMA JobsStep == ASSUME IInv, [Next]_vars PROVE JobsInformed' /\ OneGoesOn'
<1> USE DEF IInv
<1>1. ASSUME NEW w \in Worker, WorkerStep(w) PROVE JobsInformed' /\ OneGoesOn'
  <2>1. \A x \in Worker : Informed(job'[x], events', wasLinked', tx', undone')
    BY <1>1, OthersInformed, SelfInformed DEF WorkerStep
  <2> QED  BY <1>1, <2>1, OneGoesOnStep DEF WorkerStep, JobsInformed
<1>2. CASE OutsideStep \/ UNCHANGED vars
  <2>0. UNCHANGED <<job, events>> /\ \A d \in Delivery : tx[d].state = "none" => tx'[d] = tx[d]
    <3>1. ASSUME NEW e \in Delivery, Mine(e)
          PROVE  \A d \in Delivery : tx[d].state = "none" => tx'[d] = tx[d]
      BY <3>1 DEF Mine, TypeOK
    <3>2. ASSUME NEW b \in Bounty, Reorg(b)
          PROVE  \A d \in Delivery : tx[d].state = "none" => tx'[d] = tx[d]
      BY <3>2 DEF Reorg, Restored
    <3> QED  BY <1>2, <3>1, <3>2 DEF OutsideStep, Tick, Deliver, Mine, SubmittedByAnother,
                LinkWallet, Index, Refund, Reorg, vars, rows
  <2>1. OneGoesOn'
    BY <2>0 DEF OneGoesOn
  <2>2. /\ \A d \in Delivery : TxMoves(d)
        /\ \A u \in User : wasLinked[u] \subseteq wasLinked'[u]
        /\ undone \subseteq undone'
    BY ChainMoves
  <2>3. ASSUME NEW w \in Worker PROVE Informed(job[w], events, wasLinked', tx', undone')
    <3> DEFINE j == job[w]
               d == j.delivery
    <3>1. j \in Job /\ Informed(j, events, wasLinked, tx, undone)
      BY DEF TypeOK, JobsInformed
    <3>2. CASE j.pc \in Paying => tx'[d] = tx[d]
      <4>1. j.pc # "idle" => Author[d] \in User
        BY <3>1, WiringAssumption DEF Informed
      <4>2. j.pc \in Holding => j.pc # "idle"
        BY DEF Holding, Paying
      <4>3. j.pc \in Holding => j.wallet \in wasLinked'[Author[d]]
        BY <2>2, <3>1, <4>1, <4>2 DEF Informed
      <4>4. j.pc \in Sent \/ j.pc \in Confirmed \/ j.pc \in Paying \ Sent => tx'[d] = tx[d]
        BY <3>2 DEF Paying, Sent, Confirmed
      <4> QED  BY <2>2, <3>1, <4>3, <4>4 DEF Informed
    <3>3. CASE j.pc \in Paying /\ tx'[d] # tx[d]
      <4>1. d \in Delivery /\ Author[d] \in User /\ d \in events
        BY <3>1, <3>3, WiringAssumption DEF Informed, Paying
      <4>2. /\ tx[d].state # "none" /\ tx'[d].state # "none"
            /\ tx'[d].bounty = tx[d].bounty /\ tx'[d].to = tx[d].to
            /\ tx[d].state = "mined" => tx[d].bounty \in undone'
        BY <2>0, <2>2, <3>3, <4>1 DEF TxMoves
      <4>3. j.pc \in Holding => j.wallet \in wasLinked'[Author[d]]
        BY <2>2, <3>1, <4>1 DEF Informed
      <4>4. j.pc \in Sent /\ tx[d].bounty = j.bounty /\ tx[d].to = j.wallet
        BY <3>1, <3>3, <4>2 DEF Informed
      <4> QED  BY <2>2, <3>1, <3>3, <4>1, <4>2, <4>3, <4>4 DEF Informed, Sent, Confirmed
    <3> QED  BY <3>2, <3>3
  <2> QED  BY <2>0, <2>1, <2>3 DEF JobsInformed
<1> QED  BY <1>1, <1>2 DEF Next, WorkerStep, OutsideStep

----------------------------------------------------------------------------
\* What a job holds that has seen its transaction mined, or only holds a
\* wallet.
LEMMA JobEarned ==
  ASSUME IInv, NEW w \in Worker
  PROVE  LET j == job[w]
         IN  /\ j.pc \in Holding => /\ j.bounty \in Bounty /\ j.wallet \in Wallet
                                    /\ EarnedBy(j.bounty, j.wallet)
             /\ j.pc \in Confirmed => /\ j.delivery \in Delivery
                                      /\ tx[j.delivery].bounty = j.bounty
                                      /\ j.bounty \in undone \/ tx[j.delivery].state = "mined"
                                      /\ tx[j.delivery].to = j.wallet
                                      /\ Happened(j.bounty, j.wallet)
<1> DEFINE j == job[w]
<1> USE DEF IInv
<1>1. Informed(j, events, wasLinked, tx, undone)
  BY DEF JobsInformed
<1>2. j.pc \in Holding => j.bounty \in Bounty /\ j.wallet \in Wallet /\ EarnedBy(j.bounty, j.wallet)
  BY <1>1 DEF Informed, Holding, Paying, Earned, EarnedBy
<1>3. ASSUME j.pc \in Confirmed
      PROVE  /\ j.delivery \in Delivery /\ tx[j.delivery].bounty = j.bounty
             /\ tx[j.delivery].to = j.wallet
             /\ j.bounty \in undone \/ tx[j.delivery].state = "mined"
  BY <1>1, <1>3 DEF Informed, Confirmed, Sent
<1>4. j.pc \in Confirmed => Happened(j.bounty, j.wallet)
  BY <1>3 DEF TxJustified, Justified, Happened
<1> QED  BY <1>2, <1>3, <1>4

\* What happened did, whatever comes.
LEMMA StillTrue ==
  ASSUME IInv, [Next]_vars, NEW b \in Bounty, NEW a
  PROVE  /\ Happened(b, a) => Happened(b, a)'
         /\ EarnedBy(b, a) => EarnedBy(b, a)'
<1>1. /\ DepositMoves(b) /\ undone \subseteq undone' /\ events \subseteq events'
      /\ \A u \in User : wasLinked[u] \subseteq wasLinked'[u]
  BY ChainMoves
<1>2. Happened(b, a) => Happened(b, a)'
  BY <1>1 DEF Happened, DepositMoves
<1>3. EarnedBy(b, a) => EarnedBy(b, a)'
  BY <1>1, WiringAssumption DEF EarnedBy
<1> QED  BY <1>2, <1>3

\* A new "paid" comment is of a job that has seen its transaction mined.
LEMMA PaidComments ==
  ASSUME IInv, [Next]_vars, NEW c \in comments'
  PROVE  Happened(c.bounty, c.wallet)'
<1> USE DEF IInv
<1>1. CASE c \in comments
  <2>1. c.bounty \in Bounty /\ Happened(c.bounty, c.wallet)
    BY <1>1 DEF TypeOK, Told, RecordsReal
  <2> QED  BY <2>1, StillTrue
<1>2. ASSUME c \notin comments, NEW w \in Worker, Comment(w)
      PROVE  Happened(c.bounty, c.wallet)'
  <2>1. c = [bounty |-> job[w].bounty, wallet |-> job[w].wallet]
        /\ job[w].pc \in Confirmed /\ job[w].pc \in Holding
    BY <1>2 DEF Comment, Posted, At, Confirmed, Holding, Paying
  <2>2. c.bounty \in Bounty /\ Happened(c.bounty, c.wallet)
    BY <2>1, JobEarned
  <2> QED  BY <2>2, StillTrue
<1>3. c \notin comments => \E w \in Worker : Comment(w)
  BY DEF Next, JobStep, Tick, Deliver, Mine, SubmittedByAnother, LinkWallet, Index, Refund, Reorg,
     Resolve, Record, CheckExpiry, LookupWallet, FindAttestation, ValidateAttestation,
     InsertAttestation, Sign, Submit, AwaitReceipt, SaveTx, SaveBounty, Crash, Claim, vars
<1> QED  BY <1>1, <1>2, <1>3

\* How an attestation row changes: jobs put in what they hold.
LEMMA AttestationMoves ==
  ASSUME IInv, [Next]_vars, NEW b \in Bounty
  PROVE  /\ \/ attestation'[b].tx = attestation[b].tx
            \/ \E w \in Worker : /\ job[w].pc \in Confirmed /\ b = job[w].bounty
                                 /\ attestation'[b].tx = job[w].delivery
         /\ \A a \in {attestation'[b].recipient, attestation'[b].signedFor} \ {None} :
              \/ a \in {attestation[b].recipient, attestation[b].signedFor}
              \/ \E w \in Worker : job[w].pc \in Holding /\ b = job[w].bounty /\ a = job[w].wallet
<1> USE DEF IInv
<1>1. attestation \in [Bounty -> AttestationRow]
  BY DEF TypeOK
<1>2. ASSUME NEW w \in Worker, SaveTx(w)
      PROVE  /\ job[w].pc \in Confirmed
             /\ attestation'[b].recipient = attestation[b].recipient
             /\ attestation'[b].signedFor = attestation[b].signedFor
             /\ attestation'[b].tx = IF b = job[w].bounty THEN job[w].delivery
                                     ELSE attestation[b].tx
  BY <1>1, <1>2 DEF SaveTx, At, Confirmed, AttestationRow
<1>3. ASSUME NEW w \in Worker, InsertAttestation(w) \/ Sign(w)
      PROVE  /\ job[w].pc \in Holding
             /\ attestation'[b].tx = attestation[b].tx
             /\ \/ attestation'[b].recipient = attestation[b].recipient
                \/ b = job[w].bounty /\ attestation'[b].recipient = job[w].wallet
             /\ \/ attestation'[b].signedFor = attestation[b].signedFor
                \/ b = job[w].bounty /\ attestation'[b].signedFor = job[w].wallet
  BY <1>1, <1>3 DEF InsertAttestation, Sign, At, Holding, Paying, AttestationRow
<1>4. \/ attestation' = attestation
      \/ \E w \in Worker : SaveTx(w) \/ InsertAttestation(w) \/ Sign(w)
  BY DEF Next, JobStep, Tick, Deliver, Mine, SubmittedByAnother, LinkWallet, Index, Refund, Reorg,
     Resolve, Record, CheckExpiry, LookupWallet, FindAttestation, ValidateAttestation, Submit,
     AwaitReceipt, SaveBounty, Comment, Crash, Claim, vars, rows
<1> HIDE DEF IInv
<1>5. \/ attestation'[b].tx = attestation[b].tx
      \/ \E w \in Worker : /\ job[w].pc \in Confirmed /\ b = job[w].bounty
                           /\ attestation'[b].tx = job[w].delivery
  BY <1>2, <1>3, <1>4
<1>6. ASSUME NEW a \in {attestation'[b].recipient, attestation'[b].signedFor} \ {None}
      PROVE  \/ a \in {attestation[b].recipient, attestation[b].signedFor}
             \/ \E w \in Worker : job[w].pc \in Holding /\ b = job[w].bounty /\ a = job[w].wallet
  BY <1>2, <1>3, <1>4
<1> QED  BY <1>5, <1>6

\* What is on record happened when it was written, and still did.
LEMMA RecordsStep == ASSUME IInv, [Next]_vars PROVE RecordsReal'
<1> USE DEF IInv
<1>1. ASSUME NEW b \in Bounty, attestation'[b].tx # None
      PROVE  /\ tx'[attestation'[b].tx].bounty = b
             /\ b \in undone' \/ tx'[attestation'[b].tx].state = "mined"
             /\ Happened(b, tx[attestation[b].tx].to)'
  <2>0. PICK d : d = attestation'[b].tx
    OBVIOUS
  <2>1. /\ d \in Delivery /\ tx[d].bounty = b
        /\ b \in undone \/ tx[d].state = "mined"
        /\ Happened(b, tx[d].to)
    <3>1. CASE d = attestation[b].tx
      BY <1>1, <2>0, <3>1 DEF RecordsReal, TypeOK, AttestationRow
    <3>2. ASSUME NEW w \in Worker, job[w].pc \in Confirmed, b = job[w].bounty, d = job[w].delivery
          PROVE  /\ d \in Delivery /\ tx[d].bounty = b
                 /\ b \in undone \/ tx[d].state = "mined"
                 /\ Happened(b, tx[d].to)
      BY <3>2, JobEarned
    <3> QED  BY <2>0, <3>1, <3>2, AttestationMoves
  <2>2. tx[d].state # "none"
    BY <2>1, WiringAssumption DEF TxJustified, Justified
  <2>3. TxMoves(d) /\ undone \subseteq undone'
    BY <2>1, ChainMoves
  <2>4. tx'[d].bounty = b /\ tx'[d].to = tx[d].to /\ (b \in undone' \/ tx'[d].state = "mined")
    BY <2>1, <2>2, <2>3 DEF TxMoves
  <2>5. PICK a : a = tx[d].to
    OBVIOUS
  <2>6. Happened(b, a)'
    BY <2>1, <2>5, StillTrue
  <2>7. Happened(b, tx[attestation[b].tx].to)'
    BY <2>0, <2>4, <2>5, <2>6 DEF Happened
  <2> QED  BY <2>0, <2>4, <2>7
<1>2. ASSUME NEW b \in Bounty,
             NEW a \in {attestation'[b].recipient, attestation'[b].signedFor} \ {None}
      PROVE  EarnedBy(b, a)'
  <2>1. EarnedBy(b, a)
    BY <1>2, AttestationMoves, JobEarned DEF RecordsReal
  <2> QED  BY <2>1, StillTrue
<1>3. ASSUME NEW b \in Bounty, mirror'[b].recipient # None
      PROVE  Happened(b, mirror[b].recipient)'
  <2>0. PICK a : a = mirror'[b].recipient
    OBVIOUS
  <2>1. a = mirror[b].recipient => Happened(b, a)
    BY <1>3, <2>0 DEF RecordsReal
  <2>2. ASSUME NEW w \in Worker, SaveBounty(w)
        PROVE  Happened(b, a) \/ a = mirror[b].recipient
    <3>1. job[w].pc \in Confirmed
      BY <2>2 DEF SaveBounty, At, Confirmed
    <3>2. IF b = job[w].bounty THEN a = job[w].wallet ELSE a = mirror[b].recipient
      BY <2>0, <2>2 DEF SaveBounty, TypeOK, BountyRow
    <3> QED  BY <3>1, <3>2, JobEarned
  <2>3. ASSUME NEW c \in Bounty, Index(c)
        PROVE  Happened(b, a) \/ a = mirror[b].recipient
    <3>1. a = mirror[b].recipient \/ (a = escrow[b].to /\ escrow[b].to # None)
      BY <2>0, <2>3 DEF Index, TypeOK
    <3>2. escrow[b] \in Deposit /\ (escrow[b].to # None => escrow[b].status = "disbursed")
      BY DEF TypeOK, RecipientIfPaid
    <3> QED  BY <3>1, <3>2 DEF Happened, Deposit
  <2>4. \/ mirror' = mirror
        \/ \E w \in Worker : SaveBounty(w)
        \/ \E c \in Bounty : Index(c)
    BY DEF Next, JobStep, Tick, Deliver, Mine, SubmittedByAnother, LinkWallet, Refund, Reorg,
       Resolve, Record, CheckExpiry, LookupWallet, FindAttestation, ValidateAttestation,
       InsertAttestation, Sign, Submit, AwaitReceipt, SaveTx, Comment, Crash, Claim, vars, rows
  <2>5. Happened(b, a)
    BY <2>0, <2>1, <2>2, <2>3, <2>4
  <2>6. Happened(b, a)'
    BY <2>5, StillTrue
  <2> QED  BY <2>0, <2>6 DEF Happened
<1> QED  BY <1>1, <1>2, <1>3, PaidComments DEF RecordsReal

----------------------------------------------------------------------------
\* The inductive invariant holds throughout.
LEMMA IInvHolds == Spec => []IInv
<1>1. IInv /\ [Next]_vars => IInv'
  BY TypeStep, TxJustifiedStep, PayoutStep, WalletsStep, JobsStep, RecordsStep DEF IInv
<1> QED  BY <1>1, Initially, PTL DEF Spec

\* No job or table leaves its type.
THEOREM TypeCorrect == Spec => []TypeOK
<1>1. IInv => TypeOK
  BY DEF IInv
<1> QED  BY <1>1, IInvHolds, PTL

\* Money goes only where a merge earned it, with any number of workers,
\* redeliveries, crashes and wallet changes
\* (process_pull_request_closed_job.rb, processor.rb).
THEOREM PayoutsEarned == Spec => []PayoutEarned
<1>1. IInv => PayoutEarned
  BY DEF IInv
<1> QED  BY <1>1, IInvHolds, PTL

\* A "paid" comment, a recorded transaction and a recorded recipient are of a
\* payment that was made, if a reorganisation did not take it back, and every
\* wallet of an attestation earned the bounty (processor.rb 32-40, client.rb
\* 64-66, 82; process_pull_request_closed_job.rb 60-72).
THEOREM RecordsAreReal == Spec => []RecordsReal
<1>1. IInv => RecordsReal
  BY DEF IInv
<1> QED  BY <1>1, IInvHolds, PTL

\* A delivery submits once, also when it is redelivered, taken by two workers
\* or its job dies (process_pull_request_closed_job.rb 10, 27).
THEOREM SubmitsOnce == Spec => SubmittedOncePerDelivery
<1>1. ASSUME IInv, NEW w \in Worker, At(w, "submit") PROVE tx[job[w].delivery].state = "none"
  BY <1>1 DEF IInv, JobsInformed, Informed, At, Paying, Sent, Confirmed
<1>2. IInv => \A w \in Worker : At(w, "submit") /\ At(w, "wait")'
                                  => tx[job[w].delivery].state = "none"
  BY <1>1
<1> QED  BY <1>2, IInvHolds, PTL DEF Spec, SubmittedOncePerDelivery
=============================================================================

---------------------------- MODULE Disbursement ----------------------------
(***************************************************************************)
(* From the webhook of a merged pull request to the payout:                *)
(* platform/app/jobs/process_pull_request_closed_job.rb,                   *)
(* services/disbursement/processor.rb, services/chain/client.rb, the rows  *)
(* they read and write, and the chain they talk to.                        *)
(*                                                                         *)
(* Several workers run jobs at once (config/queue.yml).  A job is cut      *)
(* wherever it does I/O: between two steps other jobs, the indexer, the    *)
(* clock, wallet changes and the chain may move, and a job may die.        *)
(* ApplicationJob declares no retry_on, so a job that raises is over.      *)
(*                                                                         *)
(* The escrow is what GitRewardEscrow promises for one bounty: paid at     *)
(* most once, before its expiry, or refunded from then on; but the client  *)
(* takes a receipt as final after one block, and blocks can be replaced.   *)
(***************************************************************************)
EXTENDS FiniteSets, Integers

CONSTANTS
  Delivery,      \* pull_request "closed" webhooks, by GitHub delivery id
  Bounty, User, Wallet, Worker,
  None,
  Closes,        \* Closes[d]: bounties on the issues the pull request closes
  IntoTarget,    \* IntoTarget[d]: those whose target branch it was merged into
  Merged,        \* deliveries with merged = true
  Author,        \* Author[d]: the pull request's author
  CanLink,       \* CanLink[u]: the wallets the user has an address of
  ExpiryOf,      \* ExpiryOf[b]: when the bounty expires
  Skew,          \* how far the server's clock may be ahead of block.timestamp
  MaxTime,       \* bound: the clock stops here
  MayFail        \* which of "github", "rpc", "timeout", "crash", "revert",
                 \* "reorg" can happen

ASSUME WiringAssumption ==
  /\ None \notin Delivery \cup Bounty \cup Wallet
  /\ Closes \in [Delivery -> SUBSET Bounty]
  /\ IntoTarget \in [Delivery -> SUBSET Bounty]
  /\ Author \in [Delivery -> User]
  /\ CanLink \in [User -> SUBSET Wallet]
  /\ Merged \subseteq Delivery
  /\ ExpiryOf \in [Bounty -> Nat]
  /\ Skew \subseteq Int
  /\ MaxTime \in Nat

VARIABLES
  queue,        \* deliveries with a ready job
  job,          \* what each worker is doing
  events,       \* PullRequestEvent rows, by delivery id
  attestation,  \* the attestation row of each bounty
  mirror,       \* bounty rows
  activeWallet, wasLinked,   \* wallet_links: active now, ever active
  comments,     \* "paid" comments posted; no property is about the others
  signatures,   \* attestations the oracle key has signed
  tx,           \* the disburse transaction of each delivery's job
  escrow, now,  \* the chain; now is block.timestamp
  undone        \* bounties of which a payment was taken back with its block

rows  == <<events, attestation, mirror>>
users == <<activeWallet, wasLinked>>
chain == <<escrow, now, undone>>
vars  == <<queue, job, rows, users, comments, signatures, tx, chain>>

Idle == [pc |-> "idle", delivery |-> None, bounty |-> None, wallet |-> None]

NoAttestation == [recipient |-> None, signedFor |-> None, tx |-> None]

Init ==
  /\ queue = {}
  /\ job = [w \in Worker |-> Idle]
  /\ events = {}
  /\ attestation = [b \in Bounty |-> NoAttestation]
  /\ mirror = [b \in Bounty |-> [status |-> "pending", recipient |-> None]]
  /\ activeWallet = [u \in User |-> None]
  /\ wasLinked = [u \in User |-> {}]
  /\ comments = {}
  /\ signatures = {}
  /\ tx = [d \in Delivery |-> [state |-> "none", bounty |-> None, to |-> None]]
  /\ escrow = [b \in Bounty |-> [status |-> "funded", to |-> None]]
  /\ now = 0
  /\ undone = {}

----------------------------------------------------------------------------
(* GitHub, users, the indexer and the chain. *)

\* GitHub delivers the webhook, or delivers it again, under the same id.
Deliver(d) ==
  /\ d \notin queue
  /\ queue' = queue \cup {d}
  /\ UNCHANGED <<job, rows, users, comments, signatures, tx, chain>>

\* WalletLink#activate!: the new wallet becomes the only active one.
LinkWallet(u, a) ==
  /\ a \in CanLink[u]
  /\ activeWallet[u] # a
  /\ activeWallet' = [activeWallet EXCEPT ![u] = a]
  /\ wasLinked' = [wasLinked EXCEPT ![u] = @ \cup {a}]
  /\ UNCHANGED <<queue, job, rows, comments, signatures, tx, chain>>

\* The indexer brings a row up to date with the chain (module EventIndexer).
Index(b) ==
  /\ mirror[b].status # escrow[b].status
  /\ mirror' = [mirror EXCEPT ![b] =
                 [status |-> escrow[b].status,
                  recipient |-> IF escrow[b].to = None THEN @.recipient ELSE escrow[b].to]]
  /\ UNCHANGED <<queue, job, events, attestation, users, comments, signatures, tx, chain>>

Tick ==
  /\ now < MaxTime
  /\ now' = now + 1
  /\ UNCHANGED <<queue, job, rows, users, comments, signatures, tx, escrow, undone>>

\* The contract accepts a disbursement of b.
Payable(b) == escrow[b].status = "funded" /\ now < ExpiryOf[b]

PaidTo(b, a) == [escrow EXCEPT ![b] = [status |-> "disbursed", to |-> a]]

\* The relayer's transaction is mined: it pays, or it reverts, for want of
\* gas (DISBURSE_GAS_LIMIT) also where the escrow would have paid.
Mine(d) ==
  /\ tx[d].state = "mempool"
  /\ \/ /\ Payable(tx[d].bounty)
        /\ escrow' = PaidTo(tx[d].bounty, tx[d].to)
        /\ tx' = [tx EXCEPT ![d].state = "mined"]
     \/ /\ ~ Payable(tx[d].bounty) \/ "revert" \in MayFail
        /\ escrow' = escrow
        /\ tx' = [tx EXCEPT ![d].state = "reverted"]
  /\ UNCHANGED <<queue, job, rows, users, comments, signatures, now, undone>>

\* Whoever sees the signature may submit it, before the relayer's transaction
\* is mined or after it reverted: msg.sender is irrelevant.
SubmittedByAnother(d) ==
  /\ tx[d].state # "none"
  /\ Payable(tx[d].bounty)
  /\ escrow' = PaidTo(tx[d].bounty, tx[d].to)
  /\ UNCHANGED <<queue, job, rows, users, comments, signatures, tx, now, undone>>

Refund(b) ==
  /\ escrow[b].status = "funded"
  /\ now >= ExpiryOf[b]
  /\ escrow' = [escrow EXCEPT ![b].status = "refunded"]
  /\ UNCHANGED <<queue, job, rows, users, comments, signatures, tx, now, undone>>

Restored(t, b) ==
  IF t.bounty = b /\ t.state \in {"mined", "reverted"} THEN [t EXCEPT !.state = "mempool"] ELSE t

\* The block of a payment is replaced: the transactions on the bounty are back
\* in the mempool, to be mined again in any order or never.  A payment the
\* indexer has seen is Confirmations deep and stays (module EventIndexer).
Reorg(b) ==
  /\ "reorg" \in MayFail
  /\ escrow[b].status = "disbursed"
  /\ mirror[b].status # "disbursed"
  /\ escrow' = [escrow EXCEPT ![b] = [status |-> "funded", to |-> None]]
  /\ tx' = [d \in Delivery |-> Restored(tx[d], b)]
  /\ undone' = undone \cup {b}
  /\ UNCHANGED <<queue, job, rows, users, comments, signatures, now>>

----------------------------------------------------------------------------
(* The job, one step per stretch of code between two I/O operations. *)

At(w, pc) == job[w].pc = pc

Goto(w, pc) == job' = [job EXCEPT ![w].pc = pc]

\* The job returned, or raised: nobody runs it again.
Done(w) == job' = [job EXCEPT ![w] = Idle]

\* Comments that nothing was paid also end a job: they are not kept.
Posted(b, a) == comments' = comments \cup {[bounty |-> b, wallet |-> a]}

\* Mutant: the delivery id is not looked at.
NeverRecorded(d) == FALSE

AlreadyRecorded(d) == d \in events

\* A worker claims a job; a delivery that is on record is skipped.
Claim(w, d) ==
  /\ At(w, "idle")
  /\ d \in queue
  /\ queue' = queue \ {d}
  /\ IF AlreadyRecorded(d)
     THEN job' = job
     ELSE job' = [job EXCEPT ![w] = [Idle EXCEPT !.pc = "resolve", !.delivery = d]]
  /\ UNCHANGED <<rows, users, comments, signatures, tx, chain>>

\* The bounty rows a merged pull request would close.
Candidates(d) == {b \in Closes[d] : d \in Merged /\ mirror[b].status = "funded"}

\* PullRequestResolver#resolve asks GitHub which issues are closed and takes
\* one funded row; it turns every failure into "no bounty".
Resolve(w) ==
  LET d == job[w].delivery
  IN  /\ At(w, "resolve")
      /\ \E b \in Candidates(d) \cup {None} :
           /\ b = None => Candidates(d) = {} \/ "github" \in MayFail
           /\ job' = [job EXCEPT ![w].pc = "record", ![w].bounty = b]
      /\ UNCHANGED <<queue, rows, users, comments, signatures, tx, chain>>

\* Mutant: the branch is not compared.
StandsDownAnyBranch(d, b) == b = None

StandsDown(d, b) == b = None \/ b \notin IntoTarget[d]

\* PullRequestEvent.create!: a second row for the delivery is invalid, and
\* the job raises.  With no bounty, or the wrong branch, it stands down.
Record(w) ==
  LET d == job[w].delivery
      b == job[w].bounty
  IN  /\ At(w, "record")
      /\ events' = events \cup {d}
      /\ IF AlreadyRecorded(d) \/ StandsDown(d, b)
         THEN Done(w)
         ELSE Goto(w, "check")
      /\ UNCHANGED <<queue, attestation, mirror, users, comments, signatures, tx, chain>>

\* Mutant: a margin that eats the whole life of a short bounty.
TooLateByMargin(b, skew) == now + skew + 1 >= ExpiryOf[b]

\* bounty.expiry.future?, by the server's clock.
TooLate(b, skew) == now + skew >= ExpiryOf[b]

\* Past expiry it says so and stands down.
CheckExpiry(w) ==
  LET b == job[w].bounty
  IN  /\ At(w, "check")
      /\ \E skew \in Skew : IF TooLate(b, skew) THEN Done(w) ELSE Goto(w, "lookup")
      /\ UNCHANGED <<queue, rows, users, comments, signatures, tx, chain>>

\* Mutant: the author without a wallet is not caught.
NobodyIsWalletless(a) == FALSE

NoWallet(a) == a = None

\* The author's wallet as it is now, or a comment that there is none.
LookupWallet(w) ==
  LET a == activeWallet[Author[job[w].delivery]]
  IN  /\ At(w, "lookup")
      /\ IF NoWallet(a)
         THEN Done(w)
         ELSE job' = [job EXCEPT ![w].pc = "find", ![w].wallet = a]
      /\ UNCHANGED <<queue, rows, users, comments, signatures, tx, chain>>

\* Processor#call: done means a transaction is on record; an attestation
\* without one is taken over.
FindAttestation(w) ==
  LET row == attestation[job[w].bounty]
  IN  /\ At(w, "find")
      /\ \/ row.tx # None /\ Done(w)
         \/ row.tx = None /\ row # NoAttestation /\ Goto(w, "sign")
         \/ row = NoAttestation /\ Goto(w, "validate")
      /\ UNCHANGED <<queue, rows, users, comments, signatures, tx, chain>>

\* Attestation.create!, first half: if another job's row is there by now, the
\* uniqueness validation raises RecordInvalid, which nothing rescues.
ValidateAttestation(w) ==
  /\ At(w, "validate")
  /\ IF attestation[job[w].bounty] # NoAttestation THEN Done(w) ELSE Goto(w, "insert")
  /\ UNCHANGED <<queue, rows, users, comments, signatures, tx, chain>>

\* Second half: if the row came in between, the index raises RecordNotUnique
\* and the job goes on with the other one's row.
InsertAttestation(w) ==
  LET b == job[w].bounty
  IN  /\ At(w, "insert")
      /\ attestation' = IF attestation[b] # NoAttestation
                        THEN attestation
                        ELSE [attestation EXCEPT ![b].recipient = job[w].wallet]
      /\ Goto(w, "sign")
      /\ UNCHANGED <<queue, events, mirror, users, comments, signatures, tx, chain>>

\* AttestationSigner.sign and the update of the row: its signature becomes
\* this job's, its recipient_address stays the first job's.
Sign(w) ==
  LET b == job[w].bounty
  IN  /\ At(w, "sign")
      /\ signatures' = signatures \cup {<<b, job[w].wallet>>}
      /\ attestation' = [attestation EXCEPT ![b].signedFor = job[w].wallet]
      /\ Goto(w, "submit")
      /\ UNCHANGED <<queue, events, mirror, users, comments, tx, chain>>

\* Client#disburse: the transaction is sent, or an RPC error is raised first.
Submit(w) ==
  LET d == job[w].delivery
  IN  /\ At(w, "submit")
      /\ \/ /\ tx' = [tx EXCEPT ![d] = [state |-> "mempool", bounty |-> job[w].bounty,
                                        to |-> job[w].wallet]]
            /\ Goto(w, "wait")
         \/ "rpc" \in MayFail /\ Done(w) /\ tx' = tx
      /\ UNCHANGED <<queue, rows, users, comments, signatures, chain>>

\* Mutant: the transaction counts once it is mined, whatever it did.
SucceededIfMined(t) == t.state # "mempool"

Succeeded(t) == t.state = "mined"

\* transact_and_wait returns after one block, or its wait times out and
\* raises; a reverted transaction raises DisburseFailed.
AwaitReceipt(w) ==
  LET d == job[w].delivery
  IN  /\ At(w, "wait")
      /\ \/ Succeeded(tx[d]) /\ Goto(w, "save_tx")
         \/ tx[d].state = "reverted" /\ ~ Succeeded(tx[d]) /\ Done(w)
         \/ "timeout" \in MayFail /\ tx[d].state = "mempool" /\ Done(w)
      /\ UNCHANGED <<queue, rows, users, comments, signatures, tx, chain>>

SaveTx(w) ==
  /\ At(w, "save_tx")
  /\ attestation' = [attestation EXCEPT ![job[w].bounty].tx = job[w].delivery]
  /\ Goto(w, "save_bounty")
  /\ UNCHANGED <<queue, events, mirror, users, comments, signatures, tx, chain>>

SaveBounty(w) ==
  /\ At(w, "save_bounty")
  /\ mirror' = [mirror EXCEPT ![job[w].bounty].recipient = job[w].wallet]
  /\ Goto(w, "comment")
  /\ UNCHANGED <<queue, events, attestation, users, comments, signatures, tx, chain>>

\* The paid comment; a failure to post it is rescued.
Comment(w) ==
  /\ At(w, "comment")
  /\ \/ Posted(job[w].bounty, job[w].wallet)
     \/ "github" \in MayFail /\ comments' = comments
  /\ Done(w)
  /\ UNCHANGED <<queue, rows, users, signatures, tx, chain>>

\* The process is killed: the job is marked failed or put back in the queue.
Crash(w) ==
  /\ "crash" \in MayFail
  /\ ~ At(w, "idle")
  /\ Done(w)
  /\ queue' \in {queue, queue \cup {job[w].delivery}}
  /\ UNCHANGED <<rows, users, comments, signatures, tx, chain>>

----------------------------------------------------------------------------
JobStep(w) ==
  \/ Resolve(w) \/ Record(w) \/ CheckExpiry(w) \/ LookupWallet(w)
  \/ FindAttestation(w) \/ ValidateAttestation(w) \/ InsertAttestation(w) \/ Sign(w)
  \/ Submit(w) \/ AwaitReceipt(w) \/ SaveTx(w) \/ SaveBounty(w) \/ Comment(w)

Next ==
  \/ Tick
  \/ \E d \in Delivery : Deliver(d) \/ Mine(d) \/ SubmittedByAnother(d)
  \/ \E u \in User, a \in Wallet : LinkWallet(u, a)
  \/ \E b \in Bounty : Index(b) \/ Refund(b) \/ Reorg(b)
  \/ \E w \in Worker : JobStep(w) \/ Crash(w)
  \/ \E w \in Worker, d \in Delivery : Claim(w, d)

Spec == Init /\ [][Next]_vars

\* Workers finish what they claimed and the queue is in order of arrival, so
\* that later jobs do not overtake one for ever; submitted transactions get
\* mined, the indexer keeps up, and GitHub is asked again and again to
\* redeliver.
Fairness ==
  /\ \A w \in Worker : WF_vars(JobStep(w))
  /\ \A d \in Delivery : SF_vars(\E w \in Worker : Claim(w, d))
  /\ \A d \in Delivery : WF_vars(Mine(d)) /\ WF_vars(Deliver(d))
  /\ \A b \in Bounty : WF_vars(Index(b))

FairSpec == Spec /\ Fairness
----------------------------------------------------------------------------
Steps == {"idle", "resolve", "record", "check", "lookup", "find", "validate", "insert",
          "sign", "submit", "wait", "save_tx", "save_bounty", "comment"}

Job == [pc : Steps, delivery : Delivery \cup {None},
        bounty : Bounty \cup {None}, wallet : Wallet \cup {None}]

AttestationRow == [recipient : Wallet \cup {None}, signedFor : Wallet \cup {None},
                   tx : Delivery \cup {None}]

BountyRow == [status : {"pending", "funded", "disbursed", "refunded"},
              recipient : Wallet \cup {None}]

Told == [bounty : Bounty, wallet : Wallet]

Transaction == [state : {"none", "mempool", "mined", "reverted"},
                bounty : Bounty \cup {None}, to : Wallet \cup {None}]

Deposit == [status : {"funded", "disbursed", "refunded"}, to : Wallet \cup {None}]

TypeOK ==
  /\ queue \subseteq Delivery
  /\ job \in [Worker -> Job]
  /\ events \subseteq Delivery
  /\ attestation \in [Bounty -> AttestationRow]
  /\ mirror \in [Bounty -> BountyRow]
  /\ activeWallet \in [User -> Wallet \cup {None}]
  /\ wasLinked \in [User -> SUBSET Wallet]
  /\ comments \subseteq Told
  /\ signatures \subseteq Bounty \X Wallet
  /\ tx \in [Delivery -> Transaction]
  /\ escrow \in [Bounty -> Deposit]
  /\ now \in 0..MaxTime
  /\ undone \subseteq Bounty

\* The author of a merged pull request on record, which closes b into its
\* target branch, once linked the wallet.
EarnedBy(b, a) ==
  \E d \in Merged \cap events : b \in Closes[d] /\ b \in IntoTarget[d]
                                 /\ a \in wasLinked[Author[d]]

\* Money only goes where a merge earned it, however jobs, retries and wallet
\* changes interleave, and whoever submits what the oracle has signed.
PayoutEarned ==
  \A b \in Bounty : escrow[b].status = "disbursed" => EarnedBy(b, escrow[b].to)

\* The chain paid b to a, or did and took it back with the block.
Happened(b, a) == b \in undone \/ escrow[b] = [status |-> "disbursed", to |-> a]

\* Where the platform says that money moved, it did (client.rb lines 64-66):
\* in a "paid" comment, in the transaction of an attestation and in a bounty
\* row's recipient, with the one confirmation that is waited for.  The
\* recipient and the signature of an attestation may be of two jobs, and
\* neither need be the one that was paid; but both are wallets that earned it.
RecordsReal ==
  /\ \A c \in comments : Happened(c.bounty, c.wallet)
  /\ \A b \in Bounty :
       LET row == attestation[b]
       IN  /\ row.tx # None =>
                /\ tx[row.tx].bounty = b
                /\ b \in undone \/ tx[row.tx].state = "mined"
                /\ Happened(b, tx[row.tx].to)
           /\ \A a \in {row.recipient, row.signedFor} \ {None} : EarnedBy(b, a)
           /\ mirror[b].recipient # None => Happened(b, mirror[b].recipient)

\* A webhook pays at most once, also when GitHub redelivers it while its job
\* runs, the job dies, or two workers hold it: no delivery submits again.
SubmittedOncePerDelivery ==
  [][\A w \in Worker : At(w, "submit") /\ At(w, "wait")'
       => tx[job[w].delivery].state = "none"]_vars

\* A merged pull request with a wallet whose bounty row is already "funded"
\* when its webhook arrives gets the bounty settled, or it expires, by the
\* clock of the chain or the server's: jobs that race for the same bounty never
\* all give up.
Ready(d, b) ==
  /\ d \in queue /\ d \notin events /\ \A w \in Worker : job[w].delivery # d
  /\ d \in Merged /\ Closes[d] = {b} /\ b \in IntoTarget[d]
  /\ mirror[b].status = "funded" /\ activeWallet[Author[d]] # None

SettledOrExpired(b) ==
  escrow[b].status # "funded" \/ \E skew \in Skew \cup {0} : now + skew >= ExpiryOf[b]

ReadyMergePays ==
  \A d \in Delivery, b \in Bounty : Ready(d, b) ~> SettledOrExpired(b)

----------------------------------------------------------------------------
(* What comments and documents say, and the code does not do. *)

\* "record it (idempotently -- never sign twice)": processor.rb line 3,
\* attestation.rb line 2.  No bounty has signatures for two recipients.
NeverSignTwice ==
  \A b \in Bounty : Cardinality({a \in Wallet : <<b, a>> \in signatures}) <= 1

\* "an attestation with no tx_hash, and we retry it here rather than skip":
\* processor.rb lines 19-21, with webhooks redelivered for ever.
UnsubmittedIsRetried ==
  \A b \in Bounty :
    attestation[b] # NoAttestation /\ attestation[b].tx = None
      ~> attestation[b].tx # None \/ SettledOrExpired(b)
=============================================================================

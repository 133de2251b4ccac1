# GitReward: verification project

TLA+ models of GitReward, the TLC configurations that check them on small
instances, and theorems about them with proofs checked by TLAPS. Paths below are
relative to the repository root.

GitReward lets a maintainer lock USDC in an escrow contract as a bounty for a
GitHub issue. When a pull request that closes the issue is merged into the
bounty's target branch, the platform signs an attestation for the author's
wallet and submits it; the contract pays. From the expiry on, only the funder
can take the money back. The database is a mirror of the chain.

## 1. Inventory

| Part | State | Operations | Talks to |
|---|---|---|---|
| **Escrow contract** `contracts/src/GitRewardEscrow.sol` | bounties, next id, fee rate, treasury, oracle key, owner; balances and allowances in USDC | `fund` (permit in a try/catch), `disburse`, `refund`, `setFeeRate`, `setTreasury`, `setOracleKey`, Ownable | USDC; read through events |
| **Payout pipeline** `process_pull_request_closed_job.rb`, `disbursement/processor.rb`, `chain/client.rb`, `chain/attestation_signer.rb` | `pull_request_events`, `attestations`, bounty rows, the job queue, the mempool | one job per delivery: resolve, record, check expiry, look up the wallet, attest, sign, submit, wait, save, comment | webhook queue, GitHub, chain, mirror rows, wallet links |
| **Chain mirror** `chain/event_indexer.rb`, `bounties/announcer.rb`, `index_chain_events_job.rb` | `bounties` rows, `chain_sync_states.last_synced_block` | a pass every 15/30 s: read cursor and head, fetch windows of logs, find and update rows, announce, save the cursor | chain events, the funding form's rows, GitHub |
| **Funding form and refund button** `bounties_controller.rb`, `wallet_controller.js` | a page per tab, the wallet's account, permits and allowances, a `pending` row per funding transaction | open, connect, read the nonce, sign the permit, send `fund`, POST the row; send `refund`, POST its hash | wallet, contract, mirror |
| **Payout wallets** `wallets_controller.rb`, `wallet_link.rb` | `wallet_links`, one active per user | create, activate | payout pipeline, opened job |
| **Opened job** `process_pull_request_opened_job.rb` | `pull_request_events` | a comment on a new pull request | resolver, GitHub, wallets |
| **Installation sync** `github/installation_sync.rb`, `sync_installation_job.rb`, `installations_controller.rb`, `user.rb` | `installations`, `repositories`, `users` | upsert an installation, replace its repositories, adopt at sign-in, destroy on uninstall | GitHub, webhook, callback |
| **Pull request resolver** `github/pull_request_resolver.rb` | none | the funded row a pull request closes | GitHub, mirror |
| **Webhook receiver** `webhooks_controller.rb` | none | verify the HMAC, enqueue | jobs |
| **Sign-in** `sessions_controller.rb`, `user.rb` | `users`, the session | OAuth, upsert, adopt installations | wallets, installations |
| **Oracle encoding** `oracle/attestation.rb` | none | EIP-712 digest and signature | contract, pipeline |
| **Vendored data structures** `contracts/lib/openzeppelin-contracts/scripts/generate/templates` | arrays, positions, values, checkpoints in storage; arrays in memory | enumerable sets and maps, checkpoint lookups, quick sort, binary searches, slice/splice, Merkle proofs and multiproofs | none: pinned with the library, not called by GitReward |
| **Rate limiting, pages, deployment, rest of the vendored code** | configuration | | |

What is hard about it:

* *Contract.* All bounties share one token balance, so an error in one is paid
  by another; terms must survive an owner who changes everything; disburse and
  refund meet at the expiry; a permit can be used up by somebody else; money
  must never be locked. Correct means: the balance covers the open bounties
  exactly, a bounty is settled once and rightly, a refund is never blocked.
* *Pipeline.* Several workers, redelivered webhooks, jobs that die between any
  two of a dozen reads and writes, rows read long before they are used, a
  transaction that may be mined after its job gave up, or reverted. Correct
  means: money only goes where a merge earned it, nothing is submitted twice for
  a delivery, what is said to be paid was, a merge that can pay does.
* *Mirror.* Passes that overlap, crash or are replayed, events that precede
  their row, blocks that are replaced. Correct means: nothing shown that the
  chain does not have, no event lost or undone, no announcement repeated.
* *Funding.* A script whose every await may fail, be left or be answered too
  late, while money moves; permit nonces read by two transactions; a browser's
  clock against the block's; a fee shown against the fee charged. Correct means:
  no more is taken or may be taken than was typed in and signed for, the shortest
  expiry is still accepted, rows say what the chain says.
* *Rows beside the chain.* Two syncs of one installation and a sign-in that
  adopts it; transfers of a repository between two syncs; two wallets linked at
  once. Correct means: nothing points at what is gone, a link is not written
  over, who was promised a payout has a wallet to be paid to.
* *Data structures.* Long mixes of calls on swap-and-pop arrays, values that are
  the zero of an empty slot, bounds of searches and copies. Correct means: the
  caller sees a set, a map, a history.

The hazards, each at its line, are listed in `PROJECT.json`.

## 2. Modules

| Module | Models | |
|---|---|---|
| `Totals` | the sum of a table of amounts (the Foundry test's `fundedTotal`) | pure |
| `GitRewardEscrow` | the contract with the parts of USDC and Ownable it uses | state machine |
| `BountyPromise` | what a bounty promises, without tokens, keys, owner; implemented by the contract | abstract specification |
| `Disbursement` | webhook queue, workers, closed job, processor, relayer's transactions, and the chain as seen by them | state machine |
| `EventIndexer` | indexer passes, cursor, rows, announcements, the form that records rows, a chain with reorganisations | state machine |
| `FundingFlow` | tabs, wallet, POSTs, rows, mempool, permits and as much of escrow and indexer as decides what becomes of a transaction | state machine |
| `InstallationSync` | GitHub's installations, the three tables, syncs, uninstalls, sign-ins | state machine |
| `WalletLinks` | wallet links and the opened job | state machine |
| `EnumerableSet`, `EnumerableMap` | the generated sets and maps in storage (of words, of types that fit in a word, of strings) | state machines |
| `PlainSet`, `PlainMap` | what their callers see | abstract specifications |
| `Checkpoints`, `Arrays`, `MerkleProof` | pushes and lookups; sort, searches and copies; proofs and multiproofs, cut at each turn of a loop | state machines |
| `*Proofs` | lemmas and theorems about the module of that name; `RowsProofs` about `InstallationSync` and `WalletLinks`, `ArraysProofs` about `Checkpoints`, `Arrays` and `MerkleProof`, `EnumerableProofs` about `EnumerableSet` and `EnumerableMap` | TLAPS |
| `MC*` | small instances; `MCRows` composes `InstallationSync` and `WalletLinks`, `MCStructures` the data structures | TLC |

### GitRewardEscrow

One action per external function that changes state, one per owner setter and
Ownable function, one per way tokens or allowances move without the contract
(`Transfer`, `SignPermit`, `ApplyPermit`), and `Tick` for `block.timestamp`. A
transaction that reverts is an action that is not enabled. A transaction is one
step: the three bounty functions are `nonReentrant` and USDC calls nobody back.

`bounties`, `nextBountyId`, `feeRate`, `treasury`, `oracleSigner`, `owner` are the
contract's storage under their own names. `receipt` is the log of `Disbursed` and
`Refunded` (what was paid, when, under which oracle key), `signed` the allowances of
the permits a holder signed over the present nonce, and `surplus` counts tokens that
reached the escrow outside `fund`: sent to it directly, or paid to it as treasury or
recipient. A signature is the record of what it was made over, and `Recover` yields
the signer only if all of it matches; malleability and byte layout are left to
`contracts/test/EIP712RoundTrip.t.sol`. Amounts are mathematical integers: `amount *
feeSnapshot` cannot overflow 256 bits for any amount of USDC that exists. The token
never refuses a transfer that the balance covers; a paused token or a refused
account is not modelled.

Each attempt to fund reads the nonce and signs again, so several permits can be out
on one nonce; the one that is submitted first, by anyone, kills the others.
`FundNotStolen` says what that may do to a fund call: only time, the sender's own
spending, or a smaller permit the sender signed over the same nonce takes away a call
that would have been accepted, whether it carries a permit or lives on the allowance.

### Disbursement

A worker's `pc` names the stretch of code it is about to run, one per read or
write outside the job's own memory: `resolve`, `record`, `check`, `lookup`
(`process_pull_request_closed_job.rb`), `find`, `validate`, `insert`, `sign`,
`save_tx`, `save_bounty` (`processor.rb`), `submit`, `wait` (`client.rb`),
`comment`. Between two of them other workers, wallet changes, the indexer
(`Index`), the clock and the chain move. `Done` is a job that returned or raised:
`ApplicationJob` declares no `retry_on`, so it does not come back by itself;
`Deliver` is GitHub, or somebody pressing "Redeliver". `Crash` may put the job
back into the queue or not. What can fail is chosen by `MayFail`.

`Attestation.create!` is two steps because it races in two ways: a row the
uniqueness validation sees raises `RecordInvalid` (`validate`), a row that
appears after it raises `RecordNotUnique`, which is rescued (`insert`).

The escrow is reduced to one bounty's lifecycle: paid at most once and before its
expiry, or refunded from then on; that the real one is like this is what
`GitRewardEscrow` is checked for. `SubmittedByAnother` is somebody else sending the
same signed call. A transaction may revert although the escrow would have paid
(gas limit), and `Reorg` takes a payment back with its block, after the job has had
its one confirmation and before the indexer has its own: its transactions are in the
mempool again, `undone` remembers it. (Blocks of refunds are not replaced, and a
payment that the indexer has shown is not: that is `EventIndexer`.) `now` is
`block.timestamp`; the server's `Time.current` is off by a `Skew` chosen at each
look at the expiry.

### EventIndexer

A block holds one escrow event or none; ids are given to `Funded` events in
chain order, so that a reorganisation hands them out again. A pass is cut at each
read of the cursor, the head, a window of logs and a row, and at each write. The
update of a row writes only the columns that differ from what the pass read
(Active Record's dirty tracking): an overlapping pass can undo one column and not
another. Unique indexes are `Conflict`, and an update that violates one is logged
and skipped, as `handle` does. `Rebuild` is the operator wiping the cursor
(`platform/README.md:102-105`). A row that is never recorded is a bounty funded
outside the platform.

### FundingFlow

A tab's `pc` is the await its script (`wallet_controller.js`) is at: `connect`
(`requestAddresses`, `ensureChain`), `read` (token name and nonce), `send` (the two
signatures), `record` (the POST). `Fail` is any of them refused or lost, `Close` a
page reloaded or left at any of them, after which it can be opened again; so one tab
already puts two transactions on one nonce and two rows on one issue. A transaction
is in the mempool until it is mined in the order of its sender (`MineFund`,
`MineRefund`) or lost (`Lose`: reverted, replaced, dropped). A fund call takes the
permit if it is still good and lives on the allowance otherwise, as the contract's
try/catch does; `FrontRun` is anybody submitting the permit alone, while its
transaction waits or after it was lost or reverted, as long as nonce and deadline
allow. The owner may set any rate before a transaction is mined; the form shows the
rate of its own moment, or the default when the chain cannot be read. `Record` is
`BountiesController#create` and `#refund`: its 409, and an answer that is lost after
the row is stored. `Recalc` is the arithmetic of `recalc`, `toFixed` included, in
units of a cent. `Index` is the indexer as it should be: every event once, in order,
without failing; what the real one does is `EventIndexer`'s matter.

### InstallationSync

GitHub is `covers` and `installed`, which move by themselves up to `MaxMoves`
times. A sync (`InstallationSync.call`, from the webhook's job or from the install
callback) reads and writes one row at a time; `todo` is the rest of a loop. What
`save!` writes depends on what was read: `Saved` and `Moved` are the columns that
dirty tracking sends. Only the first page of repositories is listed (`PerPage`).
Unique indexes and foreign keys are guards: a step that violates one is not
enabled and the sync can only `Abort`. `DestroyInstall` is the uninstall webhook,
one transaction with all dependent rows, refused when a repository has bounties.
`ClaimInstallations` is what every sign-in ends with. `alone` remembers whether
another sync or an uninstall overlapped.

### WalletLinks

A request creates an inactive row (`Link`) and activates it in one transaction
that deactivates the user's others (`Activate`, one step: the database is SQLite,
which has one writer at a time); it may die between the two. A job of an opened or
reopened pull request (`webhooks_controller.rb:44-45`) records its event under the
delivery id (`Fresh` is the unique index), reads whether the author has a wallet, and
posts. A reopened pull request is another delivery and is commented again.

### The generated data structures

The vendored generator writes Solidity libraries from templates; the models are
of the functions in the templates, one action per function, and of loops one
action per turn. An array in storage is its slots and its length, because
`_setLength` leaves old words in the slots. In a map, zero stands for "not bound"
and may be a value. Nothing looks into a hash, so one is the set of the argument
places it was computed from (`H(a, b)` is the union), and two equal words at two
places are two. `PlainSet` and `PlainMap` say what a caller sees: a set, a partial
function, and the reply to each call; `SetIsSet` and `MapIsMap` are the
refinements.

## 3. Runs

Each run finishes within about three minutes on two workers.

| Run | Instance | Shows |
|---|---|---|
| `escrow` | 2 accounts, 2 bounties of 2 or 3 tokens, permits of either size on one nonce, times 0 and 1, expiries 1 and 2, fee 4/10 (rounds to 0 and to 1), an owner that cannot act | `TypeOK`, `Conservation`, `FundNotStolen` |
| `escrow_admin` | 1 bounty, times 0..2, every owner function, rates 0 and 5/10 with 6/10 refused, treasury possibly the escrow, two oracle keys; fair clock and funder | `Settlement`, `RefundNeverBlocked`, `KeepsPromise` (terms, fee share among them, frozen and settled once under an active owner), `EveryBountySettles` |
| `payout` | 2 merged PRs of 2 authors, 2 workers, 2 bounties of which one PR closes both but misses the branch of one, a wallet each, an expiry, a server clock behind or ahead, every kind of failure, blocks replaced | `TypeOK`, `PayoutEarned`, `RecordsReal`, `SubmittedOncePerDelivery` |
| `payout_pays` | 2 PRs of one author on 1 bounty, nothing fails, fair | `ReadyMergePays` |
| `mirror` | one pass at a time, 2 bounties on one issue, 4 blocks, 1 confirmation, windows of 2, one reorganisation, failure, crash or rebuild; fair | `TypeOK`, `AnnouncedOnce`, `OutcomeKept`, `OutcomeShown` |
| `mirror_overlap` | 2 passes at once, the same chain, updates that fail | `MirrorTrue`, `AnnouncementsReal`, `AnnouncedPerPass` |
| `funding` | 1 tab, 2 transactions, amounts of 57 and 60 with cents of 10 and a rate of 3/10 or none, the shortest expiry, 4 times | `TypeOK`, `SignedForAll`, `BufferHolds`, `RowsFollowChain`, `ShownNetClose` |
| `rows` | 2 installations (one on a user's own account), 1 change on GitHub, and either 2 syncs of 2 repositories and 1 user, or 2 syncs of 1 repository and 2 users, or 1 sync of 3 repositories, one more than a page has; or 3 requests of 2 users, 2 deliveries, 2 workers | `SyncTypeOK`, `NoOrphans`, `LinkedStaysLinked`, `AloneIsExact`; `PromiseKept`, `NudgedPerDelivery` |
| `structures` | sets and maps of up to 3, 7 checkpoints, arrays of up to 5 words of 3 values, copies of up to 5, up to 5 flags, 6 leaves and 6 siblings | `SetIsSet`, `MapIsMap`, `LookupsRight`, `SortRight`, `SearchRight`, `CopyRight`, `ProofsSound` |

*Why the bounds are enough.* Two bounties are what it takes for one to be paid with
the other's money; amounts 2 and 3 under 4/10 reach both rounding cases and the zero
fee whose transfer is skipped, and are two permits on one nonce of which the smaller
is too small for the larger call; times 0..2 with expiries 1 and 2 put a call
before, at and after each expiry (`escrow` stops at 1, the first expiry). Two
deliveries, two workers and one bounty are what the races need (`find` before and
after the other's `insert`, `save_tx`), a second bounty what a mix-up needs. Four
blocks at one confirmation leave three that a pass can read, in two windows: a
bounty can be funded and settled in different windows, or two be funded, and the
head can be replaced under a pass. The mirror invariants were also checked once at
the production setting of two confirmations with six blocks and reorganisations of
two; that run is too long to keep beside the liveness property. Two transactions are
a retry on one nonce, a refund after a funding, two rows on one issue; the two
amounts make two permits on one nonce differ, 57 is no multiple of a cent and its
fee is rounded; the times put a permit before, at and after its deadline and a
bounty at and after its expiry. Two installations and two repositories are a
transfer under two syncs, and two users two installers of one row; the third
repository makes a second page. Symmetry is over the first two repositories, the
syncs and the workers, which nothing tells apart, and is not used where liveness is
checked. Seven checkpoints reach the branch of `upperLookupRecent` for more than
five. Five words give every way a pivot can split a segment twice, with repeated
words; the third word of a set is the zero of an unused slot. `part` chooses at the
start which structure, or which half of the tables, a behaviour is about: they share
nothing. A set or map at `Capacity` refuses any addition, one of a word it has
included. The bounds are `MaxTime`, `MaxBounties`, `MaxBlock`, `MaxTrouble`,
`MaxTx`, `MaxMoves`, `Capacity`, `MaxTrace`, `MaxLen`, `MaxCopy`, `MaxFlags` and the
input sets. Deadlock is not checked because every bounded model stops when clock,
chain and ids are used up.

*Assumed of the mirror's surroundings.* Reorganisations are at most as deep as
the configured confirmations (`MaxReorg <= Confirmations` in the instances and in
the theorems); that passes do not overlap is assumed by `mirror` only, and the
code does not ensure it.

*Fairness.* `escrow_admin`: blocks keep coming, and a funder keeps asking for an
open refund; nothing is assumed of oracle or owner. `payout_pays`: a worker goes
on with its job (weak), the queue is in order of arrival, so no job is overtaken
for ever (strong on `Claim`), submitted transactions are mined, the indexer keeps
up and GitHub redelivers. `mirror`: blocks keep coming, the scheduler starts
passes again and again and a running pass goes on (`config/recurring.yml`).
The other runs assume none.

### What the comments say and the code does not do

Each of these runs checks one quoted sentence and TLC finds the counterexample;
the quotations are in `PROJECT.json`, `findings`.

| Run | Sentence | What happens |
|---|---|---|
| `sign_twice` | "never sign twice" | two merges of one bounty: two signatures for two recipients |
| `unsubmitted_retried` | "we retry it here rather than skip" | the redelivered webhook is skipped at the top of the job |
| `outcome_lost` | "Status flips to `disbursed` when the indexer sees the Disbursed event" | an overlapping pass undoes or misses it, and the cursor goes past |

None of them moves money that is not owed: `PayoutEarned`, `Settlement` and
`Conservation` hold throughout.

Seen while modelling, and reached in the passing runs:

* two attempts to fund sign two permits on one nonce; if the smaller is used first,
  the fund call for more fails. The permit of a transaction that was lost or reverted
  can still be submitted, and leaves its allowance standing;
* a job that takes over an attestation leaves the first job's `recipient_address` in
  it (`processor.rb:24-26`), so that the recipient on record, the signature and the
  wallet that was paid can be of different authors; `RecordsReal` holds each of the
  first two only to a merge that earned the bounty. The loser of two concurrent
  creations raises `RecordInvalid` where the comment at `processor.rb:39-40` says it
  re-finds the winner's row;
* one confirmation is taken for final: a block that is replaced leaves a "paid"
  comment and a hash on record for a payment that did not stay;
* a merge of a bounty that is already disbursed on chain, but still funded in its row,
  may be answered that it has expired and can be refunded; by a server clock ahead of
  the chain's this is also said before the expiry. Nothing keeps a margin between
  signing and expiry (`docs/contract-spec.md:129-130` says the oracle does). No
  property is stated of the "expired" comment, which the model does not keep;
* a merge handled while its row is still pending is recorded and never looked at again;
* overlapping passes announce a bounty twice (`AnnouncedPerPass` is the bound that is
  left, `AnnouncedOnce` needs passes that do not overlap);
* a row recorded after the cursor has passed its Funded event stays pending;
* a pending row whose transaction was lost keeps the issue's slot: a second funding of
  the issue is mined and then answered 409. The fee of the row is the one shown until
  the indexer puts in the one charged. The refund hash is stored before the refund is
  mined and whatever becomes of it;
* only the first page of repositories is read, and the rest are destroyed as revoked
  (behaviours of `rows` with three repositories); an empty list removes nothing; two
  syncs that both read a row without an installer overwrite each other's, and one that
  read it before a sign-in adopted it overwrites that (behaviours with two users),
  where the comment at `installation_sync.rb:17-18` says that a sync never clobbers the
  original;
* a wallet whose request dies before `activate!` is stored and never active; a reopened
  pull request is commented again.

Read in the code only: `parseUnits` runs outside the `try` of `fund`.

*What the runs do not reach.* In `mirror`, which has the properties of one pass at a
time, no update of a row fails, so nothing is lost by a skipped event there; overlap
and skipped updates are in `mirror_overlap` and `outcome_lost`, whose properties say
that nothing false is shown, not that nothing is lost. The indexers of `Disbursement`
and `FundingFlow` are reduced ones that never fail or fall behind for ever.
`funding` has one non-zero rate at a time: the page's split is compared with the
charge only where the rate did not change under it. `AloneIsExact` says nothing of
syncs that overlapped. `payout_pays` has no failure in it, and no run has the
relayer's account nonces, which two jobs may take at once. In `payout` each author
has one wallet, linked at any time; a wallet replaced between two steps of a job is
in the run of `NeverSignTwice` and in the theorems, which are for any `CanLink`.

## 4. Proofs

Proved for every value of the constants the assumptions allow, so for any number
of bounties, accounts, workers, deliveries, passes, syncs, tabs:

| Module | Theorem | States |
|---|---|---|
| `GitRewardEscrowProofs` | `TypeCorrect` | `[]TypeOK`: no debit goes below zero, no payout is negative |
| | `FundsConserved`, `SettledRightly`, `RefundAlwaysOpen` | `[]Conservation`, `[]Settlement`, `[]RefundNeverBlocked` |
| | `TermsAreFrozen`, `NobodyStealsAFund` | the action properties `TermsFrozen` (in the runs a part of `KeepsPromise`), `FundNotStolen` |
| | `ImplementsPromise` | `KeepsPromise`, the refinement of `BountyPromise` |
| `DisbursementProofs` | `TypeCorrect`, `PayoutsEarned`, `RecordsAreReal` | `[]TypeOK`, `[]PayoutEarned`, `[]RecordsReal` |
| | `SubmitsOnce` | `SubmittedOncePerDelivery` |
| `EventIndexerProofs` | `TypeCorrect`, `MirrorIsTrue`, `AnnouncementsAreReal` | `[]TypeOK`, `[]MirrorTrue`, `[]AnnouncementsReal`, if `MaxReorg <= Confirmations` |
| | `AnnouncedOncePerPass` | `[]AnnouncedPerPass`, under the same condition and for finitely many passes |
| `FundingFlowProofs` | `TypeCorrect`, `NeverMoreThanSigned`, `BufferAlwaysHolds`, `RowsAreTrue` | `[]TypeOK`, `[]SignedForAll`, `[]BufferHolds`, `[]RowsFollowChain` |
| | `ShownNetIsPaid` | `[]ShownNetClose` |
| `RowsProofs` | `SyncTypeCorrect`, `ReferencesHold` | `[]SyncTypeOK`, `[]NoOrphans` |
| | `LinksStay`, `AloneExactly` | the action properties `LinkedStaysLinked`, `AloneIsExact` |
| | `PromisesKept`, `CommentsPerDelivery` | `[]PromiseKept`, `[]NudgedPerDelivery` |
| `ArraysProofs` | `LookupsAreRight` | the action property `LookupsRight` of `Checkpoints` |
| | `SearchesSplit`, `CopiesAreRight`, `SortsRight` | `[]SearchRight`, `[]CopyRight`, `[]SortRight` |
| | `RootsCoverArguments` | `[]ProofsSound` of `MerkleProof` |
| `EnumerableProofs` | `SetsAreSets`, `MapsAreMaps` | `SetIsSet`, `MapIsMap`: the refinements of `PlainSet` and `PlainMap` |

*Assumptions.* Those declared in the modules. Of the contract: the escrow is no
externally owned account and zero is neither an account nor a key; the
constructor's checks (`DeploymentAssumption`); inputs are naturals, minimum and
duration positive; `MAX_FEE` is at most the denominator. Of the others: the wiring
is well-typed (each delivery has an author, each request a user, each row an
issue), placeholders are no members of the sets they stand beside. TLC evaluates
them in each run.

*The contract.* `Conservation` is not inductive by itself: that a debit leaves the
ledger right needs that settling removes exactly the amount that was put in, so it
needs the type of the entries, that a fee is within the amount (`FeeCapped`: no
snapshot above `MAX_FEE`), and that the id `fund` writes was empty
(`IdsInOrder`); that a refund finds its funder needs `FundedTerms`. Their
conjunction `IInv` is inductive. `Totals` gives what changing one entry does to
the sum (`SumToUpdate`) and that one claim is at most the total (`SumToBound`),
which with `Conservation` is why a refund is never short of tokens. Sums are a
recursive function; since an induction theorem over an operator cannot be used
with the provers at hand, the lemmas go by least counterexample
(`LeastNatural`). The refinement maps status to phase and receipts to outcomes,
and shows `fund`, `disburse`, `refund` and `Tick` to be the abstract steps and
all others to be stutters. `NobodyStealsAFund` goes through the steps that change a
clock, an allowance or a permit: of these only another permit of the same holder
lowers what the token would allow.

*The pipeline.* What a job knows depends on where it is (`JobsInformed`): past its
event it handles a merge that earns the bounty, from the lookup on it holds a
wallet that was linked, from the submission on there is a transaction for exactly
this. It is kept by other jobs because only one job of a delivery ever gets past
the event (`OneGoesOn`) and because transactions, deposits and links only move
forward (`ChainMoves`), except that a replaced block puts them back, which is what
`undone` is for. A transaction that was sent pays what a merge earned, one that is
mined has paid (`TxJustified`), and a recipient is on chain exactly when the bounty is
paid (`RecipientIfPaid`). What is on record then happened: a job that saves or
comments has seen its transaction mined, or the bounty's block was replaced since.

*The mirror.* Blocks more than `MaxReorg` below the greatest length the chain ever
had are final. A pass reads no further (`Informed`), so its logs, all ids in rows
and all announcements are of final blocks (`ShownFinal`, `AnnouncedFinal`),
although the rows it works on were read earlier. That the row found by id is the
row of the event needs that ids of fundings in the chain differ, which follows
from how they are counted (`Numbered`) and not from any check. For
announcements, count: a row that is unfunded has none and no pass is about to make
one; from then on, those made and the passes that are still on the way to one, because
they read the row before, are together no more than the passes there are
(`AnnouncersKnown`). One pass at a time makes that one announcement.

*Funding.* What an account's bounties took and what may still be taken is a sum over
its transactions, so the lemmas of `Totals` carry `SignedForAll` over the three ways
an allowance moves; it needs that a permit is taken once, which is that the
position of a permit is its nonce (`PermitsInOrder`), and that a bounty is funded by
its own transaction only (`LogTrue`). `ShownNetClose` is arithmetic once the log is
known to hold naturals: two divisions that round, bounded by their remainders
(`RoundingClose`). `BufferHolds` needs that a page computes expiry and deadline from
one clock (`TabsHold`). Rows follow the log because the indexer handles it in order
and a bounty has one outcome.

*Rows beside the chain.* A promise holds because a told author is covered by an
active wallet (`ToldHaveWallet`) and activation replaces rather than removes
(`OneActive`); one comment per delivery, because the job that recorded the event is
the only one that may comment (`OneCommenter`). A link is kept because what a sync
writes depends on the row it read, which its step names. A sync that is alone knows
what it has saved and what it has left to destroy (`Knows`), and everything that
could change it clears `alone`.

*Data structures.* A trace of checkpoints keeps its keys increasing, and what was
pushed under a key last is its value (`TraceTrue`); bisection keeps the answer
between its bounds (`SearchTrue`), from the first turn on because the look near the
end starts it on one side of the answer (`BeginTrue`). A binary search of an array keeps
every position below its lower bound on one side of the element and every position
from its upper bound on the other (`SearchInv`). Quick sort: the segments on the
stack are apart and in order, any two words that are not in one segment are in order
already (`SortedOutside`), the running partition has the smaller words in front
(`PartitionTrue`), and a swap inside a segment keeps all of this (`Rearranged`) and
every count (`SwapCounts`, by a bijection of positions). Copies go word by word, with
bounds cut first. Of an enumerable set, `Tracked`: each position below the length
holds a word whose position it is, and each word with a position is there; adding,
removing with the last word moved, and clearing keep it and change the words as the
set operations do (`AddTracked`, `RemoveTracked`, `ClearTracked`). The refinement then
maps each call to the abstract one; for a typed set, every word is the image of one
element (`OfType`), so conversion is a bijection and counts agree. For a map, a key
that is not bound reads zero (`Kept`): that is why "not zero, or among the keys" means
bound. A multiproof (`MerkleInv`) reads leaves, then hashes, from one queue: as long as
the queue has not run dry, what it holds and the siblings ahead are together made of
all the arguments, so the last hash is; and a call that returns has used up its
siblings.

*Only model-checked.* Liveness under fairness (`EveryBountySettles`,
`ReadyMergePays`, `OutcomeShown`) and `ENABLED` are out of the
prover's reach (`RefundNeverBlocked` is therefore stated with the guard of
`refund`), and so is what a recursive definition computes for every input.
`OutcomeKept` holds of one pass at a time whose updates do not fail, which the code
does not ensure, so the run `mirror` is all there is of it; `AnnouncedOnce`, of one
pass at a time, is what `AnnouncedOncePerPass` says of a single pass.
Every other invariant, action property and refinement of the passing runs is proved.

## 5. Not modelled

Comment wording, ABI and EIP-712 bytes, gas pricing, HMAC and OAuth (library
calls or pure data); pages, rate limiting, deployment scripts (no state of their
own); a token that refuses or calls back; the relayer's nonces, which two jobs may
take at once; the resolver's GraphQL query; the rest of the vendored libraries,
whose release scripts and test generators GitReward does not run, and the template
of `replace`, which the generator's list leaves out (`Arrays.js:478-505`).

## 6. Plan

Done: the contract, the pipeline, the mirror, the funding flow, syncs, wallets and
opened job with their proofs; the generated data structures with the abstract
specifications of sets and maps. Next, in this order:

1. `GitRewardSystem`: `GitRewardEscrow`, `Disbursement` and `EventIndexer`
   composed over one chain and one set of rows; that the reduced escrows of
   `Disbursement` and `FundingFlow` and their reduced indexers are implemented by the
   real ones.
2. Relayer nonces as state in `Disbursement`, and replaced blocks of refunds.
3. `EscrowCalls`: the three functions cut at their token calls, with a token that
   calls back, refuses an account or is paused, with and without the guard.
4. 256/64/16-bit widths of the fee arithmetic over bounded inputs.

Theorem worth proving next: that the reduced escrows and indexers are implemented by
the real ones, once `GitRewardSystem` states it.

---------------------------- MODULE EventIndexer ----------------------------
(***************************************************************************)
(* The mirror of the escrow in the database:                               *)
(* platform/app/services/chain/event_indexer.rb, the announcer it calls,   *)
(* the form that records a bounty (bounties_controller.rb) and the chain   *)
(* the events come from.                                                   *)
(*                                                                         *)
(* A pass (IndexChainEventsJob, every 15 or 30 seconds) is cut at every    *)
(* read and write outside its own memory, so the form, the chain, a        *)
(* reorganisation and other passes move in between.  Nothing stops two     *)
(* passes from running at once (config/recurring.yml, config/queue.yml).   *)
(*                                                                         *)
(* A bounty is named by the hash of its funding transaction; a row that is *)
(* never recorded stands for a bounty funded outside the platform.  A      *)
(* block holds one event of the escrow or none.                            *)
(***************************************************************************)
EXTENDS FiniteSets, Integers, Sequences

CONSTANTS
  Row,            \* funding transactions, and the rows recorded for them
  IssueOf,        \* IssueOf[r]: the issue the bounty is on
  Pass,           \* passes that may run at once
  None,
  StartBlock,     \* first block a fresh cursor reads
  Confirmations,  \* blocks the indexer stays behind the head
  MAX_BLOCK_SPAN, \* blocks per getLogs call
  MaxReorg,       \* blocks a reorganisation may replace
  MaxBlock,       \* bound: the chain's length
  MaxTrouble,     \* bound: reorganisations, passes that end early, rebuilds
  MayFail         \* which of "rpc", "db", "github", "crash" can happen

ASSUME IndexerAssumption ==
  /\ None \notin Row
  /\ StartBlock \in Nat \ {0}
  /\ Confirmations \in Nat
  /\ MAX_BLOCK_SPAN \in Nat \ {0}
  /\ MaxReorg \in Nat
  /\ MaxBlock \in Nat
  /\ MaxTrouble \in Nat

VARIABLES
  chain,      \* the blocks, oldest first
  peak,       \* the greatest length the chain ever had
  rows,       \* bounties table
  cursor,     \* chain_sync_states.last_synced_block
  pass,       \* what each pass is doing
  announced,  \* funding announcements posted on each bounty's issue
  trouble     \* how often something went wrong so far

blocks == <<chain, peak>>
vars   == <<blocks, rows, cursor, pass, announced, trouble>>

NoRow == [status |-> "none", id |-> 0]

Unseen == [row |-> None, status |-> "none", id |-> 0]

\* A block without an event of the escrow.
Quiet == [kind |-> "none", id |-> 0, tx |-> None]

Resting == [pc |-> "idle", cursor |-> 0, head |-> 0, next |-> 0, end |-> 0,
            logs |-> {}, event |-> Quiet, seen |-> Unseen]

Init ==
  /\ chain = <<>>
  /\ peak = 0
  /\ rows = [r \in Row |-> NoRow]
  /\ cursor = 0
  /\ pass = [p \in Pass |-> Resting]
  /\ announced = [r \in Row |-> 0]
  /\ trouble = 0

\* One thing more goes wrong, up to the bound.
Trouble == trouble < MaxTrouble /\ trouble' = trouble + 1

----------------------------------------------------------------------------
(* The chain. *)

\* The events of a stretch of the chain.
Events(c) == {c[i] : i \in DOMAIN c} \ {Quiet}

Funding(r, n)  == [kind |-> "Funded", id |-> n, tx |-> r]
Settling(k, n) == [kind |-> k, id |-> n, tx |-> None]

FundingsIn(c) == {e \in Events(c) : e.kind = "Funded"}
Outcomes(c, n) == {e \in Events(c) : e.id = n /\ e.kind # "Funded"}

Append1(e) ==
  /\ Len(chain) < MaxBlock
  /\ chain' = Append(chain, e)
  /\ peak' = IF Len(chain) = peak THEN peak + 1 ELSE peak
  /\ UNCHANGED <<rows, cursor, pass, announced, trouble>>

MineQuiet == Append1(Quiet)

\* fund: the contract numbers bounties in the order they are mined.
MineFund(r) ==
  /\ \A e \in FundingsIn(chain) : e.tx # r
  /\ Append1(Funding(r, Cardinality(FundingsIn(chain)) + 1))

\* disburse or refund, once per funded bounty.
MineOutcome(k, n) ==
  /\ n <= Cardinality(FundingsIn(chain))
  /\ Outcomes(chain, n) = {}
  /\ Append1(Settling(k, n))

\* The last blocks are replaced: their transactions are mined again in any
\* order, or not at all.  Nothing MaxReorg blocks deep ever goes.
Reorg(n) ==
  /\ n < Len(chain)
  /\ n >= peak - MaxReorg
  /\ Trouble
  /\ chain' = SubSeq(chain, 1, n)
  /\ UNCHANGED <<peak, rows, cursor, pass, announced>>

----------------------------------------------------------------------------
(* The form and the operator. *)

Active == {"pending", "funded"}

\* The unique indexes on bounties: one active row per issue, one row per
\* chain id.
Conflict(r, new) ==
  \E q \in Row \ {r} :
    \/ /\ new.status \in Active /\ rows[q].status \in Active
       /\ IssueOf[q] = IssueOf[r]
    \/ new.id # 0 /\ rows[q].id = new.id

\* BountiesController#create, called by the browser once the funding
\* transaction is sent; a conflict is answered 409 and nothing is stored.
RecordRow(r) ==
  LET new == [status |-> "pending", id |-> 0]
  IN  /\ rows[r] = NoRow
      /\ ~ Conflict(r, new)
      /\ rows' = [rows EXCEPT ![r] = new]
      /\ UNCHANGED <<blocks, cursor, pass, announced, trouble>>

\* The operator wipes the cursor to rebuild the mirror.
Rebuild ==
  /\ Trouble
  /\ cursor # 0
  /\ \A p \in Pass : pass[p] = Resting
  /\ cursor' = 0
  /\ UNCHANGED <<blocks, rows, pass, announced>>

----------------------------------------------------------------------------
(* A pass. *)

At(p, pc) == pass[p].pc = pc

Goto(p, pc) == pass' = [pass EXCEPT ![p].pc = pc]

Rest(p) == pass' = [pass EXCEPT ![p] = Resting]

\* EventIndexer.new reads the cursor; it is not read again.
Begin(p) ==
  /\ At(p, "idle")
  /\ pass' = [pass EXCEPT ![p].pc = "head", ![p].cursor = cursor]
  /\ UNCHANGED <<blocks, rows, cursor, announced, trouble>>

\* Mutant: no confirmations are waited for.
HeadUnconfirmed == Len(chain)

ConfirmedHead == Len(chain) - Confirmations

From(last) == IF last = 0 THEN StartBlock ELSE last + 1

\* Mutants: the head is taken to move forwards only; off by one.
NothingNewForwards(head, from) == head = from - 1
NothingNewOffByOne(head, from) == head <= from

NothingNew(head, from) == head < from

ReadHead(p) ==
  LET head == ConfirmedHead
      from == From(pass[p].cursor)
  IN  /\ At(p, "head")
      /\ IF NothingNew(head, from)
         THEN Rest(p)
         ELSE pass' = [pass EXCEPT ![p].pc = "fetch", ![p].head = head, ![p].next = from]
      /\ UNCHANGED <<blocks, rows, cursor, announced, trouble>>

WindowEnd(p) ==
  LET full == pass[p].next + MAX_BLOCK_SPAN - 1
  IN  IF full < pass[p].head THEN full ELSE pass[p].head

\* The escrow's logs of a range of blocks.
LogsIn(range) ==
  {[at |-> i, event |-> chain[i]] : i \in {j \in range \cap DOMAIN chain : chain[j] # Quiet}}

\* eth_getLogs over one window; a failure ends the pass, the cursor as saved.
Fetch(p) ==
  /\ At(p, "fetch")
  /\ pass' = [pass EXCEPT ![p].pc = "log", ![p].end = WindowEnd(p),
                          ![p].logs = LogsIn(pass[p].next..WindowEnd(p))]
  /\ UNCHANGED <<blocks, rows, cursor, announced, trouble>>

RpcFails(p) ==
  /\ "rpc" \in MayFail
  /\ Trouble
  /\ At(p, "head") \/ At(p, "fetch")
  /\ Rest(p)
  /\ UNCHANGED <<blocks, rows, cursor, announced>>

\* find_by the funding transaction, or else by the chain's id.
Matching(e) ==
  IF e.kind = "Funded" /\ rows[e.tx] # NoRow
  THEN {e.tx}
  ELSE {r \in Row : rows[r].id = e.id}

\* The oldest log left is taken and its row read; one without a row is ignored.
FindRow(p) ==
  /\ At(p, "log")
  /\ \E log \in pass[p].logs :
       /\ \A other \in pass[p].logs : log.at <= other.at
       /\ \/ /\ Matching(log.event) = {}
             /\ pass' = [pass EXCEPT ![p].logs = @ \ {log}]
          \/ \E r \in Matching(log.event) :
               pass' = [pass EXCEPT ![p].pc = "write", ![p].logs = @ \ {log},
                          ![p].event = log.event,
                          ![p].seen = [row |-> r, status |-> rows[r].status, id |-> rows[r].id]]
  /\ UNCHANGED <<blocks, rows, cursor, announced, trouble>>

StatusOf(kind) == CASE kind = "Funded" -> "funded"
                    [] kind = "Disbursed" -> "disbursed"
                    [] kind = "Refunded" -> "refunded"

\* update! writes the columns that differ from what was read, and only those.
Updated(seen, e) ==
  LET now == rows[seen.row]
  IN  [status |-> IF seen.status = StatusOf(e.kind) THEN now.status ELSE StatusOf(e.kind),
       id     |-> IF seen.id = e.id THEN now.id ELSE e.id]

\* Mutant: gated on "not yet funded".
AnnouncesUnfunded(seen, e) == e.kind = "Funded" /\ seen.status # "funded"

\* Announce only on the genuine pending -> funded transition.
Announces(seen, e) == e.kind = "Funded" /\ seen.status = "pending"

NextLog(p) == pass' = [pass EXCEPT ![p].pc = "log", ![p].event = Quiet, ![p].seen = Unseen]

\* The update commits; an index it violates, or any other error, is logged
\* and the pass goes on with the next event.
WriteRow(p) ==
  LET e    == pass[p].event
      seen == pass[p].seen
      new  == Updated(seen, e)
  IN  /\ At(p, "write")
      /\ \/ /\ ~ Conflict(seen.row, new)
            /\ rows' = [rows EXCEPT ![seen.row] = new]
            /\ IF Announces(seen, e) THEN Goto(p, "announce") ELSE NextLog(p)
         \/ /\ Conflict(seen.row, new) \/ "db" \in MayFail
            /\ rows' = rows
            /\ NextLog(p)
      /\ UNCHANGED <<blocks, cursor, announced, trouble>>

\* Announcer.announce_funded; a failure to post is rescued and forgotten.
Announce(p) ==
  LET r == pass[p].seen.row
  IN  /\ At(p, "announce")
      /\ \/ announced' = [announced EXCEPT ![r] = @ + 1]
         \/ "github" \in MayFail /\ announced' = announced
      /\ NextLog(p)
      /\ UNCHANGED <<blocks, rows, cursor, trouble>>

\* Mutant: the whole range is marked as done after its first window.
SyncedToHead(p) == pass[p].head

SyncedTo(p) == pass[p].end

\* The window is done: the cursor moves to its end, whatever it is by now.
SaveCursor(p) ==
  /\ At(p, "log")
  /\ pass[p].logs = {}
  /\ cursor' = SyncedTo(p)
  /\ IF pass[p].end < pass[p].head
     THEN pass' = [pass EXCEPT ![p].pc = "fetch", ![p].cursor = pass[p].end,
                               ![p].next = pass[p].end + 1]
     ELSE Rest(p)
  /\ UNCHANGED <<blocks, rows, announced, trouble>>

Crash(p) ==
  /\ "crash" \in MayFail
  /\ Trouble
  /\ ~ At(p, "idle")
  /\ Rest(p)
  /\ UNCHANGED <<blocks, rows, cursor, announced>>

----------------------------------------------------------------------------
PassStep(p) ==
  \/ Begin(p) \/ ReadHead(p) \/ Fetch(p) \/ FindRow(p)
  \/ WriteRow(p) \/ Announce(p) \/ SaveCursor(p)

ChainStep ==
  \/ MineQuiet
  \/ \E r \in Row : MineFund(r)
  \/ \E k \in {"Disbursed", "Refunded"}, n \in 1..MaxBlock : MineOutcome(k, n)
  \/ \E n \in 0..MaxBlock : Reorg(n)

Next ==
  \/ ChainStep
  \/ Rebuild
  \/ \E r \in Row : RecordRow(r)
  \/ \E p \in Pass : PassStep(p) \/ RpcFails(p) \/ Crash(p)

Spec == Init /\ [][Next]_vars

\* Blocks keep coming; the scheduler starts a pass again and again, and a pass
\* that runs goes on.
FairSpec == Spec /\ WF_vars(MineQuiet) /\ \A p \in Pass : WF_vars(PassStep(p))
----------------------------------------------------------------------------
Log == [kind : {"Funded", "Disbursed", "Refunded"}, id : Nat, tx : Row \cup {None}]

RowStatus == {"none", "pending", "funded", "disbursed", "refunded"}

PassState ==
  [pc : {"idle", "head", "fetch", "log", "write", "announce"},
   cursor : Nat, head : Nat, next : Nat, end : Nat,
   logs : SUBSET [at : Nat, event : Log], event : Log \cup {Quiet},
   seen : [row : Row \cup {None}, status : RowStatus, id : Nat]]

TypeOK ==
  /\ chain \in Seq(Log \cup {Quiet})
  /\ peak \in Nat
  /\ rows \in [Row -> [status : RowStatus, id : Nat]]
  /\ cursor \in Nat
  /\ pass \in [Pass -> PassState]
  /\ announced \in [Row -> Nat]
  /\ trouble \in Nat

\* The chain is the source of truth: a row carries the id its own funding
\* got, and shows an outcome only if the chain has it, although ids are handed
\* out again when blocks are replaced and passes work on rows read earlier.
MirrorTrue ==
  \A r \in Row :
    /\ rows[r].id # 0 => Funding(r, rows[r].id) \in Events(chain)
    /\ rows[r].status \in {"funded", "disbursed", "refunded"} => rows[r].id # 0
    /\ \A k \in {"Disbursed", "Refunded"} :
         rows[r].status = StatusOf(k) => Settling(k, rows[r].id) \in Events(chain)

\* "the announcement reflects real escrowed funds, not an unconfirmed local
\* row" (announcer.rb lines 4-5).
AnnouncementsReal ==
  \A r \in Row : announced[r] > 0 => \E e \in Events(chain) : e.kind = "Funded" /\ e.tx = r

\* A bounty is announced once, whatever is replayed after a crash or a wiped
\* cursor (event_indexer.rb lines 76-79), as long as passes do not overlap.
AnnouncedOnce == \A r \in Row : announced[r] <= 1

\* Passes that overlap can all read a row before one of them updates it, and
\* each then announces it; but no replay, crash, failed update or rebuild adds
\* to that: there is at most one announcement per pass that can run at once.
AnnouncedPerPass == \A r \in Row : announced[r] <= Cardinality(Pass)

\* An outcome the cursor has passed is in the mirror and stays there: a pass
\* that dies loses no event, and no older event undoes a newer one.  This is of
\* passes that do not overlap and updates that do not fail: the error of an
\* update is logged and its event lost, and a pass that overlaps another may
\* write what it read before the other one's update.
OutcomeKept ==
  \A r \in Row : rows[r].id # 0 =>
    \A k \in {"Disbursed", "Refunded"} :
      Settling(k, rows[r].id) \in Events(SubSeq(chain, 1, IF cursor < Len(chain) THEN cursor
                                                                         ELSE Len(chain)))
        => rows[r].status = StatusOf(k)

\* The row of a bounty whose outcome is confirmed comes to show it: "Status
\* flips to `disbursed` when the indexer sees the Disbursed event"
\* (processor.rb lines 5-6, bounties_controller.rb lines 15-16).
Confirmed == SubSeq(chain, 1, ConfirmedHead)

OutcomeShown ==
  \A r \in Row, k \in {"Disbursed", "Refunded"}, n \in 1..MaxBlock :
    rows[r].id = n /\ Settling(k, n) \in Events(Confirmed) ~> rows[r].status = StatusOf(k)
=============================================================================

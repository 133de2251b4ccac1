------------------------- MODULE EventIndexerProofs -------------------------
(***************************************************************************)
(* Theorems about the mirror of the escrow, for any number of bounties and *)
(* of overlapping passes, any windows, failures, crashes and rebuilds, and *)
(* reorganisations that are no deeper than the confirmations.              *)
(***************************************************************************)
EXTENDS EventIndexer, FiniteSetTheorems, FunctionTheorems, TLAPS

\* Blocks a reorganisation cannot reach, and their events.
Fixed == peak - MaxReorg

Final == {chain[i] : i \in 1..Fixed \cap DOMAIN chain} \ {Quiet}

FundedUpTo(c, n) == {e \in {c[i] : i \in 1..n} : e.kind = "Funded"}

\* The contract's ids: fundings are numbered in the order of the chain, and
\* one transaction funds one bounty.
Numbered(c) ==
  \A i \in DOMAIN c : c[i].kind = "Funded" =>
    /\ c[i].tx \in Row
    /\ c[i].id = Cardinality(FundedUpTo(c, i))

FundedOnce(c) ==
  \A i, j \in DOMAIN c :
    c[i].kind = "Funded" /\ c[j].kind = "Funded" /\ c[i].tx = c[j].tx => i = j

\* An event has an id, and the outcome of a bounty names no funding.
Sound(e) == e.id > 0 /\ (e.kind # "Funded" => e.tx = None)

ChainInv ==
  /\ chain \in Seq(Log \cup {Quiet}) /\ peak \in Nat
  /\ Fixed <= Len(chain) /\ Len(chain) <= peak
  /\ Numbered(chain) /\ FundedOnce(chain)
  /\ \A i \in DOMAIN chain : chain[i] # Quiet => Sound(chain[i])

\* A pass works on blocks that stay, and on a row that its event is about:
\* E are the events that stay, n the blocks, and T is the table of rows.
Reading == {"fetch", "log", "write", "announce"}

Informed(s, E, n, T) ==
  /\ s.pc \in Reading => s.head <= n /\ 1 <= s.next /\ s.next <= s.head
  /\ s.pc \in Reading \ {"fetch"} => s.end <= s.head
  /\ \A l \in s.logs : l.event \in E
  /\ s.pc \in {"write", "announce"} =>
       /\ s.event \in E
       /\ s.seen.row \in Row
       /\ s.seen.id # 0 => T[s.seen.row].id = s.seen.id
       /\ s.event.kind = "Funded" => s.event.tx = s.seen.row
       /\ s.event.kind # "Funded" => s.event.id = s.seen.id
  /\ s.pc = "announce" => s.event.kind = "Funded"

PassesInformed == \A p \in Pass : Informed(pass[p], Final, Fixed, rows)

\* What is shown and what was announced is in blocks that stay.
ShownFinal ==
  \A r \in Row :
    /\ rows[r].id # 0 => Funding(r, rows[r].id) \in Final
    /\ rows[r].status \in {"funded", "disbursed", "refunded"} => rows[r].id # 0
    /\ \A k \in {"Disbursed", "Refunded"} :
         rows[r].status = StatusOf(k) => Settling(k, rows[r].id) \in Final

AnnouncedFinal ==
  \A r \in Row : announced[r] > 0 => \E e \in Final : e.kind = "Funded" /\ e.tx = r

IInv == TypeOK /\ ChainInv /\ PassesInformed /\ ShownFinal /\ AnnouncedFinal

----------------------------------------------------------------------------
\* The fundings up to a block are finitely many.
LEMMA FundedFinite ==
  ASSUME NEW c, NEW n \in Nat
  PROVE  /\ IsFiniteSet(FundedUpTo(c, n))
         /\ Cardinality(FundedUpTo(c, n)) \in Nat
<1> DEFINE S == {c[i] : i \in 1..n}
           f == [i \in 1..n |-> c[i]]
<1>1. IsFiniteSet(1..n)
  BY FS_Interval
<1>2. f \in Surjection(1..n, S)
  BY DEF Surjection
<1>3. IsFiniteSet(S)
  BY <1>1, <1>2, FS_Surjection
<1>4. FundedUpTo(c, n) \in SUBSET S
  BY DEF FundedUpTo
<1> QED  BY <1>3, <1>4, FS_Subset, FS_CardinalityType

\* Fundings have different ids.
LEMMA IdsDiffer ==
  ASSUME NEW c, NEW N \in Nat, DOMAIN c = 1..N, Numbered(c), FundedOnce(c),
         NEW i \in DOMAIN c, NEW j \in DOMAIN c,
         c[i].kind = "Funded", c[j].kind = "Funded", c[i].id = c[j].id
  PROVE  i = j
<1>1. ASSUME NEW x \in 1..N, NEW y \in 1..N, x < y, c[x].kind = "Funded", c[y].kind = "Funded",
             c[x].id = c[y].id
      PROVE  FALSE
  <2>1. FundedUpTo(c, x) \in SUBSET FundedUpTo(c, y)
    BY <1>1 DEF FundedUpTo
  <2>2. Cardinality(FundedUpTo(c, x)) = Cardinality(FundedUpTo(c, y))
    BY <1>1 DEF Numbered
  <2>3. IsFiniteSet(FundedUpTo(c, y)) /\ IsFiniteSet(FundedUpTo(c, x))
    BY FundedFinite
  <2>4. FundedUpTo(c, x) = FundedUpTo(c, y)
    BY <2>1, <2>2, <2>3, FS_Subset
  <2>5. c[y] \in FundedUpTo(c, x)
    BY <1>1, <2>4 DEF FundedUpTo
  <2>6. PICK z \in 1..x : c[z] = c[y]
    BY <2>5 DEF FundedUpTo
  <2> QED  BY <1>1, <2>6 DEF FundedOnce
<1> QED  BY <1>1

\* In blocks that stay, an id is one transaction's and a transaction has one id.
LEMMA FinalUnique ==
  ASSUME ChainInv, NEW e \in Final, NEW f \in Final, e.kind = "Funded", f.kind = "Funded",
         e.id = f.id \/ e.tx = f.tx
  PROVE  e = f
<1>1. PICK i \in DOMAIN chain : e = chain[i]
  BY DEF Final
<1>2. PICK j \in DOMAIN chain : f = chain[j]
  BY DEF Final
<1>3. Len(chain) \in Nat /\ DOMAIN chain = 1..Len(chain)
  BY DEF ChainInv
<1>4. i = j
  BY <1>1, <1>2, <1>3, IdsDiffer DEF ChainInv, FundedOnce
<1> QED  BY <1>1, <1>2, <1>4

----------------------------------------------------------------------------
\* What a step of the chain must keep: its invariant, and the blocks that stay.
ChainKept == ChainInv' /\ Final \subseteq Final' /\ Fixed <= Fixed'

\* A new block.
LEMMA AppendKeeps ==
  ASSUME MaxReorg \in Nat, ChainInv, NEW e \in Log \cup {Quiet}, Append1(e), e # Quiet => Sound(e),
         e.kind = "Funded" => /\ e.tx \in Row
                              /\ \A f \in FundingsIn(chain) : f.tx # e.tx
                              /\ e.id = Cardinality(FundingsIn(chain)) + 1
  PROVE  ChainKept
<1> DEFINE n == Len(chain)
<1>1. /\ n \in Nat /\ DOMAIN chain = 1..n /\ Len(chain') = n + 1 /\ DOMAIN chain' = 1..(n + 1)
      /\ \A i \in 1..n : chain'[i] = chain[i]
      /\ chain'[n + 1] = e
      /\ chain' \in Seq(Log \cup {Quiet})
  BY DEF ChainInv, Append1
<1>2. /\ Fixed \in Int /\ Fixed' \in Int /\ Fixed <= n /\ Fixed' <= n + 1 /\ Fixed <= Fixed'
      /\ peak' \in Nat /\ n + 1 <= peak'
  <2>1. peak \in Nat /\ n <= peak /\ peak - MaxReorg <= n
    BY DEF ChainInv, Fixed
  <2>2. peak' = IF n = peak THEN peak + 1 ELSE peak
    BY DEF Append1
  <2>3. Fixed = peak - MaxReorg /\ Fixed' = peak' - MaxReorg
    BY DEF Fixed
  <2> HIDE DEF n
  <2> QED  BY <1>1, <2>1, <2>2, <2>3
<1>3. FundingsIn(chain) = FundedUpTo(chain, n)
  BY <1>1 DEF FundingsIn, Events, FundedUpTo, Quiet
<1>4. ASSUME NEW i \in 1..n PROVE FundedUpTo(chain', i) = FundedUpTo(chain, i)
  BY <1>1 DEF FundedUpTo
<1>5. e.kind = "Funded" => FundedUpTo(chain', n + 1) = FundedUpTo(chain, n) \cup {e}
  BY <1>1 DEF FundedUpTo
<1>6. Numbered(chain')
  <2>1. ASSUME e.kind = "Funded" PROVE Cardinality(FundedUpTo(chain', n + 1)) = e.id
    <3>1. e \notin FundedUpTo(chain, n)
      BY <1>3, <2>1
    <3>2. IsFiniteSet(FundedUpTo(chain, n))
      BY <1>1, FundedFinite, Zenon
    <3> QED  BY <1>3, <1>5, <2>1, <3>1, <3>2, FS_AddElement, SMTT(30)
  <2>2. ASSUME NEW i \in 1..n, chain'[i].kind = "Funded"
        PROVE  chain'[i].tx \in Row /\ chain'[i].id = Cardinality(FundedUpTo(chain', i))
    BY <1>1, <1>4, <2>2 DEF ChainInv, Numbered
  <2> QED  BY <1>1, <2>1, <2>2 DEF Numbered
<1>7. FundedOnce(chain')
  <2>1. ASSUME NEW i \in 1..n, chain[i].kind = "Funded", e.kind = "Funded"
        PROVE  chain[i].tx # e.tx
    <3>1. chain[i] \in FundingsIn(chain)
      BY <1>3, <2>1 DEF FundedUpTo
    <3> QED  BY <2>1, <3>1
  <2> QED  BY <1>1, <2>1 DEF ChainInv, FundedOnce
<1>8. \A i \in DOMAIN chain' : chain'[i] # Quiet => Sound(chain'[i])
  BY <1>1 DEF ChainInv
<1>9. Final \subseteq Final' /\ Fixed <= Fixed'
  <2> HIDE DEF n
  <2>1. \A i \in 1..Fixed \cap 1..n : i \in 1..Fixed' \cap 1..(n + 1)
    BY <1>1, <1>2
  <2> QED  BY <1>1, <1>2, <2>1 DEF Final
<1> QED  BY <1>1, <1>2, <1>6, <1>7, <1>8, <1>9 DEF ChainInv, ChainKept

\* The last blocks go.
LEMMA ReorgKeeps ==
  ASSUME MaxReorg \in Nat, ChainInv, NEW n \in Nat, Reorg(n)
  PROVE  ChainKept
<1>1. /\ Len(chain) \in Nat /\ DOMAIN chain = 1..Len(chain) /\ n < Len(chain) /\ n >= Fixed
      /\ Len(chain') = n /\ DOMAIN chain' = 1..n
      /\ \A i \in 1..n : chain'[i] = chain[i]
      /\ chain' \in Seq(Log \cup {Quiet}) /\ peak' = peak
  BY DEF ChainInv, Reorg, Fixed
<1>2. ASSUME NEW i \in 1..n PROVE FundedUpTo(chain', i) = FundedUpTo(chain, i)
  BY <1>1 DEF FundedUpTo
<1>3. Numbered(chain')
  BY <1>1, <1>2 DEF ChainInv, Numbered
<1>4. FundedOnce(chain')
  BY <1>1 DEF ChainInv, FundedOnce
<1>5. Final \subseteq Final' /\ Fixed <= Fixed' /\ Fixed' \in Int
  BY <1>1 DEF Final, Fixed, ChainInv
<1> QED  BY <1>1, <1>3, <1>4, <1>5 DEF ChainInv, ChainKept, Fixed

\* Every step of the chain, and every other one.
LEMMA ChainStepKeeps ==
  ASSUME IInv, [Next]_vars
  PROVE  ChainKept
<1> USE IndexerAssumption
<1>0. ChainInv /\ MaxReorg \in Nat /\ Fixed \in Int
  BY DEF IInv, ChainInv, Fixed
<1>1. CASE MineQuiet
  BY <1>0, <1>1, AppendKeeps DEF MineQuiet, Quiet
<1>2. ASSUME NEW r \in Row, MineFund(r) PROVE ChainKept
  <2> DEFINE e == Funding(r, Cardinality(FundingsIn(chain)) + 1)
  <2>1. Cardinality(FundingsIn(chain)) \in Nat
    <3>1. Len(chain) \in Nat /\ FundingsIn(chain) = FundedUpTo(chain, Len(chain))
      BY <1>0 DEF ChainInv, FundingsIn, Events, FundedUpTo, Quiet
    <3> QED  BY <3>1, FundedFinite
  <2>2. e \in Log /\ Sound(e) /\ e.tx = r /\ e.id = Cardinality(FundingsIn(chain)) + 1
    BY <2>1 DEF Funding, Log, Sound
  <2>3. Append1(e) /\ \A f \in FundingsIn(chain) : f.tx # r
    BY <1>2 DEF MineFund
  <2> HIDE DEF e
  <2> QED  BY <1>0, <2>2, <2>3, AppendKeeps
<1>3. ASSUME NEW k \in {"Disbursed", "Refunded"}, NEW n \in 1..MaxBlock, MineOutcome(k, n)
      PROVE  ChainKept
  <2> DEFINE e == Settling(k, n)
  <2>1. e \in Log /\ Sound(e) /\ e.kind # "Funded"
    BY DEF Settling, Log, Sound
  <2>2. Append1(e)
    BY <1>3 DEF MineOutcome
  <2> HIDE DEF e
  <2> QED  BY <1>0, <2>1, <2>2, AppendKeeps
<1>4. ASSUME NEW n \in 0..MaxBlock, Reorg(n) PROVE ChainKept
  BY <1>0, <1>4, ReorgKeeps
<1>5. CASE UNCHANGED blocks
  <2>1. chain' = chain /\ peak' = peak
    BY <1>5 DEF blocks
  <2>2. Final' = Final /\ Fixed' = Fixed
    BY <2>1 DEF Final, Fixed
  <2>3. ChainInv'
    BY <1>0, <2>1, <2>2 DEF ChainInv
  <2> QED  BY <1>0, <2>2, <2>3 DEF ChainKept
<1> QED  BY <1>1, <1>2, <1>3, <1>4, <1>5
         DEF Next, ChainStep, Rebuild, RecordRow, PassStep, RpcFails, Crash, Begin, ReadHead,
             Fetch, FindRow, WriteRow, Announce, SaveCursor, vars

----------------------------------------------------------------------------
LEMMA FinalLog ==
  ASSUME ChainInv
  PROVE  /\ Final \subseteq Log /\ \A e \in Final : e.id > 0
         /\ \A e \in Final : e.kind = "Funded" => e.tx \in Row /\ e = Funding(e.tx, e.id)
         /\ \A e \in Final : e.kind # "Funded" => e = Settling(e.kind, e.id)
<1>1. /\ \A i \in DOMAIN chain : chain[i] \in Log \cup {Quiet}
      /\ \A i \in DOMAIN chain : chain[i] # Quiet => Sound(chain[i])
      /\ \A i \in DOMAIN chain : chain[i].kind = "Funded" => chain[i].tx \in Row
  BY DEF ChainInv, Numbered
<1>2. \A e \in Log : e = [kind |-> e.kind, id |-> e.id, tx |-> e.tx]
  BY DEF Log
<1> QED  BY <1>1, <1>2 DEF Final, Funding, Settling, Sound

\* Where a pass starts and how far it reads.
LEMMA Windows ==
  ASSUME IInv, NEW p \in Pass
  PROVE  /\ From(pass[p].cursor) \in Nat \ {0}
         /\ pass[p].pc = "fetch" => /\ WindowEnd(p) \in Nat /\ WindowEnd(p) >= pass[p].next
                                    /\ WindowEnd(p) <= pass[p].head
<1>1. /\ pass[p].cursor \in Nat /\ pass[p].next \in Nat /\ pass[p].head \in Nat
      /\ pass[p].pc = "fetch" => pass[p].next <= pass[p].head
  BY DEF IInv, TypeOK, PassState, PassesInformed, Informed, Reading
<1> QED  BY <1>1, IndexerAssumption DEF From, WindowEnd

\* The fields a pass can have.
LEMMA TypeStep == ASSUME IInv, [Next]_vars PROVE TypeOK'
<1> USE IndexerAssumption
<1>0. TypeOK /\ chain' \in Seq(Log \cup {Quiet}) /\ peak' \in Nat
  BY ChainStepKeeps DEF IInv, ChainKept, ChainInv
<1>1. CASE UNCHANGED <<rows, cursor, pass, announced>> /\ (trouble' = trouble \/ Trouble)
  BY <1>0, <1>1 DEF TypeOK, Trouble
<1>2. CASE ChainStep \/ UNCHANGED vars
  BY <1>1, <1>2 DEF ChainStep, MineQuiet, MineFund, MineOutcome, Append1, Reorg, vars
<1>3. CASE Rebuild
  BY <1>0, <1>3 DEF TypeOK, Rebuild, Trouble
<1>4. ASSUME NEW r \in Row, RecordRow(r) PROVE TypeOK'
  BY <1>0, <1>4 DEF TypeOK, RecordRow, RowStatus
<1>5. ASSUME NEW p \in Pass, PassStep(p) \/ RpcFails(p) \/ Crash(p) PROVE TypeOK'
  <2>0. /\ pass \in [Pass -> PassState] /\ pass[p] \in PassState /\ Resting \in PassState
        /\ Len(chain) \in Nat
    BY <1>0 DEF TypeOK, PassState, Resting, RowStatus, Unseen
  <2>1. ASSUME NEW s \in PassState, pass' = [pass EXCEPT ![p] = s] PROVE pass' \in [Pass -> PassState]
    BY <2>0, <2>1
  <2>2. CASE Begin(p)
    <3>1. [pass[p] EXCEPT !.pc = "head", !.cursor = cursor] \in PassState
      BY <1>0, <2>0 DEF TypeOK, PassState
    <3> QED  BY <1>0, <2>0, <2>2, <3>1 DEF TypeOK, Begin
  <2>3. CASE ReadHead(p)
    <3>1. ~ NothingNew(ConfirmedHead, From(pass[p].cursor)) =>
            ConfirmedHead \in Nat /\ From(pass[p].cursor) \in Nat
      BY <2>0, Windows DEF ConfirmedHead, NothingNew
    <3>2. ConfirmedHead \in Nat /\ From(pass[p].cursor) \in Nat =>
            [pass[p] EXCEPT !.pc = "fetch", !.head = ConfirmedHead,
                            !.next = From(pass[p].cursor)] \in PassState
      BY <2>0 DEF PassState
    <3> QED  BY <1>0, <2>0, <2>3, <3>1, <3>2 DEF TypeOK, ReadHead, Rest
  <2>4. CASE Fetch(p)
    <3>1. LogsIn(pass[p].next..WindowEnd(p)) \in SUBSET [at : Nat, event : Log]
      BY <1>0 DEF LogsIn, TypeOK
    <3>2. WindowEnd(p) \in Nat
      BY <2>4, Windows DEF Fetch, At
    <3>3. [pass[p] EXCEPT !.pc = "log", !.end = WindowEnd(p),
                          !.logs = LogsIn(pass[p].next..WindowEnd(p))] \in PassState
      BY <2>0, <3>1, <3>2 DEF PassState
    <3> QED  BY <1>0, <2>0, <2>4, <3>3 DEF TypeOK, Fetch
  <2>5. CASE FindRow(p)
    <3>1. PICK log \in pass[p].logs :
            \/ pass' = [pass EXCEPT ![p].logs = @ \ {log}]
            \/ \E r \in Matching(log.event) :
                 pass' = [pass EXCEPT ![p].pc = "write", ![p].logs = @ \ {log},
                            ![p].event = log.event,
                            ![p].seen = [row |-> r, status |-> rows[r].status, id |-> rows[r].id]]
      BY <2>5 DEF FindRow
    <3>2. log \in [at : Nat, event : Log] /\ log.event \in Log
      BY <2>0 DEF PassState
    <3>3. [pass[p] EXCEPT !.logs = @ \ {log}] \in PassState
      BY <2>0 DEF PassState
    <3>4. ASSUME NEW r \in Matching(log.event)
          PROVE  [pass[p] EXCEPT !.pc = "write", !.logs = @ \ {log}, !.event = log.event,
                    !.seen = [row |-> r, status |-> rows[r].status, id |-> rows[r].id]]
                 \in PassState
      <4>1. log.event.kind = "Funded" => log.event.tx \in Row
        BY FinalLog DEF IInv, PassesInformed, Informed
      <4>2. r \in Row
        BY <4>1 DEF Matching
      <4> QED  BY <1>0, <2>0, <3>2, <4>2 DEF PassState, TypeOK
    <3> DEFINE next(r) ==
          [pass[p] EXCEPT !.pc = "write", !.logs = @ \ {log}, !.event = log.event,
             !.seen = [row |-> r, status |-> rows[r].status, id |-> rows[r].id]]
    <3>5. \/ pass' = [pass EXCEPT ![p] = [pass[p] EXCEPT !.logs = @ \ {log}]]
          \/ \E r \in Matching(log.event) : pass' = [pass EXCEPT ![p] = next(r)]
      <4>1. ASSUME pass' = [pass EXCEPT ![p].logs = @ \ {log}]
            PROVE  pass' = [pass EXCEPT ![p] = [pass[p] EXCEPT !.logs = @ \ {log}]]
        BY <4>1
      <4>2. ASSUME NEW r \in Matching(log.event),
                   pass' = [pass EXCEPT ![p].pc = "write", ![p].logs = @ \ {log},
                              ![p].event = log.event,
                              ![p].seen = [row |-> r, status |-> rows[r].status, id |-> rows[r].id]]
            PROVE  pass' = [pass EXCEPT ![p] = next(r)]
        BY <2>0, <4>2
      <4> HIDE DEF next
      <4> QED  BY <3>1, <4>1, <4>2
    <3>6. \A r \in Matching(log.event) : next(r) \in PassState
      BY <3>4
    <3> HIDE DEF next
    <3>7. pass' \in [Pass -> PassState]
      BY <2>0, <3>3, <3>5, <3>6
    <3> QED  BY <1>0, <2>5, <3>7 DEF TypeOK, FindRow
  <2>6. CASE WriteRow(p)
    <3> DEFINE new == Updated(pass[p].seen, pass[p].event)
    <3>1. pass[p].event.kind # "none" => pass[p].event \in Log
      BY <2>0 DEF PassState, Quiet
    <3>2. pass[p].event \in Log /\ pass[p].seen.row \in Row
      BY <2>6, FinalLog DEF WriteRow, At, IInv, PassesInformed, Informed
    <3>3. new \in [status : RowStatus, id : Nat]
      BY <1>0, <3>2 DEF TypeOK, Updated, Log, StatusOf, RowStatus
    <3>4. rows' = rows \/ rows' = [rows EXCEPT ![pass[p].seen.row] = new]
      BY <2>6 DEF WriteRow
    <3>5. rows' \in [Row -> [status : RowStatus, id : Nat]]
      BY <1>0, <3>3, <3>4 DEF TypeOK
    <3>6. /\ [pass[p] EXCEPT !.pc = "announce"] \in PassState
          /\ [pass[p] EXCEPT !.pc = "log", !.event = Quiet, !.seen = Unseen] \in PassState
      BY <2>0 DEF PassState, Unseen, RowStatus
    <3>7. pass' \in [Pass -> PassState]
      BY <2>0, <2>6, <3>6 DEF WriteRow, Goto, NextLog
    <3> QED  BY <1>0, <2>6, <3>5, <3>7 DEF TypeOK, WriteRow
  <2>7. CASE Announce(p)
    <3>1. [pass[p] EXCEPT !.pc = "log", !.event = Quiet, !.seen = Unseen] \in PassState
      BY <2>0 DEF PassState, Unseen, RowStatus
    <3>2. announced' \in [Row -> Nat]
      BY <1>0, <2>7 DEF TypeOK, Announce
    <3> QED  BY <1>0, <2>0, <2>7, <3>1, <3>2 DEF TypeOK, Announce, NextLog
  <2>8. CASE SaveCursor(p)
    <3>0. pass[p].end \in Nat /\ pass[p].end + 1 \in Nat
      BY <2>0 DEF PassState
    <3>1. [pass[p] EXCEPT !.pc = "fetch", !.cursor = pass[p].end, !.next = pass[p].end + 1]
          \in PassState
      BY <2>0, <3>0 DEF PassState
    <3>2. SyncedTo(p) \in Nat
      BY <2>0 DEF SyncedTo, PassState
    <3> QED  BY <1>0, <2>0, <2>8, <3>1, <3>2 DEF TypeOK, SaveCursor, Rest
  <2>9. CASE RpcFails(p) \/ Crash(p)
    <3>1. trouble' \in Nat
      BY <1>0, <2>9 DEF TypeOK, RpcFails, Crash, Trouble
    <3> QED  BY <1>0, <2>0, <2>9, <3>1 DEF TypeOK, RpcFails, Crash, Rest
  <2> QED  BY <1>5, <2>2, <2>3, <2>4, <2>5, <2>6, <2>7, <2>8, <2>9 DEF PassStep
<1> QED  BY <1>2, <1>3, <1>4, <1>5 DEF Next

----------------------------------------------------------------------------
\* An id that a row has got is the id of its own funding, and stays.
LEMMA IdsStay ==
  ASSUME IInv, [Next]_vars
  PROVE  \A r \in Row : rows[r].id # 0 => rows'[r].id = rows[r].id
<1> USE DEF IInv
<1>1. ASSUME NEW r \in Row, RecordRow(r), NEW q \in Row, rows[q].id # 0
      PROVE  rows'[q].id = rows[q].id
  BY <1>1 DEF RecordRow, NoRow, TypeOK
<1>2. ASSUME NEW p \in Pass, WriteRow(p), NEW q \in Row, rows[q].id # 0
      PROVE  rows'[q].id = rows[q].id
  <2> DEFINE e    == pass[p].event
             seen == pass[p].seen
  <2>1. /\ e \in Final /\ seen.row \in Row
        /\ e.kind = "Funded" => e.tx = seen.row
        /\ e.kind # "Funded" => e.id = seen.id
    BY <1>2 DEF WriteRow, At, PassesInformed, Informed
  <2>2. rows' = rows \/ rows' = [rows EXCEPT ![seen.row] = Updated(seen, e)]
    BY <1>2 DEF WriteRow
  <2>3. Updated(seen, e).id = rows[seen.row].id \/ (e.kind = "Funded" /\ Updated(seen, e).id = e.id)
    BY <2>1 DEF Updated
  <2>4. ASSUME e.kind = "Funded", q = seen.row PROVE e.id = rows[q].id
    <3>1. e = Funding(q, e.id)
      BY <2>1, <2>4, FinalLog
    <3>2. Funding(q, rows[q].id) \in Final
      BY <1>2 DEF ShownFinal
    <3>3. e = Funding(q, rows[q].id)
      BY <2>1, <2>4, <3>1, <3>2, FinalUnique DEF Funding
    <3> QED  BY <3>3 DEF Funding
  <2> QED  BY <2>1, <2>2, <2>3, <2>4 DEF TypeOK
<1> QED  BY <1>1, <1>2 DEF Next, ChainStep, MineQuiet, MineFund, MineOutcome, Append1, Reorg, Rebuild,
            PassStep, RpcFails, Crash, Begin, ReadHead, Fetch, FindRow, Announce, SaveCursor, vars

\* What a pass knows stays true, whoever moves.
LEMMA InformedKept ==
  ASSUME NEW s, NEW E, NEW F, E \subseteq F, NEW m, NEW n, m <= n, NEW T, NEW U,
         m \in Int, n \in Int, s.head \in Int,
         \A r \in Row : T[r].id # 0 => U[r].id = T[r].id,
         Informed(s, E, m, T)
  PROVE  Informed(s, F, n, U)
<1>1. s.pc \in Reading => s.head <= n /\ 1 <= s.next /\ s.next <= s.head
  BY DEF Informed
<1>2. s.pc \in Reading \ {"fetch"} => s.end <= s.head
  BY DEF Informed
<1>3. \A l \in s.logs : l.event \in F
  BY DEF Informed
<1>4. s.pc \in {"write", "announce"} => s.seen.row \in Row /\ (s.seen.id # 0 => U[s.seen.row].id = s.seen.id)
  BY DEF Informed
<1> QED  BY <1>1, <1>2, <1>3, <1>4 DEF Informed

\* A pass that reads no row and writes none.
LEMMA Reads ==
  ASSUME MaxReorg <= Confirmations, IInv, NEW p \in Pass, Begin(p) \/ ReadHead(p) \/ Fetch(p)
  PROVE  Informed(pass'[p], Final, Fixed, rows)
<1> USE IndexerAssumption
<1> DEFINE s == pass[p]
<1>0. /\ pass \in [Pass -> PassState] /\ s \in PassState /\ Informed(s, Final, Fixed, rows)
      /\ peak \in Nat /\ Len(chain) \in Nat /\ DOMAIN chain = 1..Len(chain) /\ Len(chain) <= peak
      /\ Fixed = peak - MaxReorg
  BY DEF IInv, TypeOK, PassesInformed, ChainInv, Fixed
<1>1. CASE Begin(p)
  <2>1. pass'[p] = [s EXCEPT !.pc = "head", !.cursor = cursor]
    BY <1>0, <1>1 DEF Begin
  <2>2. pass'[p].pc = "head" /\ pass'[p].logs = s.logs
    BY <1>0, <2>1 DEF PassState
  <2> QED  BY <1>0, <2>2 DEF Informed, Reading
<1>2. CASE ReadHead(p)
  <2> DEFINE t == [s EXCEPT !.pc = "fetch", !.head = ConfirmedHead, !.next = From(s.cursor)]
  <2>1. CASE NothingNew(ConfirmedHead, From(s.cursor))
    <3>1. pass'[p] = Resting
      BY <1>0, <1>2, <2>1 DEF ReadHead, Rest
    <3> QED  BY <3>1 DEF Informed, Reading, Resting
  <2>2. CASE ~ NothingNew(ConfirmedHead, From(s.cursor))
    <3>1. pass'[p] = t
      BY <1>0, <1>2, <2>2 DEF ReadHead
    <3>2. /\ t.pc = "fetch" /\ t.head = ConfirmedHead /\ t.next = From(s.cursor)
          /\ t.logs = s.logs
      BY <1>0 DEF PassState
    <3>3. ConfirmedHead <= Fixed /\ 1 <= From(s.cursor) /\ From(s.cursor) <= ConfirmedHead
      BY <1>0, <2>2, Windows DEF ConfirmedHead, NothingNew
    <3> QED  BY <1>0, <3>1, <3>2, <3>3 DEF Informed, Reading
  <2> QED  BY <2>1, <2>2
<1>3. CASE Fetch(p)
  <2> DEFINE t == [s EXCEPT !.pc = "log", !.end = WindowEnd(p), !.logs = LogsIn(s.next..WindowEnd(p))]
  <2>1. pass'[p] = t
    BY <1>0, <1>3 DEF Fetch
  <2>2. /\ t.pc = "log" /\ t.head = s.head /\ t.next = s.next /\ t.end = WindowEnd(p)
        /\ t.logs = LogsIn(s.next..WindowEnd(p))
    BY <1>0 DEF PassState
  <2>3. /\ s.head <= Fixed /\ 1 <= s.next /\ s.next <= s.head /\ s.head \in Nat /\ s.next \in Nat
        /\ WindowEnd(p) \in Nat /\ WindowEnd(p) <= s.head
    BY <1>0, <1>3, Windows DEF Fetch, At, Informed, Reading, PassState
  <2>4. \A l \in LogsIn(s.next..WindowEnd(p)) : l.event \in Final
    <3>1. s.next..WindowEnd(p) \subseteq 1..Fixed
      BY <1>0, <2>3
    <3> QED  BY <3>1 DEF LogsIn, Final
  <2> QED  BY <2>1, <2>2, <2>3, <2>4 DEF Informed, Reading
<1> QED  BY <1>1, <1>2, <1>3

\* The row a pass finds is the one its event is about.
LEMMA Finds ==
  ASSUME IInv, NEW p \in Pass, FindRow(p)
  PROVE  Informed(pass'[p], Final, Fixed, rows)
<1> DEFINE s == pass[p]
<1>0. /\ pass \in [Pass -> PassState] /\ s \in PassState /\ Informed(s, Final, Fixed, rows)
      /\ s.pc = "log" /\ ChainInv
  BY DEF IInv, TypeOK, PassesInformed, FindRow, At
<1>1. PICK l \in s.logs :
        \/ pass' = [pass EXCEPT ![p].logs = @ \ {l}]
        \/ \E r \in Matching(l.event) :
             pass' = [pass EXCEPT ![p].pc = "write", ![p].logs = @ \ {l},
                        ![p].event = l.event,
                        ![p].seen = [row |-> r, status |-> rows[r].status, id |-> rows[r].id]]
  BY DEF FindRow
<1>2. l.event \in Final /\ l.event.id > 0 /\ l.event \in Log
  BY <1>0, FinalLog DEF Informed
<1>3. CASE pass' = [pass EXCEPT ![p].logs = @ \ {l}]
  <2>1. pass'[p] = [s EXCEPT !.logs = @ \ {l}]
    BY <1>0, <1>3
  <2>2. /\ pass'[p].pc = "log" /\ pass'[p].logs \subseteq s.logs
        /\ pass'[p].head = s.head /\ pass'[p].next = s.next /\ pass'[p].end = s.end
    BY <1>0, <2>1 DEF PassState
  <2> QED  BY <1>0, <2>2 DEF Informed, Reading
<1>4. ASSUME NEW r \in Matching(l.event),
             pass' = [pass EXCEPT ![p].pc = "write", ![p].logs = @ \ {l}, ![p].event = l.event,
                        ![p].seen = [row |-> r, status |-> rows[r].status, id |-> rows[r].id]]
      PROVE  Informed(pass'[p], Final, Fixed, rows)
  <2>1. pass'[p] = [s EXCEPT !.pc = "write", !.logs = @ \ {l}, !.event = l.event,
                       !.seen = [row |-> r, status |-> rows[r].status, id |-> rows[r].id]]
    BY <1>0, <1>4
  <2>2. /\ pass'[p].pc = "write" /\ pass'[p].logs \subseteq s.logs /\ pass'[p].event = l.event
        /\ pass'[p].head = s.head /\ pass'[p].next = s.next /\ pass'[p].end = s.end
        /\ pass'[p].seen.row = r /\ pass'[p].seen.id = rows[r].id
    BY <1>0, <2>1 DEF PassState
  <2>3. CASE l.event.kind = "Funded"
    <3>1. l.event.tx \in Row /\ l.event = Funding(l.event.tx, l.event.id)
      BY <1>0, <1>2, <2>3, FinalLog
    <3>2. r = l.event.tx \/ (r \in Row /\ rows[r].id = l.event.id)
      BY <1>4 DEF Matching
    <3>3. ASSUME r \in Row, rows[r].id = l.event.id PROVE r = l.event.tx
      <4>1. rows[r].id # 0
        BY <1>2, <3>3 DEF Log
      <4>2. Funding(r, l.event.id) \in Final
        BY <3>3, <4>1 DEF IInv, ShownFinal
      <4>3. Funding(r, l.event.id) = l.event
        BY <1>0, <1>2, <2>3, <4>2, FinalUnique DEF Funding
      <4> QED  BY <4>3 DEF Funding
    <3>4. r = l.event.tx
      BY <3>2, <3>3
    <3> QED  BY <1>0, <1>2, <2>2, <2>3, <3>1, <3>4 DEF Informed, Reading
  <2>4. CASE l.event.kind # "Funded"
    <3>1. r \in Row /\ rows[r].id = l.event.id
      BY <1>4, <2>4 DEF Matching
    <3> QED  BY <1>0, <1>2, <2>2, <2>4, <3>1 DEF Informed, Reading
  <2> QED  BY <2>3, <2>4
<1> QED  BY <1>1, <1>3, <1>4

\* A pass that writes, announces, saves its cursor or dies.
LEMMA Writes ==
  ASSUME IInv, [Next]_vars, NEW p \in Pass,
         WriteRow(p) \/ Announce(p) \/ SaveCursor(p) \/ RpcFails(p) \/ Crash(p)
  PROVE  Informed(pass'[p], Final, Fixed, rows')
<1> DEFINE s == pass[p]
<1>0. /\ pass \in [Pass -> PassState] /\ s \in PassState /\ Informed(s, Final, Fixed, rows)
      /\ \A r \in Row : rows[r].id # 0 => rows'[r].id = rows[r].id
  BY IdsStay DEF IInv, TypeOK, PassesInformed
<1>1. ASSUME s.pc \in {"write", "announce"}, NextLog(p) PROVE Informed(pass'[p], Final, Fixed, rows')
  <2>1. pass'[p] = [s EXCEPT !.pc = "log", !.event = Quiet, !.seen = Unseen]
    BY <1>0, <1>1 DEF NextLog
  <2>2. /\ pass'[p].pc = "log" /\ pass'[p].logs = s.logs
        /\ pass'[p].head = s.head /\ pass'[p].next = s.next /\ pass'[p].end = s.end
    BY <1>0, <2>1 DEF PassState
  <2> QED  BY <1>0, <1>1, <2>2 DEF Informed, Reading
<1>2. ASSUME Rest(p) PROVE Informed(pass'[p], Final, Fixed, rows')
  <2>1. pass'[p] = Resting
    BY <1>0, <1>2 DEF Rest
  <2> QED  BY <2>1 DEF Informed, Reading, Resting
<1>3. CASE WriteRow(p)
  <2>1. CASE Announces(s.seen, s.event) /\ Goto(p, "announce")
    <3>1. pass'[p] = [s EXCEPT !.pc = "announce"]
      BY <1>0, <2>1 DEF Goto
    <3>2. /\ pass'[p].pc = "announce" /\ pass'[p].logs = s.logs
          /\ pass'[p].head = s.head /\ pass'[p].next = s.next /\ pass'[p].end = s.end
          /\ pass'[p].event = s.event /\ pass'[p].seen = s.seen
      BY <1>0, <3>1 DEF PassState
    <3>3. s.pc = "write" /\ s.event.kind = "Funded"
      BY <1>3, <2>1 DEF WriteRow, At, Announces
    <3> QED  BY <1>0, <3>2, <3>3 DEF Informed, Reading
  <2> QED  BY <1>1, <1>3, <2>1 DEF WriteRow, At
<1>4. CASE Announce(p)
  BY <1>1, <1>4 DEF Announce, At
<1>5. CASE SaveCursor(p)
  <2>1. CASE s.end < s.head /\ pass' = [pass EXCEPT ![p].pc = "fetch", ![p].cursor = s.end,
                                                  ![p].next = s.end + 1]
    <3>0. s.end \in Nat /\ s.head \in Nat /\ s.logs = {}
      BY <1>0, <1>5 DEF PassState, SaveCursor
    <3>1. pass'[p] = [s EXCEPT !.pc = "fetch", !.cursor = s.end, !.next = s.end + 1]
      BY <1>0, <2>1
    <3>2. /\ pass'[p].pc = "fetch" /\ pass'[p].logs = s.logs
          /\ pass'[p].head = s.head /\ pass'[p].next = s.end + 1
      BY <1>0, <3>1 DEF PassState
    <3>3. s.head <= Fixed
      BY <1>0, <1>5 DEF SaveCursor, At, Informed, Reading
    <3>4. 1 <= s.end + 1 /\ s.end + 1 <= s.head
      BY <2>1, <3>0
    <3> QED  BY <3>0, <3>2, <3>3, <3>4 DEF Informed, Reading
  <2> QED  BY <1>2, <1>5, <2>1 DEF SaveCursor
<1> QED  BY <1>2, <1>3, <1>4, <1>5 DEF RpcFails, Crash

\* Every pass stays informed.
LEMMA PassesStep ==
  ASSUME MaxReorg <= Confirmations, IInv, [Next]_vars
  PROVE  PassesInformed'
<1>1. /\ Final \subseteq Final' /\ Fixed <= Fixed' /\ Fixed \in Int /\ Fixed' \in Int
      /\ \A r \in Row : rows[r].id # 0 => rows'[r].id = rows[r].id
      /\ pass \in [Pass -> PassState] /\ pass' \in [Pass -> PassState]
  <2>1. ChainKept /\ TypeOK' /\ TypeOK /\ ChainInv
    BY ChainStepKeeps, TypeStep DEF IInv
  <2>2. Final \subseteq Final' /\ Fixed <= Fixed' /\ ChainInv'
    BY <2>1 DEF ChainKept
  <2>3. Fixed \in Int /\ Fixed' \in Int
    <3>1. peak \in Nat /\ peak' \in Nat /\ MaxReorg \in Nat
      BY <2>1, <2>2, IndexerAssumption DEF ChainInv
    <3> QED  BY <3>1 DEF Fixed
  <2>4. pass \in [Pass -> PassState] /\ pass' \in [Pass -> PassState]
    BY <2>1 DEF TypeOK
  <2> QED  BY <2>2, <2>3, <2>4, IdsStay
<1>2. ASSUME NEW q \in Pass, pass'[q] = pass[q] PROVE Informed(pass'[q], Final', Fixed', rows')
  <2>1. Informed(pass[q], Final, Fixed, rows) /\ pass[q].head \in Int
    BY <1>1 DEF IInv, PassesInformed, PassState
  <2> QED  BY <1>1, <1>2, <2>1, InformedKept
<1>3. ASSUME NEW p \in Pass, PassStep(p) \/ RpcFails(p) \/ Crash(p), NEW q \in Pass
      PROVE  Informed(pass'[q], Final', Fixed', rows')
  <2>1. q # p => pass'[q] = pass[q]
    BY <1>1, <1>3 DEF PassStep, Begin, ReadHead, Fetch, FindRow, WriteRow, Announce, SaveCursor,
                      RpcFails, Crash, Rest, Goto, NextLog
  <2>2. UNCHANGED blocks
    BY <1>3 DEF PassStep, Begin, ReadHead, Fetch, FindRow, WriteRow, Announce, SaveCursor,
                RpcFails, Crash
  <2>3. Final' = Final /\ Fixed' = Fixed
    BY <2>2 DEF Final, Fixed, blocks
  <2>4. CASE q = p
    <3>1. Begin(p) \/ ReadHead(p) \/ Fetch(p) \/ FindRow(p) => rows' = rows
      BY DEF Begin, ReadHead, Fetch, FindRow
    <3>2. Informed(pass'[p], Final, Fixed, rows')
      BY <1>3, <3>1, Reads, Finds, Writes DEF PassStep
    <3> QED  BY <2>3, <2>4, <3>2
  <2> QED  BY <1>2, <2>1, <2>4
<1>4. CASE UNCHANGED pass
  BY <1>2, <1>4 DEF PassesInformed
<1>5. UNCHANGED pass \/ \E p \in Pass : PassStep(p) \/ RpcFails(p) \/ Crash(p)
  BY DEF Next, ChainStep, MineQuiet, MineFund, MineOutcome, Append1, Reorg, Rebuild, RecordRow, vars
<1> QED  BY <1>3, <1>4, <1>5 DEF PassesInformed

----------------------------------------------------------------------------
\* Rows show what is in blocks that stay.
LEMMA ShownStep == ASSUME IInv, [Next]_vars PROVE ShownFinal'
<1> USE DEF IInv
<1>0. Final \subseteq Final'
  BY ChainStepKeeps DEF ChainKept
<1>1. CASE UNCHANGED rows
  BY <1>0, <1>1 DEF ShownFinal
<1>2. ASSUME NEW r \in Row, RecordRow(r) PROVE ShownFinal'
  <2>1. \A q \in Row : rows'[q] = IF q = r THEN [status |-> "pending", id |-> 0] ELSE rows[q]
    BY <1>2 DEF RecordRow, TypeOK
  <2> QED  BY <1>0, <2>1 DEF ShownFinal, StatusOf
<1>3. ASSUME NEW p \in Pass, WriteRow(p) PROVE ShownFinal'
  <2> DEFINE e    == pass[p].event
             seen == pass[p].seen
             r    == seen.row
             new  == Updated(seen, e)
  <2>1. /\ e \in Final /\ r \in Row
        /\ seen.id # 0 => rows[r].id = seen.id
        /\ e.kind = "Funded" => e.tx = r
        /\ e.kind # "Funded" => e.id = seen.id
    BY <1>3 DEF WriteRow, At, PassesInformed, Informed
  <2>2. e \in Log /\ e.id > 0 /\ e.id # 0
    BY <2>1, FinalLog DEF Log
  <2>3. rows' = rows \/ \A q \in Row : rows'[q] = IF q = r THEN new ELSE rows[q]
    BY <1>3 DEF WriteRow, TypeOK
  <2>4. new.id = e.id
    BY <2>1, <2>2 DEF Updated
  <2>5. Funding(r, new.id) \in Final
    <3>1. CASE e.kind = "Funded"
      <4>1. e = Funding(r, e.id)
        BY <2>1, <3>1, FinalLog
      <4> QED  BY <2>1, <2>4, <4>1
    <3>2. CASE e.kind # "Funded"
      <4>1. rows[r].id = e.id /\ rows[r].id # 0
        BY <2>1, <2>2, <3>2
      <4> QED  BY <2>1, <2>4, <4>1 DEF ShownFinal
    <3> QED  BY <3>1, <3>2
  <2>6. ASSUME NEW k \in {"Disbursed", "Refunded"}, new.status = StatusOf(k)
        PROVE  Settling(k, new.id) \in Final
    <3>1. CASE new.status = rows[r].status
      <4>1. Settling(k, rows[r].id) \in Final /\ rows[r].id # 0
        BY <2>1, <2>6, <3>1 DEF ShownFinal, StatusOf
      <4>2. Funding(r, rows[r].id) \in Final
        BY <2>1, <4>1 DEF ShownFinal
      <4>3. Funding(r, rows[r].id) = Funding(r, new.id)
        BY <2>5, <4>2, FinalUnique DEF Funding
      <4> QED  BY <4>1, <4>3 DEF Funding
    <3>2. CASE new.status = StatusOf(e.kind)
      <4>1. e.kind = k
        BY <2>2, <2>6, <3>2 DEF StatusOf, Log
      <4>2. e = Settling(k, e.id)
        BY <2>1, <4>1, FinalLog
      <4> QED  BY <2>1, <2>4, <4>2
    <3> QED  BY <3>1, <3>2 DEF Updated
  <2>7. new.id # 0
    BY <2>2, <2>4
  <2> HIDE DEF new, r
  <2> QED  BY <1>0, <1>1, <2>1, <2>3, <2>5, <2>6, <2>7 DEF ShownFinal
<1> QED  BY <1>1, <1>2, <1>3 DEF Next, ChainStep, MineQuiet, MineFund, MineOutcome, Append1, Reorg,
            Rebuild, PassStep, RpcFails, Crash, Begin, ReadHead, Fetch, FindRow, Announce,
            SaveCursor, vars

\* What is announced is in blocks that stay.
LEMMA AnnouncedStep == ASSUME IInv, [Next]_vars PROVE AnnouncedFinal'
<1> USE DEF IInv
<1>0. Final \subseteq Final'
  BY ChainStepKeeps DEF ChainKept
<1>1. CASE UNCHANGED announced
  BY <1>0, <1>1 DEF AnnouncedFinal
<1>2. ASSUME NEW p \in Pass, Announce(p) PROVE AnnouncedFinal'
  <2>1. pass[p].event \in Final /\ pass[p].event.kind = "Funded"
        /\ pass[p].event.tx = pass[p].seen.row
    BY <1>2 DEF Announce, At, PassesInformed, Informed
  <2>2. \A r \in Row : r # pass[p].seen.row => announced'[r] = announced[r]
    BY <1>2 DEF Announce, TypeOK
  <2> QED  BY <1>0, <2>1, <2>2 DEF AnnouncedFinal
<1> QED  BY <1>1, <1>2 DEF Next, ChainStep, MineQuiet, MineFund, MineOutcome, Append1, Reorg, Rebuild,
            RecordRow, PassStep, RpcFails, Crash, Begin, ReadHead, Fetch, FindRow, WriteRow,
            SaveCursor, vars

\* An empty chain, an empty mirror, no pass.
LEMMA Initially == Init => IInv
<1> SUFFICES ASSUME Init PROVE IInv
  OBVIOUS
<1> USE IndexerAssumption
<1>1. Len(chain) = 0 /\ DOMAIN chain = {} /\ chain \in Seq(Log \cup {Quiet})
  BY DEF Init
<1>2. ChainInv
  <2>1. Fixed <= 0
    BY DEF Init, Fixed
  <2> QED  BY <1>1, <2>1 DEF Init, ChainInv, Numbered, FundedOnce
<1>3. Resting \in PassState
  BY DEF Resting, PassState, Unseen, RowStatus
<1>4. TypeOK
  BY <1>1, <1>3 DEF Init, TypeOK, NoRow, RowStatus
<1>5. PassesInformed
  BY DEF Init, PassesInformed, Informed, Resting, Reading
<1>6. ShownFinal /\ AnnouncedFinal
  BY DEF Init, ShownFinal, AnnouncedFinal, NoRow, StatusOf
<1> QED  BY <1>2, <1>4, <1>5, <1>6 DEF IInv

LEMMA IInvHolds == ASSUME MaxReorg <= Confirmations PROVE Spec => []IInv
<1>1. IInv /\ [Next]_vars => IInv'
  <2> SUFFICES ASSUME IInv, [Next]_vars PROVE IInv'
    OBVIOUS
  <2>1. ChainInv'
    BY ChainStepKeeps DEF ChainKept
  <2> QED  BY <2>1, TypeStep, PassesStep, ShownStep, AnnouncedStep DEF IInv
<1> QED  BY <1>1, Initially, PTL DEF Spec

----------------------------------------------------------------------------
\* Every variable keeps its type: cursors, windows and ids never go below
\* zero, whatever is replaced under a pass.
THEOREM TypeCorrect == ASSUME MaxReorg <= Confirmations PROVE Spec => []TypeOK
<1>1. IInv => TypeOK
  BY DEF IInv
<1> QED  BY <1>1, IInvHolds, PTL

\* What stays is in the chain.
LEMMA FinalInChain == ChainInv => Final \subseteq Events(chain)
BY DEF ChainInv, Final, Events

\* The mirror shows nothing that the chain does not have, however many passes
\* overlap and whatever fails, as long as no reorganisation goes deeper than
\* the confirmations (event_indexer.rb 26-39, 55-101).
THEOREM MirrorIsTrue == ASSUME MaxReorg <= Confirmations PROVE Spec => []MirrorTrue
<1>1. IInv => MirrorTrue
  BY FinalInChain DEF IInv, ShownFinal, MirrorTrue
<1> QED  BY <1>1, IInvHolds, PTL

\* What was announced was funded, and is (announcer.rb 4-5).
THEOREM AnnouncementsAreReal ==
  ASSUME MaxReorg <= Confirmations PROVE Spec => []AnnouncementsReal
<1>1. IInv => AnnouncementsReal
  BY FinalInChain DEF IInv, AnnouncedFinal, AnnouncementsReal
<1> QED  BY <1>1, IInvHolds, PTL

----------------------------------------------------------------------------
\* The passes that may yet announce row r: they read it before it was funded.
Announcing(s, r) ==
  /\ s.pc \in {"write", "announce"} /\ s.seen.row = r
  /\ Announces(s.seen, s.event)

InFlight(r) == {p \in Pass : Announcing(pass[p], r)}

\* A row that was never funded is not announced and nobody is about to; from
\* then on there is an announcement at most for each pass that read it before.
Unfunded == {"none", "pending"}

AnnouncedBy(r) ==
  IF rows[r].status \in Unfunded
  THEN announced[r] = 0 /\ \A p \in Pass : ~ (pass[p].pc = "announce" /\ pass[p].seen.row = r)
  ELSE announced[r] + Cardinality(InFlight(r)) <= Cardinality(Pass)

AnnouncersKnown ==
  /\ \A r \in Row : AnnouncedBy(r)
  /\ \A p \in Pass : pass[p].pc = "announce" => Announces(pass[p].seen, pass[p].event)

\* Passes that may announce are no more than all of them, and sets of them
\* compare as they should.
LEMMA FlightFinite ==
  ASSUME IsFiniteSet(Pass), NEW S \in SUBSET Pass
  PROVE  /\ IsFiniteSet(S) /\ Cardinality(S) \in Nat /\ Cardinality(Pass) \in Nat
         /\ Cardinality(S) <= Cardinality(Pass)
BY FS_Subset, FS_CardinalityType

\* A row that neither changes its funding nor is announced, while no further
\* pass comes to announce it.
LEMMA NoneJoins ==
  ASSUME IsFiniteSet(Pass), TypeOK, NEW r \in Row, AnnouncedBy(r),
         announced'[r] = announced[r],
         rows'[r].status \in Unfunded <=> rows[r].status \in Unfunded,
         rows[r].status \notin Unfunded => InFlight(r)' \subseteq InFlight(r),
         rows[r].status \in Unfunded =>
           \A p \in Pass : ~ (pass'[p].pc = "announce" /\ pass'[p].seen.row = r)
  PROVE  AnnouncedBy(r)'
<1>1. CASE rows[r].status \in Unfunded
  BY <1>1 DEF AnnouncedBy
<1>2. CASE rows[r].status \notin Unfunded
  <2>1. InFlight(r) \in SUBSET Pass
    BY DEF InFlight
  <2>2. /\ IsFiniteSet(InFlight(r)) /\ Cardinality(InFlight(r)) \in Nat /\ Cardinality(Pass) \in Nat
    BY <2>1, FlightFinite
  <2>3. /\ Cardinality(InFlight(r)') <= Cardinality(InFlight(r))
        /\ Cardinality(InFlight(r)') \in Nat
    BY <1>2, <2>2, FS_Subset, FS_CardinalityType
  <2>4. announced[r] + Cardinality(InFlight(r)) <= Cardinality(Pass) /\ announced[r] \in Nat
    BY <1>2 DEF AnnouncedBy, TypeOK
  <2>5. announced'[r] + Cardinality(InFlight(r)') <= Cardinality(Pass)
    BY <2>2, <2>3, <2>4
  <2> QED  BY <1>2, <2>5 DEF AnnouncedBy
<1> QED  BY <1>1, <1>2

\* A pass that moves on without having read or written a row.
LEMMA PassMovesOn ==
  ASSUME IsFiniteSet(Pass), TypeOK, AnnouncersKnown, NEW p \in Pass,
         UNCHANGED <<rows, announced>>, \A q \in Pass \ {p} : pass'[q] = pass[q],
         pass'[p].pc \notin {"write", "announce"}
  PROVE  AnnouncersKnown'
<1>1. ASSUME NEW r \in Row PROVE AnnouncedBy(r)'
  <2>1. InFlight(r)' \subseteq InFlight(r)
    BY DEF InFlight, Announcing
  <2>2. AnnouncedBy(r)
    BY DEF AnnouncersKnown
  <2>3. rows[r].status \in Unfunded =>
          \A q \in Pass : ~ (pass'[q].pc = "announce" /\ pass'[q].seen.row = r)
    BY <2>2 DEF AnnouncedBy
  <2> QED  BY <2>1, <2>2, <2>3, NoneJoins
<1> QED  BY <1>1 DEF AnnouncersKnown

\* A pass that has read a row.
LEMMA FindKeeps ==
  ASSUME IsFiniteSet(Pass), IInv, AnnouncersKnown, NEW p \in Pass, FindRow(p)
  PROVE  AnnouncersKnown'
<1>0. /\ TypeOK /\ pass \in [Pass -> PassState] /\ UNCHANGED <<rows, announced>>
      /\ pass[p].pc = "log"
  BY DEF IInv, TypeOK, FindRow, At
<1>1. CASE \E l \in pass[p].logs : pass' = [pass EXCEPT ![p].logs = @ \ {l}]
  <2>1. PICK l \in pass[p].logs : pass' = [pass EXCEPT ![p].logs = @ \ {l}]
    BY <1>1
  <2>2. (\A q \in Pass \ {p} : pass'[q] = pass[q]) /\ pass'[p].pc = "log"
    BY <1>0, <2>1 DEF PassState
  <2> QED  BY <1>0, <2>2, PassMovesOn
<1>2. ASSUME NEW l \in pass[p].logs, NEW r \in Row,
             pass' = [pass EXCEPT ![p].pc = "write", ![p].logs = @ \ {l},
                        ![p].event = l.event,
                        ![p].seen = [row |-> r, status |-> rows[r].status, id |-> rows[r].id]]
      PROVE  AnnouncersKnown'
  <2>1. /\ \A q \in Pass \ {p} : pass'[q] = pass[q]
        /\ pass'[p].pc = "write" /\ pass'[p].seen.row = r
        /\ pass'[p].seen.status = rows[r].status
    BY <1>0, <1>2 DEF PassState
  <2>2. ASSUME NEW q \in Row PROVE AnnouncedBy(q)'
    <3>1. rows[q].status \notin Unfunded => InFlight(q)' \subseteq InFlight(q)
      BY <2>1 DEF InFlight, Announcing, Announces, Unfunded
    <3>2. AnnouncedBy(q)
      BY DEF AnnouncersKnown
    <3>3. rows[q].status \in Unfunded =>
            \A s \in Pass : ~ (pass'[s].pc = "announce" /\ pass'[s].seen.row = q)
      BY <2>1, <3>2 DEF AnnouncedBy
    <3> QED  BY <1>0, <3>1, <3>2, <3>3, NoneJoins
  <2> QED  BY <2>1, <2>2 DEF AnnouncersKnown
<1>3. ASSUME NEW l \in pass[p].logs PROVE Matching(l.event) \subseteq Row
  <2>1. l.event \in Final
    BY DEF IInv, PassesInformed, Informed
  <2>2. l.event.kind = "Funded" => l.event.tx \in Row
    BY <2>1 DEF IInv, ChainInv, Numbered, Final
  <2> QED  BY <2>2 DEF Matching
<1> QED  BY <1>1, <1>2, <1>3 DEF FindRow

\* A pass whose update commits or fails.
LEMMA WriteKeeps ==
  ASSUME IsFiniteSet(Pass), IInv, AnnouncersKnown, NEW p \in Pass, WriteRow(p)
  PROVE  AnnouncersKnown'
<1> DEFINE s == pass[p]
           r == s.seen.row
<1>0. /\ TypeOK /\ pass \in [Pass -> PassState] /\ announced' = announced
      /\ s.pc = "write" /\ r \in Row /\ rows \in [Row -> [status : RowStatus, id : Nat]]
  BY DEF IInv, TypeOK, WriteRow, At, PassesInformed, Informed
<1>1. ASSUME NextLog(p) PROVE (\A q \in Pass \ {p} : pass'[q] = pass[q]) /\ pass'[p].pc = "log"
  BY <1>0, <1>1 DEF NextLog, PassState
<1>2. CASE rows' = rows /\ NextLog(p)
  BY <1>0, <1>1, <1>2, PassMovesOn
<1>3. CASE rows' = [rows EXCEPT ![r] = Updated(s.seen, s.event)]
  <2> DEFINE new == Updated(s.seen, s.event)
  <2>1. /\ \A q \in Row \ {r} : rows'[q] = rows[q]
        /\ rows'[r] = new
    BY <1>0, <1>3
  <2>2. /\ \A q \in Pass \ {p} : pass'[q] = pass[q]
        /\ pass'[p].pc = "announce" => Announces(s.seen, s.event)
        /\ pass'[p].pc \in {"log", "announce"}
        /\ pass'[p].pc = "announce" => pass'[p].seen = s.seen /\ pass'[p].event = s.event
    <3>0. (Announces(s.seen, s.event) /\ Goto(p, "announce")) \/ NextLog(p)
      BY DEF WriteRow
    <3>1. CASE Announces(s.seen, s.event) /\ Goto(p, "announce")
      BY <1>0, <3>1 DEF Goto, PassState
    <3>2. CASE NextLog(p)
      BY <1>1, <3>2
    <3> QED  BY <3>0, <3>1, <3>2
  <2>3. \A q \in Row : InFlight(q)' \subseteq InFlight(q)
    BY <1>0, <2>2 DEF InFlight, Announcing
  <2>4. new.status \in Unfunded => rows[r].status \in Unfunded /\ ~ Announces(s.seen, s.event)
    BY <1>0 DEF Updated, StatusOf, Unfunded, Announces, PassState, Log, IInv, PassesInformed, Informed,
       Final
  <2>5. ASSUME NEW q \in Row PROVE AnnouncedBy(q)'
    <3>0. AnnouncedBy(q)
      BY DEF AnnouncersKnown
    <3>1. CASE rows'[q].status \in Unfunded <=> rows[q].status \in Unfunded
      <4>1. rows[q].status \in Unfunded =>
              \A x \in Pass : ~ (pass'[x].pc = "announce" /\ pass'[x].seen.row = q)
        BY <2>1, <2>2, <2>4, <3>0, <3>1 DEF AnnouncedBy
      <4> QED  BY <1>0, <2>3, <3>0, <3>1, <4>1, NoneJoins
    <3>2. CASE rows'[q].status \notin Unfunded /\ rows[q].status \in Unfunded
      <4>1. announced'[q] = 0
        BY <1>0, <3>0, <3>2 DEF AnnouncedBy
      <4>2. InFlight(q)' \in SUBSET Pass
        BY DEF InFlight
      <4>3. Cardinality(InFlight(q)') \in Nat /\ Cardinality(InFlight(q)') <= Cardinality(Pass)
        BY <4>2, FlightFinite
      <4>4. announced'[q] + Cardinality(InFlight(q)') <= Cardinality(Pass)
        BY <4>1, <4>3
      <4> QED  BY <3>2, <4>4 DEF AnnouncedBy
    <3>3. ~ (rows'[q].status \in Unfunded /\ rows[q].status \notin Unfunded)
      BY <2>1, <2>4
    <3> QED  BY <3>1, <3>2, <3>3
  <2> QED  BY <2>2, <2>5 DEF AnnouncersKnown
<1>4. (rows' = rows /\ NextLog(p)) \/ rows' = [rows EXCEPT ![r] = Updated(s.seen, s.event)]
  BY DEF WriteRow
<1> QED  BY <1>2, <1>3, <1>4

\* A pass that announces is not in flight any more.
LEMMA AnnounceKeeps ==
  ASSUME IsFiniteSet(Pass), IInv, AnnouncersKnown, NEW p \in Pass, Announce(p)
  PROVE  AnnouncersKnown'
<1>0. /\ TypeOK /\ pass \in [Pass -> PassState] /\ rows' = rows
      /\ announced \in [Row -> Nat] /\ pass[p].pc = "announce" /\ pass[p].seen.row \in Row
  BY DEF IInv, TypeOK, Announce, At, PassesInformed, Informed
<1>r. PICK r \in Row : r = pass[p].seen.row
  BY <1>0
<1>1. (\A q \in Pass \ {p} : pass'[q] = pass[q]) /\ pass'[p].pc = "log"
  BY <1>0 DEF Announce, NextLog, PassState
<1>2. CASE announced' = announced
  BY <1>0, <1>1, <1>2, PassMovesOn
<1>3. CASE announced' = [announced EXCEPT ![r] = @ + 1]
  <2>1. ASSUME NEW q \in Row, q # r PROVE AnnouncedBy(q)'
    <3>1. AnnouncedBy(q) /\ InFlight(q)' \subseteq InFlight(q) /\ announced'[q] = announced[q]
      BY <1>0, <1>1, <1>3, <2>1 DEF AnnouncersKnown, InFlight, Announcing
    <3>2. rows[q].status \in Unfunded =>
            \A x \in Pass : ~ (pass'[x].pc = "announce" /\ pass'[x].seen.row = q)
      BY <1>1, <3>1 DEF AnnouncedBy
    <3> QED  BY <1>0, <3>1, <3>2, NoneJoins
  <2>2. AnnouncedBy(r)'
    <3>1. AnnouncedBy(r) /\ Announces(pass[p].seen, pass[p].event)
      BY <1>0, <1>r DEF AnnouncersKnown
    <3>2. rows[r].status \notin Unfunded
      BY <1>0, <1>r, <3>1 DEF AnnouncedBy
    <3>3. p \in InFlight(r) /\ InFlight(r) \in SUBSET Pass
      BY <1>0, <1>r, <3>1 DEF InFlight, Announcing
    <3>4. InFlight(r)' \subseteq InFlight(r) \ {p}
      BY <1>1 DEF InFlight, Announcing
    <3>5. /\ IsFiniteSet(InFlight(r)) /\ Cardinality(InFlight(r)) \in Nat
          /\ Cardinality(Pass) \in Nat
      BY <3>3, FlightFinite
    <3>6. /\ IsFiniteSet(InFlight(r) \ {p})
          /\ Cardinality(InFlight(r) \ {p}) = Cardinality(InFlight(r)) - 1
      BY <3>3, <3>5, FS_RemoveElement
    <3>7. /\ Cardinality(InFlight(r)') <= Cardinality(InFlight(r)) - 1
          /\ Cardinality(InFlight(r)') \in Nat
      BY <3>4, <3>6, FS_Subset, FS_CardinalityType
    <3>8. announced'[r] = announced[r] + 1 /\ announced[r] \in Nat
      BY <1>0, <1>3
    <3>9. announced[r] + Cardinality(InFlight(r)) <= Cardinality(Pass)
      BY <3>1, <3>2 DEF AnnouncedBy
    <3>10. announced'[r] + Cardinality(InFlight(r)') <= Cardinality(Pass)
      BY <3>5, <3>7, <3>8, <3>9
    <3> QED  BY <1>0, <3>2, <3>10 DEF AnnouncedBy
  <2>3. \A q \in Pass : pass'[q].pc = "announce" => Announces(pass'[q].seen, pass'[q].event)
    BY <1>1 DEF AnnouncersKnown
  <2> QED  BY <2>1, <2>2, <2>3 DEF AnnouncersKnown
<1> QED  BY <1>2, <1>3, <1>r DEF Announce

\* Whoever moves, announcements stay accounted for.
LEMMA AnnouncersStep ==
  ASSUME IsFiniteSet(Pass), IInv, AnnouncersKnown, [Next]_vars
  PROVE  AnnouncersKnown'
<1>0. TypeOK /\ pass \in [Pass -> PassState]
  BY DEF IInv, TypeOK
<1>1. CASE UNCHANGED <<rows, pass, announced>>
  <2>1. \A r \in Row : AnnouncedBy(r)' <=> AnnouncedBy(r)
    BY <1>1 DEF AnnouncedBy, InFlight
  <2> QED  BY <1>1, <2>1 DEF AnnouncersKnown
<1>2. ASSUME NEW r \in Row, RecordRow(r) PROVE AnnouncersKnown'
  <2>1. /\ rows[r].status = "none" /\ rows'[r].status = "pending"
        /\ pass' = pass /\ announced' = announced
        /\ \A q \in Row \ {r} : rows'[q] = rows[q]
    BY <1>0, <1>2 DEF RecordRow, NoRow, TypeOK
  <2>2. ASSUME NEW q \in Row PROVE AnnouncedBy(q)'
    <3>1. AnnouncedBy(q)
      BY DEF AnnouncersKnown
    <3>2. InFlight(q)' = InFlight(q)
      BY <2>1 DEF InFlight
    <3>3. rows'[q].status \in Unfunded <=> rows[q].status \in Unfunded
      BY <2>1 DEF Unfunded
    <3> QED  BY <2>1, <3>1, <3>2, <3>3 DEF AnnouncedBy
  <2> QED  BY <2>1, <2>2 DEF AnnouncersKnown
<1>3. ASSUME NEW p \in Pass, Begin(p) \/ ReadHead(p) \/ Fetch(p) \/ SaveCursor(p) \/ RpcFails(p) \/ Crash(p)
      PROVE  AnnouncersKnown'
  <2>1. UNCHANGED <<rows, announced>>
    BY <1>3 DEF Begin, ReadHead, Fetch, SaveCursor, RpcFails, Crash
  <2>2. /\ \A q \in Pass \ {p} : pass'[q] = pass[q]
        /\ pass'[p].pc \notin {"write", "announce"}
    BY <1>0, <1>3 DEF Begin, ReadHead, Fetch, SaveCursor, RpcFails, Crash, Rest, Resting, PassState
  <2> QED  BY <1>0, <2>1, <2>2, PassMovesOn
<1>4. CASE ChainStep \/ Rebuild \/ UNCHANGED vars
  BY <1>1, <1>4 DEF ChainStep, MineQuiet, MineFund, MineOutcome, Append1, Reorg, Rebuild, vars
<1> QED  BY <1>0, <1>2, <1>3, <1>4, FindKeeps, WriteKeeps, AnnounceKeeps DEF Next, PassStep

\* However many passes overlap, and whatever is replayed, fails or dies, a
\* bounty is announced at most once by each pass that can run at once, so once
\* where passes do not overlap (event_indexer.rb 76-79).
THEOREM AnnouncedOncePerPass ==
  ASSUME MaxReorg <= Confirmations, IsFiniteSet(Pass)
  PROVE  Spec => []AnnouncedPerPass
<1>1. Init => AnnouncersKnown
  BY DEF Init, AnnouncersKnown, AnnouncedBy, NoRow, Unfunded, Resting
<1>2. IInv /\ AnnouncersKnown /\ [Next]_vars => AnnouncersKnown'
  BY AnnouncersStep
<1>3. IInv /\ AnnouncersKnown => AnnouncedPerPass
  <2> SUFFICES ASSUME IInv, AnnouncersKnown, NEW r \in Row
               PROVE  announced[r] <= Cardinality(Pass)
    BY DEF AnnouncedPerPass
  <2>1. InFlight(r) \in SUBSET Pass
    BY DEF InFlight
  <2>2. Cardinality(InFlight(r)) \in Nat /\ Cardinality(Pass) \in Nat /\ announced[r] \in Nat
    BY <2>1, FlightFinite DEF IInv, TypeOK
  <2>3. AnnouncedBy(r)
    BY DEF AnnouncersKnown
  <2> QED  BY <2>2, <2>3 DEF AnnouncedBy
<1> QED  BY <1>1, <1>2, <1>3, IInvHolds, PTL DEF Spec
=============================================================================

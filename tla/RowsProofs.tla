----------------------------- MODULE RowsProofs -----------------------------
(***************************************************************************)
(* Theorems about the tables that are kept beside the chain: the rows of   *)
(* installations and repositories, for any of them, any users and any      *)
(* overlapping syncs; and payout wallets with the comment that promises a  *)
(* payout, for any users, requests, deliveries and workers.                *)
(***************************************************************************)
EXTENDS InstallationSync, WalletLinks, FiniteSetTheorems, TLAPS

----------------------------------------------------------------------------
(* Installations and repositories. *)

\* A sync at work has an installation, and one that saves a repository a
\* repository.
AtWork ==
  \A p \in Sync :
    /\ sync[p].pc # "rest" => sync[p].inst \in Installation
    /\ sync[p].pc = "repo" => sync[p].repo \in Repo

\* What belongs to an installation, in a table of repositories.
RowsOf(i, rows) == {r \in Repo : rows[r] = i}

\* What a sync knows is true of the table: which rows it still has to look at,
\* what it found and what it still has to destroy.
Knows(s, rows) ==
  /\ s.pc = "repos" => s.listed \ s.todo \subseteq RowsOf(s.inst, rows)
  /\ s.pc = "repo" => /\ s.found = rows[s.repo]
                      /\ s.listed \ (s.todo \cup {s.repo}) \subseteq RowsOf(s.inst, rows)
  /\ s.pc = "destroy" => s.todo \cap s.listed = {}
  /\ s.pc = "destroy" /\ s.listed # {} => RowsOf(s.inst, rows) = s.listed \cup s.todo

\* A sync that nothing overlaps is the only one at work, and knows.
AloneKnows ==
  \A p \in Sync :
    sync[p].alone => Knows(sync[p], repos) /\ \A q \in Sync \ {p} : sync[q].pc = "rest"

SyncInv == SyncTypeOK /\ AtWork /\ NoOrphans

Step == [NextSync]_syncVars

----------------------------------------------------------------------------
\* The empty tables.
LEMMA SyncInitially == InitSync => SyncInv /\ AloneKnows
<1> SUFFICES ASSUME InitSync PROVE SyncInv /\ AloneKnows
  OBVIOUS
<1>1. SyncTypeOK
  BY SyncAssumption DEF InitSync, SyncTypeOK, SyncState, Resting
<1>2. AtWork
  BY DEF InitSync, AtWork, Resting
<1>3. NoOrphans
  BY DEF InitSync, NoOrphans
<1>4. AloneKnows
  BY DEF InitSync, AloneKnows, Knows, Resting
<1> QED  BY <1>1, <1>2, <1>3, <1>4 DEF SyncInv

\* What one sync does, on well-typed tables.
LEMMA OneSyncTyped ==
  ASSUME SyncTypeOK, AtWork, NEW p \in Sync, NEW now \in SyncState,
         sync' = [sync EXCEPT ![p] = now],
         now.pc # "rest" => now.inst \in Installation,
         now.pc = "repo" => now.repo \in Repo,
         UNCHANGED <<github, users, bountied>>,
         installs' \in [Installation -> User \cup {None, Missing}],
         repos' \in [Repo -> Installation \cup {None}]
  PROVE  SyncTypeOK' /\ AtWork'
BY DEF SyncTypeOK, AtWork, github

\* Every step keeps the tables and the syncs well typed.
LEMMA SyncTypeStep == ASSUME SyncTypeOK, AtWork, Step PROVE SyncTypeOK' /\ AtWork'
<1> DEFINE T == SyncTypeOK' /\ AtWork'
<1>a. ASSUME UNCHANGED sync,
             covers' \in [Repo -> Installation \cup {None}], installed' \subseteq Installation,
             moves' \in 0..MaxMoves, users' \subseteq User,
             installs' \in [Installation -> User \cup {None, Missing}],
             repos' \in [Repo -> Installation \cup {None}], bountied' \subseteq Repo
      PROVE T
  BY <1>a DEF SyncTypeOK, AtWork
<1>b. ASSUME NEW p \in Sync, NEW now \in SyncState, Only(p, now),
             now.pc # "rest" => now.inst \in Installation,
             now.pc = "repo" => now.repo \in Repo
      PROVE T
  <2>1. UNCHANGED <<github, tables>> /\ sync' = [sync EXCEPT ![p] = now]
    BY <1>b DEF Only
  <2>2. installs' \in [Installation -> User \cup {None, Missing}]
        /\ repos' \in [Repo -> Installation \cup {None}]
        /\ UNCHANGED <<users, bountied>>
    BY <2>1 DEF tables, SyncTypeOK
  <2> QED  BY <1>b, <2>1, <2>2, OneSyncTyped
<1>c. Resting \in SyncState /\ Resting.pc = "rest"
  BY DEF SyncState, Resting
<1>d. ASSUME NEW p \in Sync
      PROVE  sync[p] \in SyncState /\ (sync[p].pc # "rest" => sync[p].inst \in Installation)
             /\ (sync[p].pc = "repo" => sync[p].repo \in Repo)
  BY DEF SyncTypeOK, AtWork
<1>e. ASSUME NEW q \in Sync
      PROVE  LET now == [sync[q] EXCEPT !.alone = FALSE]
             IN  /\ now \in SyncState
                 /\ now.pc # "rest" => now.inst \in Installation
                 /\ now.pc = "repo" => now.repo \in Repo
  BY <1>d DEF SyncState
<1>1. ASSUME NEW i \in Installation, Install(i) PROVE T
  BY <1>1, <1>a, SyncAssumption DEF Install, Moves, tables, SyncTypeOK
<1>2. ASSUME NEW i \in Installation, Uninstall(i) PROVE T
  BY <1>2, <1>a, SyncAssumption DEF Uninstall, Moves, tables, SyncTypeOK
<1>3. ASSUME NEW r \in Repo, NEW i \in Installation \cup {None}, Cover(r, i) PROVE T
  BY <1>3, <1>a, SyncAssumption DEF Cover, Moves, tables, SyncTypeOK
<1>4. ASSUME NEW r \in Repo, FundIn(r) PROVE T
  BY <1>4, <1>a DEF FundIn, github, SyncTypeOK
<1>5. ASSUME NEW u \in User, SignUp(u) PROVE T
  BY <1>5, <1>a DEF SignUp, github, SyncTypeOK
<1>6. ASSUME NEW u \in User, ClaimInstallations(u) PROVE T
  BY <1>6, <1>a DEF ClaimInstallations, github, SyncTypeOK
<1>7. ASSUME NEW i \in Installation, DestroyInstall(i) PROVE T
  <2>1. sync' = [q \in Sync |-> [sync[q] EXCEPT !.alone = FALSE]]
    BY <1>7 DEF DestroyInstall
  <2>2. sync' \in [Sync -> SyncState] /\ AtWork'
    BY <1>e, <2>1 DEF AtWork
  <2> QED  BY <1>7, <2>2 DEF DestroyInstall, github, SyncTypeOK
<1>8. ASSUME NEW p \in Sync, NEW i \in Installation, NEW u \in User, Begin(p, i, u) PROVE T
  <2> DEFINE sender == IF u \in users THEN u ELSE None
             alone == \A o \in Sync \ {p} : At(o, "rest")
             now == [Resting EXCEPT !.pc = "find", !.inst = i, !.installer = sender, !.alone = alone]
  <2>1. alone \in BOOLEAN
    OBVIOUS
  <2>2. sync' = [q \in Sync |-> IF q = p THEN now ELSE [sync[q] EXCEPT !.alone = FALSE]]
    BY <1>8 DEF Begin
  <2> HIDE DEF alone
  <2>3. now \in SyncState /\ now.pc = "find" /\ now.inst = i
    BY <2>1 DEF Resting, SyncState
  <2> HIDE DEF now
  <2>4. sync' \in [Sync -> SyncState] /\ AtWork'
    BY <1>e, <2>2, <2>3 DEF AtWork
  <2> QED  BY <1>8, <2>4 DEF Begin, github, tables, SyncTypeOK
<1>9. ASSUME NEW p \in Sync, FindInstall(p) PROVE T
  <2> DEFINE now == [sync[p] EXCEPT !.pc = "save", !.row = installs[sync[p].inst]]
  <2>1. installs[sync[p].inst] \in User \cup {None, Missing}
    BY <1>9, <1>d DEF FindInstall, At, SyncTypeOK
  <2>2. now \in SyncState /\ now.pc = "save" /\ now.inst \in Installation
    BY <1>9, <1>d, <2>1 DEF FindInstall, At, SyncState
  <2>3. Only(p, now)
    BY <1>9 DEF FindInstall
  <2> HIDE DEF now
  <2> QED  BY <1>b, <2>2, <2>3
<1>10. ASSUME NEW p \in Sync, SaveInstall(p) PROVE T
  <2> DEFINE s == sync[p]
             row == Saved(s.row, installs[s.inst], s.installer)
             now == [s EXCEPT !.pc = "list", !.row = Missing, !.installer = None]
  <2>1. s \in SyncState /\ s.inst \in Installation
    BY <1>10, <1>d DEF SaveInstall, At
  <2>2. row \in User \cup {None, Missing}
    BY <2>1 DEF Saved, SyncState, SyncTypeOK
  <2>3. now \in SyncState /\ now.pc = "list" /\ now.inst \in Installation
    BY <2>1 DEF SyncState
  <2>4. sync' = [sync EXCEPT ![p] = now]
    BY <1>10 DEF SaveInstall, SyncTypeOK
  <2>5. installs' = [installs EXCEPT ![s.inst] = row]
    BY <1>10, <2>1 DEF SaveInstall, SyncTypeOK
  <2> HIDE DEF now, row
  <2>6. installs' \in [Installation -> User \cup {None, Missing}]
    BY <2>1, <2>2, <2>5 DEF SyncTypeOK
  <2>7. UNCHANGED <<github, users, repos, bountied>>
    BY <1>10 DEF SaveInstall
  <2>8. repos' \in [Repo -> Installation \cup {None}]
    BY <2>7 DEF SyncTypeOK
  <2> QED  BY <2>3, <2>4, <2>6, <2>7, <2>8, OneSyncTyped
<1>11. ASSUME NEW p \in Sync, ListRepos(p) PROVE T
  <2>1. PICK page \in SUBSET Repo :
          /\ sync[p].pc = "list"
          /\ Only(p, [sync[p] EXCEPT !.pc = "repos", !.listed = page, !.todo = page])
    BY <1>11 DEF ListRepos, At
  <2> DEFINE now == [sync[p] EXCEPT !.pc = "repos", !.listed = page, !.todo = page]
  <2>2. now \in SyncState /\ now.pc = "repos" /\ now.inst \in Installation
    BY <1>d, <2>1 DEF SyncState
  <2>3. Only(p, now)
    BY <2>1
  <2> HIDE DEF now
  <2> QED  BY <1>b, <2>2, <2>3
<1>12. ASSUME NEW p \in Sync, NEW r \in Repo, FindRepo(p, r) PROVE T
  <2> DEFINE now == [sync[p] EXCEPT !.pc = "repo", !.repo = r, !.found = repos[r], !.todo = @ \ {r}]
  <2>1. repos[r] \in Installation \cup {None}
    BY DEF SyncTypeOK
  <2>2. now \in SyncState /\ now.pc = "repo" /\ now.inst \in Installation /\ now.repo \in Repo
    <3> DEFINE s == sync[p]
    <3>1. s \in SyncState /\ s.inst \in Installation /\ s.todo \ {r} \in SUBSET Repo
      BY <1>12, <1>d DEF FindRepo, At, SyncState
    <3>2. now = [s EXCEPT !.pc = "repo", !.repo = r, !.found = repos[r], !.todo = s.todo \ {r}]
      OBVIOUS
    <3> HIDE DEF s, now
    <3> QED  BY <2>1, <3>1, <3>2 DEF SyncState
  <2>3. Only(p, now)
    BY <1>12 DEF FindRepo
  <2> HIDE DEF now
  <2> QED  BY <1>b, <2>2, <2>3
<1>13. ASSUME NEW p \in Sync, SaveRepo(p) PROVE T
  <2> DEFINE s == sync[p]
             after == Moved(s.found, repos[s.repo], s.inst)
             now == [s EXCEPT !.pc = "repos", !.repo = None, !.found = None]
  <2>1. s \in SyncState /\ s.inst \in Installation /\ s.repo \in Repo
    BY <1>13, <1>d DEF SaveRepo, At
  <2>2. after \in Installation \cup {None}
    BY <2>1 DEF Moved, SyncTypeOK
  <2>3. now \in SyncState /\ now.pc = "repos" /\ now.inst \in Installation
    BY <2>1 DEF SyncState
  <2>4. sync' = [sync EXCEPT ![p] = now]
    BY <1>13 DEF SaveRepo, SyncTypeOK
  <2>5. repos' = [repos EXCEPT ![s.repo] = after] /\ UNCHANGED <<github, users, installs, bountied>>
    BY <1>13 DEF SaveRepo
  <2> HIDE DEF now, after
  <2>6. repos' \in [Repo -> Installation \cup {None}]
    BY <2>1, <2>2, <2>5 DEF SyncTypeOK
  <2>7. installs' \in [Installation -> User \cup {None, Missing}]
    BY <2>5 DEF SyncTypeOK
  <2> QED  BY <2>3, <2>4, <2>5, <2>6, <2>7, OneSyncTyped
<1>14. ASSUME NEW p \in Sync, FindRevoked(p) PROVE T
  <2> DEFINE s == sync[p]
             rows == IF s.listed = {} THEN {} ELSE {r \in Repo : repos[r] = s.inst} \ s.listed
             now == [s EXCEPT !.pc = "destroy", !.todo = rows]
  <2>1. rows \subseteq Repo
    OBVIOUS
  <2>2. Only(p, now) /\ s.pc = "repos"
    BY <1>14 DEF FindRevoked, At
  <2> HIDE DEF rows
  <2>3. now \in SyncState /\ now.pc = "destroy" /\ now.inst \in Installation
    BY <1>d, <2>1, <2>2 DEF SyncState
  <2> HIDE DEF now
  <2> QED  BY <1>b, <2>2, <2>3
<1>15. ASSUME NEW p \in Sync, NEW r \in Repo, DestroyRepo(p, r) PROVE T
  <2> DEFINE now == [sync[p] EXCEPT !.todo = @ \ {r}]
  <2>1. now \in SyncState /\ now.pc = "destroy" /\ now.inst \in Installation
    BY <1>15, <1>d DEF DestroyRepo, At, SyncState
  <2>2. sync' = [sync EXCEPT ![p] = now] /\ UNCHANGED <<github, users, installs, bountied>>
    BY <1>15 DEF DestroyRepo, SyncTypeOK
  <2> HIDE DEF now
  <2>3. repos' \in [Repo -> Installation \cup {None}]
        /\ installs' \in [Installation -> User \cup {None, Missing}]
    BY <1>15 DEF DestroyRepo, SyncTypeOK
  <2> QED  BY <2>1, <2>2, <2>3, OneSyncTyped
<1>16. ASSUME NEW p \in Sync, Finish(p) \/ Abort(p) PROVE T
  <2>1. Only(p, Resting)
    BY <1>16 DEF Finish, Abort, Aborted, Only
  <2> QED  BY <1>b, <1>c, <2>1
<1>17. CASE UNCHANGED syncVars
  BY <1>17, <1>a DEF syncVars, github, tables, SyncTypeOK
<1> QED  BY <1>1, <1>2, <1>3, <1>4, <1>5, <1>6, <1>7, <1>8, <1>9, <1>10, <1>11, <1>12,
            <1>13, <1>14, <1>15, <1>16, <1>17 DEF Step, NextSync, SyncStep

----------------------------------------------------------------------------
\* A step that neither writes the two tables nor funds in a repository.
LEMMA OrphansKept ==
  ASSUME NoOrphans, UNCHANGED <<installs, repos, bountied>>
  PROVE  NoOrphans'
BY DEF NoOrphans

\* Whatever overlaps, the references hold.
LEMMA OrphansStep == ASSUME SyncInv, Step PROVE NoOrphans'
<1> USE DEF SyncInv
<1>1. ASSUME UNCHANGED <<installs, repos, bountied>> PROVE NoOrphans'
  BY <1>1, OrphansKept
<1>2. ASSUME NEW r \in Repo, FundIn(r) PROVE NoOrphans'
  BY <1>2 DEF FundIn, NoOrphans
<1>3. ASSUME NEW u \in User, ClaimInstallations(u) PROVE NoOrphans'
  <2>1. \A i \in Installation : installs[i] # Missing => installs'[i] # Missing
    BY <1>3, SyncAssumption DEF ClaimInstallations, SyncTypeOK
  <2> QED  BY <1>3, <2>1 DEF ClaimInstallations, NoOrphans, SyncTypeOK
<1>4. ASSUME NEW i \in Installation, DestroyInstall(i) PROVE NoOrphans'
  BY <1>4 DEF DestroyInstall, NoOrphans, SyncTypeOK
<1>5. ASSUME NEW p \in Sync, SaveInstall(p) PROVE NoOrphans'
  <2> DEFINE s == sync[p]
             row == Saved(s.row, installs[s.inst], s.installer)
  <2>1. s.inst \in Installation /\ s.installer \in User \cup {None}
    BY <1>5 DEF SaveInstall, At, AtWork, SyncTypeOK, SyncState
  <2>2. installs[s.inst] # Missing => row # Missing
    BY <2>1, SyncAssumption DEF Saved
  <2>3. installs' = [installs EXCEPT ![s.inst] = row] /\ UNCHANGED <<repos, bountied>>
    BY <1>5, <2>1 DEF SaveInstall, SyncTypeOK
  <2> HIDE DEF row
  <2> QED  BY <2>1, <2>2, <2>3 DEF NoOrphans, SyncTypeOK
<1>6. ASSUME NEW p \in Sync, SaveRepo(p) PROVE NoOrphans'
  <2> DEFINE s == sync[p]
             after == Moved(s.found, repos[s.repo], s.inst)
  <2>1. s.inst \in Installation /\ s.repo \in Repo
    BY <1>6 DEF SaveRepo, At, AtWork
  <2>2. after = repos[s.repo] \/ (after = s.inst /\ installs[s.inst] # Missing)
    BY <1>6 DEF SaveRepo, Moved, References
  <2>3. repos' = [repos EXCEPT ![s.repo] = after] /\ UNCHANGED <<installs, bountied>>
    BY <1>6 DEF SaveRepo
  <2>4. s.inst # None
    BY <2>1, SyncAssumption
  <2> HIDE DEF after
  <2> QED  BY <2>1, <2>2, <2>3, <2>4 DEF NoOrphans, SyncTypeOK
<1>7. ASSUME NEW p \in Sync, NEW r \in Repo, DestroyRepo(p, r) PROVE NoOrphans'
  BY <1>7 DEF DestroyRepo, NoOrphans, SyncTypeOK
<1> QED  BY <1>1, <1>2, <1>3, <1>4, <1>5, <1>6, <1>7
         DEF Step, NextSync, SyncStep, Install, Uninstall, Cover, SignUp, Begin, FindInstall,
             ListRepos, FindRepo, FindRevoked, Finish, Abort, Only, tables, syncVars

\* The inductive invariant holds throughout.
LEMMA SyncInvHolds == SyncSpec => []SyncInv
<1>1. SyncInv /\ Step => SyncInv'
  BY SyncTypeStep, OrphansStep DEF SyncInv
<1> QED  BY <1>1, SyncInitially, PTL DEF SyncSpec, Step

\* The tables stay well typed.
THEOREM SyncTypeCorrect == SyncSpec => []SyncTypeOK
<1>1. SyncInv => SyncTypeOK
  BY DEF SyncInv
<1> QED  BY <1>1, SyncInvHolds, PTL

\* Each repository belongs to an installation that exists, and one with
\* bounties is never destroyed, whatever syncs, uninstalls and transfers
\* overlap (installation_sync.rb 27-43, repository.rb).
THEOREM ReferencesHold == SyncSpec => []NoOrphans
<1>1. SyncInv => NoOrphans
  BY DEF SyncInv
<1> QED  BY <1>1, SyncInvHolds, PTL

\* An installer is replaced by nobody but the installer of a sync that read
\* the row while there was none, however old what syncs write is
\* (installation_sync.rb 17-19, user.rb 19-25).
LinkKept(i) ==
  installs[i] \in User /\ installs'[i] # installs[i] =>
    \/ installs'[i] = Missing /\ i \notin installed
    \/ \E p \in Sync : /\ At(p, "save") /\ sync[p].inst = i /\ sync[p].row = None
                       /\ installs'[i] = sync[p].installer /\ installs'[i] \in User

THEOREM LinksStay == SyncSpec => LinkedStaysLinked
<1>1. ASSUME SyncInv, Step
      PROVE  \A i \in Installation : LinkKept(i)
  <2>0. SyncTypeOK /\ AtWork
    BY <1>1 DEF SyncInv
  <2>1. ASSUME NEW u \in User, ClaimInstallations(u), NEW i \in Installation
        PROVE  LinkKept(i)
    BY <2>1, SyncAssumption DEF ClaimInstallations, LinkKept
  <2>2. ASSUME NEW j \in Installation, DestroyInstall(j), NEW i \in Installation
        PROVE  LinkKept(i)
    BY <2>0, <2>2 DEF DestroyInstall, SyncTypeOK, LinkKept
  <2>3. ASSUME NEW p \in Sync, SaveInstall(p), NEW i \in Installation
        PROVE  LinkKept(i)
    <3> DEFINE t == sync[p]
               row == Saved(t.row, installs[t.inst], t.installer)
    <3>1. /\ t.inst \in Installation /\ t.installer \in User \cup {None}
          /\ t.row \in User \cup {None, Missing} /\ At(p, "save")
      BY <2>0, <2>3 DEF SaveInstall, At, AtWork, SyncTypeOK, SyncState
    <3>2. t.row = Missing => installs[t.inst] = Missing
      BY <2>3 DEF SaveInstall
    <3>3. installs' = [installs EXCEPT ![t.inst] = row]
      BY <2>0, <2>3, <3>1 DEF SaveInstall, SyncTypeOK
    <3>4. installs'[i] = IF i = t.inst THEN row ELSE installs[i]
      BY <2>0, <3>3 DEF SyncTypeOK
    <3>5. installs[t.inst] \in User /\ row # installs[t.inst] =>
            t.row = None /\ row = t.installer /\ row \in User
      BY <3>1, <3>2, SyncAssumption DEF Saved
    <3> HIDE DEF row
    <3> QED  BY <3>1, <3>4, <3>5 DEF LinkKept
  <2>4. ASSUME UNCHANGED installs PROVE \A i \in Installation : LinkKept(i)
    BY <2>4 DEF LinkKept
  <2> QED  BY <1>1, <2>1, <2>2, <2>3, <2>4
           DEF Step, NextSync, SyncStep, Install, Uninstall, Cover, FundIn, SignUp, Begin,
               FindInstall, ListRepos, FindRepo, SaveRepo, FindRevoked, DestroyRepo, Finish,
               Abort, Only, tables, syncVars
<1> QED  BY <1>1, SyncInvHolds, PTL DEF SyncSpec, Step, LinkedStaysLinked, LinkKept

----------------------------------------------------------------------------
\* A step of one sync: it may rely on what it knows, and nobody else is alone.
LEMMA OneAlone ==
  ASSUME SyncTypeOK, AloneKnows, NEW p \in Sync, sync[p].pc # "rest", NEW now \in SyncState,
         sync' = [sync EXCEPT ![p] = now], now.alone => sync[p].alone,
         sync[p].alone /\ Knows(sync[p], repos) => Knows(now, repos')
  PROVE  AloneKnows'
<1>1. \A q \in Sync \ {p} : ~ sync[q].alone
  BY DEF AloneKnows, SyncTypeOK, SyncState
<1>2. sync'[p] = now /\ \A q \in Sync \ {p} : sync'[q] = sync[q]
  BY DEF SyncTypeOK
<1>3. now.alone => Knows(now, repos') /\ \A q \in Sync \ {p} : sync'[q].pc = "rest"
  BY <1>2 DEF AloneKnows
<1>4. \A q \in Sync : sync'[q].alone =>
        Knows(sync'[q], repos') /\ \A o \in Sync \ {q} : sync'[o].pc = "rest"
  BY <1>1, <1>2, <1>3
<1> QED  BY <1>4 DEF AloneKnows

\* A step that takes no sync further and moves no repository.
LEMMA AloneRests ==
  ASSUME AloneKnows, UNCHANGED repos, SyncTypeOK,
         \A q \in Sync : sync'[q] \in {sync[q], Resting}
  PROVE  AloneKnows'
<1>1. Resting.pc = "rest" /\ Resting.alone = FALSE
  BY DEF Resting
<1>2. \A q \in Sync : sync'[q].alone =>
        Knows(sync'[q], repos') /\ \A o \in Sync \ {q} : sync'[o].pc = "rest"
  BY <1>1 DEF AloneKnows
<1> QED  BY <1>2 DEF AloneKnows

\* What a sync knows stays true until something overlaps it.
LEMMA AloneStep == ASSUME SyncInv, AloneKnows, Step PROVE AloneKnows'
<1> USE DEF SyncInv
<1>0. ASSUME NEW p \in Sync PROVE sync[p] \in SyncState
  BY DEF SyncTypeOK
<1>1. ASSUME UNCHANGED <<repos, sync>> PROVE AloneKnows'
  BY <1>1, AloneRests
<1>2. ASSUME NEW i \in Installation, DestroyInstall(i) PROVE AloneKnows'
  <2>1. \A q \in Sync : sync'[q].alone = FALSE
    BY <1>0, <1>2 DEF DestroyInstall, SyncState
  <2> QED  BY <2>1 DEF AloneKnows
<1>3. ASSUME NEW p \in Sync, NEW i \in Installation, NEW u \in User, Begin(p, i, u)
      PROVE AloneKnows'
  <2>1. \A q \in Sync \ {p} : sync'[q].alone = FALSE /\ sync'[q].pc = sync[q].pc
    BY <1>0, <1>3 DEF Begin, SyncState
  <2>2. sync'[p].pc = "find" /\ (sync'[p].alone => \A q \in Sync \ {p} : sync[q].pc = "rest")
    BY <1>3 DEF Begin, Resting, At
  <2>3. Knows(sync'[p], repos')
    BY <2>2 DEF Knows
  <2> QED  BY <2>1, <2>2, <2>3 DEF AloneKnows
<1>4. ASSUME NEW p \in Sync, FindInstall(p) \/ SaveInstall(p) PROVE AloneKnows'
  <2>1. PICK now \in SyncState :
          sync' = [sync EXCEPT ![p] = now] /\ now.pc \in {"save", "list"}
          /\ now.alone = sync[p].alone
    <3>1. CASE FindInstall(p)
      <4> DEFINE row == installs[sync[p].inst]
      <4>1. row \in User \cup {None, Missing}
        BY <3>1 DEF FindInstall, At, AtWork, SyncTypeOK
      <4> HIDE DEF row
      <4> DEFINE now == [sync[p] EXCEPT !.pc = "save", !.row = row]
      <4>2. now \in SyncState /\ now.pc = "save" /\ now.alone = sync[p].alone
        BY <1>0, <4>1 DEF SyncState
      <4>3. sync' = [sync EXCEPT ![p] = now]
        BY <3>1 DEF FindInstall, Only, row
      <4> QED  BY <4>2, <4>3
    <3>2. CASE SaveInstall(p)
      <4> DEFINE now == [sync[p] EXCEPT !.pc = "list", !.row = Missing, !.installer = None]
      <4>1. now \in SyncState /\ now.pc = "list" /\ now.alone = sync[p].alone
        BY <1>0 DEF SyncState
      <4>2. sync' = [sync EXCEPT ![p] = now]
        BY <3>2 DEF SaveInstall, SyncTypeOK
      <4> QED  BY <4>1, <4>2
    <3> QED  BY <1>4, <3>1, <3>2
  <2>2. sync[p].pc # "rest" /\ Knows(now, repos')
    BY <1>4, <2>1 DEF FindInstall, SaveInstall, At, Knows
  <2> QED  BY <2>1, <2>2, OneAlone
<1>5. ASSUME NEW p \in Sync, ListRepos(p) PROVE AloneKnows'
  <2>1. PICK page \in SUBSET Repo :
          /\ sync[p].pc = "list"
          /\ Only(p, [sync[p] EXCEPT !.pc = "repos", !.listed = page, !.todo = page])
    BY <1>5 DEF ListRepos, At
  <2> DEFINE now == [sync[p] EXCEPT !.pc = "repos", !.listed = page, !.todo = page]
  <2>2. /\ now \in SyncState /\ now.alone = sync[p].alone
        /\ now.pc = "repos" /\ now.listed = page /\ now.todo = page
    BY <1>0 DEF SyncState
  <2>3. sync' = [sync EXCEPT ![p] = now]
    BY <2>1 DEF Only
  <2> HIDE DEF now
  <2>4. Knows(now, repos')
    BY <2>2 DEF Knows
  <2> QED  BY <2>1, <2>2, <2>3, <2>4, OneAlone
<1>6. ASSUME NEW p \in Sync, NEW r \in Repo, FindRepo(p, r) PROVE AloneKnows'
  <2> DEFINE s == sync[p]
             now == [s EXCEPT !.pc = "repo", !.repo = r, !.found = repos[r], !.todo = @ \ {r}]
  <2>1. s \in SyncState /\ s.pc = "repos" /\ r \in s.todo
    BY <1>0, <1>6 DEF FindRepo, At
  <2>2. /\ now \in SyncState /\ now.alone = s.alone /\ now.pc = "repo" /\ now.repo = r
        /\ now.found = repos[r] /\ now.todo = s.todo \ {r} /\ now.listed = s.listed
        /\ now.inst = s.inst
    BY <2>1 DEF SyncState, SyncTypeOK
  <2>3. sync' = [sync EXCEPT ![p] = now] /\ UNCHANGED repos
    BY <1>6 DEF FindRepo, Only, tables
  <2> HIDE DEF now
  <2>4. Knows(s, repos) => Knows(now, repos')
    BY <2>1, <2>2, <2>3 DEF Knows
  <2> QED  BY <2>1, <2>2, <2>3, <2>4, OneAlone
<1>7. ASSUME NEW p \in Sync, SaveRepo(p) PROVE AloneKnows'
  <2> DEFINE s == sync[p]
             after == Moved(s.found, repos[s.repo], s.inst)
             now == [s EXCEPT !.pc = "repos", !.repo = None, !.found = None]
  <2>1. s \in SyncState /\ s.pc = "repo" /\ s.repo \in Repo
    BY <1>0, <1>7 DEF SaveRepo, At, AtWork
  <2>2. /\ now \in SyncState /\ now.alone = s.alone /\ now.pc = "repos"
        /\ now.todo = s.todo /\ now.listed = s.listed /\ now.inst = s.inst
    BY <2>1 DEF SyncState
  <2>3. sync' = [sync EXCEPT ![p] = now] /\ repos' = [repos EXCEPT ![s.repo] = after]
    BY <1>7 DEF SaveRepo, SyncTypeOK
  <2>4. s.found = repos[s.repo] => after = s.inst
    BY DEF Moved
  <2> HIDE DEF now, after
  <2>5. Knows(s, repos) => Knows(now, repos')
    BY <2>1, <2>2, <2>3, <2>4 DEF Knows, RowsOf, SyncTypeOK
  <2> QED  BY <2>1, <2>2, <2>3, <2>5, OneAlone
<1>8. ASSUME NEW p \in Sync, FindRevoked(p) PROVE AloneKnows'
  <2> DEFINE s == sync[p]
             rows == IF s.listed = {} THEN {} ELSE RowsOf(s.inst, repos) \ s.listed
             now == [s EXCEPT !.pc = "destroy", !.todo = rows]
  <2>1. s \in SyncState /\ s.pc = "repos" /\ s.todo = {}
    BY <1>0, <1>8 DEF FindRevoked, At
  <2>2. rows \subseteq Repo
    BY DEF RowsOf
  <2>3. sync' = [sync EXCEPT ![p] = now] /\ UNCHANGED repos
    BY <1>8 DEF FindRevoked, Only, tables, RowsOf
  <2> HIDE DEF rows
  <2>4. /\ now \in SyncState /\ now.alone = s.alone /\ now.pc = "destroy"
        /\ now.todo = rows /\ now.listed = s.listed /\ now.inst = s.inst
    BY <2>1, <2>2 DEF SyncState
  <2> HIDE DEF now
  <2>5. Knows(s, repos) => Knows(now, repos')
    BY <2>1, <2>3, <2>4 DEF Knows, rows
  <2> QED  BY <2>1, <2>3, <2>4, <2>5, OneAlone
<1>9. ASSUME NEW p \in Sync, NEW r \in Repo, DestroyRepo(p, r) PROVE AloneKnows'
  <2> DEFINE s == sync[p]
             now == [s EXCEPT !.todo = @ \ {r}]
  <2>1. s \in SyncState /\ s.pc = "destroy" /\ r \in s.todo
    BY <1>0, <1>9 DEF DestroyRepo, At
  <2>2. /\ now \in SyncState /\ now.alone = s.alone /\ now.pc = "destroy"
        /\ now.todo = s.todo \ {r} /\ now.listed = s.listed /\ now.inst = s.inst
    BY <2>1 DEF SyncState
  <2>3. sync' = [sync EXCEPT ![p] = now] /\ repos' = [repos EXCEPT ![r] = None]
    BY <1>9 DEF DestroyRepo, SyncTypeOK
  <2>4. s.inst # None
    BY <2>1, SyncAssumption DEF AtWork
  <2> HIDE DEF now
  <2>5. Knows(s, repos) => Knows(now, repos')
    BY <2>1, <2>2, <2>3, <2>4 DEF Knows, RowsOf, SyncTypeOK
  <2> QED  BY <2>1, <2>2, <2>3, <2>5, OneAlone
<1>10. ASSUME NEW p \in Sync, Finish(p) \/ Abort(p) PROVE AloneKnows'
  <2>1. sync' = [sync EXCEPT ![p] = Resting] /\ UNCHANGED repos
    BY <1>10 DEF Finish, Abort, Aborted, Only, tables
  <2> QED  BY <2>1, AloneRests DEF SyncTypeOK
<1> QED  BY <1>1, <1>2, <1>3, <1>4, <1>5, <1>6, <1>7, <1>8, <1>9, <1>10
         DEF Step, NextSync, SyncStep, Install, Uninstall, Cover, FundIn, SignUp,
             ClaimInstallations, syncVars, tables

\* A sync that nothing overlapped leaves exactly the repositories that GitHub
\* listed, however many they are and wherever they were before
\* (installation_sync.rb 27-43).
THEOREM AloneExactly == SyncSpec => AloneIsExact
<1>1. SyncInv /\ AloneKnows /\ Step => AloneKnows'
  BY AloneStep
<1>2. ASSUME AloneKnows
      PROVE  \A p \in Sync : Finish(p) /\ sync[p].alone /\ sync[p].listed # {} =>
               {r \in Repo : repos[r] = sync[p].inst} = sync[p].listed
  BY <1>2 DEF AloneKnows, Knows, RowsOf, Finish, At
<1> QED  BY <1>1, <1>2, SyncInitially, SyncInvHolds, PTL DEF SyncSpec, Step, AloneIsExact

----------------------------------------------------------------------------
(* Wallets and comments. *)

Job == [pc : {"free", "create", "compose", "post"}, delivery : SUBSET Delivery,
        linked : BOOLEAN]

LinkTypeOK ==
  /\ links \in [Request -> {"none", "inactive", "active"}]
  /\ answered \subseteq Request
  /\ events \subseteq Delivery
  /\ jobs \in [Worker -> Job]
  /\ comments \in [Delivery -> Seq(BOOLEAN)]

\* The partial unique index: one active wallet per user at most.
OneActive ==
  \A q, o \in Request :
    Linker[q] = Linker[o] /\ links[q] = "active" /\ links[o] = "active" => q = o

\* Users with an active wallet.
Covered == {u \in Author : HasWallet(u)}

\* Whoever was told has a wallet, and keeps one.
ToldHaveWallet ==
  /\ \A q \in answered : Linker[q] \in Covered
  /\ \A w \in Worker : \A d \in jobs[w].delivery :
       jobs[w].pc = "post" /\ jobs[w].linked = TRUE => AuthorOf[d] \in Covered
  /\ \A d \in Delivery : \A i \in DOMAIN comments[d] :
       comments[d][i] = TRUE => AuthorOf[d] \in Covered

\* A job has one delivery.
OneDelivery == \A w \in Worker : \A d, e \in jobs[w].delivery : d = e

PromiseInv == LinkTypeOK /\ OneDelivery /\ OneActive /\ ToldHaveWallet

\* A job that is past its event and may still comment.
Commenting(w) == jobs[w].pc \in {"compose", "post"}

\* Such a job holds the event of its delivery, no other does, and nothing was
\* posted for it yet; a comment needs an event.
OneCommenter ==
  /\ \A w \in Worker : Commenting(w) =>
       \A d \in jobs[w].delivery : d \in events /\ comments[d] = <<>>
  /\ \A w, x \in Worker : \A d \in jobs[w].delivery \cap jobs[x].delivery :
       Commenting(w) /\ Commenting(x) => w = x
  /\ \A d \in Delivery \ events : comments[d] = <<>>

\* A delivery is commented on once.
OneEach == \A d \in Delivery : Len(comments[d]) <= 1

NudgeInv == LinkTypeOK /\ OneDelivery /\ OneCommenter /\ OneEach
----------------------------------------------------------------------------
\* The empty tables.
LEMMA LinksInit == InitLinks => PromiseInv /\ NudgeInv
<1> SUFFICES ASSUME InitLinks PROVE PromiseInv /\ NudgeInv
  OBVIOUS
<1>1. LinkTypeOK
  BY DEF InitLinks, LinkTypeOK, Free, Job
<1>5. OneDelivery
  BY DEF InitLinks, OneDelivery, Free
<1>2. OneActive
  BY DEF InitLinks, OneActive
<1>3. ToldHaveWallet
  BY DEF InitLinks, ToldHaveWallet, Free, Does
<1>4. OneCommenter /\ OneEach
  BY DEF InitLinks, OneCommenter, OneEach, Free, Commenting
<1> QED  BY <1>1, <1>2, <1>3, <1>4, <1>5 DEF PromiseInv, NudgeInv

\* Every step keeps the rows and the jobs well typed.
LEMMA LinksTypeStep == ASSUME LinkTypeOK, [NextLinks]_linkVars PROVE LinkTypeOK'
<1> USE DEF LinkTypeOK
<1>1. ASSUME NEW q \in Request, Link(q) PROVE LinkTypeOK'
  BY <1>1 DEF Link
<1>2. ASSUME NEW q \in Request, Activate(q) PROVE LinkTypeOK'
  BY <1>2 DEF Activate, Activated
<1>3. ASSUME NEW w \in Worker, NEW d \in Delivery, Pick(w, d) PROVE LinkTypeOK'
  BY <1>3 DEF Pick, Free, Job
<1>4. ASSUME NEW w \in Worker, CreateEvent(w) PROVE LinkTypeOK'
  <2>1. PICK d \in jobs[w].delivery :
          /\ events' = events \cup {d}
          /\ jobs' = [jobs EXCEPT ![w].pc = "compose"] \/ jobs' = [jobs EXCEPT ![w] = Free]
          /\ UNCHANGED <<links, answered, comments>>
    BY <1>4, Zenon DEF CreateEvent
  <2>2. CASE jobs' = [jobs EXCEPT ![w].pc = "compose"]
    BY <2>1, <2>2 DEF Job
  <2>3. CASE jobs' = [jobs EXCEPT ![w] = Free]
    BY <2>1, <2>3 DEF Job, Free
  <2> QED  BY <2>1, <2>2, <2>3
<1>5. ASSUME NEW w \in Worker, Compose(w) PROVE LinkTypeOK'
  <2>1. PICK d \in jobs[w].delivery :
          /\ jobs' = [jobs EXCEPT ![w].pc = "post", ![w].linked = HasWallet(AuthorOf[d])]
          /\ UNCHANGED <<links, answered, events, comments>>
    BY <1>5, Zenon DEF Compose
  <2> DEFINE h == HasWallet(AuthorOf[d])
  <2>2. h \in BOOLEAN
    BY DEF HasWallet
  <2> HIDE DEF h
  <2>3. jobs' = [jobs EXCEPT ![w].pc = "post", ![w].linked = h]
    BY <2>1 DEF h
  <2> DEFINE next == [jobs[w] EXCEPT !.pc = "post", !.linked = h]
  <2>4. next \in Job
    BY <2>2 DEF Job
  <2>5. jobs' = [jobs EXCEPT ![w] = next]
    BY <2>3
  <2> HIDE DEF next
  <2>6. jobs' \in [Worker -> Job]
    BY <2>4, <2>5
  <2> QED  BY <2>1, <2>6
<1>6. ASSUME NEW w \in Worker, Post(w) PROVE LinkTypeOK'
  <2>1. PICK d \in jobs[w].delivery :
          /\ comments' = [comments EXCEPT ![d] = Append(@, jobs[w].linked)]
          /\ jobs' = [jobs EXCEPT ![w] = Free]
          /\ UNCHANGED <<links, answered, events>>
    BY <1>6, Zenon DEF Post
  <2>2. d \in Delivery /\ jobs[w].linked \in BOOLEAN
    BY DEF Job
  <2>3. Append(comments[d], jobs[w].linked) \in Seq(BOOLEAN)
    BY <2>2
  <2>4. comments' \in [Delivery -> Seq(BOOLEAN)]
    BY <2>1, <2>2, <2>3
  <2>5. jobs' \in [Worker -> Job]
    BY <2>1 DEF Free, Job
  <2> QED  BY <2>1, <2>4, <2>5
<1>7. ASSUME NEW w \in Worker, Drop(w) PROVE LinkTypeOK'
  BY <1>7 DEF Drop, Free, Job
<1>8. CASE UNCHANGED linkVars
  BY <1>8 DEF linkVars
<1> QED  BY <1>1, <1>2, <1>3, <1>4, <1>5, <1>6, <1>7, <1>8 DEF NextLinks, JobStep

\* A job is about one delivery from beginning to end.
LEMMA DeliveryStep ==
  ASSUME LinkTypeOK, OneDelivery, [NextLinks]_linkVars PROVE OneDelivery'
<1>1. ASSUME NEW w \in Worker, NEW d \in Delivery, Pick(w, d) PROVE OneDelivery'
  <2>1. \A x \in Worker : jobs'[x].delivery = IF x = w THEN {d} ELSE jobs[x].delivery
    BY <1>1 DEF Pick, Free, LinkTypeOK, Job
  <2> QED  BY <2>1 DEF OneDelivery
<1>2. ASSUME NEW w \in Worker, CreateEvent(w) \/ Compose(w) \/ Post(w) \/ Drop(w)
      PROVE OneDelivery'
  <2>1. \A x \in Worker \ {w} : jobs'[x] = jobs[x]
    BY <1>2 DEF CreateEvent, Compose, Post, Drop, LinkTypeOK
  <2>2. jobs'[w].delivery \subseteq jobs[w].delivery
    <3>1. CASE jobs' = [jobs EXCEPT ![w] = Free]
      BY <3>1 DEF Free, LinkTypeOK
    <3>2. CASE jobs' = [jobs EXCEPT ![w].pc = "compose"]
      BY <3>2 DEF LinkTypeOK, Job
    <3>3. CASE Compose(w)
      BY <3>3 DEF Compose, LinkTypeOK, Job
    <3> QED  BY <1>2, <3>1, <3>2, <3>3 DEF CreateEvent, Post, Drop
  <2> QED  BY <2>1, <2>2 DEF OneDelivery
<1>3. CASE UNCHANGED jobs
  BY <1>3 DEF OneDelivery
<1> QED  BY <1>1, <1>2, <1>3 DEF NextLinks, JobStep, Link, Activate, linkVars

----------------------------------------------------------------------------
\* activate! leaves the index's condition, and takes nobody's only wallet.
LEMMA ActivateKeeps ==
  ASSUME LinkTypeOK, OneActive, NEW q \in Request, Activate(q)
  PROVE  OneActive' /\ Linker[q] \in Covered' /\ Covered \subseteq Covered'
<1>1. /\ links'[q] = "active"
      /\ \A o \in Request \ {q} :
           links'[o] = IF Linker[o] = Linker[q] /\ links[o] = "active" THEN "inactive"
                       ELSE links[o]
  BY DEF Activate, Activated, Mine, LinkTypeOK
<1>2. OneActive'
  BY <1>1 DEF OneActive
<1>3. Linker[q] \in Covered'
  BY <1>1, LinksAssumption DEF Covered, HasWallet
<1>4. Covered \subseteq Covered'
  BY <1>1 DEF Covered, HasWallet
<1> QED  BY <1>2, <1>3, <1>4

\* No step of a job or a request takes away what a promise rests on.
LEMMA PromiseStep == ASSUME PromiseInv, [NextLinks]_linkVars PROVE PromiseInv'
<1> USE DEF PromiseInv
<1>0. LinkTypeOK' /\ OneDelivery'
  BY LinksTypeStep, DeliveryStep
<1>1. ASSUME NEW q \in Request, Link(q) PROVE OneActive' /\ ToldHaveWallet'
  <2>1. \A o \in Request : links'[o] = "active" <=> links[o] = "active"
    BY <1>1 DEF Link, LinkTypeOK
  <2>2. OneActive' /\ Covered' = Covered
    BY <2>1 DEF OneActive, Covered, HasWallet
  <2> QED  BY <1>1, <2>2 DEF Link, ToldHaveWallet
<1>2. ASSUME NEW q \in Request, Activate(q) PROVE OneActive' /\ ToldHaveWallet'
  <2>1. OneActive' /\ Linker[q] \in Covered' /\ Covered \subseteq Covered'
    BY <1>2, ActivateKeeps
  <2>2. answered' = answered \cup {q} /\ jobs' = jobs /\ comments' = comments
    BY <1>2 DEF Activate
  <2> QED  BY <2>1, <2>2 DEF ToldHaveWallet
<1>3. ASSUME UNCHANGED links PROVE OneActive' /\ Covered' = Covered
  BY <1>3 DEF OneActive, Covered, HasWallet
<1>4. ASSUME NEW w \in Worker, NEW d \in Delivery, Pick(w, d) PROVE OneActive' /\ ToldHaveWallet'
  <2>1. \A x \in Worker : jobs'[x].pc = "post" => jobs'[x] = jobs[x]
    BY <1>4 DEF Pick, Free, LinkTypeOK
  <2> QED  BY <1>3, <1>4, <2>1 DEF Pick, ToldHaveWallet
<1>5. ASSUME NEW w \in Worker, CreateEvent(w) PROVE OneActive' /\ ToldHaveWallet'
  <2>1. \A x \in Worker : jobs'[x].pc = "post" => jobs'[x] = jobs[x]
    <3>1. CASE jobs' = [jobs EXCEPT ![w].pc = "compose"]
      BY <3>1 DEF LinkTypeOK, Job
    <3>2. CASE jobs' = [jobs EXCEPT ![w] = Free]
      BY <3>2 DEF Free, LinkTypeOK
    <3> QED  BY <1>5, <3>1, <3>2 DEF CreateEvent
  <2>2. UNCHANGED <<links, answered, comments>>
    BY <1>5 DEF CreateEvent
  <2> QED  BY <1>3, <2>1, <2>2 DEF ToldHaveWallet
<1>6. ASSUME NEW w \in Worker, Compose(w) PROVE OneActive' /\ ToldHaveWallet'
  <2>1. PICK d \in jobs[w].delivery :
          /\ jobs' = [jobs EXCEPT ![w].pc = "post", ![w].linked = HasWallet(AuthorOf[d])]
          /\ UNCHANGED <<links, answered, events, comments>>
    BY <1>6, Zenon DEF Compose
  <2>2. d \in Delivery /\ AuthorOf[d] \in Author
    BY LinksAssumption DEF LinkTypeOK, Job
  <2> DEFINE h == HasWallet(AuthorOf[d])
  <2>3. h = TRUE => AuthorOf[d] \in Covered
    BY <2>2 DEF Covered
  <2> HIDE DEF h
  <2>4. jobs' = [jobs EXCEPT ![w].pc = "post", ![w].linked = h]
    BY <2>1 DEF h
  <2>5. /\ \A x \in Worker \ {w} : jobs'[x] = jobs[x]
        /\ jobs'[w].delivery = jobs[w].delivery /\ jobs'[w].linked = h
    BY <2>4 DEF LinkTypeOK, Job
  <2>6. jobs[w].delivery = {d}
    BY <2>1 DEF OneDelivery
  <2> QED  BY <1>3, <2>1, <2>3, <2>5, <2>6 DEF ToldHaveWallet
<1>7. ASSUME NEW w \in Worker, Post(w) PROVE OneActive' /\ ToldHaveWallet'
  <2>1. PICK d \in jobs[w].delivery :
          /\ jobs[w].pc = "post"
          /\ comments' = [comments EXCEPT ![d] = Append(@, jobs[w].linked)]
          /\ jobs' = [jobs EXCEPT ![w] = Free]
          /\ UNCHANGED <<links, answered, events>>
    BY <1>7, Zenon DEF Post, Does
  <2> DEFINE l == jobs[w].linked
  <2>2. d \in Delivery /\ l \in BOOLEAN /\ comments[d] \in Seq(BOOLEAN)
    BY DEF LinkTypeOK, Job
  <2>3. l = TRUE => AuthorOf[d] \in Covered
    BY <2>1 DEF ToldHaveWallet
  <2> HIDE DEF l
  <2>4. \A x \in Worker : jobs'[x].pc = "post" => jobs'[x] = jobs[x]
    BY <2>1 DEF Free, LinkTypeOK
  <2>5. comments'[d] = Append(comments[d], l) /\ \A e \in Delivery \ {d} : comments'[e] = comments[e]
    BY <2>1, <2>2 DEF LinkTypeOK, l
  <2>6. \A i \in DOMAIN comments'[d] :
          comments'[d][i] = TRUE =>
            l = TRUE \/ \E j \in DOMAIN comments[d] : comments[d][j] = TRUE
    BY <2>2, <2>5
  <2>7. \A e \in Delivery : \A i \in DOMAIN comments'[e] :
          comments'[e][i] = TRUE => AuthorOf[e] \in Covered
    BY <2>3, <2>5, <2>6 DEF ToldHaveWallet
  <2> QED  BY <1>3, <2>1, <2>4, <2>7 DEF ToldHaveWallet
<1>8. ASSUME NEW w \in Worker, Drop(w) PROVE OneActive' /\ ToldHaveWallet'
  <2>1. \A x \in Worker : jobs'[x].pc = "post" => jobs'[x] = jobs[x]
    BY <1>8 DEF Drop, Free, LinkTypeOK
  <2> QED  BY <1>3, <1>8, <2>1 DEF Drop, ToldHaveWallet
<1>9. CASE UNCHANGED linkVars
  BY <1>0, <1>3, <1>9 DEF linkVars, ToldHaveWallet
<1> QED  BY <1>0, <1>1, <1>2, <1>4, <1>5, <1>6, <1>7, <1>8, <1>9 DEF NextLinks, JobStep

----------------------------------------------------------------------------
\* A step that changes no comment and no event, and takes no job to a comment.
LEMMA NudgeKept ==
  ASSUME OneCommenter, OneEach, UNCHANGED <<events, comments>>,
         \A x \in Worker : Commenting(x)' => Commenting(x) /\ jobs'[x].delivery = jobs[x].delivery
  PROVE  OneCommenter' /\ OneEach'
<1>1. OneEach'
  BY DEF OneEach
<1>2. \A w \in Worker : Commenting(w)' =>
        \A d \in jobs'[w].delivery : d \in events' /\ comments'[d] = <<>>
  BY DEF OneCommenter
<1>3. \A w, x \in Worker : \A d \in jobs'[w].delivery \cap jobs'[x].delivery :
        Commenting(w)' /\ Commenting(x)' => w = x
  BY DEF OneCommenter
<1> QED  BY <1>1, <1>2, <1>3 DEF OneCommenter

\* Of the jobs of one delivery only the one that created its event comments.
LEMMA NudgeStep == ASSUME NudgeInv, [NextLinks]_linkVars PROVE NudgeInv'
<1> USE DEF NudgeInv
<1>0. LinkTypeOK' /\ OneDelivery'
  BY LinksTypeStep, DeliveryStep
<1>1. CASE UNCHANGED <<jobs, events, comments>>
  BY <1>0, <1>1, NudgeKept DEF Commenting
<1>2. ASSUME NEW w \in Worker, NEW d \in Delivery, Pick(w, d) PROVE OneCommenter' /\ OneEach'
  <2>1. \A x \in Worker : Commenting(x)' => jobs'[x] = jobs[x]
    BY <1>2 DEF Pick, Free, LinkTypeOK, Commenting
  <2>2. UNCHANGED <<events, comments>>
    BY <1>2 DEF Pick
  <2> QED  BY <2>1, <2>2, NudgeKept DEF Commenting
<1>3. ASSUME NEW w \in Worker, CreateEvent(w) PROVE OneCommenter' /\ OneEach'
  <2>1. PICK d \in jobs[w].delivery :
          /\ jobs[w].pc = "create"
          /\ d \notin events
          /\ events' = events \cup {d}
          /\ jobs' = [jobs EXCEPT ![w].pc = "compose"] \/ jobs' = [jobs EXCEPT ![w] = Free]
          /\ UNCHANGED <<links, answered, comments>>
    BY <1>3, Zenon DEF CreateEvent, Does, Fresh
  <2>2. d \in Delivery /\ jobs[w].delivery = {d}
    BY <2>1 DEF LinkTypeOK, Job, OneDelivery
  <2>3. OneEach'
    BY <2>1 DEF OneEach
  <2>4. \A x \in Worker \ {w} : jobs'[x] = jobs[x]
    BY <2>1 DEF LinkTypeOK
  <2>5. jobs'[w].delivery \subseteq {d}
    <3>1. CASE jobs' = [jobs EXCEPT ![w].pc = "compose"]
      BY <2>2, <3>1 DEF LinkTypeOK, Job
    <3>2. CASE jobs' = [jobs EXCEPT ![w] = Free]
      BY <3>2 DEF Free, LinkTypeOK
    <3> QED  BY <2>1, <3>1, <3>2
  <2>6. comments[d] = <<>>
    BY <2>1, <2>2 DEF OneCommenter
  <2>7. \A x \in Worker \ {w} : Commenting(x) => d \notin jobs[x].delivery
    BY <2>1 DEF OneCommenter
  <2>8. \A x \in Worker : Commenting(x)' =>
          \A e \in jobs'[x].delivery : e \in events' /\ comments'[e] = <<>>
    BY <2>1, <2>4, <2>5, <2>6 DEF OneCommenter, Commenting
  <2>9. \A x, y \in Worker : \A e \in jobs'[x].delivery \cap jobs'[y].delivery :
          Commenting(x)' /\ Commenting(y)' => x = y
    BY <2>4, <2>5, <2>7 DEF OneCommenter, Commenting
  <2> QED  BY <2>1, <2>3, <2>8, <2>9 DEF OneCommenter
<1>4. ASSUME NEW w \in Worker, Compose(w) PROVE OneCommenter' /\ OneEach'
  <2>1. PICK d \in jobs[w].delivery :
          /\ jobs[w].pc = "compose"
          /\ jobs' = [jobs EXCEPT ![w].pc = "post", ![w].linked = HasWallet(AuthorOf[d])]
          /\ UNCHANGED <<links, answered, events, comments>>
    BY <1>4, Zenon DEF Compose, Does
  <2>2. jobs'[w].delivery = jobs[w].delivery /\ \A x \in Worker \ {w} : jobs'[x] = jobs[x]
    BY <2>1 DEF LinkTypeOK, Job
  <2> QED  BY <2>1, <2>2, NudgeKept DEF Commenting
<1>5. ASSUME NEW w \in Worker, Post(w) PROVE OneCommenter' /\ OneEach'
  <2>1. PICK d \in jobs[w].delivery :
          /\ jobs[w].pc = "post"
          /\ comments' = [comments EXCEPT ![d] = Append(@, jobs[w].linked)]
          /\ jobs' = [jobs EXCEPT ![w] = Free]
          /\ UNCHANGED <<links, answered, events>>
    BY <1>5, Zenon DEF Post, Does
  <2>2. d \in Delivery /\ jobs[w].linked \in BOOLEAN
    BY DEF LinkTypeOK, Job
  <2>3. d \in events /\ comments[d] = <<>>
    BY <2>1 DEF OneCommenter, Commenting
  <2>4. \A x \in Worker : x # w /\ Commenting(x) => d \notin jobs[x].delivery
    BY <2>1 DEF OneCommenter, Commenting
  <2>5. \A x \in Worker : Commenting(x)' => x # w /\ jobs'[x] = jobs[x] /\ Commenting(x)
    BY <2>1 DEF Commenting, Free, LinkTypeOK
  <2>6. comments'[d] = Append(comments[d], jobs[w].linked)
        /\ \A e \in Delivery \ {d} : comments'[e] = comments[e]
    BY <2>1, <2>2 DEF LinkTypeOK
  <2>7. Len(comments'[d]) = 1
    BY <2>2, <2>3, <2>6
  <2>8. OneEach'
    BY <2>6, <2>7 DEF OneEach
  <2>9. \A x \in Worker : jobs[x].delivery \subseteq Delivery
    BY DEF LinkTypeOK, Job
  <2>10. \A x \in Worker : Commenting(x)' =>
           \A e \in jobs'[x].delivery : e \in events' /\ comments'[e] = <<>>
    BY <2>1, <2>4, <2>5, <2>6, <2>9 DEF OneCommenter
  <2>11. \A x, y \in Worker : \A e \in jobs'[x].delivery \cap jobs'[y].delivery :
          Commenting(x)' /\ Commenting(y)' => x = y
    BY <2>5 DEF OneCommenter
  <2>12. \A e \in Delivery \ events' : comments'[e] = <<>>
    BY <2>1, <2>3, <2>6 DEF OneCommenter
  <2> QED  BY <2>8, <2>10, <2>11, <2>12 DEF OneCommenter
<1>6. ASSUME NEW w \in Worker, Drop(w) PROVE OneCommenter' /\ OneEach'
  <2>1. \A x \in Worker : Commenting(x)' => jobs'[x] = jobs[x]
    BY <1>6 DEF Drop, Free, LinkTypeOK, Commenting
  <2>2. UNCHANGED <<events, comments>>
    BY <1>6 DEF Drop
  <2> QED  BY <2>1, <2>2, NudgeKept DEF Commenting
<1> QED  BY <1>0, <1>1, <1>2, <1>3, <1>4, <1>5, <1>6
         DEF NextLinks, JobStep, Link, Activate, linkVars

----------------------------------------------------------------------------
\* Redelivered webhooks and concurrent workers: a webhook delivery leads to
\* one comment at most, and to none before its event is on record
\* (process_pull_request_opened_job.rb 8).
THEOREM CommentsPerDelivery == LinksSpec => []NudgedPerDelivery
<1>1. NudgeInv => NudgedPerDelivery
  BY DEF NudgeInv, OneCommenter, OneEach, NudgedPerDelivery
<1> QED  BY <1>1, LinksInit, NudgeStep, PTL DEF LinksSpec

\* A user who has a wallet, under the index, has exactly one.
LEMMA ExactlyOne ==
  ASSUME OneActive, NEW u \in Covered
  PROVE  Cardinality(ActiveOf(u)) = 1
<1>1. PICK q \in Request : Linker[q] = u /\ links[q] = "active"
  BY DEF Covered, HasWallet
<1>2. ActiveOf(u) = {q}
  BY <1>1 DEF OneActive, ActiveOf
<1> QED  BY <1>2, FS_Singleton

\* However wallets are linked at once and whenever a request dies, an author
\* who was promised a payout, and a user who was told that a wallet is linked,
\* has exactly one active wallet (wallet_link.rb 11-17).
THEOREM PromisesKept == LinksSpec => []PromiseKept
<1>1. PromiseInv => PromiseKept
  <2> SUFFICES ASSUME PromiseInv PROVE PromiseKept
    OBVIOUS
  <2>1. ASSUME NEW d \in Delivery, NEW i \in DOMAIN comments[d], comments[d][i]
        PROVE Cardinality(ActiveOf(AuthorOf[d])) = 1
    <3>1. comments[d] \in Seq(BOOLEAN)
      BY DEF PromiseInv, LinkTypeOK
    <3>2. comments[d][i] \in BOOLEAN
      BY <3>1
    <3>3. comments[d][i] = TRUE
      BY <2>1, <3>2
    <3> QED  BY <3>3, ExactlyOne DEF PromiseInv, ToldHaveWallet
  <2>2. ASSUME NEW q \in answered PROVE Cardinality(ActiveOf(Linker[q])) = 1
    BY ExactlyOne DEF PromiseInv, ToldHaveWallet
  <2> QED  BY <2>1, <2>2 DEF PromiseKept
<1> QED  BY <1>1, LinksInit, PromiseStep, PTL DEF LinksSpec
=============================================================================

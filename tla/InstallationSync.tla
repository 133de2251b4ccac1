--------------------------- MODULE InstallationSync ---------------------------
(***************************************************************************)
(* The rows of installations and their repositories:                       *)
(* platform/app/services/github/installation_sync.rb, run by               *)
(* sync_installation_job.rb (webhook) and installations_controller.rb      *)
(* (callback after an install), uninstalls, and the sign-in that adopts    *)
(* installations (user.rb, sessions_controller.rb).                        *)
(*                                                                         *)
(* Syncs run on web and worker threads and overlap; each is cut at every   *)
(* read and write of GitHub and of the database.  An update writes only    *)
(* the columns that differ from what the sync read.  Rows are named by     *)
(* GitHub's ids.                                                           *)
(***************************************************************************)
EXTENDS FiniteSets, Naturals

CONSTANTS
  Sync,           \* threads that may run a sync
  Installation, Repo, User, None, Missing,
  AccountOf,      \* the user whose own account it is installed on, if any
  PerPage,        \* repositories in the one page that is read
  MaxMoves        \* bound on what changes on GitHub

ASSUME SyncAssumption ==
  /\ None \notin User \cup Installation /\ Missing \notin User \cup {None}
  /\ AccountOf \in [Installation -> User \cup {None}]
  /\ PerPage \in Nat \ {0} /\ MaxMoves \in Nat

VARIABLES
  covers,     \* GitHub: the installation that covers each repository
  installed,  \* GitHub: installations there are
  moves,      \* GitHub: how often it changed
  users,      \* users table
  installs,   \* installations table: who installed it, None or Missing
  repos,      \* repositories table: the installation it belongs to, or None
  bountied,   \* repositories with rows in bounties
  sync        \* what each sync is doing

github   == <<covers, installed, moves>>
tables   == <<users, installs, repos, bountied>>
syncVars == <<github, tables, sync>>

Resting == [pc |-> "rest", inst |-> None, installer |-> None, row |-> Missing,
            listed |-> {}, todo |-> {}, repo |-> None, found |-> None, alone |-> FALSE]

InitSync ==
  /\ installed \in SUBSET Installation
  /\ covers \in [Repo -> installed \cup {None}]
  /\ moves = 0
  /\ users = {}
  /\ installs = [i \in Installation |-> Missing]
  /\ repos = [r \in Repo |-> None]
  /\ bountied = {}
  /\ sync = [p \in Sync |-> Resting]

----------------------------------------------------------------------------
(* GitHub and the users. *)

Moves ==
  /\ moves < MaxMoves
  /\ moves' = moves + 1

Install(i) ==
  /\ Moves
  /\ i \notin installed
  /\ installed' = installed \cup {i}
  /\ UNCHANGED <<covers, tables, sync>>

Uninstall(i) ==
  /\ Moves
  /\ i \in installed
  /\ installed' = installed \ {i}
  /\ covers' = [r \in Repo |-> IF covers[r] = i THEN None ELSE covers[r]]
  /\ UNCHANGED <<tables, sync>>

\* A repository is added, revoked, or transferred to another owner.
Cover(r, i) ==
  /\ Moves
  /\ i \in (installed \cup {None}) \ {covers[r]}
  /\ covers' = [covers EXCEPT ![r] = i]
  /\ UNCHANGED <<installed, tables, sync>>

\* BountiesController#create needs the repository's row.
FundIn(r) ==
  /\ repos[r] # None
  /\ bountied' = bountied \cup {r}
  /\ UNCHANGED <<github, users, installs, repos, sync>>

\* from_github_auth.
SignUp(u) ==
  /\ users' = users \cup {u}
  /\ UNCHANGED <<github, installs, repos, bountied, sync>>

\* claim_installations!, at the end of every sign-in: one statement.
ClaimInstallations(u) ==
  /\ u \in users
  /\ installs' = [i \in Installation |->
                    IF AccountOf[i] = u /\ installs[i] = None THEN u ELSE installs[i]]
  /\ UNCHANGED <<github, users, repos, bountied, sync>>

----------------------------------------------------------------------------
(* One sync. *)

At(p, pc) == sync[p].pc = pc

\* What p knows, changed; everybody's rows stay.
Only(p, now) ==
  /\ sync' = [sync EXCEPT ![p] = now]
  /\ UNCHANGED <<github, tables>>

\* Mutant: an error keeps the thread.
AbortedStuck(p) == sync' = [sync EXCEPT ![p].pc = "failed"]

Aborted(p) == sync' = [sync EXCEPT ![p] = Resting]

\* An error of GitHub or of a row, or the end of the process; never retried.
Abort(p) ==
  /\ ~ At(p, "rest")
  /\ Aborted(p)
  /\ UNCHANGED <<github, tables>>

\* A job looks up the webhook's sender, the callback has the user; then the
\* installation is read from GitHub.
Begin(p, i, sender) ==
  /\ At(p, "rest")
  /\ i \in installed
  /\ sync' = [q \in Sync |->
       IF q = p THEN [Resting EXCEPT !.pc = "find", !.inst = i,
                                     !.installer = IF sender \in users THEN sender ELSE None,
                                     !.alone = \A o \in Sync \ {p} : At(o, "rest")]
       ELSE [sync[q] EXCEPT !.alone = FALSE]]
  /\ UNCHANGED <<github, tables>>

FindInstall(p) ==
  /\ At(p, "find")
  /\ Only(p, [sync[p] EXCEPT !.pc = "save", !.row = installs[sync[p].inst]])

\* Mutant: the whole row is written, as the sync has it.
SavedWhole(row, current, installer) == IF row \in {Missing, None} THEN installer ELSE row

\* The row after save!: an installer is written only where the sync found none.
Saved(row, current, installer) ==
  IF row = Missing THEN installer
  ELSE IF row = None /\ installer # None /\ current # Missing THEN installer
  ELSE current

\* save!: a second row of the same installation is refused.
SaveInstall(p) ==
  LET s == sync[p]
  IN  /\ At(p, "save")
      /\ s.row = Missing => installs[s.inst] = Missing
      /\ installs' = [installs EXCEPT ![s.inst] = Saved(s.row, @, s.installer)]
      /\ sync' = [sync EXCEPT ![p].pc = "list", ![p].row = Missing, ![p].installer = None]
      /\ UNCHANGED <<github, users, repos, bountied>>

\* The first page of what the installation covers.
ListRepos(p) ==
  LET covered == {r \in Repo : covers[r] = sync[p].inst}
  IN  /\ At(p, "list")
      /\ sync[p].inst \in installed
      /\ \E page \in SUBSET covered :
           /\ page = covered \/ Cardinality(page) = PerPage
           /\ Cardinality(page) <= PerPage
           /\ Only(p, [sync[p] EXCEPT !.pc = "repos", !.listed = page, !.todo = page])

FindRepo(p, r) ==
  /\ At(p, "repos")
  /\ r \in sync[p].todo
  /\ Only(p, [sync[p] EXCEPT !.pc = "repo", !.repo = r, !.found = repos[r], !.todo = @ \ {r}])

\* Mutant: a repository that is already known stays where it is.
MovedNever(found, current, i) == IF found = None THEN i ELSE current

\* The row after save!: a repository found elsewhere moves to this installation.
Moved(found, current, i) ==
  IF found = None \/ (found # i /\ current # None) THEN i ELSE current

\* Mutant: the database lets a repository point at no installation.
ReferencesAnything(i) == TRUE

\* The foreign key of repositories.
References(i) == installs[i] # Missing

SaveRepo(p) ==
  LET s == sync[p]
      r == s.repo
      after == Moved(s.found, repos[r], s.inst)
  IN  /\ At(p, "repo")
      /\ s.found = None => repos[r] = None
      /\ after # repos[r] => References(s.inst)
      /\ repos' = [repos EXCEPT ![r] = after]
      /\ sync' = [sync EXCEPT ![p].pc = "repos", ![p].repo = None, ![p].found = None]
      /\ UNCHANGED <<github, users, installs, bountied>>

\* The rows that are no longer covered; none if the page was empty.
FindRevoked(p) ==
  LET s == sync[p]
  IN  /\ At(p, "repos") /\ s.todo = {}
      /\ Only(p, [s EXCEPT !.pc = "destroy",
                           !.todo = IF s.listed = {} THEN {}
                                    ELSE {r \in Repo : repos[r] = s.inst} \ s.listed])

\* Each by its id, in a transaction of its own; one with bounties raises.
DestroyRepo(p, r) ==
  /\ At(p, "destroy")
  /\ r \in sync[p].todo \ bountied
  /\ repos' = [repos EXCEPT ![r] = None]
  /\ sync' = [sync EXCEPT ![p].todo = @ \ {r}]
  /\ UNCHANGED <<github, users, installs, bountied>>

Finish(p) ==
  /\ At(p, "destroy") /\ sync[p].todo = {}
  /\ Only(p, Resting)

\* The webhook of an uninstall: the installation with all its repositories,
\* in one transaction, or nothing.
DestroyInstall(i) ==
  /\ i \notin installed
  /\ installs[i] # Missing
  /\ \A r \in bountied : repos[r] # i
  /\ installs' = [installs EXCEPT ![i] = Missing]
  /\ repos' = [r \in Repo |-> IF repos[r] = i THEN None ELSE repos[r]]
  /\ sync' = [p \in Sync |-> [sync[p] EXCEPT !.alone = FALSE]]
  /\ UNCHANGED <<github, users, bountied>>

----------------------------------------------------------------------------
SyncStep(p) ==
  \/ \E i \in Installation, u \in User : Begin(p, i, u)
  \/ FindInstall(p) \/ SaveInstall(p) \/ ListRepos(p) \/ SaveRepo(p)
  \/ \E r \in Repo : FindRepo(p, r) \/ DestroyRepo(p, r)
  \/ FindRevoked(p) \/ Finish(p) \/ Abort(p)

NextSync ==
  \/ \E p \in Sync : SyncStep(p)
  \/ \E i \in Installation : Install(i) \/ Uninstall(i) \/ DestroyInstall(i)
  \/ \E r \in Repo : FundIn(r) \/ \E i \in Installation \cup {None} : Cover(r, i)
  \/ \E u \in User : SignUp(u) \/ ClaimInstallations(u)

SyncSpec == InitSync /\ [][NextSync]_syncVars
----------------------------------------------------------------------------
SyncState ==
  [pc : {"rest", "find", "save", "list", "repos", "repo", "destroy"},
   inst : Installation \cup {None}, installer : User \cup {None},
   row : User \cup {None, Missing}, listed : SUBSET Repo, todo : SUBSET Repo,
   repo : Repo \cup {None}, found : Installation \cup {None}, alone : BOOLEAN]

SyncTypeOK ==
  /\ covers \in [Repo -> Installation \cup {None}]
  /\ installed \subseteq Installation
  /\ moves \in 0..MaxMoves
  /\ users \subseteq User
  /\ installs \in [Installation -> User \cup {None, Missing}]
  /\ repos \in [Repo -> Installation \cup {None}]
  /\ bountied \subseteq Repo
  /\ sync \in [Sync -> SyncState]

(* Whatever syncs, uninstalls and transfers overlap, each repository belongs *)
(* to an installation that exists, and a repository with bounties is there:  *)
(* the payout of a merge goes through both (pull_request_resolver.rb,        *)
(* restrict_with_exception of repository.rb and the foreign keys).           *)
NoOrphans ==
  /\ \A r \in Repo : repos[r] # None => installs[repos[r]] # Missing
  /\ \A r \in bountied : repos[r] # None

(* Someone who is linked to an installation loses it only to an uninstall or *)
(* to the installer of a sync that read the row while nobody was linked: a   *)
(* sync that knows no installer takes it from nobody, and one that read a    *)
(* linked row changes nothing.  "A later re-sync never clobbers the          *)
(* original" (installation_sync.rb 17-18) is therefore true of a sync that   *)
(* reads the row later, and not of two that read it before either saves, or  *)
(* of a sign-in that adopts the installation in between (user.rb 19-25).     *)
LinkedStaysLinked ==
  [][\A i \in Installation : installs[i] \in User /\ installs'[i] # installs[i] =>
       \/ installs'[i] = Missing /\ i \notin installed
       \/ \E p \in Sync : /\ At(p, "save") /\ sync[p].inst = i /\ sync[p].row = None
                          /\ installs'[i] = sync[p].installer /\ installs'[i] \in User]_syncVars

(* A sync that no other sync or uninstall overlapped, and that comes to its  *)
(* end, leaves exactly the repositories of the page that GitHub listed:      *)
(* added ones are there, transferred ones have moved here, revoked ones are  *)
(* gone, and so are those of a second page (installation_sync.rb 27-43).  An *)
(* empty list is the exception: then the code removes nothing.               *)
AloneIsExact ==
  [][\A p \in Sync : Finish(p) /\ sync[p].alone /\ sync[p].listed # {} =>
       {r \in Repo : repos[r] = sync[p].inst} = sync[p].listed]_syncVars
=============================================================================

----------------------------- MODULE WalletLinks -----------------------------
(***************************************************************************)
(* Payout wallets (platform/app/models/wallet_link.rb,                     *)
(* controllers/wallets_controller.rb) and the comment that promises them:  *)
(* jobs/process_pull_request_opened_job.rb, which tells the author of an   *)
(* opened or reopened pull request whether a merge will pay.               *)
(*                                                                         *)
(* A link is named by the request that created it, an event by the         *)
(* delivery of its webhook.  activate! is one transaction, and the         *)
(* database runs one writing transaction at a time.                        *)
(***************************************************************************)
EXTENDS FiniteSets, Naturals, Sequences

CONSTANTS
  Request, Author, Delivery, Worker,   \* an author is a user
  Linker,     \* the user of each request
  AuthorOf    \* the author of the pull request that each delivery is about

ASSUME LinksAssumption ==
  /\ Linker \in [Request -> Author]
  /\ AuthorOf \in [Delivery -> Author]

VARIABLES
  links,      \* wallet_links: the status of each row
  answered,   \* requests that were told their wallet is linked
  events,     \* pull_request_events
  jobs,       \* what the workers of opened jobs are doing
  comments    \* per delivery, the comments posted: whether each promises

linkVars == <<links, answered, events, jobs, comments>>

Free == [pc |-> "free", delivery |-> {}, linked |-> FALSE]

InitLinks ==
  /\ links = [q \in Request |-> "none"]
  /\ answered = {}
  /\ events = {}
  /\ jobs = [w \in Worker |-> Free]
  /\ comments = [d \in Delivery |-> <<>>]

----------------------------------------------------------------------------
\* wallet.save: always inactive at first.
Link(q) ==
  /\ links[q] = "none"
  /\ links' = [links EXCEPT ![q] = "inactive"]
  /\ UNCHANGED <<answered, events, jobs, comments>>

Mine(q) == {o \in Request : Linker[o] = Linker[q]}

\* Mutant: the others are deactivated, and the new one is left for later.
Deactivated(q) ==
  [o \in Request |-> IF o \in Mine(q) /\ links[o] = "active" THEN "inactive" ELSE links[o]]

\* activate!: the user's others off, this one on.
Activated(q) ==
  [o \in Request |-> IF o = q THEN "active"
                     ELSE IF o \in Mine(q) /\ links[o] = "active" THEN "inactive"
                     ELSE links[o]]

\* A request that died in between never does this: its row stays inactive.
Activate(q) ==
  /\ links[q] = "inactive" /\ q \notin answered
  /\ links' = Activated(q)
  /\ answered' = answered \cup {q}
  /\ UNCHANGED <<events, jobs, comments>>

----------------------------------------------------------------------------
Does(w, pc) == jobs[w].pc = pc

\* A delivery or a redelivery whose event is not there yet.
Pick(w, d) ==
  /\ Does(w, "free")
  /\ d \notin events
  /\ jobs' = [jobs EXCEPT ![w] = [Free EXCEPT !.pc = "create", !.delivery = {d}]]
  /\ UNCHANGED <<links, answered, events, comments>>

\* Mutant: the event is recorded again.
FreshAlways(d) == TRUE

\* The unique index over delivery ids.
Fresh(d) == d \notin events

\* PullRequestEvent.create!, and the end of a job without a funded bounty.
CreateEvent(w) ==
  \E d \in jobs[w].delivery :
    /\ Does(w, "create")
    /\ Fresh(d)
    /\ events' = events \cup {d}
    /\ \/ jobs' = [jobs EXCEPT ![w].pc = "compose"]
       \/ jobs' = [jobs EXCEPT ![w] = Free]
    /\ UNCHANGED <<links, answered, comments>>

\* wallet_linked?
HasWallet(u) == \E q \in Request : Linker[q] = u /\ links[q] = "active"

\* nudge_body: reads the author's wallet.
Compose(w) ==
  \E d \in jobs[w].delivery :
    /\ Does(w, "compose")
    /\ jobs' = [jobs EXCEPT ![w].pc = "post", ![w].linked = HasWallet(AuthorOf[d])]
    /\ UNCHANGED <<links, answered, events, comments>>

\* post_comment.
Post(w) ==
  \E d \in jobs[w].delivery :
    /\ Does(w, "post")
    /\ comments' = [comments EXCEPT ![d] = Append(@, jobs[w].linked)]
    /\ jobs' = [jobs EXCEPT ![w] = Free]
    /\ UNCHANGED <<links, answered, events>>

\* GitHub or the database fails, or the worker dies; never retried.
Drop(w) ==
  /\ ~ Does(w, "free")
  /\ jobs' = [jobs EXCEPT ![w] = Free]
  /\ UNCHANGED <<links, answered, events, comments>>

JobStep(w) ==
  \/ \E d \in Delivery : Pick(w, d)
  \/ CreateEvent(w) \/ Compose(w) \/ Post(w) \/ Drop(w)

NextLinks ==
  \/ \E q \in Request : Link(q) \/ Activate(q)
  \/ \E w \in Worker : JobStep(w)

LinksSpec == InitLinks /\ [][NextLinks]_linkVars
----------------------------------------------------------------------------
ActiveOf(u) == {q \in Request : Linker[q] = u /\ links[q] = "active"}

(* "Will disburse automatically to your linked wallet" stays true however    *)
(* long ago it was read and however many wallets are linked at once: an      *)
(* author who was promised has exactly one active wallet whenever the payout *)
(* looks, so a replacement never leaves a moment without one                 *)
(* (process_pull_request_opened_job.rb 35-41, wallet_link.rb 11-17,          *)
(* wallets_controller.rb 12-17).  So has everyone who was told that a wallet *)
(* is linked.                                                                *)
PromiseKept ==
  /\ \A d \in Delivery : \A i \in DOMAIN comments[d] :
       comments[d][i] => Cardinality(ActiveOf(AuthorOf[d])) = 1
  /\ \A q \in answered : Cardinality(ActiveOf(Linker[q])) = 1

(* However often GitHub redelivers a webhook and however many workers hold   *)
(* it, it leads to one comment at most, and to none before its event is on   *)
(* record (process_pull_request_opened_job.rb 8, pull_request_event.rb).     *)
(* This is per delivery: a pull request that is closed and reopened is       *)
(* delivered anew and commented on again (webhooks_controller.rb 44-45).     *)
NudgedPerDelivery ==
  \A d \in Delivery : Len(comments[d]) <= IF d \in events THEN 1 ELSE 0
=============================================================================

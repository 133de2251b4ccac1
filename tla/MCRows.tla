------------------------------- MODULE MCRows -------------------------------
(***************************************************************************)
(* A small instance of the tables kept beside the chain: installations and *)
(* repositories, or wallets and comments.  The two share no row, so a      *)
(* behaviour moves one of them and leaves the other at rest.  Of the       *)
(* first, it has two overlapping syncs of two repositories and one user,   *)
(* two users and one repository, or one sync at a time, nobody signed up   *)
(* and one repository more than fits on a page.                            *)
(***************************************************************************)
EXTENDS InstallationSync, WalletLinks, TLC

CONSTANTS i1, i2, u1, u2, r1, r2, r3, s1, s2, q1, q2, q3, d1, d2, p1, p2

VARIABLE part

vars == <<part, syncVars, linkVars>>

Covered == {r \in Repo : covers[r] # None}

Small ==
  /\ part = "repositories" => u2 \notin users /\ r3 \notin Covered
  /\ part = "installers" => Cardinality(Covered) <= 1 /\ r3 \notin Covered
  /\ part = "pages" => users = {} /\ Cardinality({p \in Sync : sync[p].pc # "rest"}) <= 1

Init ==
  /\ part \in {"repositories", "installers", "pages", "links"}
  /\ InitSync /\ InitLinks /\ Small

Next ==
  \/ part # "links" /\ NextSync /\ UNCHANGED <<part, linkVars>> /\ Small'
  \/ part = "links" /\ NextLinks /\ UNCHANGED <<part, syncVars>>

Spec == Init /\ [][Next]_vars

\* i1 is on the account of u1, i2 on an organisation's.
OwnFirst  == [i \in Installation |-> IF i = i1 THEN u1 ELSE None]
\* u1 links two wallets, u2 one.
TwoOfU1   == [q \in Request |-> IF q = q3 THEN u2 ELSE u1]
EachOpens == [d \in Delivery |-> IF d = d1 THEN u1 ELSE u2]
\* Nothing tells the first two repositories, threads or workers apart.
Alike     == Permutations(Repo \ {r3}) \cup Permutations(Sync) \cup Permutations(Worker)
=============================================================================

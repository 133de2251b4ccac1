--------------------------- MODULE MCEventIndexer ---------------------------
(***************************************************************************)
(* Small instances of the mirror.                                          *)
(***************************************************************************)
EXTENDS EventIndexer

CONSTANTS r1, r2

\* Both bounties are on the same issue: the contract allows it, the database
\* one at a time.
SameIssue  == [r \in Row |-> "issue"]
=============================================================================

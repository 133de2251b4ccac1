--------------------------- MODULE MCDisbursement ---------------------------
(***************************************************************************)
(* Small instances of the payout pipeline.                                 *)
(***************************************************************************)
EXTENDS Disbursement, TLC

CONSTANTS d1, d2, b1, b2, alice, bob, w1, w2, p1, p2

\* Workers are alike; sound for safety, so not used where liveness is checked.
Alike == Permutations(Worker)

\* Two pull requests of two authors, both closing the issue of b1.
BothCloseB1 == [d \in Delivery |-> {b1}]

\* The first one also closes the issue of b2, whose branch it misses.
FirstClosesBoth == [d \in Delivery |-> IF d = d1 THEN {b1, b2} ELSE {b1}]
BothIntoB1      == [d \in Delivery |-> {b1}]

ByAuthor   == [d \in Delivery |-> IF d = d1 THEN alice ELSE bob]
\* Each author has a wallet of his own.
OwnWallet == [u \in User |-> IF u = alice THEN {w1} ELSE {w2}]
AnyWallet == [u \in User |-> Wallet]

BySame     == [d \in Delivery |-> alice]
Deadlines  == [b \in Bounty |-> IF b = b1 THEN 1 ELSE 2]
Later      == [b \in Bounty |-> 2]
NoDeadline == [b \in Bounty |-> MaxTime + 1]

\* The server's clock may be one unit behind or ahead.
EitherWay == {-1, 0, 1}
=============================================================================

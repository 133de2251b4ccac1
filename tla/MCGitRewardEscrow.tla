------------------------- MODULE MCGitRewardEscrow -------------------------
(***************************************************************************)
(* Small instances of the escrow contract.  Amounts of 2 and 3 tokens with *)
(* a fee of 4 in 10 give a fee of 0 (nothing is sent to the treasury) and  *)
(* of 1, both rounded down; of the expiries 1 and 2 the first is too short *)
(* for a call made at 1, and both are for one made at 2.                   *)
(***************************************************************************)
EXTENDS GitRewardEscrow

CONSTANTS alice, bob, escrow, zero, k1, k2, nokey, here, elsewhere

\* Signatures in circulation: the oracle's for both ids, one by a key the
\* owner may rotate to, one for a deployment on another chain, one for the
\* escrow itself.
Attestations ==
  {[signer |-> k1, domain |-> here,      bountyId |-> 1, recipient |-> bob],
   [signer |-> k2, domain |-> here,      bountyId |-> 1, recipient |-> alice],
   [signer |-> k1, domain |-> elsewhere, bountyId |-> 2, recipient |-> alice],
   [signer |-> k1, domain |-> here,      bountyId |-> 2, recipient |-> escrow]}

StartBalance == [a \in Party \cup {Escrow} |-> IF a = alice THEN 5 ELSE 0]

SmallBalance == [a \in Party \cup {Escrow} |-> IF a = alice THEN 3 ELSE 0]
=============================================================================

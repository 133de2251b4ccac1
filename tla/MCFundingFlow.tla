---------------------------- MODULE MCFundingFlow ----------------------------
(***************************************************************************)
(* A small instance of the funding form.                                   *)
(***************************************************************************)
EXTENDS FundingFlow

CONSTANTS t1, alice, i1
=============================================================================

---------------------------- MODULE MCVoteDelivery ----------------------------
(***************************************************************************)
(* An instance of VoteDelivery for TLC.                                    *)
(***************************************************************************)
EXTENDS VoteDelivery

CONSTANTS p1, p2, p3
=============================================================================

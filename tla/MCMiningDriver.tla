---------------------------- MODULE MCMiningDriver ----------------------------
(***************************************************************************)
(* Instances of MiningDriver for TLC.                                      *)
(***************************************************************************)
EXTENDS MiningDriver

CONSTANTS c1, c2, c3, v1, v2, v3
=============================================================================

------------------------------- MODULE MCLedger -------------------------------
(***************************************************************************)
(* Instances of Ledger for TLC.                                            *)
(***************************************************************************)
EXTENDS Ledger

CONSTANTS n1, n2, v1, v2, v3, A, B

Symmetry ==
  Permutations({n1, n2}) \cup Permutations({v1, v2}) \cup Permutations({A, B})
=============================================================================

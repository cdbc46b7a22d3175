------------------------------ MODULE MCAppLocks ------------------------------
(***************************************************************************)
(* Instances of AppLocks for TLC.                                          *)
(***************************************************************************)
EXTENDS AppLocks, TLC

CONSTANTS h1, h2, h3

Symmetry == Permutations({h1, h2, h3})
=============================================================================

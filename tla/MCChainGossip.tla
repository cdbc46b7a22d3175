---------------------------- MODULE MCChainGossip ----------------------------
(***************************************************************************)
(* Instances of ChainGossip for TLC.                                       *)
(***************************************************************************)
EXTENDS ChainGossip

CONSTANTS n1, n2, n3

\* Everyone knows everyone; n2 is between two nodes that do not know each
\* other; each knows only the next.
Full == [n \in Node |-> Node \ {n}]
Line == [n \in Node |-> IF n = n2 THEN {n1, n3} ELSE {n2}]
Ring == [n \in Node |-> IF n = n1 THEN {n2} ELSE IF n = n2 THEN {n3} ELSE {n1}]
Tables == {Full, Line, Ring}
=============================================================================

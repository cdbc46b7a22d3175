------------------------------- MODULE Replicas -------------------------------
(***************************************************************************)
(* What the nodes of a bk-rs network promise each other about their        *)
(* chains, whoever sends what to whom: a chain grows by new blocks at its  *)
(* end, is given up only for a better one that some node has shared, and   *)
(* is lost only with the process that holds it.                            *)
(*                                                                         *)
(* Ledger and ChainGossip implement this specification.  A block is a      *)
(* record with at least the fields hash and ts.                            *)
(***************************************************************************)
EXTENDS ChainRank

CONSTANT Node

VARIABLES
  held,     \* the chain each node holds
  shared    \* the chains that were shared and may still reach a node

vars == <<held, shared>>

Replicated == {held[n] : n \in Node} \cup shared

\* The hash of block b is on no chain there is.
Fresh(b) == \A c \in Replicated : \A i \in DOMAIN c : c[i].hash # b.hash

Init == held = [n \in Node |-> <<>>] /\ shared = {}

\* Node n finds a block on top of its chain.
Extend(n) ==
  /\ Len(held'[n]) = Len(held[n]) + 1
  /\ held' = [held EXCEPT ![n] = Append(@, Last(held'[n]))]
  /\ Fresh(Last(held'[n]))
  /\ UNCHANGED shared

\* Node n shares its chain, with none, some or all of the others.
Share(n) == shared' = shared \cup {held[n]} /\ UNCHANGED held

\* Node n replaces its chain by a shared one it prefers; a chain everybody
\* has received need not be kept.
Adopt(n) ==
  /\ \E c \in shared :
       Better(c, held[n]) /\ held' = [held EXCEPT ![n] = c]
  /\ shared' \subseteq shared

\* Shared chains reach those they have not reached yet no more.
Forget == shared' \subseteq shared /\ UNCHANGED held

\* The process of node n ends, and another one takes its place.
Lose(n) == held' = [held EXCEPT ![n] = <<>>] /\ UNCHANGED shared

Next ==
  \/ \E n \in Node : Extend(n) \/ Share(n) \/ Adopt(n) \/ Lose(n)
  \/ Forget

Spec == Init /\ [][Next]_vars

-----------------------------------------------------------------------------

\* Two chains are the same up to any block hash they have in common.
SamePast(c, d) ==
  \A i \in DOMAIN c, j \in DOMAIN d :
    c[i].hash = d[j].hash => i = j /\ \A k \in 1..i : c[k] = d[k]

\* All chains held or shared are branches of one tree of blocks.
BlocksFormATree == \A c, d \in Replicated : SamePast(c, d)
=============================================================================

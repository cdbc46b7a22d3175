------------------------------ MODULE ChainRank ------------------------------
(***************************************************************************)
(* Which of two chains a bk-rs node prefers.  A chain is a sequence of     *)
(* blocks; of a block only its timestamp matters here, the field ts.       *)
(***************************************************************************)
EXTENDS Integers, Sequences, SequencesExt

\* chain.last().map(|b| b.timestamp): an Option, and None < Some(_).
LastTime(c) == IF c = <<>> THEN -1 ELSE Last(c).ts

\* Mistakes in Newer: one of the comparisons that come to mind first.
NotOlder(old, new) == old <= new
Older(old, new) == old > new

\* Of two chains of one length, the one with the later last block wins.
Newer(old, new) == old < new

\* The first two tests of Chain::validate, which compare chain new with the
\* chain cur it is to replace.
Outranks(new, cur) ==
  /\ Len(new) >= Len(cur)
  /\ Len(new) = Len(cur) => Newer(LastTime(cur), LastTime(new))

-----------------------------------------------------------------------------
(* The order the nodes' choices amount to, in terms of which their           *)
(* properties are stated.  Two chains of one length whose last blocks carry  *)
(* one timestamp are equally good, however different.                        *)

Better(new, old) ==
  \/ Len(new) > Len(old)
  \/ Len(new) = Len(old) /\ LastTime(new) > LastTime(old)

AsGood(new, old) == ~Better(old, new)
=============================================================================

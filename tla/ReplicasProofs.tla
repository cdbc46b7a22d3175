---------------------------- MODULE ReplicasProofs ----------------------------
(***************************************************************************)
(* Proofs about Replicas, for every set of nodes and every kind of block:  *)
(* what follows from the way chains are replicated alone.                  *)
(***************************************************************************)
EXTENDS Replicas, TLAPS

\* The chains are sequences, and agree with each other and with themselves.
TreeInv ==
  /\ DOMAIN held = Node
  /\ \A c \in Replicated : \E S : c \in Seq(S)
  /\ BlocksFormATree

(***************************************************************************)
(* What a sequence looks like once something is appended to it.            *)
(***************************************************************************)
LEMMA AppendToSeq ==
  ASSUME NEW S, NEW c \in Seq(S), NEW b
  PROVE  /\ Append(c, b) \in Seq(S \cup {b})
         /\ Len(c) \in Nat /\ DOMAIN c = 1..Len(c)
         /\ DOMAIN Append(c, b) = 1..(Len(c) + 1)
         /\ \A i \in DOMAIN c : Append(c, b)[i] = c[i]
         /\ Append(c, b)[Len(c) + 1] = b
<1> DEFINE T == S \cup {b}
<1>1. c \in Seq(T) /\ b \in T
  OBVIOUS
<1> HIDE DEF T
<1>2. /\ Append(c, b) \in Seq(T)
      /\ Len(c) \in Nat /\ DOMAIN c = 1..Len(c)
      /\ DOMAIN Append(c, b) = 1..(Len(c) + 1)
      /\ \A i \in DOMAIN c : Append(c, b)[i] = c[i]
      /\ Append(c, b)[Len(c) + 1] = b
  BY <1>1
<1>3. QED
  BY <1>2 DEF T

(***************************************************************************)
(* A chain grown by a block whose hash is on no chain has the same past as *)
(* each of them still, and as itself.                                      *)
(***************************************************************************)
LEMMA GrownSharesPast ==
  ASSUME NEW S, NEW c \in Seq(S), NEW b, NEW d, SamePast(c, c),
         SamePast(c, d), SamePast(d, c),
         \A i \in DOMAIN c : c[i].hash # b.hash,
         \A i \in DOMAIN d : d[i].hash # b.hash
  PROVE  LET e == Append(c, b)
         IN  SamePast(e, d) /\ SamePast(d, e) /\ SamePast(e, e)
<1> DEFINE e == Append(c, b)
<1>1. /\ e[Len(c) + 1] = b /\ \A i \in DOMAIN c : e[i] = c[i]
      /\ \A i \in DOMAIN e : i \in DOMAIN c \/ i = Len(c) + 1
      /\ Len(c) \in Nat /\ DOMAIN c = 1..Len(c)
  BY AppendToSeq
<1> HIDE DEF e
<1>2. ASSUME NEW i \in DOMAIN e, NEW j \in DOMAIN d, e[i].hash = d[j].hash
      PROVE  i = j /\ \A k \in 1..i : e[k] = d[k] /\ d[k] = e[k]
  <2>1. i \in DOMAIN c /\ c[i].hash = d[j].hash
    BY <1>1, <1>2
  <2>2. i = j /\ \A k \in 1..i : c[k] = d[k]
    BY <2>1 DEF SamePast
  <2>3. QED
    BY <1>1, <2>1, <2>2
<1>3. ASSUME NEW i \in DOMAIN e, NEW j \in DOMAIN e, e[i].hash = e[j].hash
      PROVE  i = j
  BY <1>1, <1>3 DEF SamePast
<1>4. SamePast(e, d) /\ SamePast(d, e) /\ SamePast(e, e)
  BY <1>2, <1>3 DEF SamePast
<1>5. QED
  BY <1>4 DEF e

(***************************************************************************)
(* However chains are extended, shared, adopted, forgotten and lost, any   *)
(* two of them are the same up to any block they have in common.           *)
(***************************************************************************)
THEOREM OneTreeOfBlocks == Spec => []BlocksFormATree
<1>1. Init => TreeInv
  <2> SUFFICES ASSUME Init PROVE TreeInv
    OBVIOUS
  <2>1. \A c \in Replicated : c = <<>>
    BY DEF Init, Replicated
  <2>2. <<>> \in Seq({})
    OBVIOUS
  <2>3. BlocksFormATree
    BY <2>1 DEF BlocksFormATree, SamePast
  <2>4. QED
    BY <2>1, <2>2, <2>3 DEF TreeInv, Init
<1>2. TreeInv /\ [Next]_vars => TreeInv'
  <2> SUFFICES ASSUME TreeInv, [Next]_vars
               PROVE  TreeInv'
    OBVIOUS
  <2>1. ASSUME NEW n \in Node, Extend(n)
        PROVE  TreeInv'
    <3> DEFINE b == Last(held'[n])
               e == Append(held[n], b)
    <3>1. held' = [held EXCEPT ![n] = e] /\ shared' = shared /\ Fresh(b)
      BY <2>1 DEF Extend
    <3>2. held[n] \in Replicated /\ DOMAIN held' = Node
      BY <3>1 DEF TreeInv, Replicated
    <3> HIDE DEF b
    <3>3. Replicated' \subseteq Replicated \cup {e}
      BY <3>1, <3>2 DEF TreeInv, Replicated
    <3>4. PICK S : held[n] \in Seq(S)
      BY <3>2 DEF TreeInv
    <3>5. e \in Seq(S \cup {b})
      BY <3>4, AppendToSeq
    <3>6. \A d \in Replicated : SamePast(e, d) /\ SamePast(d, e)
      BY <3>1, <3>2, <3>4, GrownSharesPast
         DEF TreeInv, BlocksFormATree, Fresh
    <3>7. SamePast(e, e)
      BY <3>1, <3>2, <3>4, GrownSharesPast
         DEF TreeInv, BlocksFormATree, Fresh
    <3> HIDE DEF e
    <3>8. BlocksFormATree'
      BY <3>3, <3>6, <3>7 DEF TreeInv, BlocksFormATree
    <3>9. \A c \in Replicated' : \E T : c \in Seq(T)
      BY <3>3, <3>5 DEF TreeInv
    <3>10. QED
      BY <3>2, <3>8, <3>9 DEF TreeInv
  <2>2. ASSUME DOMAIN held' = Node, Replicated' \subseteq Replicated \cup {<<>>}
        PROVE  TreeInv'
    <3>1. <<>> \in Seq({})
      OBVIOUS
    <3>2. \A c : SamePast(c, <<>>) /\ SamePast(<<>>, c)
      BY DEF SamePast
    <3>3. QED
      BY <2>2, <3>1, <3>2 DEF TreeInv, BlocksFormATree
  <2>3. ASSUME NEW n \in Node, Share(n) \/ Adopt(n) \/ Lose(n)
        PROVE  TreeInv'
    <3>1. DOMAIN held' = Node /\ Replicated' \subseteq Replicated \cup {<<>>}
      BY <2>3 DEF Share, Adopt, Lose, Replicated, TreeInv
    <3>2. QED
      BY <2>2, <3>1
  <2>4. CASE Forget \/ UNCHANGED vars
    <3>1. DOMAIN held' = Node /\ Replicated' \subseteq Replicated
      BY <2>4 DEF Forget, vars, Replicated, TreeInv
    <3>2. QED
      BY <2>2, <3>1
  <2>5. QED
    BY <2>1, <2>3, <2>4 DEF Next
<1>3. TreeInv => BlocksFormATree
  BY DEF TreeInv
<1>4. QED
  BY <1>1, <1>2, <1>3, PTL DEF Spec
=============================================================================

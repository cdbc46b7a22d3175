---------------------------- MODULE AppLocksProofs ----------------------------
(***************************************************************************)
(* Proofs about AppLocks, for any number of handlers of any kinds.         *)
(***************************************************************************)
EXTENDS AppLocks, TLAPS

(***************************************************************************)
(* Ways made of known sections, followed by such ways, are such ways.      *)
(***************************************************************************)
LEMMA ThenType ==
  ASSUME NEW P \in SUBSET Seq(Sections), NEW Q \in SUBSET Seq(Sections)
  PROVE  Then(P, Q) \in SUBSET Seq(Sections)
<1>1. SUFFICES ASSUME NEW w \in Then(P, Q)
               PROVE  w \in Seq(Sections)
  OBVIOUS
<1>2. PICK p \in P, q \in Q : w = p \o q
  BY DEF Then
<1>3. p \in Seq(Sections) /\ q \in Seq(Sections)
  OBVIOUS
<1>4. QED
  BY <1>2, <1>3

(***************************************************************************)
(* No method of App has a section but the known ones.                      *)
(***************************************************************************)
LEMMA WaysType ==
  ASSUME NEW kind \in AllKinds
  PROVE  WaysOf(kind) \subseteq Seq(Sections)
<1> DEFINE W == SUBSET Seq(Sections)
<1>1. /\ \A l \in Locks : <<l>> \in Sections
      /\ <<"chain", "seen", "peers">> \in Sections
      /\ <<"chain", "seen">> \in Sections /\ <<"peers", "chain">> \in Sections
      /\ "chain" \in Locks /\ "seen" \in Locks /\ "peers" \in Locks
      /\ "cache" \in Locks /\ "pool" \in Locks
  BY DEF Sections, Locks
<1>2. Skip \in W /\ SaveChain \in W
  BY <1>1 DEF Skip, SaveChain
<1>3. RemoveFailedPeers \in W
  <2>1. {<< <<"peers">> >>} \in W /\ Skip \cup SaveChain \in W
    BY <1>1, <1>2
  <2>2. QED
    BY <2>1, ThenType DEF RemoveFailedPeers
<1>4. PushChainSync \in W /\ PushPeerSync \in W
  <2>1. {<< <<"peers", "chain">> >>} \in W /\ {<< <<"peers">> >>} \in W
    BY <1>1
  <2>2. QED
    BY <1>3, <2>1, ThenType DEF PushChainSync, PushPeerSync
<1>5. Then(PushChainSync, SaveChain) \in W
  BY <1>2, <1>4, ThenType
<1>6. SyncChain \in W
  <2>1. /\ {<< <<"chain", "seen", "peers">> >>} \in W
        /\ {<< <<"chain", "seen", "peers">>, <<"cache">>, <<"peers">>, <<"peers">> >>} \in W
    BY <1>1
  <2>2. QED
    BY <1>5, <2>1, ThenType DEF SyncChain
<1>7. AddBlockToChain \in W
  <2>1. << <<"chain", "seen">> >> \in Seq(Sections)
    BY <1>1
  <2>2. << <<"chain", "seen">>, <<"cache">> >> \in Seq(Sections)
    BY <1>1
  <2>3. ASSUME NEW a \in Then(PushChainSync, SaveChain)
        PROVE  << <<"chain", "seen">>, <<"cache">> >> \o a \in Seq(Sections)
    <3>1. a \in Seq(Sections)
      BY <1>5
    <3>2. QED
      BY <2>2, <3>1
  <2>4. QED
    BY <2>1, <2>3 DEF AddBlockToChain, Validated
<1>8. DriveMiningPool \in W
  <2>1. {<< <<"pool">>, <<"seen">>, <<"chain">> >>} \in W
    BY <1>1
  <2>2. Then({<< <<"pool">>, <<"seen">>, <<"chain">> >>}, AddBlockToChain) \in W
    BY <1>7, <2>1, ThenType
  <2>3. /\ {<< <<"pool">> >>, << <<"pool">>, <<"pool">> >>} \in W
        /\ {<< <<"pool">> >>, << <<"pool">>, <<"seen">>, <<"pool">> >>} \in W
    BY <1>1
  <2>4. QED
    BY <2>2, <2>3, ThenType DEF DriveMiningPool
<1>9. AddMiningTask \in W
  <2>1. /\ {<< <<"seen">> >>, << <<"seen">>, <<"pool">> >>} \in W
        /\ {<< <<"seen">>, <<"pool">> >>} \in W
    BY <1>1
  <2>2. QED
    BY <1>8, <2>1, ThenType DEF AddMiningTask
<1>10. Discovery \in W
  <2>1. {<< <<"peers">>, <<"peers">> >>} \in W /\ Skip \cup SaveChain \in W
    BY <1>1, <1>2
  <2>2. Then(PushPeerSync, Skip \cup SaveChain) \in W
    BY <1>4, <2>1, ThenType
  <2>3. QED
    BY <2>1, <2>2, ThenType DEF Discovery
<1>11. AddMultiplePeer \in W
  <2>1. {<< <<"peers">> >>} \in W
    BY <1>1
  <2>2. Then(PushPeerSync, SaveChain) \in W
    BY <1>2, <1>4, ThenType
  <2>3. QED
    BY <2>1, <2>2, ThenType DEF AddMultiplePeer
<1>12. Http \in W
  BY <1>1 DEF Http
<1>13. QED
  BY <1>6, <1>9, <1>10, <1>11, <1>12 DEF WaysOf, AllKinds

-----------------------------------------------------------------------------

(***************************************************************************)
(* A section is a sequence of one to three mutexes.                        *)
(***************************************************************************)
LEMMA SectionType ==
  ASSUME NEW s \in Sections
  PROVE  /\ s \in Seq(Locks)
         /\ Len(s) \in 1..3
         /\ \A k \in 1..Len(s) : s[k] \in Locks
<1>1. /\ "chain" \in Locks /\ "seen" \in Locks /\ "peers" \in Locks
  BY DEF Locks
<1>2. CASE s = <<"chain", "seen", "peers">>
  BY <1>1, <1>2
<1>3. CASE s = <<"chain", "seen">>
  BY <1>1, <1>3
<1>4. CASE s = <<"peers", "chain">>
  BY <1>1, <1>4
<1>5. CASE \E l \in Locks : s = <<l>>
  BY <1>5
<1>6. QED
  BY <1>2, <1>3, <1>4, <1>5 DEF Sections

(***************************************************************************)
(* A section that is not complete has one more mutex to take.              *)
(***************************************************************************)
LEMMA RoomLeft ==
  ASSUME NEW n \in 1..3, NEW t \in 0..n, t # n
  PROVE  /\ t \in 0..2 /\ t < n /\ t + 1 \in 0..3
         /\ n = 1 => t = 0
         /\ n = 2 => t \in 0..1
OBVIOUS

(***************************************************************************)
(* What the invariant says of one running handler: it is in a known        *)
(* section and has taken some of its mutexes.                              *)
(***************************************************************************)
LEMMA CurrentSection ==
  ASSUME LockInv, NEW h \in Handler, Running(h)
  PROVE  /\ todo[h] \in Seq(Sections)
         /\ Head(todo[h]) \in Sections
         /\ Tail(todo[h]) \in Seq(Sections)
         /\ taken[h] \in 0..Len(Head(todo[h]))
         /\ ~Complete(h) => Wants(h) \in Locks
<1>1. todo[h] \in Seq(Sections) /\ todo[h] # <<>>
  BY DEF LockInv, Running
<1>2. Head(todo[h]) \in Sections /\ Tail(todo[h]) \in Seq(Sections)
  BY <1>1
<1>3. taken[h] \in 0..3 /\ taken[h] <= Len(Head(todo[h]))
  BY DEF LockInv, TypeOK
<1>4. Len(Head(todo[h])) \in 1..3
  BY <1>2, SectionType
<1>5. taken[h] \in 0..Len(Head(todo[h]))
  BY <1>3, <1>4
<1>6. ASSUME ~Complete(h)
      PROVE  Wants(h) \in Locks
  <2>1. taken[h] + 1 \in 1..Len(Head(todo[h]))
    BY <1>4, <1>5, <1>6 DEF Complete
  <2>2. QED
    BY <1>2, <2>1, SectionType DEF Wants
<1>7. QED
  BY <1>1, <1>2, <1>5, <1>6

(***************************************************************************)
(* Initially nobody holds a mutex.                                         *)
(***************************************************************************)
LEMMA LockInvInit == Init => LockInv
<1>1. SUFFICES ASSUME Init PROVE LockInv
  OBVIOUS
<1>2. <<>> \in Seq(Sections) /\ <<>> \in Seq(Seq(Locks))
  OBVIOUS
<1>3. TypeOK
  BY <1>1, <1>2 DEF Init, TypeOK
<1>4. \A h \in Handler : todo[h] = <<>> /\ taken[h] = 0 /\ ~Running(h)
  BY <1>1 DEF Init, Running
<1>5. \A l \in Locks, h \in Handler : ~Holds(h, l) /\ owner[l] # h
  BY <1>1, <1>4, NobodyAssumption DEF Init, Holds
<1>6. QED
  BY <1>2, <1>3, <1>4, <1>5 DEF LockInv

(***************************************************************************)
(* A handler that starts holds nothing, and its way is a known one.        *)
(***************************************************************************)
LEMMA StartKeeps ==
  ASSUME LockInv, NEW h \in Handler, NEW kind \in Kinds, Start(h, kind)
  PROVE  LockInv'
<1>1. PICK w \in WaysOf(kind) : todo' = [todo EXCEPT ![h] = w]
  BY DEF Start
<1>2. w \in Seq(Sections)
  BY <1>1, WaysType, KindsAssumption
<1>3. Sections \subseteq Seq(Locks)
  BY SectionType
<1>4. w \in Seq(Seq(Locks))
  BY <1>2, <1>3
<1>5. /\ todo \in [Handler -> Seq(Seq(Locks))]
      /\ taken \in [Handler -> 0..3] /\ taken' = taken
      /\ owner \in [Locks -> Handler \cup {Nobody}] /\ owner' = owner
      /\ started \subseteq Handler /\ started' = started \cup {h}
  BY DEF LockInv, TypeOK, Start
<1>6. ~Running(h) /\ taken[h] = 0
  BY DEF LockInv, Start
<1>7. TypeOK'
  BY <1>1, <1>4, <1>5 DEF TypeOK
<1>8. todo'[h] = w /\ \A g \in Handler : g # h => todo'[g] = todo[g]
  BY <1>1, <1>5
<1>9. ASSUME NEW g \in Handler
      PROVE  /\ todo'[g] \in Seq(Sections)
             /\ g \notin started' => ~Running(g)'
             /\ IF Running(g)' THEN taken'[g] <= Len(Head(todo'[g])) ELSE taken'[g] = 0
  <2>1. CASE g = h
    <3>1. Running(g)' => Len(Head(w)) \in 1..3
      BY <1>2, <1>8, <2>1, SectionType DEF Running
    <3>2. QED
      BY <1>2, <1>5, <1>6, <1>8, <2>1, <3>1
  <2>2. CASE g # h
    BY <1>5, <1>8, <2>2 DEF LockInv, Running
  <2>3. QED
    BY <2>1, <2>2
<1>10. ASSUME NEW l \in Locks, NEW g \in Handler
       PROVE  owner'[l] = g <=> Holds(g, l)'
  <2>1. owner[l] = g <=> Holds(g, l)
    BY DEF LockInv
  <2>2. CASE g = h
    <3>1. ~Holds(g, l)'
      BY <1>5, <1>6, <2>2 DEF Holds
    <3>2. ~Holds(g, l)
      BY <1>6, <2>2 DEF Holds
    <3>3. QED
      BY <1>5, <2>1, <3>1, <3>2
  <2>3. CASE g # h
    BY <1>5, <1>8, <2>1, <2>3 DEF Holds, Running
  <2>4. QED
    BY <2>2, <2>3
<1>11. QED
  BY <1>7, <1>9, <1>10 DEF LockInv

(***************************************************************************)
(* A mutex that was free is taken: it is the next of the section.          *)
(***************************************************************************)
LEMMA LockKeeps ==
  ASSUME LockInv, NEW h \in Handler, Lock(h)
  PROVE  LockInv'
<1> DEFINE w == Wants(h)
           s == Head(todo[h])
<1>1. /\ Running(h) /\ ~Complete(h) /\ owner[w] = Nobody
      /\ owner' = [owner EXCEPT ![w] = h]
      /\ taken' = [taken EXCEPT ![h] = @ + 1]
      /\ started' = started /\ todo' = todo
  BY DEF Lock
<1>2. /\ todo \in [Handler -> Seq(Seq(Locks))]
      /\ taken \in [Handler -> 0..3]
      /\ owner \in [Locks -> Handler \cup {Nobody}]
      /\ started \subseteq Handler
  BY DEF LockInv, TypeOK
<1>3. s \in Sections /\ taken[h] \in 0..Len(s) /\ w \in Locks
  BY <1>1, CurrentSection
<1>4. Len(s) \in 1..3
  BY <1>3, SectionType
<1>5. taken[h] < Len(s) /\ taken[h] + 1 \in 0..3
  <2>1. taken[h] # Len(s)
    BY <1>1 DEF Complete
  <2>2. QED
    BY <1>3, <1>4, <2>1, RoomLeft
<1>6. /\ taken'[h] = taken[h] + 1
      /\ \A g \in Handler : g # h => taken'[g] = taken[g]
      /\ owner'[w] = h
      /\ \A l \in Locks : l # w => owner'[l] = owner[l]
  BY <1>1, <1>2, <1>3
<1>7. TypeOK'
  BY <1>1, <1>2, <1>3, <1>5 DEF TypeOK
<1>8. ASSUME NEW g \in Handler
      PROVE  /\ todo'[g] \in Seq(Sections)
             /\ g \notin started' => ~Running(g)'
             /\ IF Running(g)' THEN taken'[g] <= Len(Head(todo'[g])) ELSE taken'[g] = 0
  <2>1. /\ todo[g] \in Seq(Sections)
        /\ g \notin started => ~Running(g)
        /\ IF Running(g) THEN taken[g] <= Len(Head(todo[g])) ELSE taken[g] = 0
    BY DEF LockInv
  <2>2. Running(g)' <=> Running(g)
    BY <1>1 DEF Running
  <2>3. CASE g = h
    BY <1>1, <1>3, <1>4, <1>5, <1>6, <2>1, <2>2, <2>3
  <2>4. CASE g # h
    BY <1>1, <1>6, <2>1, <2>2, <2>4
  <2>5. QED
    BY <2>3, <2>4
<1>9. ASSUME NEW l \in Locks, NEW g \in Handler
      PROVE  owner'[l] = g <=> Holds(g, l)'
  <2>1. owner[l] = g <=> Holds(g, l)
    BY DEF LockInv
  <2>2. CASE g # h
    <3>1. Holds(g, l)' <=> Holds(g, l)
      BY <1>1, <1>6, <2>2 DEF Holds, Running
    <3>2. CASE l = w
      BY <1>1, <1>6, <2>1, <2>2, <3>1, <3>2, NobodyAssumption
    <3>3. CASE l # w
      BY <1>6, <2>1, <3>1, <3>3
    <3>4. QED
      BY <3>2, <3>3
  <2>3. CASE g = h
    <3>1. Holds(g, l)' <=> \E k \in 1..(taken[h] + 1) : s[k] = l
      BY <1>1, <1>6, <2>3 DEF Holds, Running
    <3>2. Holds(g, l) <=> \E k \in 1..taken[h] : s[k] = l
      BY <1>1, <2>3 DEF Holds
    <3>3. \A k \in 1..(taken[h] + 1) : k \in 1..taken[h] \/ k = taken[h] + 1
      BY <1>3, <1>4
    <3>4. /\ taken[h] + 1 \in 1..(taken[h] + 1)
          /\ 1..taken[h] \subseteq 1..(taken[h] + 1)
      BY <1>3, <1>4
    <3>5. w = s[taken[h] + 1]
      BY DEF Wants
    <3>6. Holds(g, l)' <=> Holds(g, l) \/ l = w
      BY <3>1, <3>2, <3>3, <3>4, <3>5
    <3>7. QED
      BY <1>6, <2>1, <2>3, <3>6
  <2>4. QED
    BY <2>2, <2>3
<1>10. QED
  BY <1>7, <1>8, <1>9 DEF LockInv

(***************************************************************************)
(* The section ends: its handler holds nothing, the others what they held. *)
(***************************************************************************)
LEMMA ReleaseKeeps ==
  ASSUME LockInv, NEW h \in Handler, Release(h)
  PROVE  LockInv'
<1>1. /\ Complete(h) /\ Running(h)
      /\ owner' = [l \in Locks |-> IF owner[l] = h THEN Nobody ELSE owner[l]]
      /\ taken' = [taken EXCEPT ![h] = 0]
      /\ todo' = [todo EXCEPT ![h] = Tail(@)]
      /\ started' = started
  BY DEF Release, Complete
<1>2. /\ todo \in [Handler -> Seq(Seq(Locks))]
      /\ taken \in [Handler -> 0..3]
      /\ owner \in [Locks -> Handler \cup {Nobody}]
      /\ started \subseteq Handler
  BY DEF LockInv, TypeOK
<1>3. Tail(todo[h]) \in Seq(Sections)
  BY <1>1, CurrentSection
<1>4. /\ todo'[h] = Tail(todo[h]) /\ taken'[h] = 0
      /\ \A g \in Handler : g # h => todo'[g] = todo[g] /\ taken'[g] = taken[g]
  BY <1>1, <1>2
<1>5. TypeOK'
  <2>1. Sections \subseteq Seq(Locks)
    BY SectionType
  <2>2. Tail(todo[h]) \in Seq(Seq(Locks))
    BY <1>3, <2>1
  <2>3. todo' \in [Handler -> Seq(Seq(Locks))]
    BY <1>1, <1>2, <2>2
  <2>4. taken' \in [Handler -> 0..3]
    BY <1>1, <1>2
  <2>5. owner' \in [Locks -> Handler \cup {Nobody}]
    BY <1>1, <1>2
  <2>6. QED
    BY <1>1, <1>2, <2>3, <2>4, <2>5 DEF TypeOK
<1>6. ASSUME NEW g \in Handler
      PROVE  /\ todo'[g] \in Seq(Sections)
             /\ g \notin started' => ~Running(g)'
             /\ IF Running(g)' THEN taken'[g] <= Len(Head(todo'[g])) ELSE taken'[g] = 0
  <2>1. CASE g = h
    <3>1. h \in started
      BY <1>1 DEF LockInv
    <3>2. ASSUME Running(g)'
          PROVE  Len(Head(Tail(todo[h]))) \in 1..3
      <4>1. Tail(todo[h]) # <<>>
        BY <1>4, <2>1, <3>2 DEF Running
      <4>2. Head(Tail(todo[h])) \in Sections
        BY <1>3, <4>1
      <4>3. QED
        BY <4>2, SectionType
    <3>3. QED
      BY <1>1, <1>3, <1>4, <2>1, <3>1, <3>2
  <2>2. CASE g # h
    BY <1>1, <1>4, <2>2 DEF LockInv, Running
  <2>3. QED
    BY <2>1, <2>2
<1>7. ASSUME NEW l \in Locks, NEW g \in Handler
      PROVE  owner'[l] = g <=> Holds(g, l)'
  <2>1. CASE g = h
    <3>1. ~Holds(g, l)'
      BY <1>4, <2>1 DEF Holds
    <3>2. owner'[l] # g
      BY <1>1, <2>1, NobodyAssumption
    <3>3. QED
      BY <3>1, <3>2
  <2>2. CASE g # h
    <3>1. owner[l] = g <=> Holds(g, l)
      BY DEF LockInv
    <3>2. Holds(g, l)' <=> Holds(g, l)
      BY <1>4, <2>2 DEF Holds, Running
    <3>3. owner'[l] = g <=> owner[l] = g
      BY <1>1, <2>2, NobodyAssumption
    <3>4. QED
      BY <3>1, <3>2, <3>3
  <2>3. QED
    BY <2>1, <2>2
<1>8. QED
  BY <1>5, <1>6, <1>7 DEF LockInv

(***************************************************************************)
(* A mutex is owned by the handler that took it in its current section.    *)
(***************************************************************************)
THEOREM LocksAreHeld == Spec => []LockInv
<1>1. Init => LockInv
  BY LockInvInit
<1>2. LockInv /\ [Next]_vars => LockInv'
  <2>1. SUFFICES ASSUME LockInv, [Next]_vars PROVE LockInv'
    OBVIOUS
  <2>2. CASE \E h \in Handler, kind \in Kinds : Start(h, kind)
    BY <2>1, <2>2, StartKeeps
  <2>3. CASE \E h \in Handler : Lock(h)
    BY <2>1, <2>3, LockKeeps
  <2>4. CASE \E h \in Handler : Release(h)
    BY <2>1, <2>4, ReleaseKeeps
  <2>5. CASE UNCHANGED vars
    <3>1. started' = started /\ todo' = todo /\ taken' = taken /\ owner' = owner
      BY <2>5 DEF vars
    <3>2. QED
      BY <2>1, <3>1 DEF LockInv, TypeOK, Running, Holds
  <2>6. QED
    BY <2>1, <2>2, <2>3, <2>4, <2>5 DEF Next
<1>3. QED
  BY <1>1, <1>2, PTL DEF Spec

(***************************************************************************)
(* Type correctness: a handler has sequences of mutexes left to take, the  *)
(* methods of App that it calls, and a mutex is free or owned by a handler.*)
(***************************************************************************)
THEOREM TypeCorrect == Spec => []TypeOK
<1>1. LockInv => TypeOK
  BY DEF LockInv
<1>2. QED
  BY <1>1, LocksAreHeld, PTL

-----------------------------------------------------------------------------

(***************************************************************************)
(* A handler that holds a mutex and waits for another is in one of three   *)
(* places.                                                                 *)
(***************************************************************************)
LEMMA WaitingPlaces ==
  ASSUME LockInv, NEW g \in Handler, Running(g), ~Complete(g),
         NEW l \in Locks, owner[l] = g
  PROVE  \/ l = "chain" /\ Wants(g) = "seen"
         \/ /\ owner["chain"] = g /\ owner["seen"] = g
            /\ l \in {"chain", "seen"} /\ Wants(g) = "peers"
         \/ l = "peers" /\ Wants(g) = "chain"
<1> DEFINE s == Head(todo[g])
           t == taken[g]
<1>1. s \in Sections /\ t \in 0..Len(s) /\ t # Len(s)
  BY CurrentSection DEF Complete
<1>2. PICK k \in 1..t : s[k] = l
  BY DEF LockInv, Holds
<1>3. Wants(g) = s[t + 1]
  BY DEF Wants
<1>4. Len(s) \in 1..3
  BY <1>1, SectionType
<1>5. t \in 1..2 /\ k \in 1..t /\ Len(s) # 1 /\ (Len(s) = 2 => t = 1)
  <2>1. t \in 0..2 /\ (Len(s) = 1 => t = 0) /\ (Len(s) = 2 => t \in 0..1)
    BY <1>1, <1>4, RoomLeft
  <2>2. QED
    BY <1>2, <2>1
<1>6. CASE s = <<"chain", "seen", "peers">>
  <2>1. CASE t = 1
    BY <1>2, <1>3, <1>6, <2>1
  <2>2. CASE t = 2
    <3>1. /\ "chain" \in Locks /\ \E q \in 1..taken[g] : Head(todo[g])[q] = "chain"
          /\ "seen" \in Locks /\ \E q \in 1..taken[g] : Head(todo[g])[q] = "seen"
      BY <1>6, <2>2 DEF Locks
    <3>2. owner["chain"] = g /\ owner["seen"] = g
      BY <3>1 DEF LockInv, Holds
    <3>3. k = 1 \/ k = 2
      BY <1>5, <2>2
    <3>4. QED
      BY <1>2, <1>3, <1>6, <2>2, <3>2, <3>3
  <2>3. QED
    BY <1>5, <2>1, <2>2
<1>7. CASE s = <<"chain", "seen">> \/ s = <<"peers", "chain">>
  <2>1. Len(s) = 2
    BY <1>7
  <2>2. t = 1 /\ k = 1
    BY <1>5, <2>1
  <2>3. QED
    BY <1>2, <1>3, <1>7, <2>2
<1>8. CASE \E m \in Locks : s = <<m>>
  <2>1. Len(s) = 1
    BY <1>8
  <2>2. QED
    BY <1>5, <2>1
<1>9. QED
  BY <1>1, <1>6, <1>7, <1>8 DEF Sections

(***************************************************************************)
(* In a deadlock whoever is waited for runs and waits as well.             *)
(***************************************************************************)
LEMMA HolderWaits ==
  ASSUME LockInv, Deadlocked, NEW h \in Handler, Running(h)
  PROVE  /\ Wants(h) \in Locks
         /\ \E g \in Handler :
              owner[Wants(h)] = g /\ Running(g) /\ ~Complete(g)
<1>1. ~Complete(h) /\ owner[Wants(h)] # Nobody
  BY DEF Deadlocked
<1>2. Wants(h) \in Locks
  BY <1>1, CurrentSection
<1>3. PICK g \in Handler : owner[Wants(h)] = g
  BY <1>1, <1>2 DEF LockInv, TypeOK
<1>4. Running(g)
  BY <1>2, <1>3 DEF LockInv, Holds
<1>5. ~Complete(g)
  BY <1>4 DEF Deadlocked
<1>6. QED
  BY <1>2, <1>3, <1>4, <1>5

(***************************************************************************)
(* Nobody who holds the chain waits for the seen voter ids in a deadlock:  *)
(* they are only ever held together with the chain while one waits.        *)
(***************************************************************************)
LEMMA SeenIsNoBottleneck ==
  ASSUME LockInv, Deadlocked, NEW g \in Handler, Running(g),
         owner["chain"] = g
  PROVE  Wants(g) # "seen"
<1>1. SUFFICES ASSUME Wants(g) = "seen" PROVE FALSE
  OBVIOUS
<1>2. PICK f \in Handler : owner["seen"] = f /\ Running(f) /\ ~Complete(f)
  BY <1>1, HolderWaits
<1>3. "seen" \in Locks
  BY DEF Locks
<1>4. owner["chain"] = f /\ Wants(f) = "peers"
  BY <1>2, <1>3, WaitingPlaces
<1>5. QED
  BY <1>1, <1>4

(***************************************************************************)
(* The one deadlock of the locks of a node, for any number of handlers:    *)
(* chain first and then peers, against peers first and then chain.         *)
(***************************************************************************)
THEOREM OneDeadlock == Spec => []OnlyChainAndPeersDeadlock
<1>1. LockInv => OnlyChainAndPeersDeadlock
  <2>1. SUFFICES ASSUME LockInv, Deadlocked
                 PROVE  \E g, h \in Handler :
                          /\ owner["chain"] = g /\ owner["seen"] = g /\ Wants(g) = "peers"
                          /\ owner["peers"] = h /\ Wants(h) = "chain"
    BY DEF OnlyChainAndPeersDeadlock
  <2>2. "chain" \in Locks /\ "peers" \in Locks
    BY DEF Locks
  <2>3. PICK h \in Handler : Running(h)
    BY <2>1 DEF Deadlocked
  <2>4. PICK g \in Handler :
          owner[Wants(h)] = g /\ Running(g) /\ ~Complete(g)
    BY <2>1, <2>3, HolderWaits
  <2>5. Wants(h) \in Locks
    BY <2>1, <2>3, HolderWaits
  <2>6. \/ owner["chain"] = g /\ Wants(g) = "seen"
        \/ owner["chain"] = g /\ owner["seen"] = g /\ Wants(g) = "peers"
        \/ owner["peers"] = g /\ Wants(g) = "chain"
    BY <2>1, <2>4, <2>5, WaitingPlaces
  <2>7. CASE owner["chain"] = g /\ Wants(g) = "seen"
    BY <2>1, <2>4, <2>7, SeenIsNoBottleneck
  <2>8. CASE owner["chain"] = g /\ owner["seen"] = g /\ Wants(g) = "peers"
    <3>1. PICK f \in Handler : owner["peers"] = f /\ Running(f) /\ ~Complete(f)
      BY <2>1, <2>4, <2>8, HolderWaits
    <3>2. Wants(f) = "chain"
      BY <2>1, <2>2, <3>1, WaitingPlaces
    <3>3. QED
      BY <2>8, <3>1, <3>2
  <2>9. CASE owner["peers"] = g /\ Wants(g) = "chain"
    <3>1. PICK f \in Handler : owner["chain"] = f /\ Running(f) /\ ~Complete(f)
      BY <2>1, <2>4, <2>9, HolderWaits
    <3>2. Wants(f) # "seen"
      BY <2>1, <3>1, SeenIsNoBottleneck
    <3>3. owner["seen"] = f /\ Wants(f) = "peers"
      BY <2>1, <2>2, <3>1, <3>2, WaitingPlaces
    <3>4. QED
      BY <2>9, <3>1, <3>3
  <2>10. QED
    BY <2>6, <2>7, <2>8, <2>9
<1>2. QED
  BY <1>1, LocksAreHeld, PTL
=============================================================================

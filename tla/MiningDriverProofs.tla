-------------------------- MODULE MiningDriverProofs --------------------------
(***************************************************************************)
(* Proofs about MiningDriver, for every set of calls and voters and every  *)
(* number of chain replacements.                                           *)
(***************************************************************************)
EXTENDS MiningDriver, FiniteSetTheorems, TLAPS

(***************************************************************************)
(* Taking the newest task off a pool and putting it back restores it.      *)
(***************************************************************************)
LEMMA TakeAndPutBack ==
  ASSUME NEW p \in Seq(Voters), p # <<>>
  PROVE  /\ Last(p) \in Voters
         /\ TakeLast(p) \in Seq(Voters)
         /\ p = Append(TakeLast(p), Last(p))
BY DEF Last, TakeLast, Front

(***************************************************************************)
(* The voters of a pool to which a task is appended.                       *)
(***************************************************************************)
LEMMA ContainsAppended ==
  ASSUME NEW p \in Seq(Voters), NEW x \in Voters, NEW v
  PROVE  ContainsVoter(Append(p, x), v) <=> ContainsVoter(p, v) \/ v = x
<1> DEFINE q == Append(p, x)
<1>1. /\ q[Len(p) + 1] = x /\ Len(p) + 1 \in DOMAIN q
      /\ \A i \in DOMAIN p : i \in DOMAIN q /\ q[i] = p[i]
      /\ \A i \in DOMAIN q : i \in DOMAIN p \/ i = Len(p) + 1
  OBVIOUS
<1> HIDE DEF q
<1>2. ContainsVoter(q, v) <=> ContainsVoter(p, v) \/ v = x
  BY <1>1 DEF ContainsVoter, ToSet
<1>3. QED
  BY <1>2 DEF q

(***************************************************************************)
(* How many tasks of a voter a pool holds when a task is appended to it.   *)
(***************************************************************************)
LEMMA CountAppended ==
  ASSUME NEW p \in Seq(Voters), NEW x \in Voters, NEW v \in Voters
  PROVE  /\ QueuedTasks(p, v) \in Nat
         /\ QueuedTasks(Append(p, x), v) =
              QueuedTasks(p, v) + (IF v = x THEN 1 ELSE 0)
         /\ ~ContainsVoter(p, v) => QueuedTasks(p, v) = 0
<1> DEFINE q == Append(p, x)
           S == {i \in DOMAIN p : p[i] = v}
           T == {i \in DOMAIN q : q[i] = v}
<1>1. IsFiniteSet(S) /\ Len(p) + 1 \notin S
  <2>1. IsFiniteSet(1..Len(p))
    BY FS_Interval
  <2>2. S \subseteq 1..Len(p) /\ Len(p) \in Nat
    OBVIOUS
  <2>3. QED
    BY <2>1, <2>2, FS_Subset
<1>2. /\ q[Len(p) + 1] = x /\ Len(p) + 1 \in DOMAIN q
      /\ \A i \in DOMAIN p : i \in DOMAIN q /\ q[i] = p[i]
      /\ \A i \in DOMAIN q : i \in DOMAIN p \/ i = Len(p) + 1
  OBVIOUS
<1>3. /\ QueuedTasks(p, v) = Cardinality(S) /\ QueuedTasks(q, v) = Cardinality(T)
      /\ Cardinality(S) \in Nat
      /\ ~ContainsVoter(p, v) => Cardinality(S) = 0
  <2>1. ~ContainsVoter(p, v) => S = {}
    BY DEF ContainsVoter, ToSet
  <2>2. QED
    BY <1>1, <2>1, FS_CardinalityType, FS_EmptySet DEF QueuedTasks
<1> HIDE DEF q, S, T
<1>4. CASE v = x
  <2>1. T = S \cup {Len(p) + 1}
    BY <1>2, <1>4 DEF S, T
  <2>2. Cardinality(T) = Cardinality(S) + 1
    BY <1>1, <2>1, FS_AddElement
  <2>3. QED
    BY <1>3, <1>4, <2>2 DEF q
<1>5. CASE v # x
  <2>1. T = S
    BY <1>2, <1>5 DEF S, T
  <2>2. QED
    BY <1>3, <1>5, <2>1 DEF q
<1>6. QED
  BY <1>4, <1>5

-----------------------------------------------------------------------------

(***************************************************************************)
(* The pool stays a sequence of voters.                                    *)
(***************************************************************************)
LEMMA PoolStep ==
  ASSUME TypeOK, HandOK, [Next]_vars
  PROVE  pool' \in Seq(Voters)
<1>0. pool \in Seq(Voters) /\ task \in [Call -> Voters \cup {None}]
  BY DEF TypeOK
<1>1. ASSUME NEW c \in Call, Queue(c) \/ Requeue(c)
      PROVE  pool' \in Seq(Voters)
  <2>1. task[c] \in Voters
    BY <1>0, <1>1 DEF HandOK, Queue, Requeue
  <2>2. pool' = pool \/ pool' = Append(pool, task[c])
    BY <1>1 DEF Queue, Requeue
  <2>3. QED
    BY <1>0, <2>1, <2>2
<1>2. ASSUME NEW c \in Call, Take(c)
      PROVE  pool' \in Seq(Voters)
  <2>1. pool' = pool \/ (pool # <<>> /\ pool' = TakeLast(pool))
    BY <1>2 DEF Take, Exhausted
  <2>2. QED
    BY <1>0, <2>1, TakeAndPutBack
<1>3. QED
  BY <1>0, <1>1, <1>2
     DEF Next, Step, Submit, TryLock, Check, ReadTip, AddBlock, Publish,
         LateAdd, Ignore, MiningPanics, Unlock, Adopt, vars

(***************************************************************************)
(* Every step preserves the types.                                         *)
(***************************************************************************)
LEMMA TypeStep ==
  ASSUME TypeOK, HandOK, [Next]_vars
  PROVE  TypeOK'
<1>0. pool' \in Seq(Voters)
  BY PoolStep
<1> USE <1>0, NoneAssumption, VotersAssumption, AdoptsAssumption
    DEF TypeOK, HandOK, Goto, Driving, Looping, PCs, chainVars
<1>1. ASSUME NEW c \in Call, NEW v \in Voters, Submit(c, v)
      PROVE  TypeOK'
  BY <1>1, SMTT(30) DEF Submit
<1>2. ASSUME NEW c \in Call, Queue(c)
      PROVE  TypeOK'
  BY <1>2 DEF Queue
<1>3. ASSUME NEW c \in Call, TryLock(c)
      PROVE  TypeOK'
  BY <1>3 DEF TryLock, LockFree
<1>4. ASSUME NEW c \in Call, Take(c)
      PROVE  TypeOK'
  <2>1. CASE Exhausted(pool)
    BY <1>4, <2>1 DEF Take
  <2>2. CASE ~Exhausted(pool)
    <3>1. Last(pool) \in Voters
      BY <2>2, TakeAndPutBack DEF Exhausted
    <3>2. /\ pc' = [pc EXCEPT ![c] = "check"]
          /\ task' = [task EXCEPT ![c] = Last(pool)]
          /\ UNCHANGED <<holder, base, seen, tip, adopts, everSeen, queued,
                         dropped>>
      BY <1>4, <2>2 DEF Take
    <3>3. QED
      BY <3>1, <3>2
  <2>3. QED
    BY <2>1, <2>2
<1>5. ASSUME NEW c \in Call, Check(c)
      PROVE  TypeOK'
  BY <1>5 DEF Check
<1>6. ASSUME NEW c \in Call, ReadTip(c)
      PROVE  TypeOK'
  BY <1>6 DEF ReadTip
<1>7. ASSUME NEW c \in Call, AddBlock(c)
      PROVE  TypeOK'
  BY <1>7 DEF AddBlock, Addable
<1>8. ASSUME NEW c \in Call, Publish(c)
      PROVE  TypeOK'
  BY <1>8 DEF Publish
<1>9. ASSUME NEW c \in Call, LateAdd(c)
      PROVE  TypeOK'
  BY <1>9 DEF LateAdd
<1>10. ASSUME NEW c \in Call, Requeue(c)
       PROVE  TypeOK'
  BY <1>10 DEF Requeue
<1>11. ASSUME NEW c \in Call, Ignore(c)
       PROVE  TypeOK'
  BY <1>11 DEF Ignore
<1>12. ASSUME NEW c \in Call, MiningPanics(c)
       PROVE  TypeOK'
  BY <1>12 DEF MiningPanics
<1>13. ASSUME NEW c \in Call, Unlock(c)
       PROVE  TypeOK'
  BY <1>13 DEF Unlock
<1>14. ASSUME NEW voters \in SUBSET UuidVoters, Adopt(voters)
       PROVE  TypeOK'
  BY <1>14 DEF Adopt
<1>15. CASE UNCHANGED vars
  BY <1>15 DEF vars
<1>16. QED
  BY <1>1, <1>2, <1>3, <1>4, <1>5, <1>6, <1>7, <1>8, <1>9, <1>10, <1>11,
     <1>12, <1>13, <1>14, <1>15 DEF Next, Step

(***************************************************************************)
(* Every step keeps track of what the calls have in hand.                  *)
(***************************************************************************)
LEMMA HandStep ==
  ASSUME TypeOK, HandOK, [Next]_vars
  PROVE  HandOK'
<1>0. pc \in [Call -> PCs] /\ task \in [Call -> Voters \cup {None}]
  BY DEF TypeOK
<1> USE <1>0, NoneAssumption DEF HandOK, Goto
<1>1. ASSUME NEW c \in Call, NEW v \in Voters, Submit(c, v)
      PROVE  HandOK'
  BY <1>1 DEF Submit
<1>2. ASSUME NEW c \in Call, Queue(c)
      PROVE  HandOK'
  BY <1>2 DEF Queue
<1>3. ASSUME NEW c \in Call, TryLock(c)
      PROVE  HandOK'
  BY <1>3 DEF TryLock, LockFree
<1>4. ASSUME NEW c \in Call, Take(c)
      PROVE  HandOK'
  <2>1. CASE Exhausted(pool)
    BY <1>4, <2>1 DEF Take
  <2>2. CASE ~Exhausted(pool)
    <3>1. Last(pool) # None
      BY <2>2, TakeAndPutBack DEF Exhausted, TypeOK
    <3>2. QED
      BY <1>4, <2>2, <3>1 DEF Take
  <2>3. QED
    BY <2>1, <2>2
<1>5. ASSUME NEW c \in Call, Check(c)
      PROVE  HandOK'
  BY <1>5 DEF Check
<1>6. ASSUME NEW c \in Call, ReadTip(c)
      PROVE  HandOK'
  BY <1>6 DEF ReadTip
<1>7. ASSUME NEW c \in Call, AddBlock(c)
      PROVE  HandOK'
  BY <1>7 DEF AddBlock, Addable
<1>8. ASSUME NEW c \in Call, Publish(c)
      PROVE  HandOK'
  BY <1>8 DEF Publish
<1>9. ASSUME NEW c \in Call, LateAdd(c)
      PROVE  HandOK'
  BY <1>9 DEF LateAdd
<1>10. ASSUME NEW c \in Call, Requeue(c)
       PROVE  HandOK'
  BY <1>10 DEF Requeue
<1>11. ASSUME NEW c \in Call, Ignore(c)
       PROVE  HandOK'
  BY <1>11 DEF Ignore
<1>12. ASSUME NEW c \in Call, MiningPanics(c)
       PROVE  HandOK'
  BY <1>12 DEF MiningPanics
<1>13. ASSUME NEW c \in Call, Unlock(c)
       PROVE  HandOK'
  BY <1>13 DEF Unlock
<1>14. ASSUME NEW voters \in SUBSET UuidVoters, Adopt(voters)
       PROVE  HandOK'
  BY <1>14 DEF Adopt
<1>15. CASE UNCHANGED vars
  BY <1>15 DEF vars
<1>16. QED
  BY <1>1, <1>2, <1>3, <1>4, <1>5, <1>6, <1>7, <1>8, <1>9, <1>10, <1>11,
     <1>12, <1>13, <1>14, <1>15 DEF Next, Step

(***************************************************************************)
(* Every step keeps the mining lock with the one call that is in the loop. *)
(***************************************************************************)
LEMMA LockStep ==
  ASSUME TypeOK, OneMinerAtATime, [Next]_vars
  PROVE  OneMinerAtATime'
<1>0. pc \in [Call -> PCs]
  BY DEF TypeOK
<1> USE <1>0, NoneAssumption DEF OneMinerAtATime, Goto, Driving, Looping
<1>1. ASSUME NEW c \in Call, NEW v \in Voters, Submit(c, v)
      PROVE  OneMinerAtATime'
  BY <1>1 DEF Submit
<1>2. ASSUME NEW c \in Call, Queue(c)
      PROVE  OneMinerAtATime'
  BY <1>2 DEF Queue
<1>3. ASSUME NEW c \in Call, TryLock(c)
      PROVE  OneMinerAtATime'
  BY <1>3 DEF TryLock, LockFree
<1>4. ASSUME NEW c \in Call, Take(c)
      PROVE  OneMinerAtATime'
  BY <1>4 DEF Take
<1>5. ASSUME NEW c \in Call, Check(c)
      PROVE  OneMinerAtATime'
  BY <1>5 DEF Check
<1>6. ASSUME NEW c \in Call, ReadTip(c)
      PROVE  OneMinerAtATime'
  BY <1>6 DEF ReadTip
<1>7. ASSUME NEW c \in Call, AddBlock(c)
      PROVE  OneMinerAtATime'
  BY <1>7 DEF AddBlock, Addable
<1>8. ASSUME NEW c \in Call, Publish(c)
      PROVE  OneMinerAtATime'
  BY <1>8 DEF Publish
<1>9. ASSUME NEW c \in Call, LateAdd(c)
      PROVE  OneMinerAtATime'
  BY <1>9 DEF LateAdd
<1>10. ASSUME NEW c \in Call, Requeue(c)
       PROVE  OneMinerAtATime'
  BY <1>10 DEF Requeue
<1>11. ASSUME NEW c \in Call, Ignore(c)
       PROVE  OneMinerAtATime'
  BY <1>11 DEF Ignore
<1>12. ASSUME NEW c \in Call, MiningPanics(c)
       PROVE  OneMinerAtATime'
  BY <1>12 DEF MiningPanics
<1>13. ASSUME NEW c \in Call, Unlock(c)
       PROVE  OneMinerAtATime'
  BY <1>13 DEF Unlock
<1>14. ASSUME NEW voters \in SUBSET UuidVoters, Adopt(voters)
       PROVE  OneMinerAtATime'
  BY <1>14 DEF Adopt
<1>15. CASE UNCHANGED vars
  BY <1>15 DEF vars
<1>16. QED
  BY <1>1, <1>2, <1>3, <1>4, <1>5, <1>6, <1>7, <1>8, <1>9, <1>10, <1>11,
     <1>12, <1>13, <1>14, <1>15 DEF Next, Step

(***************************************************************************)
(* The voters on the chain are among those that ever were.                 *)
(***************************************************************************)
LEMMA RememberStep ==
  ASSUME SeenRemembered, [Next]_vars
  PROVE  SeenRemembered'
BY DEF SeenRemembered, Next, Step, Submit, Queue, TryLock, Take, Check,
       ReadTip, AddBlock, Publish, LateAdd, Requeue, Ignore, MiningPanics,
       Unlock, Adopt, vars, chainVars

(***************************************************************************)
(* Initially nothing is queued or in hand and the lock is free.            *)
(***************************************************************************)
LEMMA DriverInit == Init => DriverInv
BY NoneAssumption, AdoptsAssumption
   DEF Init, DriverInv, SeenRemembered, TypeOK, HandOK, OneMinerAtATime, Driving, Looping, PCs

(***************************************************************************)
(* The invariant of the mining driver.                                     *)
(***************************************************************************)
THEOREM DriverInvariant == Spec => []DriverInv
<1>1. QED
  BY DriverInit, TypeStep, HandStep, LockStep, RememberStep, PTL DEF Spec, DriverInv

(***************************************************************************)
(* Every state of the mining driver has the declared types.                *)
(***************************************************************************)
THEOREM DriverTypes == Spec => []TypeOK
<1>1. DriverInv => TypeOK
  BY DEF DriverInv
<1>2. QED
  BY <1>1, DriverInvariant, PTL

(***************************************************************************)
(* A node mines one block at a time: the calls inside the loop are those   *)
(* that hold the mining lock.                                              *)
(***************************************************************************)
THEOREM MinersExclude == Spec => []OneMinerAtATime
<1>1. DriverInv => OneMinerAtATime
  BY DEF DriverInv
<1>2. QED
  BY <1>1, DriverInvariant, PTL

-----------------------------------------------------------------------------
(* No task vanishes *)

(***************************************************************************)
(* Taking a task off the pool removes at most its voter.                   *)
(***************************************************************************)
LEMMA ContainsTaken ==
  ASSUME NEW p \in Seq(Voters), p # <<>>, NEW v, ContainsVoter(p, v)
  PROVE  ContainsVoter(TakeLast(p), v) \/ v = Last(p)
<1>1. p = Append(TakeLast(p), Last(p))
  BY TakeAndPutBack
<1>2. TakeLast(p) \in Seq(Voters) /\ Last(p) \in Voters
  BY TakeAndPutBack
<1>3. ContainsVoter(Append(TakeLast(p), Last(p)), v)
        <=> ContainsVoter(TakeLast(p), v) \/ v = Last(p)
  BY <1>2, ContainsAppended
<1>4. QED
  BY <1>1, <1>3

(***************************************************************************)
(* Every step leaves a queued task where it can be accounted for.          *)
(***************************************************************************)
LEMMA VanishStep ==
  ASSUME TypeOK, HandOK, SeenRemembered, NoTaskVanishes, [Next]_vars
  PROVE  NoTaskVanishes'
<1>0. /\ pool \in Seq(Voters) /\ pc \in [Call -> PCs]
      /\ task \in [Call -> Voters \cup {None}]
  BY DEF TypeOK
<1> USE <1>0 DEF NoTaskVanishes, InHand, Goto, Driving, Looping, chainVars
<1>1. ASSUME NEW c \in Call, NEW v \in Voters, Submit(c, v)
      PROVE  NoTaskVanishes'
  BY <1>1 DEF Submit
<1>2. ASSUME NEW c \in Call, Queue(c)
      PROVE  NoTaskVanishes'
  <2>1. task[c] \in Voters
    BY <1>2 DEF Queue, HandOK
  <2>2. \A v : ContainsVoter(Append(pool, task[c]), v)
                 <=> ContainsVoter(pool, v) \/ v = task[c]
    BY <2>1, ContainsAppended
  <2>3. QED
    BY <1>2, <2>2 DEF Queue
<1>3. ASSUME NEW c \in Call, TryLock(c)
      PROVE  NoTaskVanishes'
  BY <1>3 DEF TryLock
<1>4. ASSUME NEW c \in Call, Take(c)
      PROVE  NoTaskVanishes'
  <2>1. CASE Exhausted(pool)
    BY <1>4, <2>1 DEF Take
  <2>2. CASE ~Exhausted(pool)
    <3>1. \A v : ContainsVoter(pool, v)
                   => ContainsVoter(TakeLast(pool), v) \/ v = Last(pool)
      BY <2>2, ContainsTaken DEF Exhausted
    <3>2. task[c] = None /\ None \notin queued
      BY <1>4, NoneAssumption DEF Take, HandOK, TypeOK
    <3>3. QED
      BY <1>4, <2>2, <3>1, <3>2 DEF Take
  <2>3. QED
    BY <2>1, <2>2
<1>5. ASSUME NEW c \in Call, Check(c)
      PROVE  NoTaskVanishes'
  BY <1>5 DEF Check, SeenRemembered
<1>6. ASSUME NEW c \in Call, ReadTip(c)
      PROVE  NoTaskVanishes'
  BY <1>6 DEF ReadTip
<1>7. ASSUME NEW c \in Call, AddBlock(c)
      PROVE  NoTaskVanishes'
  BY <1>7 DEF AddBlock, Addable
<1>8. ASSUME NEW c \in Call, Publish(c)
      PROVE  NoTaskVanishes'
  BY <1>8 DEF Publish
<1>9. ASSUME NEW c \in Call, LateAdd(c)
      PROVE  NoTaskVanishes'
  BY <1>9 DEF LateAdd
<1>10. ASSUME NEW c \in Call, Requeue(c)
       PROVE  NoTaskVanishes'
  <2>1. task[c] \in Voters
    BY <1>10 DEF Requeue, HandOK
  <2>2. \A v : ContainsVoter(Append(pool, task[c]), v)
                 <=> ContainsVoter(pool, v) \/ v = task[c]
    BY <2>1, ContainsAppended
  <2>3. QED
    BY <1>10, <2>2 DEF Requeue
<1>11. ASSUME NEW c \in Call, Ignore(c)
       PROVE  NoTaskVanishes'
  BY <1>11 DEF Ignore, Addable, Late, SeenRemembered
<1>12. ASSUME NEW c \in Call, MiningPanics(c)
       PROVE  NoTaskVanishes'
  BY <1>12 DEF MiningPanics
<1>13. ASSUME NEW c \in Call, Unlock(c)
       PROVE  NoTaskVanishes'
  <2>1. task[c] = None /\ None \notin queued
    BY <1>13, NoneAssumption DEF Unlock, HandOK, TypeOK
  <2>2. QED
    BY <1>13, <2>1 DEF Unlock
<1>14. ASSUME NEW voters \in SUBSET UuidVoters, Adopt(voters)
       PROVE  NoTaskVanishes'
  BY <1>14 DEF Adopt
<1>15. CASE UNCHANGED vars
  BY <1>15 DEF vars
<1>16. QED
  BY <1>1, <1>2, <1>3, <1>4, <1>5, <1>6, <1>7, <1>8, <1>9, <1>10, <1>11,
     <1>12, <1>13, <1>14, <1>15 DEF Next, Step

(***************************************************************************)
(* A task that was queued is in the pool or in hand until its voter is on  *)
(* the chain, unless mining it panics or its voter id is no UUID.          *)
(***************************************************************************)
THEOREM TasksAreKept == Spec => []NoTaskVanishes
<1>1. Init => NoTaskVanishes
  BY DEF Init, NoTaskVanishes
<1>2. TypeOK /\ HandOK /\ SeenRemembered /\ NoTaskVanishes /\ [Next]_vars
        => NoTaskVanishes'
  BY VanishStep
<1>3. QED
  BY <1>1, <1>2, DriverInvariant, PTL DEF Spec, DriverInv

-----------------------------------------------------------------------------
(* At most two tasks of one voter *)

(***************************************************************************)
(* How many tasks of a voter are left when the newest is taken.            *)
(***************************************************************************)
LEMMA CountTaken ==
  ASSUME NEW p \in Seq(Voters), p # <<>>, NEW v \in Voters
  PROVE  /\ QueuedTasks(TakeLast(p), v) \in Nat
         /\ QueuedTasks(p, v) =
              QueuedTasks(TakeLast(p), v) + (IF v = Last(p) THEN 1 ELSE 0)
<1>1. p = Append(TakeLast(p), Last(p))
  BY TakeAndPutBack
<1>2. TakeLast(p) \in Seq(Voters) /\ Last(p) \in Voters
  BY TakeAndPutBack
<1>3. /\ QueuedTasks(TakeLast(p), v) \in Nat
      /\ QueuedTasks(Append(TakeLast(p), Last(p)), v) =
           QueuedTasks(TakeLast(p), v) + (IF v = Last(p) THEN 1 ELSE 0)
  BY <1>2, CountAppended
<1>4. QED
  BY <1>1, <1>3

(***************************************************************************)
(* A step that leaves the pool as it is and takes no task into the hand of *)
(* a draining call adds no task of any voter.                              *)
(***************************************************************************)
LEMMA NoMoreTasks ==
  ASSUME TypeOK, AtMostTwoTasks, pool' = pool,
         \A v \in Voters : InHand(v)' => InHand(v)
  PROVE  AtMostTwoTasks'
<1>1. \A v \in Voters : QueuedTasks(pool, v) \in Nat
  BY CountAppended DEF TypeOK
<1>2. \A v \in Voters : Tasks(v) <= 2
  BY DEF AtMostTwoTasks
<1>3. \A v \in Voters :
        Tasks(v)' = QueuedTasks(pool, v) + (IF InHand(v)' THEN 1 ELSE 0)
  BY DEF Tasks
<1>4. \A v \in Voters : Tasks(v)' <= 2
  BY <1>1, <1>2, <1>3 DEF Tasks
<1>5. QED
  BY <1>4 DEF AtMostTwoTasks

(***************************************************************************)
(* Every step leaves each voter with at most two tasks.                    *)
(***************************************************************************)
LEMMA TwoTasksStep ==
  ASSUME TypeOK, HandOK, OneMinerAtATime, AtMostTwoTasks, [Next]_vars
  PROVE  AtMostTwoTasks'
<1>0. /\ pool \in Seq(Voters) /\ pc \in [Call -> PCs]
      /\ task \in [Call -> Voters \cup {None}]
  BY DEF TypeOK
<1> USE <1>0 DEF Goto
<1>1. ASSUME NEW c \in Call, Queue(c)
      PROVE  AtMostTwoTasks'
  <2>1. \A v \in Voters : InHand(v)' => InHand(v)
    BY <1>1, NoneAssumption DEF Queue, InHand, Driving, Looping
  <2>2. CASE ContainsVoter(pool, task[c])
    BY <1>1, <2>1, <2>2, NoMoreTasks DEF Queue
  <2>3. CASE ~ContainsVoter(pool, task[c])
    <3>1. task[c] \in Voters /\ pool' = Append(pool, task[c])
      BY <1>1, <2>3 DEF Queue, HandOK
    <3>2. ASSUME NEW v \in Voters
          PROVE  Tasks(v)' <= 2
      <4>1. Tasks(v) <= 2
        BY DEF AtMostTwoTasks
      <4>2. /\ QueuedTasks(pool, v) \in Nat
            /\ QueuedTasks(pool', v) =
                 QueuedTasks(pool, v) + (IF v = task[c] THEN 1 ELSE 0)
            /\ v = task[c] => QueuedTasks(pool, v) = 0
        BY <2>3, <3>1, CountAppended
      <4>3. Tasks(v) = QueuedTasks(pool, v) + (IF InHand(v) THEN 1 ELSE 0)
        BY DEF Tasks
      <4>4. Tasks(v)' = QueuedTasks(pool', v) + (IF InHand(v)' THEN 1 ELSE 0)
        BY DEF Tasks
      <4>5. QED
        BY <2>1, <4>1, <4>2, <4>3, <4>4
    <3>3. QED
      BY <3>2 DEF AtMostTwoTasks
  <2>4. QED
    BY <2>2, <2>3
<1>2. ASSUME NEW c \in Call, Take(c)
      PROVE  AtMostTwoTasks'
  <2>1. CASE Exhausted(pool)
    <3>1. task[c] = None /\ task' = task /\ pool' = pool
      BY <1>2, <2>1 DEF Take, HandOK
    <3>2. \A v \in Voters : InHand(v)' => InHand(v)
      BY <1>2, <2>1, <3>1, NoneAssumption DEF Take, InHand, Driving, Looping
    <3>3. QED
      BY <3>1, <3>2, NoMoreTasks
  <2>2. CASE ~Exhausted(pool)
    <3>1. /\ pool # <<>> /\ pool' = TakeLast(pool)
          /\ task' = [task EXCEPT ![c] = Last(pool)]
          /\ pc' = [pc EXCEPT ![c] = "check"]
          /\ task[c] = None /\ pc[c] = "take"
      BY <1>2, <2>2 DEF Take, Exhausted, HandOK
    <3>2. \A d \in Call : pc[d] \in Driving => d = c
      BY <3>1 DEF OneMinerAtATime, Driving, Looping
    <3>3. ASSUME NEW v \in Voters
          PROVE  Tasks(v)' <= 2
      <4>1. ~InHand(v)
        BY <3>1, <3>2, NoneAssumption DEF InHand
      <4>2. InHand(v)' => v = Last(pool)
        BY <3>1, <3>2 DEF InHand, Driving, Looping
      <4>3. /\ QueuedTasks(TakeLast(pool), v) \in Nat
            /\ QueuedTasks(pool, v) = QueuedTasks(TakeLast(pool), v)
                                        + (IF v = Last(pool) THEN 1 ELSE 0)
        BY <3>1, CountTaken
      <4>4. Tasks(v) <= 2
        BY DEF AtMostTwoTasks
      <4>5. Tasks(v) = QueuedTasks(pool, v) + (IF InHand(v) THEN 1 ELSE 0)
        BY DEF Tasks
      <4>6. Tasks(v)' = QueuedTasks(pool', v) + (IF InHand(v)' THEN 1 ELSE 0)
        BY DEF Tasks
      <4>7. QED
        BY <3>1, <4>1, <4>2, <4>3, <4>4, <4>5, <4>6
    <3>4. QED
      BY <3>3 DEF AtMostTwoTasks
  <2>3. QED
    BY <2>1, <2>2
<1>3. ASSUME NEW c \in Call, Requeue(c)
      PROVE  AtMostTwoTasks'
  <2>1. /\ pool' = Append(pool, task[c]) /\ task[c] \in Voters
        /\ task' = [task EXCEPT ![c] = None]
        /\ pc' = [pc EXCEPT ![c] = "take"] /\ pc[c] = "requeue"
    BY <1>3 DEF Requeue, HandOK
  <2>2. \A d \in Call : pc[d] \in Driving => d = c
    BY <2>1 DEF OneMinerAtATime, Driving, Looping
  <2>3. ASSUME NEW v \in Voters
        PROVE  Tasks(v)' <= 2
    <3>1. InHand(v) <=> v = task[c]
      BY <2>1, <2>2 DEF InHand, Driving, Looping
    <3>2. ~InHand(v)'
      BY <2>1, <2>2, NoneAssumption DEF InHand, Driving, Looping
    <3>3. /\ QueuedTasks(pool, v) \in Nat
          /\ QueuedTasks(pool', v) =
               QueuedTasks(pool, v) + (IF v = task[c] THEN 1 ELSE 0)
      BY <2>1, CountAppended
    <3>4. Tasks(v) <= 2
      BY DEF AtMostTwoTasks
    <3>5. Tasks(v) = QueuedTasks(pool, v) + (IF InHand(v) THEN 1 ELSE 0)
      BY DEF Tasks
    <3>6. Tasks(v)' = QueuedTasks(pool', v) + (IF InHand(v)' THEN 1 ELSE 0)
      BY DEF Tasks
    <3>7. QED
      BY <3>1, <3>2, <3>3, <3>4, <3>5, <3>6
  <2>4. QED
    BY <2>3 DEF AtMostTwoTasks
<1>4. ASSUME pool' = pool,
             \A v \in Voters : InHand(v)' => InHand(v)
      PROVE  AtMostTwoTasks'
  BY <1>4, NoMoreTasks
<1>5. ASSUME NEW c \in Call,
             \/ \E v \in Voters : Submit(c, v)
             \/ TryLock(c) \/ Check(c) \/ ReadTip(c) \/ AddBlock(c)
             \/ Publish(c) \/ LateAdd(c) \/ Ignore(c) \/ MiningPanics(c)
             \/ Unlock(c)
      PROVE  AtMostTwoTasks'
  <2>1. pool' = pool
    BY <1>5 DEF Submit, TryLock, Check, ReadTip, AddBlock, Publish, LateAdd,
                 Ignore, MiningPanics, Unlock
  <2>2. /\ \A d \in Call \ {c} : task'[d] = task[d] /\ pc'[d] = pc[d]
        /\ task'[c] = None \/ pc'[c] \notin Driving
             \/ (task'[c] = task[c] /\ pc[c] \in Driving)
    BY <1>5 DEF Submit, TryLock, Check, ReadTip, AddBlock, Publish, LateAdd,
                 Ignore, MiningPanics, Unlock, HandOK, Driving, Looping
  <2>3. \A v \in Voters : InHand(v)' => InHand(v)
    BY <2>2, NoneAssumption DEF InHand
  <2>4. QED
    BY <1>4, <2>1, <2>3
<1>6. ASSUME NEW voters \in SUBSET UuidVoters, Adopt(voters)
      PROVE  AtMostTwoTasks'
  BY <1>4, <1>6 DEF Adopt, InHand
<1>7. CASE UNCHANGED vars
  BY <1>4, <1>7 DEF vars, InHand
<1>8. QED
  BY <1>1, <1>2, <1>3, <1>5, <1>6, <1>7 DEF Next, Step

(***************************************************************************)
(* Requeueing cannot make the tasks of one voter pile up: there are never  *)
(* more than two of them in a node, in the pool and in hand.               *)
(***************************************************************************)
THEOREM TwoTasksAtMost == Spec => []AtMostTwoTasks
<1>1. Init => AtMostTwoTasks
  <2> SUFFICES ASSUME Init, NEW v \in Voters PROVE Tasks(v) <= 2
    BY DEF AtMostTwoTasks
  <2>1. <<>> \in Seq(Voters) /\ ~ContainsVoter(<<>>, v)
    BY DEF ContainsVoter, ToSet
  <2>2. QueuedTasks(<<>>, v) = 0
    BY <2>1, CountAppended
  <2>3. QED
    BY <2>2 DEF Init, Tasks
<1>2. TypeOK /\ HandOK /\ OneMinerAtATime /\ AtMostTwoTasks /\ [Next]_vars
        => AtMostTwoTasks'
  BY TwoTasksStep
<1>3. QED
  BY <1>1, <1>2, DriverInvariant, PTL DEF Spec, DriverInv

-----------------------------------------------------------------------------
(* The driver runs down *)

(***************************************************************************)
(* The parts of StepsLeft, as functions of the state they look at.         *)
(***************************************************************************)
At(at, label) == Cardinality({c \in Call : at[c] = label})

Holders(h, at, b, t) ==
  IF h = None THEN 0 ELSE
    CASE at[h] = "unlock"  -> 1
      [] at[h] = "take"    -> 2
      [] at[h] = "publish" -> 3
      [] at[h] = "mine"    -> IF b[h] = t THEN 4 ELSE 10
      [] at[h] = "tip"     -> 6
      [] at[h] = "check"   -> 7
      [] at[h] = "requeue" -> 9

Parts(at, p, a, h) ==
  11 * At(at, "new") + 10 * At(at, "queue") + 3 * At(at, "lock")
    + 6 * Len(p) + 7 * (MaxAdopts - a) + h

(***************************************************************************)
(* StepsLeft and its value after a step are the sum of these parts.        *)
(***************************************************************************)
LEMMA StepsLeftParts ==
  /\ StepsLeft = Parts(pc, pool, adopts, Holders(holder, pc, base, tip))
  /\ StepsLeft' = Parts(pc', pool', adopts', Holders(holder', pc', base', tip'))
BY DEF StepsLeft, StepsOfHolder, CallsAt, Parts, At, Holders

(***************************************************************************)
(* How many calls are at a program point after one of them went on.        *)
(***************************************************************************)
LEMMA OneGoesOn ==
  ASSUME NEW at \in [Call -> PCs], NEW on \in [Call -> PCs], NEW c \in Call,
         NEW label, IsFiniteSet(Call), on[c] # at[c],
         \A d \in Call \ {c} : on[d] = at[d]
  PROVE  /\ At(at, label) \in Nat
         /\ At(on, label) =
              IF label = on[c] THEN At(at, label) + 1
              ELSE IF label = at[c] THEN At(at, label) - 1 ELSE At(at, label)
<1> DEFINE S == {d \in Call : at[d] = label}
           T == {d \in Call : on[d] = label}
<1>1. IsFiniteSet(S) /\ IsFiniteSet(T) /\ Cardinality(S) \in Nat
  <2>1. S \subseteq Call /\ T \subseteq Call
    OBVIOUS
  <2>2. QED
    BY <2>1, FS_Subset, FS_CardinalityType
<1>2. At(at, label) = Cardinality(S) /\ At(on, label) = Cardinality(T)
  BY DEF At
<1>3. CASE label = on[c]
  <2>1. T = S \cup {c} /\ c \notin S
    BY <1>3
  <2>2. QED
    BY <1>1, <1>2, <1>3, <2>1, FS_AddElement
<1>4. CASE label # on[c] /\ label = at[c]
  <2>1. S = T \cup {c} /\ c \notin T
    BY <1>4
  <2>2. Cardinality(S) = Cardinality(T) + 1 /\ Cardinality(T) \in Nat
    BY <1>1, <2>1, FS_AddElement, FS_CardinalityType
  <2>3. QED
    BY <1>1, <1>2, <1>4, <2>2
<1>5. CASE label # on[c] /\ label # at[c]
  <2>1. S = T
    BY <1>5
  <2>2. QED
    BY <1>1, <1>2, <1>5, <2>1
<1>6. QED
  BY <1>3, <1>4, <1>5

\* What a call outside the loop is worth.
Worth(label) ==
  IF label = "new" THEN 11 ELSE IF label = "queue" THEN 10
    ELSE IF label = "lock" THEN 3 ELSE 0

(***************************************************************************)
(* A step in which one call goes on spends steps if what its old program   *)
(* point is worth covers the new one, what it puts into the pool, and what *)
(* the holder of the lock gains.                                           *)
(***************************************************************************)
LEMMA OneSpends ==
  ASSUME NEW c \in Call, NEW to \in PCs, NEW h \in Int, NEW g \in Int,
         IsFiniteSet(Call), TypeOK, pc[c] # to, Goto(c, to),
         adopts' = adopts, Len(pool') \in Nat,
         h = Holders(holder, pc, base, tip), g = Holders(holder', pc', base', tip'),
         Worth(to) + 6 * Len(pool') + g < Worth(pc[c]) + 6 * Len(pool) + h
  PROVE  StepsLeft' < StepsLeft
<1>0. pc \in [Call -> PCs] /\ Len(pool) \in Nat /\ adopts \in Nat /\ MaxAdopts \in Nat
  BY AdoptsAssumption DEF TypeOK
<1>1. \A label : /\ At(pc, label) \in Nat
                   /\ At(pc', label) =
                        IF label = to THEN At(pc, label) + 1
                        ELSE IF label = pc[c] THEN At(pc, label) - 1
                        ELSE At(pc, label)
  <2>1. PICK f \in [Call -> PCs], on \in [Call -> PCs] : f = pc /\ on = pc'
    BY <1>0 DEF Goto
  <2>2. on[c] = to /\ on[c] # f[c] /\ \A d \in Call \ {c} : on[d] = f[d]
    BY <2>1 DEF Goto
  <2>3. \A label :
           /\ At(f, label) \in Nat
           /\ At(on, label) =
                IF label = on[c] THEN At(f, label) + 1
                ELSE IF label = f[c] THEN At(f, label) - 1 ELSE At(f, label)
    BY <2>2, OneGoesOn
  <2>4. QED
    BY <2>1, <2>2, <2>3, Zenon
<1>2. PICK N, Q, L, NN, QQ, LL :
        /\ N = At(pc, "new") /\ Q = At(pc, "queue") /\ L = At(pc, "lock")
        /\ NN = At(pc', "new") /\ QQ = At(pc', "queue") /\ LL = At(pc', "lock")
  BY Zenon
<1>3. /\ N \in Nat /\ Q \in Nat /\ L \in Nat
      /\ NN = IF "new" = to THEN N + 1 ELSE IF "new" = pc[c] THEN N - 1 ELSE N
      /\ QQ = IF "queue" = to THEN Q + 1 ELSE IF "queue" = pc[c] THEN Q - 1 ELSE Q
      /\ LL = IF "lock" = to THEN L + 1 ELSE IF "lock" = pc[c] THEN L - 1 ELSE L
  BY <1>1, <1>2, Zenon
<1>4. /\ StepsLeft = 11 * N + 10 * Q + 3 * L + 6 * Len(pool) + 7 * (MaxAdopts - adopts) + h
      /\ StepsLeft' = 11 * NN + 10 * QQ + 3 * LL + 6 * Len(pool') + 7 * (MaxAdopts - adopts) + g
  BY <1>2, StepsLeftParts, Zenon DEF Parts
<1>5. PICK x, y, p, q : x = Worth(to) /\ y = Worth(pc[c]) /\ p = Len(pool) /\ q = Len(pool')
  BY Zenon
<1>6. 11 * NN + 10 * QQ + 3 * LL = 11 * N + 10 * Q + 3 * L + x - y
  BY <1>3, <1>5, pc[c] # to DEF Worth
<1>7. /\ x \in Int /\ y \in Int /\ p \in Nat /\ q \in Nat
      /\ NN \in Int /\ QQ \in Int /\ LL \in Int
  BY <1>0, <1>3, <1>5 DEF Worth
<1>8. x + 6 * q + g < y + 6 * p + h
  BY <1>5, Zenon
<1>9. 11 * NN + 10 * QQ + 3 * LL + 6 * q + 7 * (MaxAdopts - adopts) + g
        < 11 * N + 10 * Q + 3 * L + 6 * p + 7 * (MaxAdopts - adopts) + h
  BY <1>0, <1>3, <1>6, <1>7, <1>8
<1>10. QED
  BY <1>4, <1>5, <1>9, Zenon

(***************************************************************************)
(* The call that holds the lock is worth a number of steps.                *)
(***************************************************************************)
LEMMA HoldersType ==
  ASSUME TypeOK, OneMinerAtATime
  PROVE  Holders(holder, pc, base, tip) \in Nat
<1>1. CASE holder = None
  BY <1>1 DEF Holders
<1>2. CASE holder # None
  <2>1. holder \in Call /\ pc[holder] \in Driving
    BY <1>2 DEF TypeOK, OneMinerAtATime
  <2>2. QED
    BY <1>2, <2>1 DEF Holders, Driving, Looping
<1>3. QED
  BY <1>1, <1>2

(***************************************************************************)
(* A call outside the loop that goes on, and stays outside, does not       *)
(* change what the holder of the lock is worth.                            *)
(***************************************************************************)
LEMMA OutsideTheLoop ==
  ASSUME TypeOK, OneMinerAtATime, NEW c \in Call, NEW to \in PCs,
         pc[c] \notin Driving, Goto(c, to),
         UNCHANGED <<holder, base, tip>>
  PROVE  Holders(holder', pc', base', tip') = Holders(holder, pc, base, tip)
<1>1. CASE holder = None
  BY <1>1 DEF Holders
<1>2. CASE holder # None
  <2>1. holder \in Call /\ pc[holder] \in Driving
    BY <1>2 DEF TypeOK, OneMinerAtATime
  <2>2. pc'[holder] = pc[holder]
    BY <2>1 DEF TypeOK, Goto
  <2>3. QED
    BY <1>2, <2>2 DEF Holders
<1>3. QED
  BY <1>1, <1>2

(***************************************************************************)
(* Arriving, queueing and trying the lock spend steps.                     *)
(***************************************************************************)
LEMMA ArrivalSpends ==
  ASSUME IsFiniteSet(Call), DriverInv, NEW c \in Call,
         (\E v \in Voters : Submit(c, v)) \/ Queue(c) \/ TryLock(c)
  PROVE  StepsLeft' < StepsLeft
<1>1. TypeOK /\ OneMinerAtATime /\ pc \in [Call -> PCs] /\ pool \in Seq(Voters)
  BY DEF DriverInv, TypeOK
<1>2. PICK h \in Nat : h = Holders(holder, pc, base, tip)
  BY <1>1, HoldersType
<1>3. Len(pool) \in Nat /\ {"new", "queue", "lock", "done", "take"} \subseteq PCs
  BY <1>1 DEF PCs, Driving, Looping
<1>4. ASSUME NEW v \in Voters, Submit(c, v)
      PROVE  StepsLeft' < StepsLeft
  <2>1. PICK to \in {"done", "queue"} : Goto(c, to)
    BY <1>4 DEF Submit
  <2>2. pc[c] = "new" /\ UNCHANGED <<pool, adopts, holder, base, tip>>
    BY <1>4 DEF Submit, chainVars
  <2>3. Holders(holder', pc', base', tip') = h
    BY <1>1, <1>2, <1>3, <2>1, <2>2, OutsideTheLoop DEF Driving, Looping
  <2>4. Worth(to) + 6 * Len(pool') + h < Worth(pc[c]) + 6 * Len(pool) + h
    BY <1>3, <2>1, <2>2 DEF Worth
  <2>5. to \in PCs /\ pc[c] # to /\ Len(pool') \in Nat /\ h \in Int
    BY <1>2, <1>3, <2>1, <2>2
  <2>6. QED
    BY <1>1, <1>2, <2>1, <2>2, <2>3, <2>4, <2>5, OneSpends
<1>5. ASSUME Queue(c)
      PROVE  StepsLeft' < StepsLeft
  <2>1. pc[c] = "queue" /\ UNCHANGED <<adopts, holder, base, tip>>
    BY <1>5 DEF Queue, chainVars
  <2>2. PICK to \in {"done", "lock"} :
          /\ Goto(c, to)
          /\ Len(pool') = IF to = "lock" THEN Len(pool) + 1 ELSE Len(pool)
    <3>1. CASE ContainsVoter(pool, task[c])
      BY <1>5, <3>1 DEF Queue
    <3>2. CASE ~ContainsVoter(pool, task[c])
      BY <1>1, <1>5, <3>2 DEF Queue
    <3>3. QED
      BY <3>1, <3>2
  <2>3. Holders(holder', pc', base', tip') = h
    BY <1>1, <1>2, <1>3, <2>1, <2>2, OutsideTheLoop DEF Driving, Looping
  <2>4. Worth(to) + 6 * Len(pool') + h < Worth(pc[c]) + 6 * Len(pool) + h
    <3>1. PICK p, q : p = Len(pool) /\ q = Len(pool')
      BY Zenon
    <3>2. p \in Nat /\ q = IF to = "lock" THEN p + 1 ELSE p
      BY <1>3, <2>2, <3>1
    <3>3. Worth(to) + 6 * q + h < Worth("queue") + 6 * p + h
      BY <1>2, <2>2, <3>2 DEF Worth
    <3>4. QED
      BY <2>1, <3>1, <3>3, Zenon
  <2>5. to \in PCs /\ pc[c] # to /\ Len(pool') \in Nat /\ h \in Int
    BY <1>2, <1>3, <2>1, <2>2
  <2>6. QED
    BY <1>1, <1>2, <2>1, <2>2, <2>3, <2>4, <2>5, OneSpends
<1>6. ASSUME TryLock(c), ~LockFree
      PROVE  StepsLeft' < StepsLeft
  <2>1. /\ pc[c] = "lock" /\ Goto(c, "done")
        /\ UNCHANGED <<pool, adopts, holder, base, tip>>
    BY <1>6 DEF TryLock, chainVars
  <2>2. Holders(holder', pc', base', tip') = h
    BY <1>1, <1>2, <1>3, <2>1, OutsideTheLoop DEF Driving, Looping
  <2>3. Worth("done") + 6 * Len(pool') + h < Worth(pc[c]) + 6 * Len(pool) + h
    BY <1>3, <2>1 DEF Worth
  <2>4. QED
    BY <1>1, <1>2, <1>3, <2>1, <2>2, <2>3, OneSpends
<1>7. ASSUME TryLock(c), LockFree
      PROVE  StepsLeft' < StepsLeft
  <2>1. /\ pc[c] = "lock" /\ Goto(c, "take")
        /\ holder = None /\ holder' = c /\ UNCHANGED <<pool, adopts>>
    BY <1>7 DEF TryLock, LockFree, chainVars
  <2>2. 0 = Holders(holder, pc, base, tip)
    BY <2>1 DEF Holders
  <2>3. 2 = Holders(holder', pc', base', tip')
    BY <1>1, <2>1, NoneAssumption DEF Holders, Goto
  <2>4. PICK x \in Int, y \in Int : x = 0 /\ y = 2
    OBVIOUS
  <2>5. Worth("take") + 6 * Len(pool') + y < Worth(pc[c]) + 6 * Len(pool) + x
    BY <1>3, <2>1, <2>4 DEF Worth
  <2>6. /\ x = Holders(holder, pc, base, tip)
        /\ y = Holders(holder', pc', base', tip')
    BY <2>2, <2>3, <2>4
  <2>7. "take" \in PCs /\ pc[c] # "take" /\ Len(pool') \in Nat
    BY <1>3, <2>1
  <2>8. QED
    BY <1>1, <2>1, <2>5, <2>6, <2>7, OneSpends
<1>8. QED
  BY <1>4, <1>5, <1>6, <1>7

(***************************************************************************)
(* A step of the call that holds the lock spends steps if the places it    *)
(* goes from and to, and the pool, are worth less afterwards.              *)
(***************************************************************************)
LEMMA HolderSpends ==
  ASSUME NEW c \in Call, NEW to \in Driving, NEW h \in Nat, NEW g \in Nat,
         IsFiniteSet(Call), DriverInv, pc[c] \in Driving, pc[c] # to, Goto(c, to),
         holder' = holder, adopts' = adopts, Len(pool') \in Nat,
         h = Holders(c, pc, base, tip), g = Holders(c, pc', base', tip'),
         6 * Len(pool') + g < 6 * Len(pool) + h
  PROVE  StepsLeft' < StepsLeft
<1>1. TypeOK /\ holder = c /\ pc \in [Call -> PCs] /\ to \in PCs
  BY DEF DriverInv, OneMinerAtATime, TypeOK, PCs
<1>2. h = Holders(holder, pc, base, tip) /\ g = Holders(holder', pc', base', tip')
  BY <1>1
<1>3. Worth(to) = 0 /\ Worth(pc[c]) = 0 /\ Len(pool) \in Nat
  BY <1>1 DEF Worth, Driving, Looping, TypeOK
<1>4. Worth(to) + 6 * Len(pool') + g < Worth(pc[c]) + 6 * Len(pool) + h
  BY <1>3
<1>5. to \in PCs /\ h \in Int /\ g \in Int
  BY <1>1
<1>6. QED
  BY <1>1, <1>2, <1>4, <1>5, OneSpends

(***************************************************************************)
(* The loop spends steps.  A task is put back only by a search whose base  *)
(* was replaced, and the next one begins on the chain of that moment.      *)
(***************************************************************************)
LEMMA LoopSpends ==
  ASSUME IsFiniteSet(Call), DriverInv, NEW c \in Call,
         \/ Take(c) \/ Check(c) \/ ReadTip(c) \/ AddBlock(c) \/ Publish(c)
         \/ LateAdd(c) \/ Requeue(c) \/ Ignore(c) \/ MiningPanics(c)
  PROVE  StepsLeft' < StepsLeft
<1>1. /\ pc \in [Call -> PCs] /\ pool \in Seq(Voters) /\ Len(pool) \in Nat
      /\ task \in [Call -> Voters \cup {None}] /\ base \in [Call -> Nat]
      /\ HandOK /\ OneMinerAtATime /\ c # None
  BY NoneAssumption DEF DriverInv, TypeOK
<1>2. Holders(c, pc, base, tip) =
        CASE pc[c] = "unlock"  -> 1
          [] pc[c] = "take"    -> 2
          [] pc[c] = "publish" -> 3
          [] pc[c] = "mine"    -> IF base[c] = tip THEN 4 ELSE 10
          [] pc[c] = "tip"     -> 6
          [] pc[c] = "check"   -> 7
          [] pc[c] = "requeue" -> 9
  BY <1>1 DEF Holders
<1>3. Holders(c, pc', base', tip') =
        CASE pc'[c] = "unlock"  -> 1
          [] pc'[c] = "take"    -> 2
          [] pc'[c] = "publish" -> 3
          [] pc'[c] = "mine"    -> IF base'[c] = tip' THEN 4 ELSE 10
          [] pc'[c] = "tip"     -> 6
          [] pc'[c] = "check"   -> 7
          [] pc'[c] = "requeue" -> 9
  BY <1>1 DEF Holders
<1> USE <1>1, <1>2, <1>3 DEF Driving, Looping, chainVars
<1>5. CASE Take(c)
  <2>1. CASE Exhausted(pool)
    <3>1. /\ pc[c] = "take" /\ Goto(c, "unlock")
          /\ UNCHANGED <<pool, holder, adopts>>
      BY <1>5, <2>1 DEF Take
    <3>2. PICK h \in Nat, g \in Nat :
            /\ h = 2 /\ h = Holders(c, pc, base, tip)
            /\ g = 1 /\ g = Holders(c, pc', base', tip')
      BY <3>1 DEF Goto
    <3>3. /\ pc[c] \in Driving /\ "unlock" \in Driving /\ pc[c] # "unlock"
          /\ Len(pool') \in Nat /\ 6 * Len(pool') + g < 6 * Len(pool) + h
      BY <3>1, <3>2
    <3>4. QED
      BY <3>1, <3>2, <3>3, HolderSpends
  <2>2. CASE ~Exhausted(pool)
    <3>1. /\ pc[c] = "take" /\ Goto(c, "check")
          /\ pool' = TakeLast(pool) /\ UNCHANGED <<holder, adopts>>
      BY <1>5, <2>2 DEF Take
    <3>2. Len(pool') = Len(pool) - 1 /\ Len(pool') \in Nat
      <4>1. pool # <<>>
        BY <2>2 DEF Exhausted
      <4>2. TakeLast(pool) \in Seq(Voters) /\ pool = Append(TakeLast(pool), Last(pool))
        BY <4>1, TakeAndPutBack
      <4>3. QED
        BY <3>1, <4>2
    <3>3. PICK h \in Nat, g \in Nat :
            /\ h = 2 /\ h = Holders(c, pc, base, tip)
            /\ g = 7 /\ g = Holders(c, pc', base', tip')
      BY <3>1 DEF Goto
    <3>4. /\ pc[c] \in Driving /\ "check" \in Driving /\ pc[c] # "check"
          /\ Len(pool') \in Nat /\ 6 * Len(pool') + g < 6 * Len(pool) + h
      BY <3>1, <3>2, <3>3
    <3>5. QED
      BY <3>1, <3>2, <3>3, <3>4, HolderSpends
  <2>3. QED
    BY <2>1, <2>2
<1>6. CASE Check(c)
  <2>1. PICK to \in {"take", "tip"} : Goto(c, to)
    BY <1>6 DEF Check
  <2>2. pc[c] = "check" /\ UNCHANGED <<pool, holder, adopts>>
    BY <1>6 DEF Check
  <2>3. PICK g \in Nat : g < 7 /\ g = Holders(c, pc', base', tip')
    BY <2>1 DEF Goto
  <2>4. PICK h \in Nat : h = 7 /\ h = Holders(c, pc, base, tip)
    BY <2>2
  <2>5. pc[c] \in Driving /\ to \in Driving /\ pc[c] # to
    BY <2>1, <2>2
  <2>6. Len(pool') \in Nat /\ 6 * Len(pool') + g < 6 * Len(pool) + h
    <3>1. PICK p \in Nat : p = Len(pool) /\ p = Len(pool')
      BY <2>2
    <3>2. g < h
      BY <2>3, <2>4
    <3>3. 6 * p + g < 6 * p + h
      BY ONLY p \in Nat, g \in Nat, h \in Nat, <3>2
    <3>4. QED
      BY <3>1, <3>3, Zenon
  <2>7. QED
    BY <2>1, <2>2, <2>3, <2>4, <2>5, <2>6, HolderSpends
<1>7. CASE ReadTip(c)
  <2>1. /\ pc[c] = "tip" /\ Goto(c, "mine") /\ base'[c] = tip'
        /\ UNCHANGED <<pool, holder, adopts>>
    BY <1>7 DEF ReadTip
  <2>2. PICK h \in Nat, g \in Nat :
          /\ h = 6 /\ h = Holders(c, pc, base, tip)
          /\ g = 4 /\ g = Holders(c, pc', base', tip')
    BY <2>1 DEF Goto
  <2>3. /\ pc[c] \in Driving /\ "mine" \in Driving /\ pc[c] # "mine"
        /\ Len(pool') \in Nat /\ 6 * Len(pool') + g < 6 * Len(pool) + h
    BY <2>1, <2>2
  <2>4. QED
    BY <2>1, <2>2, <2>3, HolderSpends
<1>8. CASE LateAdd(c)
  <2>1. /\ pc[c] = "mine" /\ Goto(c, "requeue") /\ base[c] # tip
        /\ UNCHANGED <<pool, holder, adopts>>
    BY <1>8 DEF LateAdd, Late
  <2>2. PICK h \in Nat, g \in Nat :
          /\ h = 10 /\ h = Holders(c, pc, base, tip)
          /\ g = 9 /\ g = Holders(c, pc', base', tip')
    BY <2>1 DEF Goto
  <2>3. /\ pc[c] \in Driving /\ "requeue" \in Driving /\ pc[c] # "requeue"
        /\ Len(pool') \in Nat /\ 6 * Len(pool') + g < 6 * Len(pool) + h
    BY <2>1, <2>2
  <2>4. QED
    BY <2>1, <2>2, <2>3, HolderSpends
<1>9. CASE Requeue(c)
  <2>1. /\ pc[c] = "requeue" /\ Goto(c, "take")
        /\ pool' = Append(pool, task[c]) /\ UNCHANGED <<holder, adopts>>
    BY <1>9 DEF Requeue
  <2>2. Len(pool') = Len(pool) + 1
    BY <2>1 DEF HandOK
  <2>3. PICK h \in Nat, g \in Nat :
          /\ h = 9 /\ h = Holders(c, pc, base, tip)
          /\ g = 2 /\ g = Holders(c, pc', base', tip')
    BY <2>1 DEF Goto
  <2>4. /\ pc[c] \in Driving /\ "take" \in Driving /\ pc[c] # "take"
        /\ Len(pool') \in Nat /\ 6 * Len(pool') + g < 6 * Len(pool) + h
    BY <2>1, <2>2, <2>3
  <2>5. QED
    BY <2>1, <2>2, <2>3, <2>4, HolderSpends
<1>10. CASE AddBlock(c) \/ Ignore(c) \/ MiningPanics(c)
  <2>1. PICK to \in {"publish", "take"} : Goto(c, to)
    BY <1>10 DEF AddBlock, Ignore, MiningPanics
  <2>2. pc[c] = "mine" /\ UNCHANGED <<pool, holder, adopts>>
    BY <1>10 DEF AddBlock, Ignore, MiningPanics
  <2>3. PICK g \in Nat : g < 4 /\ g = Holders(c, pc', base', tip')
    BY <2>1 DEF Goto
  <2>4. PICK h \in Nat : h >= 4 /\ h = Holders(c, pc, base, tip)
    BY <2>2
  <2>5. pc[c] \in Driving /\ to \in Driving /\ pc[c] # to
    BY <2>1, <2>2
  <2>6. Len(pool') \in Nat /\ 6 * Len(pool') + g < 6 * Len(pool) + h
    <3>1. PICK p \in Nat : p = Len(pool) /\ p = Len(pool')
      BY <2>2
    <3>2. g < h
      BY ONLY g \in Nat, h \in Nat, <2>3, <2>4
    <3>3. 6 * p + g < 6 * p + h
      BY ONLY p \in Nat, g \in Nat, h \in Nat, <3>2
    <3>4. QED
      BY <3>1, <3>3, Zenon
  <2>7. QED
    BY <2>1, <2>2, <2>3, <2>4, <2>5, <2>6, HolderSpends
<1>11. CASE Publish(c)
  <2>1. /\ pc[c] = "publish" /\ Goto(c, "take")
        /\ UNCHANGED <<pool, holder, adopts>>
    BY <1>11 DEF Publish
  <2>2. PICK h \in Nat, g \in Nat :
          /\ h = 3 /\ h = Holders(c, pc, base, tip)
          /\ g = 2 /\ g = Holders(c, pc', base', tip')
    BY <2>1 DEF Goto
  <2>3. /\ pc[c] \in Driving /\ "take" \in Driving /\ pc[c] # "take"
        /\ Len(pool') \in Nat /\ 6 * Len(pool') + g < 6 * Len(pool) + h
    BY <2>1, <2>2
  <2>4. QED
    BY <2>1, <2>2, <2>3, HolderSpends
<1>12. QED
  BY <1>5, <1>6, <1>7, <1>8, <1>9, <1>10, <1>11

(***************************************************************************)
(* The end of the loop spends a step.                                      *)
(***************************************************************************)
LEMMA UnlockSpends ==
  ASSUME NEW c \in Call, IsFiniteSet(Call), DriverInv, Unlock(c)
  PROVE  StepsLeft' < StepsLeft
<1>1. /\ TypeOK /\ holder = c /\ c # None /\ Len(pool) \in Nat
      /\ pc[c] = "unlock" /\ Goto(c, "done") /\ holder' = None
      /\ UNCHANGED <<pool, adopts>>
  BY NoneAssumption
     DEF DriverInv, TypeOK, OneMinerAtATime, Unlock, Driving, chainVars
<1>2. PICK h \in Int, g \in Int :
        /\ h = 1 /\ h = Holders(holder, pc, base, tip)
        /\ g = 0 /\ g = Holders(holder', pc', base', tip')
  BY <1>1 DEF Holders
<1>3. "done" \in PCs /\ pc[c] # "done" /\ Len(pool') \in Nat
  BY <1>1 DEF PCs
<1>4. Worth("done") + 6 * Len(pool') + g < Worth(pc[c]) + 6 * Len(pool) + h
  BY <1>1, <1>2 DEF Worth
<1>5. QED
  BY <1>1, <1>2, <1>3, <1>4, OneSpends

(***************************************************************************)
(* A chain adopted from another node spends steps: it may cost the search  *)
(* that runs, but no other.                                                *)
(***************************************************************************)
LEMMA AdoptSpends ==
  ASSUME NEW voters \in SUBSET UuidVoters, IsFiniteSet(Call), DriverInv,
         Adopt(voters)
  PROVE  StepsLeft' < StepsLeft
<1>1. /\ TypeOK /\ OneMinerAtATime /\ pc \in [Call -> PCs] /\ Len(pool) \in Nat
      /\ adopts \in Nat /\ MaxAdopts \in Nat /\ adopts' = adopts + 1
      /\ UNCHANGED <<pool, holder, pc, base>>
  BY AdoptsAssumption DEF DriverInv, TypeOK, Adopt
<1>2. PICK h \in Nat : h = Holders(holder, pc, base, tip)
  BY <1>1, HoldersType
<1>3. PICK g \in Nat : g = Holders(holder', pc', base', tip') /\ g <= h + 6
  <2>1. CASE holder = None
    BY <1>1, <1>2, <2>1 DEF Holders
  <2>2. CASE holder # None
    <3>1. holder \in Call /\ pc[holder] \in Driving
      BY <1>1, <2>2 DEF TypeOK, OneMinerAtATime
    <3>2. CASE pc[holder] = "mine"
      <4>1. PICK g \in {4, 10} : g = Holders(holder', pc', base', tip')
        BY <1>1, <2>2, <3>2 DEF Holders
      <4>2. h >= 4
        BY <1>2, <2>2, <3>2 DEF Holders
      <4>3. g \in Nat /\ g <= h + 6
        BY <4>1, <4>2
      <4>4. QED
        BY <4>1, <4>3
    <3>3. CASE pc[holder] # "mine"
      <4>1. h = Holders(holder', pc', base', tip')
        BY <1>1, <1>2, <2>2, <3>1, <3>3 DEF Holders, Driving, Looping
      <4>2. QED
        BY <4>1
    <3>4. QED
      BY <3>2, <3>3
  <2>3. QED
    BY <2>1, <2>2
<1>4. PICK n \in Nat :
        /\ n = 11 * At(pc, "new") + 10 * At(pc, "queue") + 3 * At(pc, "lock")
                 + 6 * Len(pool)
  <2>1. \A label : At(pc, label) \in Nat
    <3>1. ASSUME NEW label
          PROVE  At(pc, label) \in Nat
      <4>1. {c \in Call : pc[c] = label} \subseteq Call
        OBVIOUS
      <4>2. QED
        BY <4>1, FS_Subset, FS_CardinalityType DEF At
    <3>2. QED
      BY <3>1
  <2>2. QED
    BY <1>1, <2>1
<1>5. /\ StepsLeft = n + 7 * (MaxAdopts - adopts) + h
      /\ StepsLeft' = n + 7 * (MaxAdopts - (adopts + 1)) + g
  <2>1. /\ StepsLeft = Parts(pc, pool, adopts, h)
        /\ StepsLeft' = Parts(pc, pool, adopts + 1, g)
    BY <1>1, <1>2, <1>3, StepsLeftParts
  <2>2. QED
    BY <1>4, <2>1 DEF Parts
<1>6. n + 7 * (MaxAdopts - (adopts + 1)) + g < n + 7 * (MaxAdopts - adopts) + h
  BY <1>1, <1>3
<1>7. QED
  BY <1>5, <1>6, Zenon

(***************************************************************************)
(* The steps left are a natural number.                                    *)
(***************************************************************************)
LEMMA StepsLeftType == IsFiniteSet(Call) /\ DriverInv => StepsLeft \in Nat
<1> SUFFICES ASSUME IsFiniteSet(Call), DriverInv
             PROVE  StepsLeft \in Nat
  OBVIOUS
<1>1. /\ Len(pool) \in Nat /\ adopts \in 0..MaxAdopts /\ MaxAdopts \in Nat
      /\ Holders(holder, pc, base, tip) \in Nat
  BY AdoptsAssumption, HoldersType DEF DriverInv, TypeOK
<1>2. ASSUME NEW label
      PROVE  At(pc, label) \in Nat
  <2>1. {c \in Call : pc[c] = label} \subseteq Call
    OBVIOUS
  <2>2. QED
    BY <2>1, FS_Subset, FS_CardinalityType DEF At
<1>3. /\ At(pc, "new") \in Nat /\ At(pc, "queue") \in Nat
      /\ At(pc, "lock") \in Nat
  BY <1>2
<1>4. PICK n, q, l, h, p :
        /\ n = At(pc, "new") /\ q = At(pc, "queue") /\ l = At(pc, "lock")
        /\ h = Holders(holder, pc, base, tip) /\ p = Len(pool)
  BY Zenon
<1>5. StepsLeft = 11 * n + 10 * q + 3 * l + 6 * p + 7 * (MaxAdopts - adopts) + h
  BY <1>4, StepsLeftParts, Zenon DEF Parts
<1>6. n \in Nat /\ q \in Nat /\ l \in Nat /\ h \in Nat /\ p \in Nat
  BY <1>1, <1>3, <1>4, Zenon
<1>7. 11 * n + 10 * q + 3 * l + 6 * p + 7 * (MaxAdopts - adopts) + h \in Nat
  BY <1>1, <1>6
<1>8. QED
  BY <1>5, <1>7, Zenon

(***************************************************************************)
(* Every step of a node spends some of those left, for any finite number   *)
(* of calls and any number of adoptions: these bound the steps of the loop *)
(* that drains the pool, whatever is requeued, dropped or arrives late.    *)
(***************************************************************************)
THEOREM DriverAlwaysRunsDown ==
  ASSUME IsFiniteSet(Call)
  PROVE  Spec => DriverRunsDown
<1>1. DriverInv /\ [Next]_vars => [StepsLeft' < StepsLeft]_vars
  BY ArrivalSpends, LoopSpends, UnlockSpends, AdoptSpends DEF Next, Step
<1>2. DriverInv => StepsLeft \in Nat
  BY StepsLeftType
<1>3. ASSUME StepsLeft \in Nat, (StepsLeft \in Nat)', [StepsLeft' < StepsLeft]_vars
      PROVE  [StepsLeft' \in 0..(StepsLeft - 1)]_vars
  <2>1. PICK x, y : x = StepsLeft /\ y = StepsLeft'
    BY Zenon
  <2>2. x \in Nat /\ y \in Nat
    BY <1>3, <2>1, Zenon
  <2>3. y < x => y \in 0..(x - 1)
    BY <2>2
  <2>4. QED
    BY <1>3, <2>1, <2>3, Zenon
<1>4. QED
  BY <1>1, <1>2, <1>3, DriverInvariant, PTL DEF Spec, DriverRunsDown
=============================================================================

----------------------------- MODULE MiningDriver -----------------------------
(***************************************************************************)
(* The mining pool of one bk-rs node and the calls that fill and drain it. *)
(*                                                                         *)
(* Every DistributeMiningTask message is handled by a call of              *)
(* App::add_mining_task in an asynchronous task of its own.  The call      *)
(* queues the mining task and tries to become the one call that drains the *)
(* pool (App::drive_mining_pool): it mines the tasks one at a time, newest *)
(* first, until it finds the pool empty.  An action is one critical        *)
(* section of one call; between two of them the other calls, and           *)
(* sync_chain, which replaces the chain, may run.                          *)
(*                                                                         *)
(* A mining task is named by its voter, the candidate is left out.  The    *)
(* chain is only the number of its version: a mined block fits exactly the *)
(* chain it was mined on and is late on every other one, which is          *)
(* LateMeansOvertaken of LedgerProofs.                                     *)
(***************************************************************************)
EXTENDS Integers, Sequences, FiniteSets, SequencesExt

CONSTANTS
  Call,         \* the calls of add_mining_task
  Voters,       \* the voter ids a mining task may carry
  UuidVoters,   \* those of them that parse as a UUID
  None,         \* no call holds the mining lock; a call has no task in hand
  MaxAdopts     \* bound: how often sync_chain replaces the chain

ASSUME VotersAssumption == UuidVoters \subseteq Voters
ASSUME NoneAssumption == None \notin Voters /\ None \notin Call
ASSUME AdoptsAssumption == MaxAdopts \in Nat

VARIABLES
  pool,         \* MiningPool::tasks
  holder,       \* the call that holds App::mining_lock
  pc,           \* where each call is
  task,         \* the mining task each call has in hand
  base,         \* the version of the chain the call read the tip of
  seen,         \* App::seen_voter_ids
  tip,          \* the version of the chain
  adopts,       \* how often the chain was replaced
  everSeen,     \* history: the voters that were on the node's chain once
  queued,       \* history: the voters whose task was queued
  dropped       \* history: the voters whose task ended without being mined

vars == <<pool, holder, pc, task, base, seen, tip, adopts,
          everSeen, queued, dropped>>

chainVars == <<seen, tip, adopts, everSeen>>

\* The program points at which a call is inside the loop, and those at which
\* it holds the mining lock.
Looping == {"take", "check", "tip", "mine", "publish", "requeue"}
Driving == Looping \cup {"unlock"}

PCs == {"new", "queue", "lock", "done"} \cup Driving

\* A call is at one of its program points, and only voter ids that
\* Block::validate accepts ever get onto the chain.
TypeOK ==
  /\ pool \in Seq(Voters)
  /\ holder \in Call \cup {None}
  /\ pc \in [Call -> PCs]
  /\ task \in [Call -> Voters \cup {None}]
  /\ base \in [Call -> Nat]
  /\ seen \subseteq UuidVoters /\ everSeen \subseteq UuidVoters
  /\ tip \in Nat
  /\ adopts \in 0..MaxAdopts
  /\ queued \subseteq Voters /\ dropped \subseteq Voters

Init ==
  /\ pool = <<>>
  /\ holder = None
  /\ pc = [c \in Call |-> "new"]
  /\ task = [c \in Call |-> None]
  /\ base = [c \in Call |-> 0]
  /\ seen = {} /\ everSeen = {}
  /\ tip = 0
  /\ adopts = 0
  /\ queued = {} /\ dropped = {}

-----------------------------------------------------------------------------
(* The pool, the lock and the validation of a mined block *)

\* Variants of the operators below, each with a mistake: what the properties
\* are good for is that they tell these from the code.
NeverContains(p, v) == FALSE
StopsEarly(p) == Len(p) <= 1
IgnoresLock == TRUE
AddsAnyVoter(c) == task[c] \notin seen /\ base[c] = tip
NeverLate(c) == FALSE
LateUnlessAdded(c) == ~(task[c] \in UuidVoters \ seen /\ base[c] = tip)

ContainsVoter(p, v) == v \in ToSet(p)

Exhausted(p) == p = <<>>

TakeLast(p) == Front(p)

\* try_lock would succeed.
LockFree == holder = None

\* validate_addition answers AddBlock, or AttemptedLateAdd, to the block the
\* call has mined; to any other block it answers IgnoreBlock.
Addable(c) == task[c] \in UuidVoters \ seen /\ base[c] = tip
Late(c) == task[c] \notin seen /\ base[c] # tip

Goto(c, label) == pc' = [pc EXCEPT ![c] = label]

InHand(v) == \E c \in Call : task[c] = v /\ pc[c] \in Driving

-----------------------------------------------------------------------------
(* add_mining_task *)

\* A task arrives; one whose voter has voted is ignored.
Submit(c, v) ==
  /\ pc[c] = "new"
  /\ IF v \in seen
       THEN Goto(c, "done") /\ UNCHANGED task
       ELSE Goto(c, "queue") /\ task' = [task EXCEPT ![c] = v]
  /\ UNCHANGED <<pool, holder, base, chainVars, queued, dropped>>

\* MiningPool::add_task refuses a second task of a voter.
Queue(c) ==
  /\ pc[c] = "queue"
  /\ IF ContainsVoter(pool, task[c])
       THEN Goto(c, "done") /\ UNCHANGED <<pool, queued>>
       ELSE /\ Goto(c, "lock")
            /\ pool' = Append(pool, task[c])
            /\ queued' = queued \cup {task[c]}
  /\ task' = [task EXCEPT ![c] = None]
  /\ UNCHANGED <<holder, base, chainVars, dropped>>

-----------------------------------------------------------------------------
(* drive_mining_pool *)

\* The mining lock is only tried: a call that does not get it returns.
TryLock(c) ==
  /\ pc[c] = "lock"
  /\ IF LockFree
       THEN Goto(c, "take") /\ holder' = c
       ELSE Goto(c, "done") /\ UNCHANGED holder
  /\ UNCHANGED <<pool, task, base, chainVars, queued, dropped>>

\* The newest task is taken, or the pool is found empty and the loop ends.
Take(c) ==
  /\ pc[c] = "take"
  /\ IF Exhausted(pool)
       THEN Goto(c, "unlock") /\ UNCHANGED <<pool, task>>
       ELSE /\ Goto(c, "check")
            /\ task' = [task EXCEPT ![c] = Last(pool)]
            /\ pool' = TakeLast(pool)
  /\ UNCHANGED <<holder, base, chainVars, queued, dropped>>

\* A task whose voter has voted meanwhile is skipped.
Check(c) ==
  /\ pc[c] = "check"
  /\ IF task[c] \in seen
       THEN Goto(c, "take") /\ task' = [task EXCEPT ![c] = None]
       ELSE Goto(c, "tip") /\ UNCHANGED task
  /\ UNCHANGED <<pool, holder, base, chainVars, queued, dropped>>

\* The tip to mine on is copied; the search then runs without a lock.
ReadTip(c) ==
  /\ pc[c] = "tip"
  /\ Goto(c, "mine")
  /\ base' = [base EXCEPT ![c] = tip]
  /\ UNCHANGED <<pool, holder, task, chainVars, queued, dropped>>

\* add_block_to_chain appends the mined block.
AddBlock(c) ==
  /\ pc[c] = "mine"
  /\ Addable(c)
  /\ Goto(c, "publish")
  /\ seen' = seen \cup {task[c]}
  /\ everSeen' = everSeen \cup {task[c]}
  /\ tip' = tip + 1
  /\ task' = [task EXCEPT ![c] = None]
  /\ UNCHANGED <<pool, holder, base, adopts, queued, dropped>>

\* The new chain is pushed to the peers and saved before the loop goes on.
Publish(c) ==
  /\ pc[c] = "publish"
  /\ Goto(c, "take")
  /\ UNCHANGED <<pool, holder, task, base, chainVars, queued, dropped>>

\* The chain was replaced during the search: AttemptedLateAdd.
LateAdd(c) ==
  /\ pc[c] = "mine"
  /\ Late(c)
  /\ Goto(c, "requeue")
  /\ UNCHANGED <<pool, holder, task, base, chainVars, queued, dropped>>

\* MiningPool::requeue does not ask whether the voter has a task by now.
Requeue(c) ==
  /\ pc[c] = "requeue"
  /\ Goto(c, "take")
  /\ pool' = Append(pool, task[c])
  /\ task' = [task EXCEPT ![c] = None]
  /\ UNCHANGED <<holder, base, chainVars, queued, dropped>>

\* IgnoreBlock: the voter has voted meanwhile, or is no UUID.
Ignore(c) ==
  /\ pc[c] = "mine"
  /\ ~Addable(c) /\ ~Late(c)
  /\ Goto(c, "take")
  /\ task' = [task EXCEPT ![c] = None]
  /\ dropped' = dropped \cup ({task[c]} \ UuidVoters)
  /\ UNCHANGED <<pool, holder, base, chainVars, queued>>

\* The search panics: the JoinError is swallowed, and the task with it.
MiningPanics(c) ==
  /\ pc[c] = "mine"
  /\ Goto(c, "take")
  /\ task' = [task EXCEPT ![c] = None]
  /\ dropped' = dropped \cup {task[c]}
  /\ UNCHANGED <<pool, holder, base, chainVars, queued>>

\* The mining guard is dropped some time after the pool was found empty.
Unlock(c) ==
  /\ pc[c] = "unlock"
  /\ Goto(c, "done")
  /\ holder' = None
  /\ UNCHANGED <<pool, task, base, chainVars, queued, dropped>>

-----------------------------------------------------------------------------

\* sync_chain, in a handler of its own, adopts a chain that is at least as
\* long as the node's and so names at least as many voters.
Adopt(voters) ==
  /\ adopts < MaxAdopts
  /\ Cardinality(voters) >= Cardinality(seen)
  /\ voters # {}
  /\ adopts' = adopts + 1
  /\ tip' = tip + 1
  /\ seen' = voters
  /\ everSeen' = everSeen \cup voters
  /\ UNCHANGED <<pool, holder, pc, task, base, queued, dropped>>

\* What a call does on its own once it was made.
Step(c) ==
  \/ Queue(c)
  \/ TryLock(c)
  \/ Take(c)
  \/ Check(c)
  \/ ReadTip(c)
  \/ AddBlock(c)
  \/ Publish(c)
  \/ LateAdd(c)
  \/ Requeue(c)
  \/ Ignore(c)
  \/ Unlock(c)

Next ==
  \/ \E c \in Call : Step(c)
  \/ \E c \in Call : MiningPanics(c)
  \/ \E c \in Call, v \in Voters : Submit(c, v)
  \/ \E voters \in SUBSET UuidVoters : Adopt(voters)

\* The runtime goes on running every task, and every search and every push
\* ends.  Nothing has to arrive, and no search has to panic.
Fairness == \A c \in Call : WF_vars(Step(c))

Spec == Init /\ [][Next]_vars /\ Fairness

-----------------------------------------------------------------------------
(* Properties *)

\* "Held while a mining attempt is in progress so a node only ever mines one
\* block at a time": the calls inside the loop are those that hold the lock,
\* and they are at most one.
OneMinerAtATime ==
  \A c \in Call : pc[c] \in Driving <=> holder = c

\* Requeueing passes by the test for a queued task of the voter, and still no
\* voter ever has more than two tasks in the node, queued and in hand.
QueuedTasks(p, v) == Cardinality({i \in DOMAIN p : p[i] = v})

Tasks(v) == QueuedTasks(pool, v) + (IF InHand(v) THEN 1 ELSE 0)

AtMostTwoTasks == \A v \in Voters : Tasks(v) <= 2

\* A queued task never just vanishes: it waits in the pool or is in hand, or
\* its voter got onto the node's chain, or it named no UUID, or mining it
\* panicked.  A task that lost the race for the chain's tip is none of these.
NoTaskVanishes ==
  \A v \in queued :
    ContainsVoter(pool, v) \/ InHand(v) \/ v \in everSeen \/ v \in dropped

\* A task that is in the pool while the call that drains it is still in its
\* loop leaves the pool, whatever is queued, requeued or adopted meanwhile.
DrainedWhileLooping ==
  \A v \in Voters :
    (ContainsVoter(pool, v) /\ \E c \in Call : pc[c] \in Looping)
      ~> ~ContainsVoter(pool, v)

\* The steps the call that holds the mining lock can still take by itself, what
\* is in the pool left out.  A search whose base was replaced is worth another.
StepsOfHolder ==
  IF holder = None THEN 0 ELSE
    CASE pc[holder] = "unlock"  -> 1
      [] pc[holder] = "take"    -> 2
      [] pc[holder] = "publish" -> 3
      [] pc[holder] = "mine"    -> IF base[holder] = tip THEN 4 ELSE 10
      [] pc[holder] = "tip"     -> 6
      [] pc[holder] = "check"   -> 7
      [] pc[holder] = "requeue" -> 9

CallsAt(label) == {c \in Call : pc[c] = label}

\* How many steps are left at most: each call, each task in the pool and each
\* replacement of the chain is worth so many.
StepsLeft ==
  11 * Cardinality(CallsAt("new")) + 10 * Cardinality(CallsAt("queue"))
    + 3 * Cardinality(CallsAt("lock")) + 6 * Len(pool)
    + 7 * (MaxAdopts - adopts) + StepsOfHolder

\* The loop cannot feed itself: although tasks are put back without a test, and
\* others arrive while it runs, every step of the node spends some of those
\* left.  A task is put back only for a replacement of the chain, so that the
\* calls and replacements there are bound the steps of the whole loop.
DriverRunsDown == [][StepsLeft' \in 0..(StepsLeft - 1)]_vars

\* Every call returns: the one that drains the pool is not kept for ever by
\* tasks that are requeued or arrive while it is at work.
CallsReturn == \A c \in Call : pc[c] = "queue" ~> pc[c] = "done"

-----------------------------------------------------------------------------
(* The inductive invariant behind the safety properties *)

\* A call has a task in hand from when it accepted or took it until it puts
\* it into the pool, adds its block or gives it up.
HandOK ==
  \A c \in Call :
    task[c] # None <=> pc[c] \in {"queue", "check", "tip", "mine", "requeue"}

SeenRemembered == seen \subseteq everSeen

DriverInv == TypeOK /\ HandOK /\ OneMinerAtATime /\ SeenRemembered

-----------------------------------------------------------------------------
(* Claims of the sources that the code does not keep *)

\* "If another call is already draining the pool, this returns immediately
\* and lets that call pick up the newly queued task instead."
QueuedIsPickedUp ==
  \A v \in Voters : ContainsVoter(pool, v) ~> ~ContainsVoter(pool, v)

\* "A node that loses the race requeues its task against the new chain tip":
\* as long as a queued vote is not on the node's chain, its task is still
\* there.  (A block that lost the race only after it was added, to a chain
\* sync_chain adopts in its place, takes its vote along.)
LoserIsRequeued ==
  \A v \in queued \ dropped : ContainsVoter(pool, v) \/ InHand(v) \/ v \in seen

\* "keyed by voter_id so a voter can never have more than one task queued at
\* once."
OneTaskPerVoter == \A i, j \in DOMAIN pool : pool[i] = pool[j] => i = j
=============================================================================

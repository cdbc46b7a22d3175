------------------------------- MODULE AppLocks -------------------------------
(***************************************************************************)
(* The blocking locks of one bk-rs node.                                   *)
(*                                                                         *)
(* App guards its parts with std::sync mutexes.  A message handler or an   *)
(* HTTP request goes through a series of critical sections, each of which  *)
(* takes one to three mutexes one after the other and then releases them   *)
(* all.  Here a handler is nothing but that series: which way it branches  *)
(* is chosen when it starts, and what it does inside a section is left to  *)
(* the other modules.  The mining lock never blocks anyone, it is only     *)
(* tried, and the await points lie between the sections.                   *)
(***************************************************************************)
EXTENDS Integers, Sequences, FiniteSets

CONSTANTS
  Handler,      \* the handlers that run concurrently; bound: each runs once
  Kinds,        \* the kinds of handlers that may start
  Nobody        \* a mutex that is free

Locks == {"chain", "seen", "peers", "cache", "pool"}

AllKinds == {"sync_chain", "add_mining_task", "discovery", "push_peers", "http"}

ASSUME KindsAssumption == Kinds \subseteq AllKinds
ASSUME NobodyAssumption == Nobody \notin Handler

-----------------------------------------------------------------------------
(* The critical sections of the methods of App, each a set of the ways the   *)
(* method may go                                                             *)

\* Variants of the operators below, each with a mistake.
SeenBeforeChain(added) ==
  {<< <<"seen", "chain">> >>}
    \cup {<< <<"seen", "chain">>, <<"cache">> >> \o a : a \in added}
SyncUnderAllLocks == {<< <<"chain", "seen", "peers", "cache">> >>}

\* First a way of one set and then a way of the next.
Then(P, Q) == {p \o q : p \in P, q \in Q}

Skip == {<< >>}

SaveChain == {<< <<"peers", "chain">> >>}

\* The failed peers are removed, and the chain is saved if that removed one.
RemoveFailedPeers == Then({<< <<"peers">> >>}, Skip \cup SaveChain)

PushChainSync == Then({<< <<"peers", "chain">> >>}, RemoveFailedPeers)

PushPeerSync == Then({<< <<"peers">> >>}, RemoveFailedPeers)

\* The chain, the seen voter ids and the peers are locked to validate and
\* adopt; a rejected chain ends the handler.
SyncChain ==
  {<< <<"chain", "seen", "peers">> >>}
    \cup Then({<< <<"chain", "seen", "peers">>, <<"cache">>, <<"peers">>, <<"peers">> >>},
              Then(PushChainSync, SaveChain))

\* What follows when the block was added is to be passed in.
Validated(added) ==
  {<< <<"chain", "seen">> >>}
    \cup {<< <<"chain", "seen">>, <<"cache">> >> \o a : a \in added}

AddBlockToChain == Validated(Then(PushChainSync, SaveChain))

\* One round of the loop: take a task, skip it, or mine it and perhaps put it
\* back; then find the pool empty.  Bound: further rounds repeat these.
DriveMiningPool ==
  LET mined == Then({<< <<"pool">>, <<"seen">>, <<"chain">> >>}, AddBlockToChain)
  IN  {<< <<"pool">> >>, << <<"pool">>, <<"seen">>, <<"pool">> >>}
        \cup Then(mined, {<< <<"pool">> >>, << <<"pool">>, <<"pool">> >>})

\* The voter is seen; or queued already, or the mining lock is taken; or the
\* call drains the pool.
AddMiningTask ==
  {<< <<"seen">> >>, << <<"seen">>, <<"pool">> >>}
    \cup Then({<< <<"seen">>, <<"pool">> >>}, DriveMiningPool)

\* PeerDiscoveryReq.
Discovery ==
  Then({<< <<"peers">>, <<"peers">> >>}, Then(PushPeerSync, Skip \cup SaveChain))

\* PushPeersReq.
AddMultiplePeer ==
  {<< <<"peers">> >>} \cup Then({<< <<"peers">> >>}, Then(PushPeerSync, SaveChain))

\* The HTTP API reads the peers to distribute a vote, and the cache.
Http == {<< <<"peers">>, <<"peers">> >>, << <<"cache">> >>}

WaysOf(kind) ==
  CASE kind = "sync_chain"      -> SyncChain
    [] kind = "add_mining_task" -> AddMiningTask
    [] kind = "discovery"       -> Discovery
    [] kind = "push_peers"      -> AddMultiplePeer
    [] kind = "http"            -> Http

-----------------------------------------------------------------------------

VARIABLES
  started,      \* the handlers that were started
  todo,         \* the critical sections each handler still has before it
  taken,        \* how many mutexes of the first of them it has taken
  owner         \* who holds each mutex

vars == <<started, todo, taken, owner>>

\* A mutex has one owner at most, and no section of App takes more than three.
TypeOK ==
  /\ started \subseteq Handler
  /\ todo \in [Handler -> Seq(Seq(Locks))]
  /\ taken \in [Handler -> 0..3]
  /\ owner \in [Locks -> Handler \cup {Nobody}]

Init ==
  /\ started = {}
  /\ todo = [h \in Handler |-> <<>>]
  /\ taken = [h \in Handler |-> 0]
  /\ owner = [l \in Locks |-> Nobody]

Running(h) == todo[h] # <<>>
Complete(h) == Running(h) /\ taken[h] = Len(Head(todo[h]))
Wants(h) == Head(todo[h])[taken[h] + 1]

\* A message or a request arrives.
Start(h, kind) ==
  /\ h \notin started
  /\ started' = started \cup {h}
  /\ \E w \in WaysOf(kind) : todo' = [todo EXCEPT ![h] = w]
  /\ UNCHANGED <<taken, owner>>

\* lock(): the next mutex of the section, once it is free.
Lock(h) ==
  /\ Running(h) /\ ~Complete(h)
  /\ owner[Wants(h)] = Nobody
  /\ owner' = [owner EXCEPT ![Wants(h)] = h]
  /\ taken' = [taken EXCEPT ![h] = @ + 1]
  /\ UNCHANGED <<started, todo>>

\* The section ends and its guards are dropped.
Release(h) ==
  /\ Complete(h)
  /\ owner' = [l \in Locks |-> IF owner[l] = h THEN Nobody ELSE owner[l]]
  /\ taken' = [taken EXCEPT ![h] = 0]
  /\ todo' = [todo EXCEPT ![h] = Tail(@)]
  /\ UNCHANGED started

Next ==
  \/ \E h \in Handler, kind \in Kinds : Start(h, kind)
  \/ \E h \in Handler : Lock(h)
  \/ \E h \in Handler : Release(h)

\* The operating system runs every thread, and every push a handler awaits
\* between two sections ends.
Fairness == \A h \in Handler : WF_vars(Lock(h) \/ Release(h))

Spec == Init /\ [][Next]_vars /\ Fairness

-----------------------------------------------------------------------------
(* Properties *)

\* Some handlers run, and each of them waits for a mutex that is taken.
Deadlocked ==
  /\ \E h \in Handler : Running(h)
  /\ \A h \in Handler :
       Running(h) => ~Complete(h) /\ owner[Wants(h)] # Nobody

\* Handlers wait for each other in a circle for one reason only: one of them
\* is in sync_chain, holds the chain and the seen voter ids and wants the
\* peers; another, in push_chain_sync or save_chain, holds the peers and wants
\* the chain.  In particular no handler waits for a mutex it holds itself, and
\* nothing else that takes several mutexes is in the way.
OnlyChainAndPeersDeadlock ==
  Deadlocked =>
    \E g, h \in Handler :
      /\ owner["chain"] = g /\ owner["seen"] = g /\ Wants(g) = "peers"
      /\ owner["peers"] = h /\ Wants(h) = "chain"

-----------------------------------------------------------------------------
(* The inductive invariant behind them *)

\* All critical sections there are, by the order in which they lock.
Sections ==
  {<<"chain", "seen", "peers">>, <<"chain", "seen">>, <<"peers", "chain">>}
    \cup {<<l>> : l \in Locks}

Holds(h, l) == Running(h) /\ \E k \in 1..taken[h] : Head(todo[h])[k] = l

\* A mutex is owned by the handler that took it in its current section.
LockInv ==
  /\ TypeOK
  /\ \A h \in Handler :
       /\ todo[h] \in Seq(Sections)
       /\ h \notin started => ~Running(h)
       /\ IF Running(h) THEN taken[h] <= Len(Head(todo[h])) ELSE taken[h] = 0
  /\ \A l \in Locks, h \in Handler : owner[l] = h <=> Holds(h, l)

-----------------------------------------------------------------------------
(* A claim of the sources that the code does not keep *)

\* "Nodes validate and adopt the longest/newer valid chain seen from peers
\* (App::sync_chain)": a handler that was started comes to its end.
HandlersFinish == \A h \in Handler : Running(h) ~> ~Running(h)
=============================================================================

------------------------------ MODULE PeerTable ------------------------------
(***************************************************************************)
(* How the nodes of a bk-rs network learn of each other and forget each    *)
(* other.                                                                  *)
(*                                                                         *)
(* A process joins by asking the root for its peers, and only then accepts *)
(* connections; whoever learns an address pushes all the entries of its    *)
(* table to all peers in it, and removes those it cannot reach.  A table   *)
(* is two structures: the addresses (KnownPeers::peers), and the address   *)
(* of each id (KnownPeers::id_map), which is what is pushed and pushed to. *)
(*                                                                         *)
(* A process stands for the address it announces, as it binds a port of    *)
(* its own; a node that is started again is another process with the same  *)
(* id, and so are two nodes that both keep the default id.  The root       *)
(* announces nothing: each of the others knows it under the address it was *)
(* given, and these may differ.  An action is one critical section, or the *)
(* sending of all messages of a push.                                      *)
(*                                                                         *)
(* A push may fail although the process at the other end runs, and a push  *)
(* whose write succeeded may be lost all the same: it was cut, reset       *)
(* before it was read, or too long for the read loop (VoteDelivery).  Both *)
(* are recorded in missed, and bounded with the crashes; what is promised  *)
(* is promised to those that no push missed.                               *)
(***************************************************************************)
EXTENDS Integers, Functions, FiniteSets

CONSTANTS
  Proc,        \* the processes there may be
  Id,          \* the node ids
  Root,        \* the process the others join at
  Addr,        \* the addresses
  Host,        \* the process at an address
  ChainPushers,  \* those whose pushes of chains are looked at
  Settings     \* what is given to the processes when they are started, and
               \* how much may go wrong

ASSUME RootAssumption == Root \in Proc
ASSUME AddrAssumption == IsFiniteSet(Addr)
ASSUME HostAssumption ==
  /\ Host \in [Addr -> Proc]
  /\ Proc \subseteq Addr /\ \A p \in Proc : Host[p] = p

\* The id of each process; the address under which each was told of the root;
\* those that announce the address they bound, so that they recognise it, while
\* the others run with a --public-ip; and a bound: how many processes crash or
\* give up joining, and how many times a push misses one that runs.
ASSUME SettingsAssumption ==
  Settings \subseteq
    [name: [Proc -> Id], rootAt: [Proc -> {p \in Addr : Host[p] = Root}],
     selfAware: SUBSET Proc, maxMishaps: Nat]

VARIABLES
  setting,  \* what was given to the processes, which never changes
  status,   \* where each process is in its life
  peers,    \* KnownPeers::peers of each process; no address is in it twice
  idMap,    \* KnownPeers::id_map of each process, the hashes left out
  calls,    \* the handlers, and root_peer_discovery of the joining ones
  net,      \* the messages in flight
  missed,   \* history: the pairs of a process and one that a push of it missed
  mishaps   \* how many of the mishaps there were that Settings bounds

vars == <<setting, status, peers, idMap, calls, net, missed, mishaps>>

name == setting.name
rootAt == setting.rootAt
SelfAware == setting.selfAware

\* Tables of ids and addresses, as kept, pushed and sent in answer.
Entries == UNION {[ids -> Addr] : ids \in SUBSET Id}
NoEntries == [i \in {} |-> Root]

\* A call runs for a process and learnt the addresses in news; what failed
\* is what a push could not reach.  Where it goes on after a push is in next;
\* todo is what root_peer_discovery has still to add of the answer it got.
Calls ==
  [node: Proc, news: SUBSET Addr, failed: SUBSET Addr, todo: Entries,
   pc: {"answer", "push", "remove", "ask", "wait", "add"},
   next: {"end", "ask", "add"}]

Messages ==
       [kind: {"push", "answer"}, to: Proc, entries: Entries]
  \cup [kind: {"ask"}, to: Proc, from: Proc]

TypeOK ==
  /\ setting \in Settings
  /\ status \in [Proc -> {"new", "joining", "up", "down"}]
  /\ peers \in [Proc -> SUBSET Addr]
  /\ idMap \in [Proc -> Entries]
  /\ calls \subseteq Calls
  /\ net \subseteq Messages
  /\ missed \subseteq Proc \X Proc
  /\ mishaps \in Nat

Init ==
  /\ setting \in Settings
  /\ status = [n \in Proc |-> IF n = Root THEN "up" ELSE "new"]
  /\ peers = [n \in Proc |-> {}]
  /\ idMap = [n \in Proc |-> NoEntries]
  /\ calls = {}
  /\ net = {}
  /\ missed = {}
  /\ mishaps = 0

-----------------------------------------------------------------------------

\* Process n adds address p to its table: it is neither its own, as far as n
\* can tell, nor does its table have it.
Addable(n, p) == ~(p = n /\ n \in SelfAware) /\ p \notin peers[n]

\* A mistake in Merge: an id keeps all its addresses.
MergeAll(table, entries) ==
  [i \in DOMAIN table \cup DOMAIN entries |->
     {f[i] : f \in {g \in {table, entries} : i \in DOMAIN g}}]

\* KnownPeers::add_peer for each of the entries: an id that has an address
\* gets the new one.
Merge(table, entries) ==
  [i \in DOMAIN table \cup DOMAIN entries |->
     IF i \in DOMAIN entries THEN entries[i] ELSE table[i]]

\* Mistakes in RemovePeers: the entries stay, or those of the ids of the
\* addresses go whatever address they have by now.
KeepEntries(table, gone) == table
WithoutIds(table, gone) ==
  LET ids == {name[Host[p]] : p \in gone}
  IN  [i \in DOMAIN table \ ids |-> table[i]]

\* KnownPeers::remove_peer_with_peer for each address in gone, as far as it
\* concerns the ids.
RemovePeers(table, gone) ==
  [i \in {j \in DOMAIN table : table[j] \notin gone} |-> table[i]]

NewCall(n, pc, next, news) ==
  [node |-> n, pc |-> pc, next |-> next, news |-> news, failed |-> {},
   todo |-> NoEntries]

\* The call c after a push.
Returned(c) ==
  IF c.next = "end"
    THEN {}
    ELSE {[c EXCEPT !.pc = c.next, !.failed = {}]}

\* So much goes wrong: not more than the bound allows.
Mishaps(k) == mishaps + k <= setting.maxMishaps /\ mishaps' = mishaps + k

\* Pushes of process n miss those at the addresses in missing, which run.
Miss(n, missing) ==
  /\ Mishaps(Cardinality(missing))
  /\ missed' = missed \cup {<<n, Host[p]>> : p \in missing}

\* The process of n ends: its calls and what was on its way to it go too.
End(n) ==
  /\ status' = [status EXCEPT ![n] = "down"]
  /\ peers' = [peers EXCEPT ![n] = {}]
  /\ idMap' = [idMap EXCEPT ![n] = NoEntries]
  /\ calls' = {c \in calls : c.node # n}
  /\ net' = {m \in net : m.to # n}
  /\ UNCHANGED <<setting, missed>>

-----------------------------------------------------------------------------
(* Joining *)

\* A mistake in FirstEntries: the process takes its own id for the root's.
UnderOwnId(n) == [i \in {name[n]} |-> rootAt[n]]

\* The table of process n with the root only, under the id it was told.
FirstEntries(n) == [i \in {name[Root]} |-> rootAt[n]]

\* root_peer_discovery begins: the root is added and pushed, to the root.
Start(n) ==
  /\ status[n] = "new"
  /\ status' = [status EXCEPT ![n] = "joining"]
  /\ peers' = [peers EXCEPT ![n] = {rootAt[n]}]
  /\ idMap' = [idMap EXCEPT ![n] = FirstEntries(n)]
  /\ calls' = calls \cup {NewCall(n, "push", "ask", {rootAt[n]})}
  /\ UNCHANGED <<setting, net, missed, mishaps>>

\* The request is sent, and the answer waited for.
Ask(c) ==
  /\ c.pc = "ask"
  /\ status[Root] # "down"
  /\ net' = net \cup {[kind |-> "ask", to |-> Root, from |-> c.node]}
  /\ calls' = (calls \ {c}) \cup {[c EXCEPT !.pc = "wait"]}
  /\ UNCHANGED <<setting, status, peers, idMap, missed, mishaps>>

\* Connecting or writing fails, the connection breaks, the answer is none that
\* can be read, or does not come within 15 seconds: main returns or panics.
\* If the root runs it is a mishap.
GiveUp(c) ==
  /\ c.pc \in {"ask", "wait"}
  /\ IF status[Root] = "down" THEN UNCHANGED mishaps ELSE Mishaps(1)
  /\ End(c.node)

\* The answer arrives.
TakeAnswer(c, m) ==
  /\ c.pc = "wait"
  /\ m.kind = "answer" /\ m.to = c.node
  /\ net' = net \ {m}
  /\ calls' = (calls \ {c}) \cup {[c EXCEPT !.pc = "add", !.todo = m.entries]}
  /\ UNCHANGED <<setting, status, peers, idMap, missed, mishaps>>

\* add_peer_serializable for the entry of id i in the answer: an address that
\* is added is pushed before the next one is looked at.
AddEntry(c, i) ==
  LET n == c.node
      p == c.todo[i]
      rest == [j \in DOMAIN c.todo \ {i} |-> c.todo[j]]
  IN  /\ c.pc = "add"
      /\ IF Addable(n, p)
           THEN /\ peers' = [peers EXCEPT ![n] = @ \cup {p}]
                /\ idMap' = [idMap EXCEPT ![n] = Merge(@, [j \in {i} |-> p])]
                /\ calls' = (calls \ {c}) \cup
                     {[c EXCEPT !.pc = "push", !.next = "add", !.news = {p},
                                !.todo = rest]}
           ELSE /\ calls' = (calls \ {c}) \cup {[c EXCEPT !.todo = rest]}
                /\ UNCHANGED <<peers, idMap>>
      /\ UNCHANGED <<setting, status, net, missed, mishaps>>

\* Discovery is over, and the process begins to accept the connections made
\* to it.
Serve(c) ==
  /\ c.pc = "add" /\ DOMAIN c.todo = {}
  /\ status' = [status EXCEPT ![c.node] = "up"]
  /\ calls' = calls \ {c}
  /\ UNCHANGED <<setting, peers, idMap, net, missed, mishaps>>

-----------------------------------------------------------------------------
(* The handlers of a process that accepts connections *)

\* PeerDiscoveryReq: the joining process is added.
HandleAsk(m) ==
  LET n == m.to
      p == m.from
  IN  /\ m.kind = "ask"
      /\ status[n] = "up"
      /\ IF Addable(n, p)
           THEN /\ peers' = [peers EXCEPT ![n] = @ \cup {p}]
                /\ idMap' = [idMap EXCEPT ![n] =
                               Merge(@, [i \in {name[p]} |-> p])]
           ELSE UNCHANGED <<peers, idMap>>
      /\ calls' = calls \cup {NewCall(n, "answer", "end", {p})}
      /\ net' = net \ {m}
      /\ UNCHANGED <<setting, status, missed, mishaps>>

\* A mistake in Answered: the process that joined is told, and nobody else.
AnsweredOnly(c) == {}

Answered(c) == {[c EXCEPT !.pc = "push"]}

\* The entries of this moment are sent to the joining process; then they are
\* pushed.
Answer(c) ==
  /\ c.pc = "answer"
  /\ net' = net \cup {[kind |-> "answer", to |-> p, entries |-> idMap[c.node]] :
                        p \in {q \in Proc \cap c.news : status[q] # "down"}}
  /\ calls' = (calls \ {c}) \cup Answered(c)
  /\ UNCHANGED <<setting, status, peers, idMap, missed, mishaps>>

\* A mistake in PushIfGrew: what is no news is pushed on too.
PushAnyway(n, news) == {NewCall(n, "push", "end", news)}

PushIfGrew(n, news) ==
  IF news = {} THEN {} ELSE {NewCall(n, "push", "end", news)}

\* PushPeersReq, add_multiple_peer: what can be added is, and if the table
\* grew it is pushed on.  No address comes under two ids (IdsAreRight), so that
\* the entries can be looked at all at once.
HandlePush(m) ==
  LET n == m.to
      ids == {i \in DOMAIN m.entries : Addable(n, m.entries[i])}
      new == [i \in ids |-> m.entries[i]]
  IN  /\ m.kind = "push"
      /\ status[n] = "up"
      /\ peers' = [peers EXCEPT ![n] = @ \cup Range(new)]
      /\ idMap' = [idMap EXCEPT ![n] = Merge(@, new)]
      /\ calls' = calls \cup PushIfGrew(n, Range(new))
      /\ net' = net \ {m}
      /\ UNCHANGED <<setting, status, missed, mishaps>>

\* push_peer_sync sends the entries of this moment to every address in them.
\* Of the processes that run it may miss some: the push fails, or it is sent
\* and lost.
Push(c) ==
  LET n == c.node
      dead == {p \in Range(idMap[n]) : status[Host[p]] = "down"}
  IN  \E missing \in SUBSET (Range(idMap[n]) \ dead) :
      \E lost \in SUBSET missing :
        LET failed == dead \cup (missing \ lost)
        IN  /\ c.pc = "push"
            /\ Miss(n, missing)
            /\ net' = net \cup
                 {[kind |-> "push", to |-> Host[p], entries |-> idMap[n]] :
                    p \in Range(idMap[n]) \ (dead \cup missing)}
            /\ calls' = (calls \ {c}) \cup
                 (IF failed = {} THEN Returned(c)
                  ELSE {[c EXCEPT !.pc = "remove", !.failed = failed]})
            /\ UNCHANGED <<setting, status, peers, idMap>>

\* push_chain_sync fails for some addresses, and is to remove them too.
ChainPushFails(n) ==
  \E failed \in SUBSET Range(idMap[n]) \ {{}} :
    /\ n \in ChainPushers /\ status[n] = "up"
    /\ Miss(n, {p \in failed : status[Host[p]] # "down"})
    /\ calls' = calls \cup
         {[NewCall(n, "remove", "end", {}) EXCEPT !.failed = failed]}
    /\ UNCHANGED <<setting, status, peers, idMap, net>>

\* When all pushes have ended, the addresses that failed are removed.
RemoveFailed(c) ==
  /\ c.pc = "remove"
  /\ peers' = [peers EXCEPT ![c.node] = @ \ c.failed]
  /\ idMap' = [idMap EXCEPT ![c.node] = RemovePeers(@, c.failed)]
  /\ calls' = (calls \ {c}) \cup Returned(c)
  /\ UNCHANGED <<setting, status, net, missed, mishaps>>

\* A process is killed, or stopped with Ctrl+C.
Crash(n) ==
  /\ status[n] \in {"joining", "up"}
  /\ Mishaps(1)
  /\ End(n)

-----------------------------------------------------------------------------

Discover(c) ==
  \/ Ask(c) \/ Serve(c)
  \/ \E m \in net : TakeAnswer(c, m)
  \/ \E i \in DOMAIN c.todo : AddEntry(c, i)

Handle == \E m \in net : HandleAsk(m) \/ HandlePush(m)

Work ==
  \/ \E c \in calls : Discover(c) \/ Answer(c) \/ Push(c) \/ RemoveFailed(c)
  \/ Handle

Next ==
  \/ \E n \in Proc : Start(n) \/ Crash(n) \/ ChainPushFails(n)
  \/ \E c \in calls : GiveUp(c)
  \/ Work

Spec == Init /\ [][Next]_vars

\* What a process has to do gets done: messages that are not lost arrive, the
\* runtime polls every handler, connecting and writing end.  Nobody need start,
\* crash or miss anybody.
FairSpec == Spec /\ WF_vars(Work)

-----------------------------------------------------------------------------
(* Properties *)

\* What is pushed to is known.  What is known and not pushed to lost its entry
\* to another address of the same id, which has it still, or was removed after
\* its process had ended or had been missed.
UnpushedShareTheirId ==
  \A n \in Proc :
    /\ Range(idMap[n]) \subseteq peers[n]
    /\ \A p \in peers[n] \ Range(idMap[n]) :
         \E q \in Addr \ {p} :
           /\ name[Host[q]] = name[Host[p]]
           /\ \/ q \in Range(idMap[n])
              \/ status[Host[q]] = "down" \/ <<n, Host[q]>> \in missed

\* The address under an id is one of a process with that id, whatever was
\* overwritten, pushed late or removed meanwhile.
IdsAreRight ==
  \A n \in Proc : \A i \in DOMAIN idMap[n] : name[Host[idMap[n][i]]] = i

\* Nobody loses a live peer that none of its own pushes missed: not from the
\* addresses, nor from the entries but to another address of the same id,
\* although what a push found out is applied to the table later, when entries
\* may have changed.
LivePeersStay ==
  [][\A n \in Proc, p \in Addr :
       /\ status'[n] # "down" /\ status[Host[p]] # "down"
       /\ <<n, Host[p]>> \notin missed
       => /\ p \in peers[n] => p \in peers'[n]
          /\ p \in Range(idMap[n]) /\ p \notin Range(idMap'[n])
               => \E q \in Range(idMap'[n]) : name[Host[q]] = name[Host[p]]]_vars

Alone(p) == \A q \in Proc \ {p} : name[q] # name[p]

\* Process n has an entry for process p, under whatever address.
Knows(n, p) == \E a \in Range(idMap[n]) : Host[a] = p

NobodyHasEnded == \A n \in Proc : status[n] # "down"

\* No push on which it depends that n learns of p and keeps it went wrong.
Reached(n, p) == missed \cap {<<Root, n>>, <<Root, p>>, <<n, p>>} = {}

\* Process p has begun to join, and the root has yet to get its request.
Unheard(p) ==
  \/ \E m \in net : m.kind = "ask" /\ m.to = Root /\ m.from = p
  \/ \E c \in calls :
       /\ c.node = p
       /\ c.pc = "ask" \/ (c.next = "ask" /\ c.pc \in {"push", "remove"})

\* What is on its way to process n tells it of p, or the root is to push all
\* it knows.
ToBeTold(n, p) ==
  \/ \E m \in net : /\ m.kind = "push" /\ m.to = n
                     /\ \E a \in Range(m.entries) : Host[a] = p
  \/ \E c \in calls : c.node = Root /\ c.pc \in {"answer", "push"}

\* As long as nobody ends, nobody that has begun is forgotten, in whatever
\* order processes join, ask, are answered and push, and whatever pushes fail
\* or are lost: two processes with ids of their own know each other, or are yet
\* to be heard or told of, unless a push between the two of them and the root
\* went wrong.
NobodyIsForgotten ==
  NobodyHasEnded =>
    \A n, p \in Proc :
      /\ n # p /\ status[n] # "new" /\ status[p] # "new"
      /\ Alone(n) /\ Alone(p) /\ Reached(n, p)
      => Knows(n, p) \/ Unheard(n) \/ Unheard(p) \/ ToBeTold(n, p)

\* As long as nobody ends, processes that are up end up with an entry for each
\* other, however many join at once and whatever pushes to others fail or are
\* lost, if they have ids of their own and no push that is to tell one of the
\* other went wrong.  One that shares its id is not even told of the others:
\* the root has an entry for one process of each id, and pushes to this one
\* only.
EveryoneKnowsEveryone ==
  <>[](NobodyHasEnded => \A n, p \in Proc :
         /\ n # p /\ status[n] = "up" /\ status[p] = "up"
         /\ Alone(n) /\ Alone(p) /\ Reached(n, p)
         => Knows(n, p))

\* As long as nobody ends, the pushing of peers comes to an end, although a
\* live peer that is removed is learnt again and pushed on.
PeersRest == <>[](NobodyHasEnded => calls = {} /\ net = {})
=============================================================================

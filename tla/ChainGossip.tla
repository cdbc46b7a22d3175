----------------------------- MODULE ChainGossip -----------------------------
(***************************************************************************)
(* To whom the nodes of a bk-rs network push their chains.                 *)
(*                                                                         *)
(* A node that changed its chain pushes it to the peers it knows, except   *)
(* those whose tracked hash is that of the chain (KnownPeers::id_map) and  *)
(* those the chain was already sent to by the node it came from            *)
(* (PushChainReq's already_sent).  A peer that cannot be reached is        *)
(* removed.  Peers learnt through PushPeersReq come from outside; the      *)
(* module PeerTable models how.                                            *)
(*                                                                         *)
(* An action is one critical section, or the sending of all messages of a  *)
(* push.  Of the validation of a chain only its rank is left: that pushed  *)
(* chains pass the other tests is a theorem about Ledger.  Two pushes that *)
(* are the same in all their parts and in flight at once are one message:  *)
(* the second could only be rejected.                                      *)
(*                                                                         *)
(* Nothing acknowledges a push.  One whose write returned Ok may be lost   *)
(* (VoteDelivery models how), and then its sender keeps the peer, tracks   *)
(* its chain's hash for it, and tells nobody.  What failed or was lost is  *)
(* remembered in missed, and what is promised of a peer is promised up to  *)
(* the chains it missed.                                                   *)
(***************************************************************************)
EXTENDS ChainRank, FiniteSets

CONSTANTS
  Node,          \* the node processes, named by their ids
  Times,         \* the readings of the nodes' clocks
  InitialPeers,  \* the tables of known peers the nodes may begin with
  MaxBlocks,     \* bound: how many blocks are mined in all
  MaxUpsets      \* bound: how many pushes fail or are lost and peers learnt

ASSUME NodeAssumption == IsFiniteSet(Node)
ASSUME InitialPeersAssumption == InitialPeers \subseteq [Node -> SUBSET Node]
ASSUME TimesAssumption == Times \subseteq Nat
ASSUME BoundsAssumption == MaxBlocks \in Nat /\ MaxUpsets \in Nat

VARIABLES
  chain,     \* App::chain of each node
  tracked,   \* KnownPeers::id_map of each node: the tracked hash of each peer
  handlers,  \* the calls of sync_chain and add_block_to_chain still to push
  net,       \* the PushChainReq messages in flight
  minted,    \* how many blocks were mined: the last hash given out
  upsets,    \* how many pushes failed or were lost and peers were learnt
  missed     \* history: the pushes peers missed, see Push, Lose and Learn

vars == <<chain, tracked, handlers, net, minted, upsets, missed>>

Block == [hash: Nat \ {0}, ts: Times]

\* Chain::hash, an MD5 digest of the blocks.  The hash of the last block
\* stands for it: it names the chain (HashesNamePrefixes of LedgerProofs).
\* 0 is the empty string, the hash of a peer that no chain came from yet; the
\* digest of the empty chain, which differs, is compared with nothing.
ChainHash(c) == IF c = <<>> THEN 0 ELSE Last(c).hash

Known(n) == DOMAIN tracked[n]

Handlers ==
  [node: Node, pc: {"spare", "mark", "push", "remove"}, adopted: Seq(Block),
   ignore: SUBSET Node, failed: SUBSET Node, mined: BOOLEAN]

Messages == [to: Node, from: Node, chain: Seq(Block), sent: SUBSET Node]

TypeOK ==
  /\ chain \in [Node -> Seq(Block)]
  /\ DOMAIN tracked = Node
  /\ \A n \in Node : Known(n) \subseteq Node
  /\ \A n \in Node : \A p \in Known(n) : tracked[n][p] \in Nat
  /\ handlers \subseteq Handlers
  /\ net \subseteq Messages
  /\ minted \in Nat
  /\ upsets \in Nat
  /\ missed \subseteq [to: Node, chain: Seq(Block)]

Init ==
  /\ chain = [n \in Node |-> <<>>]
  /\ \E known \in InitialPeers :
       tracked = [n \in Node |-> [p \in known[n] \ {n} |-> 0]]
  /\ handlers = {}
  /\ net = {}
  /\ minted = 0
  /\ upsets = 0
  /\ missed = {}

-----------------------------------------------------------------------------

NewHandler(n, pc, adopted, ignore, mined) ==
  [node |-> n, pc |-> pc, adopted |-> adopted, ignore |-> ignore,
   failed |-> {}, mined |-> mined]

\* A mistake in MinedBlock: the block is never sealed and keeps the empty hash.
Unsealed(time) == [hash |-> 0, ts |-> time]

MinedBlock(time) == [hash |-> minted + 1, ts |-> time]

\* The mining loop of node n appends a block (add_block_to_chain); the call
\* goes on to push the chain, and only then does the loop mine again.
Extend(n, time) ==
  /\ minted < MaxBlocks
  /\ \A h \in handlers : ~(h.node = n /\ h.mined)
  /\ minted' = minted + 1
  /\ LET c == Append(chain[n], MinedBlock(time))
     IN  /\ chain' = [chain EXCEPT ![n] = c]
         /\ handlers' = handlers \cup {NewHandler(n, "push", c, {}, TRUE)}
  /\ UNCHANGED <<tracked, net, upsets, missed>>

\* update_chain_hash_all, and update_chain_hash, which ignores ids it does not
\* know.
TrackAll(table, hash) == [p \in DOMAIN table |-> hash]

\* A mistake in TrackSender: the adopted hash is tracked for all at once.
TrackEverybody(table, sender, hash) == TrackAll(table, hash)

TrackSender(table, sender, hash) ==
  [p \in DOMAIN table |-> IF p = sender THEN hash ELSE table[p]]

\* sync_chain adopts the chain of message m and tracks its hash for the
\* sender, if it is known.
Accept(m) ==
  LET n == m.to
  IN  /\ Outranks(m.chain, chain[n])
      /\ chain' = [chain EXCEPT ![n] = m.chain]
      /\ tracked' = [tracked EXCEPT ![n] =
                       TrackSender(@, m.from, ChainHash(m.chain))]
      /\ handlers' = handlers \cup
           {NewHandler(n, "spare", m.chain, m.sent, FALSE)}
      /\ net' = net \ {m}
      /\ UNCHANGED <<minted, upsets, missed>>

\* A mistake in Reject: the message is kept for later.
KeepForLater(m) == ~Outranks(m.chain, chain[m.to]) /\ UNCHANGED vars

\* sync_chain ignores the chain of message m.
Reject(m) ==
  /\ ~Outranks(m.chain, chain[m.to])
  /\ net' = net \ {m}
  /\ UNCHANGED <<chain, tracked, handlers, minted, upsets, missed>>

\* A mistake in UpToDate: the hashes are compared when all are alike already.
AllAlike(n, c) == Known(n)

\* The peers whose tracked hash says that they hold chain c.
UpToDate(n, c) == {p \in Known(n) : tracked[n][p] = ChainHash(c)}

\* The peers tracked with the adopted chain's hash join those already sent
\* to among the peers the push is to ignore.
Spare(h) ==
  /\ h.pc = "spare"
  /\ handlers' = (handlers \ {h}) \cup
       {[h EXCEPT !.pc = "mark",
                  !.ignore = @ \cup UpToDate(h.node, h.adopted)]}
  /\ UNCHANGED <<chain, tracked, net, minted, upsets, missed>>

\* update_chain_hash_all: the adopted chain's hash is tracked for every peer,
\* before it is sent to any.
Mark(h) ==
  /\ h.pc = "mark"
  /\ tracked' = [tracked EXCEPT ![h.node] =
                   TrackAll(@, ChainHash(h.adopted))]
  /\ handlers' = (handlers \ {h}) \cup {[h EXCEPT !.pc = "push"]}
  /\ UNCHANGED <<chain, net, minted, upsets, missed>>

\* push_chain_sync sends the chain the node holds by now, and with it the ids
\* it is sent to, to every known peer but the ignored ones; the pushes to
\* some of them, bad, fail.
Push(h, bad) ==
  LET n == h.node
      ids == Known(n) \ h.ignore
  IN  /\ h.pc = "push"
      /\ bad \subseteq ids
      /\ upsets + Cardinality(bad) <= MaxUpsets
      /\ upsets' = upsets + Cardinality(bad)
      /\ net' = net \cup {[to |-> p, from |-> n, chain |-> chain[n],
                           sent |-> ids] : p \in ids \ bad}
      /\ missed' = missed \cup {[to |-> p, chain |-> chain[n]] : p \in bad}
      /\ handlers' = (handlers \ {h}) \cup
           (IF bad = {} THEN {}
            ELSE {[h EXCEPT !.pc = "remove", !.failed = bad]})
      /\ UNCHANGED <<chain, tracked, minted>>

\* A push is lost although write() returned Ok: only a part of it was written,
\* the reset discarded the rest, or server_process stopped reading too early,
\* panicked on the reset or could not deserialize what it had read.
Lose(m) ==
  /\ upsets < MaxUpsets
  /\ upsets' = upsets + 1
  /\ net' = net \ {m}
  /\ missed' = missed \cup {[to |-> m.to, chain |-> m.chain]}
  /\ UNCHANGED <<chain, tracked, handlers, minted>>

\* When all pushes have ended, the peers that could not be reached are
\* removed.
RemoveFailed(h) ==
  /\ h.pc = "remove"
  /\ tracked' = [tracked EXCEPT ![h.node] =
                   [p \in Known(h.node) \ h.failed |-> tracked[h.node][p]]]
  /\ handlers' = handlers \ {h}
  /\ UNCHANGED <<chain, net, minted, upsets, missed>>

\* KnownPeers::add_peer, whoever calls it: node n learns of peer p, with no
\* hash tracked.  The chain n holds by now is not pushed to p.
Learn(n, p) ==
  /\ p \notin Known(n) \cup {n}
  /\ upsets < MaxUpsets
  /\ upsets' = upsets + 1
  /\ tracked' = [tracked EXCEPT ![n] =
                   [q \in Known(n) \cup {p} |->
                      IF q = p THEN 0 ELSE tracked[n][q]]]
  /\ missed' = missed \cup {[to |-> p, chain |-> chain[n]]}
  /\ UNCHANGED <<chain, handlers, net, minted>>

Receive == \E m \in net : Accept(m) \/ Reject(m)

Proceed ==
  \/ \E h \in handlers : Spare(h) \/ Mark(h) \/ RemoveFailed(h)
  \/ \E h \in handlers : \E bad \in SUBSET Known(h.node) : Push(h, bad)

Next ==
  \/ \E n \in Node, time \in Times : Extend(n, time)
  \/ Receive
  \/ Proceed
  \/ \E m \in net : Lose(m)
  \/ \E n, p \in Node : Learn(n, p)

Spec == Init /\ [][Next]_vars

\* A message in flight is handled in the end unless it is lost, and every step
\* of a handler is taken: the runtime polls what is ready, and connecting and
\* writing to a peer end one way or the other.  That blocks are mined, that
\* pushes fail or are lost and that peers are learnt is not assumed.
Fairness == WF_vars(Receive) /\ WF_vars(Proceed)

FairSpec == Spec /\ Fairness

-----------------------------------------------------------------------------
(* Properties *)

\* A peer is left out of a push because of its tracked hash only if it holds
\* a chain at least as good, although update_chain_hash_all writes hashes of
\* chains nobody has been sent yet.
SparedIsUpToDate ==
  \A h \in handlers : h.pc = "spare" =>
    \A p \in Known(h.node) :
      tracked[h.node][p] = ChainHash(h.adopted)
        => AsGood(chain[p], h.adopted)

\* What node p holds, is being sent, or has missed.
Reaching(p) ==
       {chain[p]}
  \cup {m.chain : m \in {x \in net : x.to = p}}
  \cup {m.chain : m \in {x \in missed : x.to = p}}

\* Node n is still to push the chain it holds to peer p.
Pending(n, p) ==
  \E h \in handlers :
    /\ h.node = n /\ h.adopted = chain[n]
    /\ h.pc \in {"spare", "mark", "push"}
    /\ p \notin h.ignore

\* No known peer is left behind but by a failure or a loss: it holds a chain
\* at least as good as the node that knows it, or such a chain is on its way,
\* or a push of one to it failed or was lost.  The tracked hashes and the ids
\* already sent to spare pushes but never the last one a peer needs.
NobodyLeftOut ==
  \A n \in Node : \A p \in Known(n) :
    Pending(n, p) \/ \E c \in Reaching(p) : AsGood(c, chain[n])

\* Gossip comes to rest: a chain does not go round the network for ever,
\* although the ids a forwarded push carries do not include those of the push
\* before it.
GossipRests == <>[](net = {} /\ handlers = {})

\* Why it comes to rest.  A node can only improve on its chain with one that
\* another holds or that is in flight; each improvement, and each block mined,
\* costs so many steps and messages at most as one round of pushes takes.
Offered == {chain[n] : n \in Node} \cup {m.chain : m \in net}

Improvements == {x \in Node \X Offered : Better(x[2], chain[x[1]])}

RoundOfSteps == Cardinality(Node) + 3

\* A handler is to push yet, to all nodes at most, or to remove what failed.
StepsOf(h) ==
  [spare |-> RoundOfSteps, mark |-> RoundOfSteps - 1,
   push |-> RoundOfSteps - 2, remove |-> 1][h.pc]

StepsOfHandlers == {x \in handlers \X (1..RoundOfSteps) : x[2] <= StepsOf(x[1])}

StepsLeft ==
    RoundOfSteps * ((MaxBlocks - minted) * Cardinality(Node)
                      + Cardinality(Improvements))
  + Cardinality(StepsOfHandlers) + Cardinality(net)
  + (MaxUpsets - upsets)

\* Every step spends some of the steps left: no order of adopting, pushing,
\* failing, losing and learning goes on for ever without new blocks.
GossipRunsDown == [][StepsLeft' \in 0..(StepsLeft - 1)]_vars

\* In the end every node's chain is as good as that of the nodes that know
\* it, or it has missed a push of one that is: nothing but pushes that failed
\* or were lost keeps nodes apart.  What it missed nobody sends it again
\* before the next block.
Converges ==
  <>[](\A n \in Node : \A p \in Known(n) :
         \E c \in {chain[p]} \cup {m.chain : m \in {x \in missed : x.to = p}} :
           AsGood(c, chain[n]))

\* Gossip is one of the ways to replicate chains that Replicas describes: the
\* shared chains are those in flight.
Replication ==
  INSTANCE Replicas WITH held <- chain, shared <- {m.chain : m \in net}

ImplementsReplicas == Replication!Spec
=============================================================================

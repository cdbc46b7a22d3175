# A specification of bk-rs in TLA+

bk-rs is a voting system: nodes mine votes into blocks with proof of work, gossip
whole chains to each other over TCP and adopt the longest (or equally long and
newer) valid chain. One node, the root, offers an HTTP API. This directory holds
TLA+ modules that model the program, instances of them for the model checker TLC,
and proofs checked by TLAPS. Line numbers refer to files under
`src/` of the repository; `PROJECT.json` maps every definition to its lines.

## 1. Inventory

### Components

| Component | Source | State | Operations |
|---|---|---|---|
| Blocks, mining a block | `block/block.rs`, `block/miner.rs` | none | `mine_block`, `Block::new/hash/validate` |
| Chain validation | `block/chain.rs` | the blocks | `validate` (a whole chain), `validate_addition` (one block), `hash` |
| Vote cache | `http_server/vote_cache.rs` | vote of each voter, tally | `record_vote`, `get_vote`, `tally`, `total_votes` |
| Chain replication | `app.rs` 309-404, 478-551 | chain, seen voter ids, cache | `add_block_to_chain`, `sync_chain`, `push_chain_sync` |
| Mining pool and driver | `app.rs` 82-190, `block/mining_pool.rs` | pool, mining lock | `add_mining_task`, `drive_mining_pool` |
| Peer table, discovery | `peer/*.rs`, `app.rs` 192-307, 407-476 | peers, id -> (peer, chain hash) | `PeerDiscoveryReq`, `PushPeersReq`, `push_peer_sync` |
| HTTP API, vote distribution | `http_server/http.rs` | none | `add_vote` (fan-out, retries), look-ups |
| Framing, sockets | `net/*.rs` | none | read loop, `send_packet_*`, 15 s timeout |
| Chain dump | `net/utils.rs` 99-130 | a text file | `save_chain` |
| Startup | `main.rs` | none | arguments, discovery, accept loop |
| Scripts | `launch_nodes.py`, `vote.py`, `tally.py` | none | start nodes, cast and compare votes |

### How they interact

A POST of a vote makes the root send a `DistributeMiningTask` to some peers. Each
connection is handled by an asynchronous task of its own on a multi-threaded
runtime (`main.rs` 117-125), so every handler below runs concurrently with every
other one and with itself. A task arriving at a node enters the pool; the one call
that holds the mining lock drains it: it copies the tip of the chain, mines without
a lock for a long time, and adds the block to whatever the chain is by then. A
changed chain is pushed to the known peers (`PushChainReq`), whose handler,
`sync_chain`, may replace theirs and push it on. The parts of `App` are guarded by
`std` mutexes taken and released in short critical sections, so that a handler's
work is interleaved with that of others between any two of them. The cache has a
mutex of its own and is written after that of the chain was released. HTTP look-ups
read the cache only.

### What is hard, and what makes each part correct

* **Validation**: `Chain::validate` skips block 0, `validate_addition` looks at
  `idx`, `prev_hash` and the seen voter ids only. Correct: in whatever way the two
  are combined, every chain counts each voter once and is linked from the start.
* **Replication**: stale tips, pushes that are late, repeated or lost, forks of
  equal length, restarts with an empty chain. Correct: the blocks form one tree; a
  chain is only given up for a better one; chain, seen voter ids and cache agree.
* **Pool and driver**: the gap between the last look into the pool and the release
  of the lock, requeued tasks, panicking searches. Correct: one miner at a time,
  no task vanishes or is left behind, the loop ends.
* **Locks**: three mutexes are nested, in two different orders. Correct: every
  handler comes to its end.
* **Gossip of chains**: hashes that are tracked before anything is sent, ids sent
  to by others, pushes that fail or are lost, peers learnt after the push. Correct: a
  push is only ever spared a peer that does not need it; gossip comes to rest, and then
  the chains are as good as each other, but for pushes that went wrong.
* **Peer table**: two structures for one set, addresses that change under an id,
  several addresses of the root, removal of a live peer after one failed push, joins at
  the same time. Correct: what is pushed to is known and the reverse, but for shared
  ids; a live peer is only lost to a push of one's own that missed it; whoever has an
  id of its own gets to know, and be known by, all that have, unless a push between
  them went wrong.
* **Vote distribution**: random choice with replacement, three attempts, `OK` in
  any case, and connections that are reset right after one write whose length nobody
  looks at. Correct: an `OK` hides no loss but those the code accepts, and a retry
  never doubles a vote.

**Delivery.** Every message between nodes but the answer to a `PeerDiscoveryReq` is
sent the same way: connect, one `write()`, drop the stream (`net/utils.rs` 47-60).
Connecting and writing may fail although the peer runs, and the peer is then removed.
A write that returned `Ok` may have taken a part of the message; the reset may discard
what is not read yet; the read loop may stop early, or ask for more after exactly a
multiple of 1024 bytes; and then the peer is kept and nobody is told (`app.rs` 230-287).
Nothing acknowledges a message and nothing sends it again. `VoteDelivery` models how
this comes about, down to the bytes. In `ChainGossip` and `PeerTable` it is a push that
fails, or one that is lost, and both are recorded in `missed`. Properties that need
delivery are stated up to what was missed, never for a network in which all arrives.

Each concrete hazard, with its line and the properties aimed at it, is in
`PROJECT.json` under "hazards".

## 2. The modules

| Module | Models |
|---|---|
| `ChainRank` | which of two chains a node prefers: the first tests of `Chain::validate` |
| `VoteChain` (extends `ChainRank`) | the data and the pure functions: blocks, `mine_block`, both validations, the cache |
| `Ledger` (extends `VoteChain`) | the chains of all nodes: mining loops, `sync_chain` handlers, pushes in flight, restarts |
| `ChainGossip` (extends `ChainRank`) | to whom chains are pushed: tracked hashes, `already_sent`, failed and lost pushes, new peers |
| `Replicas` (extends `ChainRank`) | abstract: what nodes promise each other about their chains |
| `PeerTable` | discovery, `PushPeersReq`, the two halves of `KnownPeers`, joins, crashes, failed and lost pushes |
| `VoteDelivery` | `add_vote`, `distribute_vote_task`, and a connection down to its bytes |
| `MiningDriver` | pool, mining lock and concurrent `add_mining_task` calls of one node |
| `AppLocks` | every handler of one node as a series of critical sections |
| `ProofOfWork` | `check_leading_zeroes` and what it means |
| `MCLedger`, `MCChainGossip`, `MCPeerTable`, `MCVoteDelivery`, `MCMiningDriver`, `MCAppLocks` | model values, instances and symmetry for TLC |
| `VoteChainProofs`, `LedgerProofs`, `ReplicasProofs`, `ChainGossipProofs`, `PeerTableProofs`, `VoteDeliveryProofs`, `MiningDriverProofs`, `AppLocksProofs` | theorems and proofs |

How they hang together: `Ledger` and `ChainGossip` are two views of the same handlers.
`Ledger` has everything that happens to the state of a node and lets pushes go
anywhere; `ChainGossip` has the pushes and keeps of a chain only its rank. Both
implement `Replicas` (with `shared` mapped to the chains ever pushed and to those in
flight). `ChainGossip` takes from `Ledger` that a hash names a chain and that pushed
chains pass the rest of the validation, `MiningDriver` that a block fits exactly the
chain it was mined on; these are theorems of `LedgerProofs`. `PeerTable` describes how
the table that `ChainGossip` pushes to, and `VoteDelivery` draws from, comes about;
`AppLocks` that the critical sections which are single actions elsewhere can be
entered.

**VoteChain.** A hash is a natural number that names the block it was computed
from: SHA-256 is taken to be free of collisions, and the nonce, the bytes and the
search are left out. `ValidBlock` keeps the conditions of `Block::validate` that
differ for a block made by `Block::new`: that it was sealed, and that the voter id
is a UUID, which is the set `UuidVoters`. Two nodes that mine the same vote on the
same tip in the same millisecond may find the same nonce and thereby the same
block; here every search gives a hash of its own. `Validate` is
`Chain::validate`, block 0 left out as in the code; `CanAdd` and `IsLate` are two of
the three answers of `validate_addition`, the third is everything else.
`LastTime` turns the `Option` of a last timestamp into a number so that `None` is
the smallest.

**Ledger.** An action is one critical section. The mining loop of a node goes
through `TakeTask` (the test of the seen voter ids), `StartMining` (copy of the tip,
clock, search), `AddBlock` or `GiveUpBlock` (`add_block_to_chain` under the locks) or
`MiningPanics` (the task is lost, the loop goes on), `RecordMined` (the cache),
`PushMined`. A `sync_chain` handler is `AcceptChain` (one
section over chain, seen voter ids and peers), `InstallCache`, `ForwardChain`; a
rejected chain changes nothing and is no action. `pushed` holds every chain that was
ever sent; any node may receive any of them at any time, repeatedly, in any order
or never. The rules of the code about whom to push to (`ChainGossip`) only choose
among these behaviours, so every safety property holds with them too. `Restart` is the end of a process and its start with the
state of `App::init`; the dump of the chain is never read back.

**ChainGossip.** A handler of `sync_chain` is `Accept` (the section in which the chain
is replaced and its hash tracked for the sender), `Spare` (which peers have this hash
already), `Mark` (`update_chain_hash_all`), `Push` and, if pushes failed,
`RemoveFailed`; `Reject` drops a message. `Extend` is `add_block_to_chain`, which goes on
to `Push` at once. `Push` sends the chain the node holds by then, which need not be
the one the handler adopted, and fails for any of the peers. `Lose` takes a message out
of flight that nobody will handle: its sender keeps the peer and the hash it tracks
for it. Nodes have ids of their own here, and the table
has an entry for each known peer. Peers are learnt at any moment (`Learn`), bounded
together with failed and lost pushes by `MaxUpsets`. `missed` is history: what a peer
did not get because a push failed or was lost or the peer came later. There are no restarts in this module,
as a node that starts again is another one to its peers' tables (`PeerTable`).

**Replicas.** Extend with a block whose hash is on no chain, share, adopt a better
shared chain, forget what need not be delivered any more, lose everything. That chains
only improve and form one tree of blocks (`OneTreeOfBlocks`) follows from this alone.

**PeerTable.** A process is known under the address it announces; a node that comes
back is a new process with the old id. The root announces nothing: a joiner knows it
under the `--root-ip` it was given itself, so that it may have several addresses
(`Addr`, of which `Host` gives the process). `Settings` lists what the processes may be
started with: the ids, with the default `node_0` for all among them; the address each
is told of the root; `SelfAware`, the processes that run without a `--public-ip` of
another address than the one they bound, and so recognise themselves (`Addable`); and
how much may go wrong. The joining process goes through `Start`
(add the root, push), `Ask`, `TakeAnswer`, `AddEntry` for each entry with a push
after each, and `Serve`; until then the messages to it wait. `HandleAsk`, `Answer` and
`Push` are the three critical sections of a `PeerDiscoveryReq`; `HandlePush` is
`add_multiple_peer`. A push reads the table when it sends and applies what failed in
`RemoveFailed`, later. It fails for all processes that have ended and may fail for any
that runs, and what it sends may be lost (`Push`); a push of a chain may fail too, and
removes peers from the same table (`ChainPushFails`). What missed a process that runs
is recorded in `missed`. A process that ends takes its calls and the messages to it with
it. A joiner whose request or answer goes wrong ends (`GiveUp`). The order in which
the entries of an answer are looked at is that of a `HashMap`, hence any.

**VoteDelivery.** The request is `CountPeers`, rounds of `BeginRound`, `Connect` or
`ConnectFails`, `Write` or `WriteFails` and `Drop`, and `AnswerOk`. A message is a number
of bytes. `Write` takes any part of them, `Drop` resets the stream and discards any
part of what is unread, `Read` returns any part that fits: these three are what TCP and
the operating system may do, the reactions are the code's. Connecting to any peer may
fail, and so may a write; peers crash, are learnt and are forgotten meanwhile. The buffer of 1024 bytes is
the constant `Buffer`. `smooth` is history and marks a connection on which none of
this went wrong. What handling a vote means is `MiningDriver`'s matter.

**MiningDriver.** A call of `add_mining_task` is `Submit`, `Queue`, `TryLock` and,
when it gets the mining lock, rounds of `Take`, `Check`, `ReadTip`, the search and
its outcome (`AddBlock`, `LateAdd` and `Requeue`, `Ignore`, `MiningPanics`), until
`Take` finds the pool empty, and `Unlock`. The chain is a version number: a block
fits exactly the version it was mined on. That this is so is a theorem about the
detailed model, `LateMeansOvertaken` of `LedgerProofs`. `Adopt` is `sync_chain`
with a chain that names at least as many voters. `everSeen`, `queued` and `dropped`
are history variables.

**AppLocks.** A handler is chosen together with the way it branches (`WaysOf`), and
then takes the mutexes of each section one at a time. The tokio mining lock is left
out: it is only tried. `root_peer_discovery` runs before a node accepts connections
and so alone.

**ProofOfWork.** `CheckLeadingZeroes` next to its meaning, `BeginsWithZeroes`. A shift
is a division by a power of two. It has no states, and is only proved about.

Definitions introduced as "a mistake in" another one are deliberate (a dropped test,
a swapped order). They are used by no specification; putting one in the place of the
definition it varies shows that a property notices.

## 3. The runs

All bounds are named constants or sets given in the `.cfg`. Runs do not check for
deadlock because each model stops at its bounds.

| Run | Instance | Shows |
|---|---|---|
| `Ledger_safety` | 2 nodes, 3 voters (one no UUID), 2 candidates, 2 clock readings, 3 blocks; 175 thousand states | the chains are linked and count each voter once, the seen voter ids are those of the chain, a hash names a history, a block is late exactly when its base was replaced, total and tally agree, and the cache made of a chain that can be adopted is its count |
| `Ledger_restart` | 2 nodes, 2 voters, 1 restart, 3 blocks; 418 thousand states | the inductive invariant `OneTree`; chains only improve, restarts apart; `Ledger` implements `Replicas` |
| `Ledger_CacheMatchesChain` | 1 voter, 2 candidates, 2 blocks | *violated*: the cache trails the chain for good |
| `MiningDriver` | 3 calls, 3 voters (one no UUID), 1 adoption; 181 thousand states | mutual exclusion, tasks are accounted for, at most two per voter, every step spends some of those left, the pool is drained while the loop runs, every call returns |
| `MiningDriver_QueuedIsPickedUp` | 2 calls | *violated*: the lost wake-up |
| `MiningDriver_OneTaskPerVoter` | 2 calls, 1 adoption | *violated*: requeue passes by the dedupe |
| `MiningDriver_LoserIsRequeued` | 2 calls, 1 adoption | *violated*: the vote of a replaced block is gone |
| `AppLocks` | 3 handlers of all kinds and ways; 942 thousand states | the only circle of waiting is `sync_chain` against a push or save |
| `AppLocks_HandlersFinish` | 2 handlers | *violated*: that circle is reached |
| `ChainGossip` | 3 nodes, full graph, line and ring, 2 clock readings, 2 blocks, 1 failed or lost push or new peer; 779 thousand states | a peer is spared a push only if it is up to date, nobody is left out but by a push that went wrong, every step spends some of those left, gossip comes to rest, the chains converge up to what was missed; it implements `Replicas` |
| `PeerTable` | 3 processes, 2 addresses of the root, 6 settings, 1 crash, timeout, failed or lost push; 333 thousand states | ids keep the right addresses, tables come apart over shared ids only, a live peer stays unless a push missed it, nobody is forgotten on the way, all with ids of their own get to know each other up to pushes between them that went wrong, pushing ends |
| `VoteDelivery` | 0, 1 or 3 known peers, 1 crash, failed write or peer learnt or forgotten, any number of failed connects, a buffer of 2 bytes, messages of 1, 2 and 3; 603 thousand states | an OK hides only the losses the code accepts, retries never double a vote, the length decides the fate of a smooth message, everything is answered and no reader waits for ever |

**Why the bounds are enough to be interesting.** Two nodes and three blocks are
what it takes to mine on a tip, lose it to a longer chain, and get back a chain
that carries the same voter; two clock readings are what equal, newer and older
need; a voter id that is no UUID, and one candidate more than needed, reach the
branches of the validation and of the cache. With an adoption among three
calls a task becomes late and is requeued beside the one its voter queued meanwhile, and
a third one arrives. Three handlers are one more than a circle of the nested sections
needs. Three nodes are what it takes for a chain to arrive by two ways, to be forwarded
by somebody who did not mine it, and for `already_sent` to name a third; the line needs
forwarding, the ring has peers that do not know who knows them; two blocks make
longer, equal and newer chains race. Three processes are two that join at once, or one
that comes back under its id while its old address is still passed round, or three
that share an id. One push that goes wrong is enough to part two of three processes,
to have a live peer removed and learnt again, or to cut a chain off from a node. The six
settings of `PeerTable` let one thing go wrong where the root has one address, and
nothing where it has several or a process with an id of its own does not recognise
itself; a mishap in those too would make the run far too long, and is left to
the proofs. Pushes of chains that fail are looked at for the root (`ChainPushers`),
whose table all others come to know each other by. Three peers make two rounds of three
attempts, and a buffer of two bytes with messages one less, equal and one more has every case of the read loop, the
last with a part of the message in a second read. What goes beyond these sizes is covered by the theorems.

**The violations.** Each is a sentence of a comment or of the repository's README
that the code does not keep, quoted in `PROJECT.json` with the run that refutes it.
None of them lets a voter be counted twice: what suffers is that a vote is counted
at all, that the HTTP API answers by the chain, and that the node stays alive.

**What the runs do not claim.** `NobodyIsForgotten`, `EveryoneKnowsEveryone` and
`PeersRest` are claimed as long as no process ends, the first two for processes
with ids of their own that no push from the root or between the two missed: the code
sends nothing again, so that after one lost push two nodes may not know each other until
somebody's table grows. In the same way `NobodyLeftOut` and `Converges` do
not say that a node gets a chain it missed, which no one sends it again before the next
block, and `OkHidesNoOtherLoss` lists what an `OK` may hide. A process that does not
recognise its own address becomes its own peer and sends itself what it sends the
others; no property forbids it. Sharing an id costs more than being known under it: the root has
one entry for all that share it and pushes to that one only, so that the others are not
told of processes that come later, whatever the ids of those. (With three processes
this cannot be seen, as there is nobody left to come later; it takes a fourth.) With a
crash the claims are false, and TLC shows how: two nodes can
pass a dead peer to each other for ever, one removing it while the other still pushes
it as news; a root that ends between its answer and its push leaves a joiner that
nobody knows; and a node that is back on a new port can lose its entry to a late push
of its old address, so that it stays in `peers`, and is sent votes, but is pushed nothing
any more. Neither the source nor its documents promise otherwise, so these are
described here and among the hazards. `Converges` is up to chains that are as good as each
other: nodes whose chains have one length and one last timestamp keep them.

**Fairness.** `Ledger` is checked for safety only and has none. In `MiningDriver` each
call is weakly fair: the tokio runtime polls every ready task, the search ends
with probability one, and a push ends because connecting and writing to a peer do.
No fairness is assumed for arrivals, adoptions or panics. `AppLocks` assumes that
every thread whose next mutex is free takes it in the end, and that the awaits between
two sections end. `std` mutexes promise no order; a weakly fair attempt is all the
two claims checked with it use, and the one about the locks fails even so.
`ChainGossip` is weakly fair for the receipt of messages as a whole and for the steps of
handlers as a whole, `PeerTable` for all that processes have to do, and `VoteDelivery`
for the request and for the readers: the runtime polls what is ready, connecting,
writing and resetting end one way or the other, and a message that is not lost is
handled. That messages are not lost is not assumed, nor which handler or message goes
first. Mining, learning, failing, losing, starting and crashing are not fair.
These rest on the handlers not blocking each other on the mutexes, which `AppLocks`
shows to be so but for one circle.

## 4. What is proved

The proofs hold for every set of nodes, processes, peers, voters, candidates, calls and
handlers, every peer graph and every bound. They rest on the named assumptions of the
modules only: valid voter ids are voter ids, clock readings are natural numbers, the
values that stand for "none" are not among the others, the kinds of handlers are the
known ones, the nodes of `ChainGossip` and the peers of `VoteDelivery` are finitely many,
the root is a process, every address is that of one process, all are known by their
own and finite in number, the joiners are told addresses of the root, the buffer takes
at least a byte. `DriverAlwaysRunsDown` states
that the calls are finitely many as a hypothesis of its own.

* **Votes and work** (`VoteChainProofs`). Caches and the test of leading zeroes are
  computed by folds and recursive functions, so these proofs are by induction, on
  a *set* of natural numbers (`Induction`; it follows from the library's theorem that
  a well-founded relation has least elements). `FoldExists` and `SumExists` show
  that there is a function with the recursive equations that a fold or a sum chooses;
  what is chosen can then be reasoned about. `CacheCountsVotes`: the cache that
  `record_vote` makes of a chain of distinct voters has exactly their votes, and each
  candidate's tally is the number of its votes. `LeadingZeroesAreChecked`: byte by
  byte, and for the last one bit by bit (`LeadingBits`), for every hash and difficulty.

* **Ledger** (`LedgerProofs`). The safety properties are not inductive: that a mined
  block fits on the chain it meets depends on the chain it was mined on, which nobody
  may hold any more. The inductive invariant `OneTree` therefore ranges over all chains
  held, pushed *or mined on* (`Held`): each is sound by itself (`GoodChain`), any two
  agree up to any hash they share (`Agree`), a block being mined has a hash on no
  chain (`MinedOnBase`), and a node's chain is the base of its search or better. From it
  follow `VotersCountOnce`, `ChainsAreLinked`, `SeenIsCorrect`, `HashesNamePrefixes`
  and `LateMeansOvertaken`: if the test of `idx` and `prev_hash` passes, the tip's hash
  is that of the base, hence (`Agree`) so is the whole chain. `TypeCorrect` and
  `ChainsImprove` (`Better` is transitive, and both ways to change a chain yield a
  better one) come first. `LedgerReplicates` is the refinement: every step of `Ledger` is
  one of `Replicas` or a stutter. That a mined block is fresh is `MinedOnBase`; that an
  adopted chain is better is `ValidateIsBetter`. Of the caches, `TotalIsAlwaysTallySum`
  needs that each record of a vote keeps vote map and tally balanced (`CacheStep`,
  on `RecordVoteBalances`), whatever the race of cache and chain (`CacheMatchesChain`)
  does; and `CachesAlwaysCount`, that the cache of any chain that may be adopted is its
  count, is `CacheCountsVotes` on top of `VotersCountOnce`.
* **Replicas** (`ReplicasProofs`). `OneTreeOfBlocks`: that any two chains agree up to a
  hash they share is inductive once the hashes within a chain are known to differ;
  a block with a fresh hash shares none.
* **ChainGossip** (`ChainGossipProofs`). The point is that `tracked[n][p]` is written for
  peers nobody has sent anything to. `GossipInv` says why this does no harm: hashes
  name chains (`HashesNameChains`); a message holds nothing better than its sender
  (`MessagesAreOld`); no two handlers of a node have adopted the same chain, and the node
  holds one as good (`HandlersDiffer`); a node never tracks the hash of a chain better
  than its own (`TrackedIsOld`), so that the hash a handler is about to compare its own
  new chain with can only be there by p's own message (`SparedIsUpToDate`); whoever is in
  `already_sent` is reached by the push that says so, or missed it (`SentIsReached`). From
  these `NobodyLeftOut` is inductive: a message that is lost moves from flight to `missed`.
  `GossipReplicates` is the refinement.
  `GossipAlwaysRunsDown` bounds gossip by a measure, `StepsLeft`: each pair of a node
  and an offered chain that is better than the node's is worth a round of steps, each
  block still to be mined such a round at every node, each handler the steps up to its
  end, each message one. Adopting a chain uses up a pair, as the node's chain now is
  no worse, and pays for the handler and all it sends; a push offers nothing its
  handler did not. So without new blocks, failures and peers all gossip ends.
  `RestingNodesAgree`: when it has, `NobodyLeftOut` leaves a peer nothing but to hold a
  chain as good or to have missed one, so that of convergence only the coming to rest
  depends on fairness, and nothing on delivery.
* **PeerTable** (`PeerTableProofs`). `PeerInv` adds to the claims that the entries carried
  by calls and messages are right (`Carried`), that calls run for live processes and
  are to remove only what has ended or was missed by a push of this very process
  (`CallsRun`, `Unreached`), and that nobody has heard
  of a process before it starts (`NobodyIsEarly`). `TableStep` reduces every action to
  five things that can happen to a table (it stays, begins, ends, grows by right
  entries, loses unreached ones), and each claim is proved against these: hence a live
  peer leaves a table only after a push of the table's own missed it (`LivePeersStay`).
  `TellInv` is the invariant of joining as long as nobody ends: the root knows whoever
  has begun, or is yet to get its request (`RootHears`), everybody knows the root
  (`RootIsKnown`), and of two the root knows each knows the other, or a push that says so
  is on its way, or the root is about to push all it knows (`RootTells`); each of them
  but for the pushes in `missed` on which it depends (`Reached`), whatever others fail
  or are lost. `RootTells` is what makes concurrent
  joins safe: the critical sections that add, answer and push are three, but whatever
  the root's table gets is pushed after it is there (`GrowthIsPushed`). From it follow
  `NobodyIsEverForgotten` and `RestingNodesKnowEachOther`.
* **VoteDelivery** (`VoteDeliveryProofs`). `VoteInv` says where the request is, that
  a round has at most one connection that sent (`SentOnceARound`), that a round that
  is over sent the vote, found nobody known or failed in every attempt (`RoundsMade`,
  `AttemptsFailed`), and of a smooth connection that it is read in whole buffers
  (`Sound`). `LengthDecides` is then arithmetic of remainders, and
  `OkHidesNothingElse` its use for the connection that a round sent the vote on.
* **MiningDriver** (`MiningDriverProofs`). `DriverInv` (types, what is in whose hand,
  who holds the lock) is inductive; `MinersExclude`, `TasksAreKept` and `TwoTasksAtMost`
  follow, the last by counting: a second task of a voter is queued only while the
  first is in hand, and `requeue` moves it from the hand to the pool.
  `DriverAlwaysRunsDown` is about the loop: requeueing puts back what was taken, but
  only for a search whose base was replaced (`Late`), and the next search begins on the
  chain of that moment; so each adoption is worth the steps of one more round.
* **AppLocks** (`AppLocksProofs`). `WaysType` shows that the methods of `App` have no
  critical section but the known ones. `LockInv` is inductive: a mutex is owned by the handler that took it in its
  current section. `OneDeadlock` then follows without induction: whoever waits while
  holding something is in one of three places, the seen voter ids are only ever
  held by one who holds the chain too, and what is left is chain against peers. So
  giving `sync_chain` the order peers, chain would leave no deadlock at all.

**Only model-checked.** The liveness properties (`DrainedWhileLooping`, `CallsReturn`,
`GossipRests`, `Converges`, `EveryoneKnowsEveryone`, `PeersRest`, `Served`), which rest on
fairness, for which the prover has no rules; `Converges` and `EveryoneKnowsEveryone` are
proved from `GossipRests` and `PeersRest`, and the two `...RunDown` properties are the
part of coming to rest that is not about fairness. And the violated claims, for which
one counterexample is the proof.

## 5. What is not modelled

* Bytes, hashing and the search for a nonce; what SHA-256 and MD5 promise is assumed.
* The dump of the chain, which nothing reads back; the arguments; the scripts; the
  look-ups of the HTTP API, which read the cache of `Ledger` and change nothing.
* An answer to a `PeerDiscoveryReq` that begins and stops (`utils.rs` 26-33 reads it
  with no timeout), and one that does not deserialize, which ends the process.
* A wrong `--root-id`, which would put a wrong id into tables, and a wrong
  `--public-ip`, an address nobody or somebody else has.
* In `ChainGossip` restarts, and two nodes with one id; `Ledger` has the first and
  `PeerTable` both.
* Poisoned mutexes: no critical section of `App` panics.

## 6. What could come next

`VoteNode`, `MiningDriver` with the chains of `Ledger` in place of version numbers, shown
to implement both. `PeerTable` under `ChainGossip`, which would show what the late push
of an old address costs the node in chains it is not sent. An abstract register
of votes, which only grows by votes once cast, and which replaced chains and
restarts break.

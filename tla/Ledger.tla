-------------------------------- MODULE Ledger --------------------------------
(***************************************************************************)
(* How the nodes of a bk-rs network grow and exchange their chains.        *)
(*                                                                         *)
(* Every node keeps a chain, the set of voter ids seen on it and the vote  *)
(* cache its HTTP API answers from.  One mining loop per node appends      *)
(* blocks (App::drive_mining_pool, App::add_block_to_chain); any number of *)
(* concurrent PushChainReq handlers replace the chain (App::sync_chain).   *)
(* An action is one critical section: what the code does between taking a  *)
(* mutex and releasing it.  Between two of them other handlers may run,    *)
(* which is why the cache, guarded by a mutex of its own, can trail the    *)
(* chain.                                                                  *)
(*                                                                         *)
(* Two things are abstract here.  A mining task appears when the loop      *)
(* takes it (MiningDriver models the pool it comes from).  A chain that    *)
(* was ever pushed to some peer stays in the set pushed, and any node may  *)
(* receive it at any time, any number of times, or never: peers, message   *)
(* loss, reordering and the rule that spares some peers a push are all     *)
(* instances of that.                                                      *)
(***************************************************************************)
EXTENDS VoteChain

CONSTANTS
  Node,         \* the node processes
  Times,        \* the readings of the nodes' clocks; they need not agree
  MaxBlocks,    \* bound: how many blocks are mined in all
  MaxRestarts   \* bound: how often a node process is started anew

ASSUME TimesAssumption == Times \subseteq Nat
ASSUME BoundsAssumption == MaxBlocks \in Nat /\ MaxRestarts \in Nat

VARIABLES
  chain,        \* App::chain of each node
  seen,         \* App::seen_voter_ids of each node
  cache,        \* App::votes_cache of each node
  miner,        \* where each node's mining loop is
  syncs,        \* the sync_chain handlers that replaced a chain and still run
  pushed,       \* the chains some node has sent in a PushChainReq
  minted,       \* how many blocks were mined: the last hash given out
  restarts      \* how many processes were started anew

vars == <<chain, seen, cache, miner, syncs, pushed, minted, restarts>>

-----------------------------------------------------------------------------

Idle == [pc |-> "idle"]

MinerStates ==
       {Idle}
  \cup [pc: {"ready"}, voter: Voters, candidate: Candidates]
  \cup [pc: {"mining"}, block: Block, base: Seq(Block)]
  \cup [pc: {"record"}, block: Block]
  \cup {[pc |-> "push"]}

Syncs == [node: Node, pc: {"cache", "push"}, adopted: Seq(Block)]

\* What App keeps and what a loop or a handler has in hand between two
\* sections.
TypeOK ==
  /\ chain \in [Node -> Seq(Block)]
  /\ seen \in [Node -> SUBSET Voters]
  /\ cache \in [Node -> Caches]
  /\ miner \in [Node -> MinerStates]
  /\ syncs \subseteq Syncs
  /\ pushed \subseteq Seq(Block)
  /\ minted \in Nat
  /\ restarts \in Nat

Init ==
  /\ chain = [n \in Node |-> <<>>]
  /\ seen = [n \in Node |-> {}]
  /\ cache = [n \in Node |-> EmptyCache]
  /\ miner = [n \in Node |-> Idle]
  /\ syncs = {}
  /\ pushed = {}
  /\ minted = 0
  /\ restarts = 0

-----------------------------------------------------------------------------
(* The mining loop of node n *)

\* The loop takes a task whose voter it has not seen.  (A task whose voter it
\* has seen is skipped, which leaves everything here as it is.)
TakeTask(n, v, c) ==
  /\ miner[n] = Idle
  /\ v \notin seen[n]
  /\ miner' = [miner EXCEPT ![n] =
                 [pc |-> "ready", voter |-> v, candidate |-> c]]
  /\ UNCHANGED <<chain, seen, cache, syncs, pushed, minted, restarts>>

\* The loop copies the tip of the chain and hands the task to mine_block,
\* which reads the clock and then searches.  No lock is held meanwhile.
StartMining(n, time) ==
  /\ miner[n].pc = "ready"
  /\ minted < MaxBlocks
  /\ minted' = minted + 1
  /\ miner' = [miner EXCEPT ![n] =
                 [pc |-> "mining", base |-> chain[n],
                  block |-> MineBlock(miner[n].voter, miner[n].candidate,
                                      chain[n], minted', time)]]
  /\ UNCHANGED <<chain, seen, cache, syncs, pushed, restarts>>

\* add_block_to_chain appends the mined block to whatever chain the node has
\* by now, under the locks of the chain and of the seen voter ids.
AddBlock(n) ==
  /\ miner[n].pc = "mining"
  /\ LET b == miner[n].block
     IN  /\ CanAdd(seen[n], chain[n], b)
         /\ chain' = [chain EXCEPT ![n] = Append(@, b)]
         /\ seen' = [seen EXCEPT ![n] = @ \cup {b.voter}]
         /\ miner' = [miner EXCEPT ![n] = [pc |-> "record", block |-> b]]
  /\ UNCHANGED <<cache, syncs, pushed, minted, restarts>>

\* The block is late and its task goes back to the pool, or it is ignored.
GiveUpBlock(n) ==
  /\ miner[n].pc = "mining"
  /\ ~CanAdd(seen[n], chain[n], miner[n].block)
  /\ miner' = [miner EXCEPT ![n] = Idle]
  /\ UNCHANGED <<chain, seen, cache, syncs, pushed, minted, restarts>>

\* The search panics: the loop goes on without the task.
MiningPanics(n) ==
  /\ miner[n].pc = "mining"
  /\ miner' = [miner EXCEPT ![n] = Idle]
  /\ UNCHANGED <<chain, seen, cache, syncs, pushed, minted, restarts>>

\* The vote of the added block reaches the cache after the chain's lock was
\* released.
RecordMined(n) ==
  /\ miner[n].pc = "record"
  /\ LET b == miner[n].block
     IN  cache' = [cache EXCEPT ![n] = RecordVote(@, b.voter, b.data)]
  /\ miner' = [miner EXCEPT ![n] = [pc |-> "push"]]
  /\ UNCHANGED <<chain, seen, syncs, pushed, minted, restarts>>

\* push_chain_sync sends the chain of this moment, with or without the block.
PushMined(n) ==
  /\ miner[n].pc = "push"
  /\ pushed' = pushed \cup {chain[n]}
  /\ miner' = [miner EXCEPT ![n] = Idle]
  /\ UNCHANGED <<chain, seen, cache, syncs, minted, restarts>>

-----------------------------------------------------------------------------
(* sync_chain, the handler of PushChainReq.  A chain that does not pass      *)
(* Validate changes nothing.                                                 *)

\* Variants of AcceptChain in which a clear() is forgotten.
AcceptWithoutClear(n, c) ==
  /\ Validate(c, chain[n])
  /\ chain' = [chain EXCEPT ![n] = @ \o c]
  /\ seen' = [seen EXCEPT ![n] = @ \cup VotersOf(c)]
  /\ UNCHANGED <<cache, miner, syncs, pushed, minted, restarts>>

AcceptKeepingSeen(n, c) ==
  /\ Validate(c, chain[n])
  /\ chain' = [chain EXCEPT ![n] = c]
  /\ seen' = [seen EXCEPT ![n] = @ \cup VotersOf(c)]
  /\ UNCHANGED <<cache, miner, syncs, pushed, minted, restarts>>

\* The chain and the seen voter ids are replaced under their locks.
AcceptChain(n, c) ==
  /\ Validate(c, chain[n])
  /\ chain' = [chain EXCEPT ![n] = c]
  /\ seen' = [seen EXCEPT ![n] = VotersOf(c)]
  /\ syncs' = syncs \cup {[node |-> n, pc |-> "cache", adopted |-> c]}
  /\ UNCHANGED <<cache, miner, pushed, minted, restarts>>

\* The cache built from the adopted chain is installed once those locks are
\* released.
InstallCache(s) ==
  /\ s.pc = "cache"
  /\ cache' = [cache EXCEPT ![s.node] = CacheOf(s.adopted)]
  /\ syncs' = (syncs \ {s})
                \cup {[node |-> s.node, pc |-> "push", adopted |-> s.adopted]}
  /\ UNCHANGED <<chain, seen, miner, pushed, minted, restarts>>

\* push_chain_sync passes the node's current chain on.
ForwardChain(s) ==
  /\ s.pc = "push"
  /\ pushed' = pushed \cup {chain[s.node]}
  /\ syncs' = syncs \ {s}
  /\ UNCHANGED <<chain, seen, cache, miner, minted, restarts>>

-----------------------------------------------------------------------------

\* The process ends and is started anew.  The file save_chain writes is never
\* read back: the new process begins as App::init leaves it.
Restart(n) ==
  /\ restarts < MaxRestarts
  /\ restarts' = restarts + 1
  /\ chain' = [chain EXCEPT ![n] = <<>>]
  /\ seen' = [seen EXCEPT ![n] = {}]
  /\ cache' = [cache EXCEPT ![n] = EmptyCache]
  /\ miner' = [miner EXCEPT ![n] = Idle]
  /\ syncs' = {s \in syncs : s.node # n}
  /\ UNCHANGED <<pushed, minted>>

MinerStep(n) ==
  \/ \E v \in Voters, c \in Candidates : TakeTask(n, v, c)
  \/ \E time \in Times : StartMining(n, time)
  \/ AddBlock(n)
  \/ GiveUpBlock(n)
  \/ MiningPanics(n)
  \/ RecordMined(n)
  \/ PushMined(n)

Next ==
  \/ \E n \in Node : MinerStep(n)
  \/ \E n \in Node, c \in pushed : AcceptChain(n, c)
  \/ \E s \in syncs : InstallCache(s)
  \/ \E s \in syncs : ForwardChain(s)
  \/ \E n \in Node : Restart(n)

Spec == Init /\ [][Next]_vars

-----------------------------------------------------------------------------
(* Properties *)

\* The chains a node holds or may still receive.
LiveChains == {chain[n] : n \in Node} \cup pushed

\* Each voter is counted at most once on every chain, the first block
\* included, although Chain::validate leaves that block out of its
\* comparison of voter ids and add_block_to_chain compares with the seen set
\* of a chain that may not be the one the block was mined on.
OneVotePerVoter ==
  \A c \in LiveChains : \A i, j \in DOMAIN c :
    c[i].voter = c[j].voter => i = j

\* Every chain is linked from an empty prev_hash on, every block carries its
\* own position as idx and every voter id on it is a UUID: what
\* add_block_to_chain appends was mined on exactly the block below it, and
\* what sync_chain adopts from block 1 on is sound at block 0 too.
WellLinked ==
  \A c \in LiveChains : \A i \in DOMAIN c :
    /\ c[i].idx = i - 1
    /\ c[i].prev = (IF i = 1 THEN NoHash ELSE c[i-1].hash)
    /\ ValidBlock(c[i])

\* The seen voter ids of a node, which decide what is queued, mined and
\* added, are those of the chain it holds: no interleaving of the mining loop
\* with sync_chain leaves a voter behind or forgets one.
SeenMatchesChain == \A n \in Node : seen[n] = VotersOf(chain[n])

\* Two chains anywhere in the network that share a block hash share all blocks
\* up to it: Chain::hash, prev_hash and the tip really name a whole history.
HashNamesPrefix ==
  \A c, d \in LiveChains : \A i \in DOMAIN c, j \in DOMAIN d :
    c[i].hash = d[j].hash => i = j /\ SubSeq(c, 1, i) = SubSeq(d, 1, j)

\* validate_addition, which looks at idx and prev_hash only, accepts a mined
\* block exactly onto the chain it was mined on, however often sync_chain
\* replaced the chain during the search; and no block is ever ahead of the
\* chain, where it would be ignored and its task lost instead of requeued.
LateExactlyWhenOvertaken ==
  \A n \in Node : miner[n].pc = "mining" =>
    LET b == miner[n].block
    IN  /\ CanAdd(seen[n], chain[n], b) => chain[n] = miner[n].base
        /\ IsLate(seen[n], chain[n], b)
             <=> b.voter \notin seen[n] /\ chain[n] # miner[n].base

\* Outside a restart a node only ever trades its chain for a better one:
\* longer, or as long and with a later last timestamp (Chain::validate and
\* add_block_to_chain together).
ChainsOnlyImprove ==
  [][\A n \in Node :
       \/ chain'[n] = chain[n]
       \/ Better(chain'[n], chain[n])
       \/ restarts' = restarts + 1]_vars

\* The mining loops and the sync_chain handlers are one of the ways to
\* replicate chains that Replicas describes: whatever is mined, overtaken,
\* adopted and pushed late, a node only appends blocks that are new to the
\* whole network and only adopts better chains that somebody pushed.
Replication == INSTANCE Replicas WITH held <- chain, shared <- pushed

ImplementsReplicas == Replication!Spec

\* What /votes/total answers is what the counts of /votes/tally add up to,
\* even when handlers write the cache in an order other than that of the
\* chains they adopted.
TotalIsTallySum ==
  \A n \in Node : TotalVotes(cache[n]) = TallySum(cache[n])

\* The cache sync_chain builds from a chain that was pushed is the count of
\* that chain, block for block, although record_vote counts a voter that it
\* meets again only once: no chain that can be adopted has such a voter.
CachesCountVotes == \A c \in LiveChains : CountsVotes(CacheOf(c), c)

-----------------------------------------------------------------------------
(* The inductive invariant behind the safety properties.  It speaks of the   *)
(* chains a block is being mined on too: a node may have replaced its own    *)
(* chain since, and nobody else need hold it.                                *)

Mining(n) == miner[n].pc = "mining"

Held == LiveChains \cup {miner[n].base : n \in {m \in Node : Mining(m)}}

\* A single chain is what the properties above ask of it.
GoodChain(c) ==
  /\ \A i \in DOMAIN c :
       /\ c[i].idx = i - 1
       /\ c[i].prev = (IF i = 1 THEN NoHash ELSE c[i-1].hash)
       /\ ValidBlock(c[i])
  /\ \A i, j \in DOMAIN c : c[i].voter = c[j].voter => i = j

\* Two chains are the same up to any block hash they share.
Agree(c, d) ==
  \A i \in DOMAIN c, j \in DOMAIN d :
    c[i].hash = d[j].hash => i = j /\ \A k \in 1..i : c[k] = d[k]

HashesMinted(c) == \A i \in DOMAIN c : c[i].hash <= minted

\* The block node n mines fits on its base, its hash is on no chain yet, and
\* the node's own chain has at most improved on the base.
MinedOnBase(n) ==
  LET b == miner[n].block
      base == miner[n].base
  IN  /\ b.idx = Len(base)
      /\ b.prev = (IF base = <<>> THEN NoHash ELSE Last(base).hash)
      /\ b.hash <= minted
      /\ \A c \in Held : \A i \in DOMAIN c : c[i].hash # b.hash
      /\ chain[n] = base \/ Better(chain[n], base)

\* Everything together, which each step preserves: the chains in the network
\* form one tree of blocks, and the blocks being mined are its future leaves.
OneTree ==
  /\ TypeOK
  /\ SeenMatchesChain
  /\ \A c \in Held : GoodChain(c) /\ HashesMinted(c)
  /\ \A c, d \in Held : Agree(c, d)
  /\ \A n \in Node : Mining(n) => MinedOnBase(n)
  /\ \A m, n \in Node :
       Mining(m) /\ Mining(n) /\ miner[m].block.hash = miner[n].block.hash
         => m = n

-----------------------------------------------------------------------------
(* Claims of the sources that the code does not keep *)

\* "Keeps voter_id -> vote and per-candidate tallies [...] Rebuilt/updated
\* whenever the chain changes": when neither the mining loop nor a sync_chain
\* handler of a node is between changing the chain and writing the cache, the
\* cache is the one its chain gives.
CacheMatchesChain ==
  \A n \in Node :
    miner[n].pc \in {"idle", "ready", "mining"}
      /\ (\A s \in syncs : s.node = n => s.pc # "cache")
    => cache[n] = CacheOf(chain[n])
=============================================================================

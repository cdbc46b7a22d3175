----------------------------- MODULE LedgerProofs -----------------------------
(***************************************************************************)
(* Proofs about Ledger, for every set of nodes, voters, candidates and     *)
(* clock readings and for every bound on blocks and restarts.              *)
(***************************************************************************)
EXTENDS Ledger, VoteChainProofs, TLAPS

USE DEF Hashes, NoHash

(***************************************************************************)
(* The tip of a non-empty chain is its block at position Len.              *)
(***************************************************************************)
LEMMA TipOfChain ==
  ASSUME NEW c \in Seq(Block), c # <<>>
  PROVE  /\ Last(c) = c[Len(c)]
         /\ Len(c) \in DOMAIN c
         /\ Len(c) \in Nat \ {0}
         /\ Last(c) \in Block
BY DEF Last

(***************************************************************************)
(* What a chain looks like once a block is appended to it.                 *)
(***************************************************************************)
LEMMA ChainAppend ==
  ASSUME NEW c \in Seq(Block), NEW b \in Block
  PROVE  /\ Append(c, b) \in Seq(Block)
         /\ Append(c, b) # <<>>
         /\ Len(Append(c, b)) = Len(c) + 1
         /\ \A i \in DOMAIN c : i \in DOMAIN Append(c, b) /\ Append(c, b)[i] = c[i]
         /\ Append(c, b)[Len(c) + 1] = b
         /\ \A i \in DOMAIN Append(c, b) : i \in DOMAIN c \/ i = Len(c) + 1
OBVIOUS

(***************************************************************************)
(* mine_block fills in a block whatever chain it starts from.              *)
(***************************************************************************)
LEMMA MineBlockType ==
  ASSUME NEW v \in Voters, NEW k \in Candidates, NEW c \in Seq(Block),
         NEW h \in Nat \ {0}, NEW t \in Nat
  PROVE  MineBlock(v, k, c, h, t) \in Block
<1>1. Len(c) \in Nat
  OBVIOUS
<1>2. (IF c = <<>> THEN NoHash ELSE Last(c).hash) \in Nat
  BY TipOfChain DEF Block
<1>3. QED
  BY <1>1, <1>2 DEF MineBlock, Block

(***************************************************************************)
(* The voters of a chain are voters.                                       *)
(***************************************************************************)
LEMMA VotersOfType ==
  ASSUME NEW c \in Seq(Block)
  PROVE  VotersOf(c) \subseteq Voters
<1>1. \A i \in DOMAIN c : c[i] \in Block
  OBVIOUS
<1>2. QED
  BY <1>1 DEF VotersOf, Block

(***************************************************************************)
(* What the mining loop holds at each of its program points.               *)
(***************************************************************************)
LEMMA MinerHolds ==
  ASSUME NEW m \in MinerStates
  PROVE  /\ m.pc = "ready" => m.voter \in Voters /\ m.candidate \in Candidates
         /\ m.pc = "mining" => m.block \in Block /\ m.base \in Seq(Block)
         /\ m.pc = "record" => m.block \in Block
<1>1. CASE m = Idle
  BY <1>1 DEF Idle
<1>2. CASE m \in [pc: {"ready"}, voter: Voters, candidate: Candidates]
  BY <1>2
<1>3. CASE m \in [pc: {"mining"}, block: Block, base: Seq(Block)]
  BY <1>3
<1>4. CASE m \in [pc: {"record"}, block: Block]
  BY <1>4
<1>5. CASE m = [pc |-> "push"]
  BY <1>5
<1>6. QED
  BY <1>1, <1>2, <1>3, <1>4, <1>5 DEF MinerStates

(***************************************************************************)
(* Every state of the system has the declared types.                       *)
(***************************************************************************)
THEOREM TypeCorrect == Spec => []TypeOK
<1>1. Init => TypeOK
  BY BoundsAssumption, EmptyCacheType DEF Init, TypeOK, MinerStates, Idle
<1>2. TypeOK /\ [Next]_vars => TypeOK'
  <2> SUFFICES ASSUME TypeOK, [Next]_vars
               PROVE  TypeOK'
    OBVIOUS
  <2> USE DEF TypeOK
  <2>1. ASSUME NEW n \in Node, NEW v \in Voters, NEW c \in Candidates,
               TakeTask(n, v, c)
        PROVE  TypeOK'
    <3>1. [pc |-> "ready", voter |-> v, candidate |-> c] \in MinerStates
      BY DEF MinerStates
    <3>2. QED
      BY <2>1, <3>1 DEF TakeTask
  <2>2. ASSUME NEW n \in Node, NEW t \in Times, StartMining(n, t)
        PROVE  TypeOK'
    <3>1. miner[n].voter \in Voters /\ miner[n].candidate \in Candidates
      BY <2>2, MinerHolds DEF StartMining
    <3>2. minted' \in Nat \ {0} /\ t \in Nat
      BY <2>2, TimesAssumption DEF StartMining
    <3> DEFINE b == MineBlock(miner[n].voter, miner[n].candidate, chain[n],
                              minted', t)
    <3>3. b \in Block
      BY <3>1, <3>2, MineBlockType
    <3>4. [pc |-> "mining", base |-> chain[n], block |-> b] \in MinerStates
      BY <3>3 DEF MinerStates
    <3>5. miner' = [miner EXCEPT ![n] =
                      [pc |-> "mining", base |-> chain[n], block |-> b]]
      BY <2>2 DEF StartMining
    <3> HIDE DEF b
    <3>6. miner' \in [Node -> MinerStates]
      BY <3>4, <3>5
    <3>7. QED
      BY <2>2, <3>2, <3>6 DEF StartMining
  <2>3. ASSUME NEW n \in Node, AddBlock(n)
        PROVE  TypeOK'
    <3>1. miner[n].block \in Block
      BY <2>3, MinerHolds DEF AddBlock
    <3>2. miner[n].block.voter \in Voters
      BY <3>1 DEF Block
    <3>3. Append(chain[n], miner[n].block) \in Seq(Block)
      BY <3>1, ChainAppend
    <3>4. [pc |-> "record", block |-> miner[n].block] \in MinerStates
      BY <3>1 DEF MinerStates
    <3>5. chain' \in [Node -> Seq(Block)] /\ seen' \in [Node -> SUBSET Voters]
      BY <2>3, <3>2, <3>3 DEF AddBlock
    <3>6. QED
      BY <2>3, <3>4, <3>5 DEF AddBlock
  <2>4. ASSUME NEW n \in Node, GiveUpBlock(n) \/ MiningPanics(n)
        PROVE  TypeOK'
    BY <2>4 DEF GiveUpBlock, MiningPanics, MinerStates
  <2>5. ASSUME NEW n \in Node, RecordMined(n)
        PROVE  TypeOK'
    <3>1. miner[n].block.voter \in Voters /\ miner[n].block.data \in Candidates
      BY <2>5, MinerHolds DEF RecordMined, Block
    <3>2. RecordVote(cache[n], miner[n].block.voter, miner[n].block.data) \in Caches
      BY <3>1, RecordVoteType
    <3>3. QED
      BY <2>5, <3>2 DEF RecordMined, MinerStates
  <2>6. ASSUME NEW n \in Node, PushMined(n)
        PROVE  TypeOK'
    BY <2>6 DEF PushMined, MinerStates
  <2>7. ASSUME NEW n \in Node, NEW c \in pushed, AcceptChain(n, c)
        PROVE  TypeOK'
    <3>1. VotersOf(c) \subseteq Voters
      BY VotersOfType
    <3>2. [node |-> n, pc |-> "cache", adopted |-> c] \in Syncs
      BY DEF Syncs
    <3>3. QED
      BY <2>7, <3>1, <3>2 DEF AcceptChain
  <2>8. ASSUME NEW s \in syncs, InstallCache(s)
        PROVE  TypeOK'
    <3>1. s.node \in Node /\ CacheOf(s.adopted) \in Caches
      BY CacheOfBalances DEF Syncs
    <3>2. QED
      BY <2>8, <3>1 DEF InstallCache, Syncs
  <2>9. ASSUME NEW s \in syncs, ForwardChain(s)
        PROVE  TypeOK'
    BY <2>9 DEF ForwardChain, Syncs
  <2>10. ASSUME NEW n \in Node, Restart(n)
         PROVE  TypeOK'
    BY <2>10, EmptyCacheType DEF Restart, MinerStates
  <2>11. CASE UNCHANGED vars
    BY <2>11 DEF vars
  <2>12. QED
    BY <2>1, <2>2, <2>3, <2>4, <2>5, <2>6, <2>7, <2>8, <2>9, <2>10, <2>11
       DEF Next, MinerStep
<1>3. QED
  BY <1>1, <1>2, PTL DEF Spec

-----------------------------------------------------------------------------
(* Chains only improve *)

(***************************************************************************)
(* The last timestamp of a chain is an integer, and one of a block unless  *)
(* the chain is empty.                                                     *)
(***************************************************************************)
LEMMA LastTimeType ==
  ASSUME NEW c \in Seq(Block)
  PROVE  LastTime(c) \in Int /\ (c # <<>> => LastTime(c) \in Nat)
<1>1. CASE c = <<>>
  BY <1>1 DEF LastTime
<1>2. CASE c # <<>>
  <2>1. Last(c).ts \in Nat
    BY <1>2, TipOfChain DEF Block
  <2>2. QED
    BY <1>2, <2>1 DEF LastTime
<1>3. QED
  BY <1>1, <1>2

(***************************************************************************)
(* Better is transitive on chains.                                         *)
(***************************************************************************)
LEMMA BetterTransitive ==
  ASSUME NEW a \in Seq(Block), NEW b \in Seq(Block), NEW c \in Seq(Block),
         Better(a, b), Better(b, c)
  PROVE  Better(a, c)
<1>1. LastTime(a) \in Int /\ LastTime(b) \in Int /\ LastTime(c) \in Int
  BY LastTimeType
<1>2. Len(a) \in Nat /\ Len(b) \in Nat /\ Len(c) \in Nat
  OBVIOUS
<1>3. QED
  BY <1>1, <1>2 DEF Better

(***************************************************************************)
(* A chain that Chain::validate lets replace another is better.            *)
(***************************************************************************)
LEMMA ValidateIsBetter ==
  ASSUME NEW new \in Seq(Block), NEW cur \in Seq(Block), Validate(new, cur)
  PROVE  Better(new, cur)
<1>1. Len(new) \in Nat /\ Len(cur) \in Nat
  OBVIOUS
<1>2. QED
  BY <1>1 DEF Validate, Outranks, Newer, Better

(***************************************************************************)
(* A chain is better once a block is appended to it.                       *)
(***************************************************************************)
LEMMA AppendIsBetter ==
  ASSUME NEW c \in Seq(Block), NEW b \in Block
  PROVE  Better(Append(c, b), c)
<1>1. Len(Append(c, b)) = Len(c) + 1 /\ Len(c) \in Nat
  BY ChainAppend
<1>2. QED
  BY <1>1 DEF Better

(***************************************************************************)
(* What a step does to the chain of a node: nothing, or it improves it, or *)
(* the node restarts.                                                      *)
(***************************************************************************)
LEMMA ChainStep ==
  ASSUME TypeOK, [Next]_vars, NEW n \in Node
  PROVE  chain'[n] = chain[n] \/ Better(chain'[n], chain[n])
           \/ restarts' = restarts + 1
<1>0. chain[n] \in Seq(Block)
  BY DEF TypeOK
<1>1. ASSUME NEW m \in Node, AddBlock(m)
      PROVE  chain'[n] = chain[n] \/ Better(chain'[n], chain[n])
  <2>1. miner[m].block \in Block
    BY <1>1, MinerHolds DEF TypeOK, AddBlock
  <2>2. chain' = [chain EXCEPT ![m] = Append(chain[m], miner[m].block)]
    BY <1>1 DEF AddBlock
  <2>3. CASE n = m
    BY <2>1, <2>2, <2>3, <1>0, AppendIsBetter DEF TypeOK
  <2>4. CASE n # m
    BY <2>2, <2>4 DEF TypeOK
  <2>5. QED
    BY <2>3, <2>4
<1>2. ASSUME NEW m \in Node, NEW c \in pushed, AcceptChain(m, c)
      PROVE  chain'[n] = chain[n] \/ Better(chain'[n], chain[n])
  <2>1. c \in Seq(Block) /\ Validate(c, chain[m])
    BY <1>2 DEF TypeOK, AcceptChain
  <2>2. chain' = [chain EXCEPT ![m] = c]
    BY <1>2 DEF AcceptChain
  <2>3. CASE n = m
    BY <2>1, <2>2, <2>3, <1>0, ValidateIsBetter DEF TypeOK
  <2>4. CASE n # m
    BY <2>2, <2>4 DEF TypeOK
  <2>5. QED
    BY <2>3, <2>4
<1>3. ASSUME NEW m \in Node, Restart(m)
      PROVE  restarts' = restarts + 1
  BY <1>3 DEF Restart
<1>4. QED
  BY <1>1, <1>2, <1>3
     DEF Next, MinerStep, TakeTask, StartMining, GiveUpBlock, MiningPanics,
         RecordMined,
         PushMined, InstallCache, ForwardChain, vars

(***************************************************************************)
(* Outside restarts, chain selection is monotone on every node: neither    *)
(* add_block_to_chain nor sync_chain ever goes back to a chain that is     *)
(* shorter, or as long and no newer.                                       *)
(***************************************************************************)
THEOREM ChainsImprove == Spec => ChainsOnlyImprove
<1>1. TypeOK /\ [Next]_vars =>
        [\A n \in Node :
           \/ chain'[n] = chain[n]
           \/ Better(chain'[n], chain[n])
           \/ restarts' = restarts + 1]_vars
  BY ChainStep
<1>2. QED
  BY <1>1, TypeCorrect, PTL DEF Spec, ChainsOnlyImprove

-----------------------------------------------------------------------------
(* One tree of blocks: lemmas on single chains *)

(***************************************************************************)
(* The last block of a good chain carries the highest idx.                 *)
(***************************************************************************)
LEMMA TipIdx ==
  ASSUME NEW c \in Seq(Block), GoodChain(c), c # <<>>
  PROVE  Last(c).idx = Len(c) - 1
BY TipOfChain DEF GoodChain

(***************************************************************************)
(* Two chains of one length and with one tip are the same chain.           *)
(***************************************************************************)
LEMMA SameTip ==
  ASSUME NEW c \in Seq(Block), NEW d \in Seq(Block), Agree(c, d),
         c # <<>>, Len(c) = Len(d), Last(c).hash = Last(d).hash
  PROVE  c = d
<1>1. d # <<>>
  OBVIOUS
<1>2. /\ Last(c) = c[Len(c)] /\ Len(c) \in DOMAIN c /\ Len(c) \in Nat \ {0}
      /\ Last(d) = d[Len(d)] /\ Len(d) \in DOMAIN d
  BY <1>1, TipOfChain
<1>3. \A k \in 1..Len(c) : c[k] = d[k]
  BY <1>2 DEF Agree
<1>4. QED
  BY <1>3

(***************************************************************************)
(* What validate_addition accepts was mined on exactly the chain it is     *)
(* added to.  Block b is the one mine_block made on base, c is the chain   *)
(* the node holds by now.                                                  *)
(***************************************************************************)
LEMMA OntoItsBase ==
  ASSUME NEW c \in Seq(Block), NEW base \in Seq(Block), NEW b \in Block,
         NEW voted, GoodChain(c), Agree(c, base),
         b.idx = Len(base),
         b.prev = (IF base = <<>> THEN NoHash ELSE Last(base).hash),
         CanAdd(voted, c, b)
  PROVE  c = base
<1>1. CASE c = <<>>
  BY <1>1 DEF CanAdd
<1>2. CASE c # <<>>
  <2>1. b.idx = Last(c).idx + 1 /\ b.prev = Last(c).hash
    BY <1>2 DEF CanAdd
  <2>2. Last(c).idx = Len(c) - 1
    BY <1>2, TipIdx
  <2>3. Len(base) = Len(c)
    BY <2>1, <2>2
  <2>4. base # <<>>
    BY <1>2, <2>3, TipOfChain
  <2>5. Last(base).hash = Last(c).hash
    BY <2>1, <2>4
  <2>6. QED
    BY <1>2, <2>3, <2>5, SameTip
<1>3. QED
  BY <1>1, <1>2

(***************************************************************************)
(* A mined block is late exactly when the chain was replaced under the     *)
(* search: it is never ahead of the chain.                                 *)
(***************************************************************************)
LEMMA LateWhenReplaced ==
  ASSUME NEW c \in Seq(Block), NEW base \in Seq(Block), NEW b \in Block,
         NEW voted, GoodChain(c), Agree(c, base),
         c = base \/ Better(c, base),
         b.idx = Len(base),
         b.prev = (IF base = <<>> THEN NoHash ELSE Last(base).hash)
  PROVE  IsLate(voted, c, b) <=> b.voter \notin voted /\ c # base
<1>1. CASE c = base
  <2>1. CASE c = <<>>
    BY <1>1, <2>1 DEF IsLate
  <2>2. CASE c # <<>>
    <3>1. Last(c).idx = Len(c) - 1 /\ Last(c).idx \in Nat
      BY <2>2, TipIdx, TipOfChain DEF Block
    <3>2. b.idx = Last(c).idx + 1 /\ b.prev = Last(c).hash
      BY <1>1, <2>2, <3>1
    <3>3. QED
      BY <1>1, <3>1, <3>2 DEF IsLate
  <2>3. QED
    BY <2>1, <2>2
<1>2. CASE c # base /\ Better(c, base)
  <2>1. Len(c) >= Len(base) /\ Len(c) \in Nat /\ Len(base) \in Nat
    BY <1>2 DEF Better
  <2>2. c # <<>>
    <3>1. SUFFICES ASSUME c = <<>> PROVE FALSE
      OBVIOUS
    <3>2. base = <<>>
      BY <2>1, <3>1
    <3>3. QED
      BY <1>2, <3>1, <3>2
  <2>3. Last(c).idx = Len(c) - 1
    BY <2>2, TipIdx
  <2>4. CASE Len(c) > Len(base)
    BY <1>2, <2>1, <2>2, <2>3, <2>4 DEF IsLate
  <2>5. CASE Len(c) = Len(base)
    <3>1. base # <<>>
      BY <2>2, <2>5
    <3>2. b.prev # Last(c).hash
      BY <1>2, <2>2, <2>5, <3>1, SameTip
    <3>3. QED
      BY <1>2, <2>1, <2>2, <2>3, <2>5, <3>2 DEF IsLate
  <2>6. QED
    BY <2>1, <2>4, <2>5
<1>3. QED
  BY <1>1, <1>2

(***************************************************************************)
(* A good chain stays good when a valid block that fits it and has a new   *)
(* voter is appended.                                                      *)
(***************************************************************************)
LEMMA GoodAppend ==
  ASSUME NEW c \in Seq(Block), NEW b \in Block, GoodChain(c), ValidBlock(b),
         b.idx = Len(c),
         b.prev = (IF c = <<>> THEN NoHash ELSE Last(c).hash),
         b.voter \notin VotersOf(c)
  PROVE  GoodChain(Append(c, b))
<1> DEFINE d == Append(c, b)
<1>1. /\ d \in Seq(Block) /\ Len(d) = Len(c) + 1 /\ d[Len(c) + 1] = b
      /\ \A i \in DOMAIN c : d[i] = c[i]
      /\ \A i \in DOMAIN d : i \in DOMAIN c \/ i = Len(c) + 1
      /\ Len(c) \in Nat /\ DOMAIN c = 1..Len(c)
  BY ChainAppend
<1> HIDE DEF d
<1>2. ASSUME NEW i \in DOMAIN d
      PROVE  /\ d[i].idx = i - 1
             /\ d[i].prev = (IF i = 1 THEN NoHash ELSE d[i-1].hash)
             /\ ValidBlock(d[i])
  <2>1. CASE i \in DOMAIN c
    <3>1. i # 1 => i - 1 \in DOMAIN c
      BY <1>1, <2>1
    <3>2. QED
      BY <1>1, <2>1, <3>1 DEF GoodChain
  <2>2. CASE i = Len(c) + 1
    <3>1. CASE c = <<>>
      BY <1>1, <2>2, <3>1
    <3>2. CASE c # <<>>
      <4>1. Last(c) = c[Len(c)] /\ Len(c) \in DOMAIN c
        BY <3>2, TipOfChain
      <4>2. i # 1 /\ d[i-1] = c[Len(c)]
        BY <1>1, <2>2, <4>1
      <4>3. QED
        BY <1>1, <2>2, <3>2, <4>1, <4>2
    <3>3. QED
      BY <3>1, <3>2
  <2>3. QED
    BY <1>1, <2>1, <2>2
<1>3. \A i \in DOMAIN c : c[i].voter # b.voter
  BY DEF VotersOf
<1>4. ASSUME NEW i \in DOMAIN d, NEW j \in DOMAIN d, d[i].voter = d[j].voter
      PROVE  i = j
  BY <1>1, <1>3, <1>4 DEF GoodChain
<1>5. QED
  BY <1>2, <1>4 DEF GoodChain, d

(***************************************************************************)
(* Chains still agree when a block with a hash that is on neither of them  *)
(* is appended to one.                                                     *)
(***************************************************************************)
LEMMA AgreeAppend ==
  ASSUME NEW c \in Seq(Block), NEW d \in Seq(Block), NEW b \in Block,
         Agree(c, d), Agree(d, c),
         \A i \in DOMAIN d : d[i].hash # b.hash
  PROVE  Agree(Append(c, b), d) /\ Agree(d, Append(c, b))
<1> DEFINE e == Append(c, b)
<1>1. /\ e \in Seq(Block) /\ e[Len(c) + 1] = b
      /\ \A i \in DOMAIN c : e[i] = c[i]
      /\ \A i \in DOMAIN e : i \in DOMAIN c \/ i = Len(c) + 1
      /\ Len(c) \in Nat /\ DOMAIN c = 1..Len(c)
  BY ChainAppend
<1> HIDE DEF e
<1>2. ASSUME NEW i \in DOMAIN e, NEW j \in DOMAIN d, e[i].hash = d[j].hash
      PROVE  i = j /\ \A k \in 1..i : e[k] = d[k] /\ d[k] = e[k]
  <2>1. i \in DOMAIN c
    BY <1>1, <1>2
  <2>2. c[i].hash = d[j].hash
    BY <1>1, <1>2, <2>1
  <2>3. i = j /\ \A k \in 1..i : c[k] = d[k]
    BY <2>1, <2>2 DEF Agree
  <2>4. \A k \in 1..i : k \in DOMAIN c
    BY <1>1, <2>1
  <2>5. QED
    BY <1>1, <2>3, <2>4
<1>3. QED
  BY <1>2 DEF Agree, e

(***************************************************************************)
(* A chain extended by a block with a new hash agrees with itself.         *)
(***************************************************************************)
LEMMA AgreeWithItself ==
  ASSUME NEW c \in Seq(Block), NEW b \in Block, Agree(c, c),
         \A i \in DOMAIN c : c[i].hash # b.hash
  PROVE  Agree(Append(c, b), Append(c, b))
<1> DEFINE e == Append(c, b)
<1>1. /\ e \in Seq(Block) /\ e[Len(c) + 1] = b
      /\ \A i \in DOMAIN c : e[i] = c[i]
      /\ \A i \in DOMAIN e : i \in DOMAIN c \/ i = Len(c) + 1
  BY ChainAppend
<1> HIDE DEF e
<1>2. ASSUME NEW i \in DOMAIN e, NEW j \in DOMAIN e, e[i].hash = e[j].hash
      PROVE  i = j
  BY <1>1, <1>2 DEF Agree
<1>3. QED
  BY <1>2 DEF Agree, e

-----------------------------------------------------------------------------
(* One tree of blocks: the steps *)

(***************************************************************************)
(* The chains somebody holds are chains.                                   *)
(***************************************************************************)
LEMMA HeldType ==
  ASSUME TypeOK
  PROVE  /\ Held \subseteq Seq(Block)
         /\ \A n \in Node : chain[n] \in Held /\ chain[n] \in LiveChains
         /\ \A n \in Node : Mining(n) =>
              /\ miner[n].base \in Held
              /\ miner[n].base \in Seq(Block)
              /\ miner[n].block \in Block
<1>1. \A n \in Node : Mining(n) =>
        miner[n].base \in Seq(Block) /\ miner[n].block \in Block
  BY MinerHolds DEF TypeOK, Mining
<1>2. QED
  BY <1>1 DEF TypeOK, Held, LiveChains, Mining

(***************************************************************************)
(* The empty chain is good and agrees with every chain.                    *)
(***************************************************************************)
LEMMA EmptyChain ==
  /\ GoodChain(<<>>) /\ HashesMinted(<<>>)
  /\ \A c \in Seq(Block) : Agree(<<>>, c) /\ Agree(c, <<>>)
BY DEF GoodChain, HashesMinted, Agree

(***************************************************************************)
(* A step that brings no new chain into the network and starts no mining,  *)
(* and that at most improves the chains of the nodes that mine, preserves  *)
(* the invariant.  All steps but StartMining and AddBlock are of this kind.*)
(***************************************************************************)
LEMMA NoNewChain ==
  ASSUME OneTree, TypeOK', SeenMatchesChain',
         Held' \subseteq Held \cup {<<>>},
         minted' = minted,
         \A n \in Node : Mining(n)' =>
           /\ Mining(n) /\ miner'[n] = miner[n]
           /\ chain'[n] = chain[n] \/ Better(chain'[n], chain[n])
  PROVE  OneTree'
<1>1. TypeOK /\ Held \subseteq Seq(Block)
  BY HeldType DEF OneTree
<1>2. ASSUME NEW c \in Held'
      PROVE  GoodChain(c) /\ HashesMinted(c)'
  <2>1. CASE c \in Held
    BY <2>1 DEF OneTree, HashesMinted
  <2>2. CASE c = <<>>
    BY <2>2, EmptyChain DEF HashesMinted
  <2>3. QED
    BY <2>1, <2>2
<1>3. ASSUME NEW c \in Held', NEW d \in Held'
      PROVE  Agree(c, d)
  <2>1. CASE c \in Held /\ d \in Held
    BY <2>1 DEF OneTree
  <2>2. c \in Seq(Block) /\ d \in Seq(Block)
    <3>1. <<>> \in Seq(Block)
      OBVIOUS
    <3>2. QED
      BY <1>1, <3>1
  <2>3. CASE c = <<>> \/ d = <<>>
    BY <2>2, <2>3, EmptyChain
  <2>4. QED
    BY <2>1, <2>3
<1>4. ASSUME NEW n \in Node, Mining(n)'
      PROVE  MinedOnBase(n)'
  <2> DEFINE b == miner[n].block
             base == miner[n].base
  <2>1. /\ Mining(n) /\ miner'[n] = miner[n]
        /\ chain'[n] = chain[n] \/ Better(chain'[n], chain[n])
    BY <1>4
  <2>2. MinedOnBase(n)
    BY <2>1 DEF OneTree
  <2>3. chain[n] \in Seq(Block) /\ chain'[n] \in Seq(Block) /\ base \in Seq(Block)
    BY <1>1, <2>1, HeldType DEF TypeOK
  <2>4. chain'[n] = base \/ Better(chain'[n], base)
    BY <2>1, <2>2, <2>3, BetterTransitive DEF MinedOnBase
  <2>5. \A c \in Held' : \A i \in DOMAIN c : c[i].hash # b.hash
    BY <2>2 DEF MinedOnBase
  <2>6. QED
    BY <2>1, <2>2, <2>4, <2>5 DEF MinedOnBase
<1>5. \A m, n \in Node :
        Mining(m)' /\ Mining(n)' /\ miner'[m].block.hash = miner'[n].block.hash
          => m = n
  BY DEF OneTree
<1>6. QED
  BY <1>2, <1>3, <1>4, <1>5 DEF OneTree

(***************************************************************************)
(* The voters of a chain to which a block is appended.                     *)
(***************************************************************************)
LEMMA VotersOfAppend ==
  ASSUME NEW c \in Seq(Block), NEW b \in Block
  PROVE  VotersOf(Append(c, b)) = VotersOf(c) \cup {b.voter}
<1> DEFINE d == Append(c, b)
<1>1. /\ d[Len(c) + 1] = b /\ Len(c) + 1 \in DOMAIN d
      /\ \A i \in DOMAIN c : i \in DOMAIN d /\ d[i] = c[i]
      /\ \A i \in DOMAIN d : i \in DOMAIN c \/ i = Len(c) + 1
  OBVIOUS
<1> HIDE DEF d
<1>2. VotersOf(d) = VotersOf(c) \cup {b.voter}
  BY <1>1 DEF VotersOf
<1>3. QED
  BY <1>2 DEF d

(***************************************************************************)
(* Every step keeps the seen voter ids of a node those of its chain.       *)
(***************************************************************************)
LEMMA SeenStep ==
  ASSUME TypeOK, SeenMatchesChain, [Next]_vars
  PROVE  SeenMatchesChain'
<1> USE DEF SeenMatchesChain
<1>1. ASSUME NEW n \in Node, AddBlock(n)
      PROVE  SeenMatchesChain'
  <2> DEFINE b == miner[n].block
  <2>1. b \in Block /\ chain[n] \in Seq(Block)
    BY <1>1, MinerHolds DEF TypeOK, AddBlock
  <2>2. VotersOf(Append(chain[n], b)) = VotersOf(chain[n]) \cup {b.voter}
    BY <2>1, VotersOfAppend
  <2>3. QED
    BY <1>1, <2>2 DEF AddBlock, TypeOK
<1>2. ASSUME NEW n \in Node, NEW c \in pushed, AcceptChain(n, c)
      PROVE  SeenMatchesChain'
  BY <1>2 DEF AcceptChain, TypeOK
<1>3. ASSUME NEW n \in Node, Restart(n)
      PROVE  SeenMatchesChain'
  <2>1. VotersOf(<<>>) = {}
    BY DEF VotersOf
  <2>2. QED
    BY <1>3, <2>1 DEF Restart, TypeOK
<1>4. QED
  BY <1>1, <1>2, <1>3
     DEF Next, MinerStep, TakeTask, StartMining, GiveUpBlock, MiningPanics,
         RecordMined,
         PushMined, InstallCache, ForwardChain, vars

(***************************************************************************)
(* A block that starts being mined gets a new hash and fits the chain of   *)
(* its node.                                                               *)
(***************************************************************************)
LEMMA StartMiningStep ==
  ASSUME OneTree, TypeOK', SeenMatchesChain',
         NEW n \in Node, NEW t \in Times, StartMining(n, t)
  PROVE  OneTree'
<1> DEFINE b == MineBlock(miner[n].voter, miner[n].candidate, chain[n],
                          minted', t)
<1>1. /\ miner' = [miner EXCEPT ![n] =
                     [pc |-> "mining", base |-> chain[n], block |-> b]]
      /\ chain' = chain /\ pushed' = pushed
      /\ minted' = minted + 1 /\ minted \in Nat
      /\ miner \in [Node -> MinerStates]
  BY DEF StartMining, OneTree, TypeOK
<1>2. /\ b.idx = Len(chain[n])
      /\ b.prev = (IF chain[n] = <<>> THEN NoHash ELSE Last(chain[n]).hash)
      /\ b.hash = minted + 1
  BY <1>1 DEF MineBlock
<1> HIDE DEF b
<1>3. Mining(n)' /\ miner'[n].base = chain[n] /\ miner'[n].block = b
  BY <1>1 DEF Mining
<1>4. \A m \in Node : m # n => miner'[m] = miner[m] /\ (Mining(m)' <=> Mining(m))
  BY <1>1 DEF Mining
<1>5. Held' \subseteq Held
  BY <1>1, <1>3, <1>4 DEF Held, LiveChains
<1>6. \A c \in Held' : \A i \in DOMAIN c :
        /\ c[i].hash \in Nat /\ c[i].hash <= minted
  <2>1. Held \subseteq Seq(Block)
    BY HeldType DEF OneTree
  <2>2. \A c \in Held : \A i \in DOMAIN c : c[i] \in Block
    BY <2>1
  <2>3. QED
    BY <1>5, <2>2 DEF OneTree, HashesMinted, Block
<1>7. \A c \in Held' : GoodChain(c) /\ HashesMinted(c)'
  BY <1>1, <1>5, <1>6 DEF OneTree, HashesMinted
<1>8. \A c, d \in Held' : Agree(c, d)
  BY <1>5 DEF OneTree
<1>9. \A m \in Node : Mining(m) =>
        miner[m].block.hash \in Nat /\ miner[m].block.hash <= minted
  BY HeldType DEF OneTree, MinedOnBase, Block
<1>10. ASSUME NEW m \in Node, Mining(m)'
       PROVE  MinedOnBase(m)'
  <2>1. CASE m = n
    <3>1. \A c \in Held' : \A i \in DOMAIN c : c[i].hash # b.hash
      BY <1>1, <1>2, <1>6
    <3>2. QED
      BY <1>1, <1>2, <1>3, <2>1, <3>1 DEF MinedOnBase
  <2>2. CASE m # n
    <3>1. Mining(m) /\ miner'[m] = miner[m]
      BY <1>4, <1>10, <2>2
    <3>2. MinedOnBase(m)
      BY <3>1 DEF OneTree
    <3>3. miner[m].block.hash <= minted'
      BY <1>1, <1>9, <3>1
    <3>4. QED
      BY <1>1, <1>5, <3>1, <3>2, <3>3 DEF MinedOnBase
  <2>3. QED
    BY <2>1, <2>2
<1>11. ASSUME NEW k \in Node, NEW m \in Node, Mining(k)', Mining(m)',
              miner'[k].block.hash = miner'[m].block.hash
       PROVE  k = m
  <2>1. CASE k # n /\ m # n
    BY <1>4, <1>11, <2>1 DEF OneTree
  <2>2. CASE k = n /\ m # n
    BY <1>1, <1>2, <1>3, <1>4, <1>9, <1>11, <2>2
  <2>3. CASE k # n /\ m = n
    BY <1>1, <1>2, <1>3, <1>4, <1>9, <1>11, <2>3
  <2>4. QED
    BY <2>1, <2>2, <2>3
<1>12. QED
  BY <1>7, <1>8, <1>10, <1>11 DEF OneTree

(***************************************************************************)
(* The block that is added becomes a new leaf of the tree: it was mined on *)
(* the chain it is appended to, and nobody holds its hash.                 *)
(***************************************************************************)
LEMMA AddBlockStep ==
  ASSUME OneTree, TypeOK', SeenMatchesChain', NEW n \in Node, AddBlock(n)
  PROVE  OneTree'
<1> DEFINE b == miner[n].block
           c0 == chain[n]
           new == Append(c0, b)
<1>1. /\ Mining(n) /\ MinedOnBase(n) /\ b \in Block /\ c0 \in Seq(Block)
      /\ miner[n].base \in Held /\ miner[n].base \in Seq(Block) /\ c0 \in Held
  BY HeldType DEF AddBlock, OneTree, Mining, TypeOK
<1>2. CanAdd(seen[n], c0, b)
  BY DEF AddBlock
<1>3. c0 = miner[n].base
  BY <1>1, <1>2, OntoItsBase DEF OneTree, MinedOnBase
<1>4. b.idx = Len(c0) /\ b.prev = (IF c0 = <<>> THEN NoHash ELSE Last(c0).hash)
  BY <1>1, <1>3 DEF MinedOnBase
<1>5. GoodChain(new)
  <2>1. ValidBlock(b) /\ b.voter \notin VotersOf(c0)
    BY <1>2 DEF CanAdd, OneTree, SeenMatchesChain
  <2>2. QED
    BY <1>1, <1>4, <2>1, GoodAppend DEF OneTree
<1>6. \A c \in Held : \A i \in DOMAIN c : c[i].hash # b.hash
  BY <1>1 DEF MinedOnBase
<1>7. /\ chain' = [chain EXCEPT ![n] = new] /\ pushed' = pushed
      /\ miner' = [miner EXCEPT ![n] = [pc |-> "record", block |-> b]]
      /\ minted' = minted /\ miner \in [Node -> MinerStates]
      /\ chain \in [Node -> Seq(Block)]
  BY DEF AddBlock, OneTree, TypeOK
<1>8. /\ new \in Seq(Block)
      /\ \A i \in DOMAIN new : new[i] = b \/ (i \in DOMAIN c0 /\ new[i] = c0[i])
  BY <1>1, ChainAppend
<1>9. Better(new, c0)
  BY <1>1, AppendIsBetter
<1> HIDE DEF b, c0, new
<1>10. chain'[n] = new /\ \A m \in Node : m # n => chain'[m] = chain[m]
  BY <1>7
<1>11. ~Mining(n)' /\ \A m \in Node : m # n =>
         miner'[m] = miner[m] /\ (Mining(m)' <=> Mining(m))
  BY <1>7 DEF Mining
<1>12. Held' \subseteq Held \cup {new}
  BY <1>7, <1>10, <1>11 DEF Held, LiveChains
<1>13. ASSUME NEW c \in Held'
       PROVE  GoodChain(c) /\ HashesMinted(c)'
  <2>1. CASE c \in Held
    BY <1>7, <2>1 DEF OneTree, HashesMinted
  <2>2. CASE c = new
    <3>1. b.hash <= minted
      BY <1>1 DEF MinedOnBase, b
    <3>2. HashesMinted(c0)
      BY <1>1 DEF OneTree, c0
    <3>3. QED
      BY <1>5, <1>7, <1>8, <2>2, <3>1, <3>2 DEF HashesMinted
  <2>3. QED
    BY <1>12, <2>1, <2>2
<1>14. ASSUME NEW c \in Held', NEW d \in Held'
       PROVE  Agree(c, d)
  <2>1. CASE c \in Held /\ d \in Held
    BY <2>1 DEF OneTree
  <2>2. ASSUME NEW e \in Held
        PROVE  Agree(new, e) /\ Agree(e, new)
    <3>1. Agree(c0, e) /\ Agree(e, c0)
      BY <1>1 DEF OneTree, c0
    <3>2. e \in Seq(Block)
      BY HeldType DEF OneTree
    <3>3. b \in Block /\ c0 \in Seq(Block)
      BY <1>1 DEF b, c0
    <3>4. QED
      BY <1>6, <3>1, <3>2, <3>3, AgreeAppend DEF new
  <2>3. Agree(new, new)
    <3>1. Agree(c0, c0) /\ \A i \in DOMAIN c0 : c0[i].hash # b.hash
      BY <1>1, <1>6 DEF OneTree, c0
    <3>2. b \in Block /\ c0 \in Seq(Block)
      BY <1>1 DEF b, c0
    <3>3. QED
      BY <3>1, <3>2, AgreeWithItself DEF new
  <2>4. QED
    BY <1>12, <2>1, <2>2, <2>3
<1>15. ASSUME NEW m \in Node, Mining(m)'
       PROVE  MinedOnBase(m)'
  <2>1. m # n /\ Mining(m) /\ miner'[m] = miner[m] /\ chain'[m] = chain[m]
    BY <1>10, <1>11, <1>15
  <2>2. MinedOnBase(m)
    BY <2>1 DEF OneTree
  <2>3. miner[m].block.hash # b.hash
    BY <1>1, <2>1 DEF OneTree, b
  <2>4. c0 \in Held
    BY <1>1 DEF c0
  <2>5. \A c \in Held' : \A i \in DOMAIN c : c[i].hash # miner[m].block.hash
    BY <1>8, <1>12, <2>2, <2>3, <2>4 DEF MinedOnBase
  <2>6. QED
    BY <1>7, <2>1, <2>2, <2>5 DEF MinedOnBase
<1>16. \A k, m \in Node :
         Mining(k)' /\ Mining(m)' /\ miner'[k].block.hash = miner'[m].block.hash
           => k = m
  BY <1>11 DEF OneTree
<1>17. QED
  BY <1>13, <1>14, <1>15, <1>16 DEF OneTree

(***************************************************************************)
(* Every step preserves the invariant.                                     *)
(***************************************************************************)
LEMMA TreeStep ==
  ASSUME OneTree, TypeOK', [Next]_vars
  PROVE  OneTree'
<1>0. TypeOK /\ SeenMatchesChain'
  BY SeenStep DEF OneTree
<1> USE DEF Mining, Idle
<1>1. ASSUME NEW n \in Node, NEW v \in Voters, NEW c \in Candidates,
             TakeTask(n, v, c)
      PROVE  OneTree'
  <2>1. Held' \subseteq Held \cup {<<>>}
    BY <1>0, <1>1 DEF TakeTask, TypeOK, Held, LiveChains
  <2>2. QED
    BY <1>0, <1>1, <2>1, NoNewChain DEF TakeTask, TypeOK
<1>2. ASSUME NEW n \in Node, NEW t \in Times, StartMining(n, t)
      PROVE  OneTree'
  BY <1>0, <1>2, StartMiningStep
<1>3. ASSUME NEW n \in Node, AddBlock(n)
      PROVE  OneTree'
  BY <1>0, <1>3, AddBlockStep
<1>4. ASSUME NEW n \in Node, GiveUpBlock(n) \/ MiningPanics(n)
      PROVE  OneTree'
  <2>1. Held' \subseteq Held \cup {<<>>}
    BY <1>0, <1>4 DEF GiveUpBlock, MiningPanics, TypeOK, Held, LiveChains
  <2>2. QED
    BY <1>0, <1>4, <2>1, NoNewChain DEF GiveUpBlock, MiningPanics, TypeOK
<1>5. ASSUME NEW n \in Node, RecordMined(n)
      PROVE  OneTree'
  <2>1. Held' \subseteq Held \cup {<<>>}
    BY <1>0, <1>5 DEF RecordMined, TypeOK, Held, LiveChains
  <2>2. QED
    BY <1>0, <1>5, <2>1, NoNewChain DEF RecordMined, TypeOK
<1>6. ASSUME NEW n \in Node, PushMined(n)
      PROVE  OneTree'
  <2>1. Held' \subseteq Held \cup {<<>>}
    BY <1>0, <1>6 DEF PushMined, TypeOK, Held, LiveChains
  <2>2. QED
    BY <1>0, <1>6, <2>1, NoNewChain DEF PushMined, TypeOK
<1>7. ASSUME NEW n \in Node, NEW c \in pushed, AcceptChain(n, c)
      PROVE  OneTree'
  <2>1. Held' \subseteq Held \cup {<<>>}
    BY <1>0, <1>7 DEF AcceptChain, TypeOK, Held, LiveChains
  <2>2. Better(c, chain[n])
    BY <1>0, <1>7, ValidateIsBetter DEF AcceptChain, TypeOK
  <2>3. QED
    BY <1>0, <1>7, <2>1, <2>2, NoNewChain DEF AcceptChain, TypeOK
<1>8. ASSUME NEW s \in syncs, InstallCache(s)
      PROVE  OneTree'
  <2>1. Held' \subseteq Held \cup {<<>>}
    BY <1>0, <1>8 DEF InstallCache, TypeOK, Held, LiveChains
  <2>2. QED
    BY <1>0, <1>8, <2>1, NoNewChain DEF InstallCache, TypeOK
<1>9. ASSUME NEW s \in syncs, ForwardChain(s)
      PROVE  OneTree'
  <2>1. s.node \in Node
    BY <1>0 DEF TypeOK, Syncs
  <2>2. Held' \subseteq Held \cup {<<>>}
    BY <1>0, <1>9, <2>1 DEF ForwardChain, TypeOK, Held, LiveChains
  <2>3. QED
    BY <1>0, <1>9, <2>2, NoNewChain DEF ForwardChain, TypeOK
<1>10. ASSUME NEW n \in Node, Restart(n)
       PROVE  OneTree'
  <2>1. Held' \subseteq Held \cup {<<>>}
    BY <1>0, <1>10 DEF Restart, TypeOK, Held, LiveChains
  <2>2. QED
    BY <1>0, <1>10, <2>1, NoNewChain DEF Restart, TypeOK
<1>11. CASE UNCHANGED vars
  <2>1. Held' \subseteq Held \cup {<<>>}
    BY <1>11 DEF vars, Held, LiveChains
  <2>2. QED
    BY <1>0, <1>11, <2>1, NoNewChain DEF vars
<1>12. QED
  BY <1>1, <1>2, <1>3, <1>4, <1>5, <1>6, <1>7, <1>8, <1>9, <1>10, <1>11
     DEF Next, MinerStep

(***************************************************************************)
(* The chains of the network, those being mined on included, form one tree *)
(* of blocks in every reachable state.                                     *)
(***************************************************************************)
THEOREM TreeInvariant == Spec => []OneTree
<1>1. Init => OneTree
  <2> SUFFICES ASSUME Init PROVE OneTree
    OBVIOUS
  <2>1. TypeOK
    BY BoundsAssumption, EmptyCacheType DEF Init, TypeOK, MinerStates, Idle
  <2>2. \A n \in Node : ~Mining(n)
    BY DEF Init, Mining, Idle
  <2>3. Held \subseteq {<<>>}
    BY <2>2 DEF Init, Held, LiveChains
  <2>4. SeenMatchesChain
    BY DEF Init, SeenMatchesChain, VotersOf
  <2>5. Agree(<<>>, <<>>)
    BY DEF Agree
  <2>6. QED
    BY <2>1, <2>2, <2>3, <2>4, <2>5, EmptyChain DEF OneTree
<1>2. OneTree /\ TypeOK' /\ [Next]_vars => OneTree'
  BY TreeStep
<1>3. QED
  BY <1>1, <1>2, TypeCorrect, PTL DEF Spec

-----------------------------------------------------------------------------
(* What the tree of blocks means *)

(***************************************************************************)
(* The seen voter ids of a node are always those of the chain it holds.    *)
(***************************************************************************)
THEOREM SeenIsCorrect == Spec => []SeenMatchesChain
<1>1. OneTree => SeenMatchesChain
  BY DEF OneTree
<1>2. QED
  BY <1>1, TreeInvariant, PTL

(***************************************************************************)
(* No chain a node holds or may receive counts a voter twice.              *)
(***************************************************************************)
THEOREM VotersCountOnce == Spec => []OneVotePerVoter
<1>1. OneTree => OneVotePerVoter
  BY DEF OneTree, OneVotePerVoter, Held, GoodChain
<1>2. QED
  BY <1>1, TreeInvariant, PTL

(***************************************************************************)
(* Every chain a node holds or may receive is linked from its first block  *)
(* on, and made of valid blocks.                                           *)
(***************************************************************************)
THEOREM ChainsAreLinked == Spec => []WellLinked
<1>1. OneTree => WellLinked
  BY DEF OneTree, WellLinked, Held, GoodChain
<1>2. QED
  BY <1>1, TreeInvariant, PTL

(***************************************************************************)
(* A block hash names the whole chain up to its block, network-wide.       *)
(***************************************************************************)
THEOREM HashesNamePrefixes == Spec => []HashNamesPrefix
<1>1. ASSUME NEW c \in Seq(Block), NEW d \in Seq(Block), NEW i \in DOMAIN c,
             i \in DOMAIN d, \A k \in 1..i : c[k] = d[k]
      PROVE  SubSeq(c, 1, i) = SubSeq(d, 1, i)
  BY <1>1
<1>2. OneTree => HashNamesPrefix
  <2> SUFFICES ASSUME OneTree, NEW c \in LiveChains, NEW d \in LiveChains,
                      NEW i \in DOMAIN c, NEW j \in DOMAIN d,
                      c[i].hash = d[j].hash
               PROVE  i = j /\ SubSeq(c, 1, i) = SubSeq(d, 1, j)
    BY DEF HashNamesPrefix
  <2>1. c \in Held /\ d \in Held /\ c \in Seq(Block) /\ d \in Seq(Block)
    BY HeldType DEF OneTree, Held
  <2>2. i = j /\ \A k \in 1..i : c[k] = d[k]
    BY <2>1 DEF OneTree, Agree
  <2>3. QED
    BY <1>1, <2>1, <2>2
<1>3. QED
  BY <1>2, TreeInvariant, PTL

(***************************************************************************)
(* A mined block is added exactly onto the chain it was mined on, is late  *)
(* exactly when that chain was replaced, and is never ahead of the chain.  *)
(***************************************************************************)
THEOREM LateMeansOvertaken == Spec => []LateExactlyWhenOvertaken
<1>1. OneTree => LateExactlyWhenOvertaken
  <2> SUFFICES ASSUME OneTree, NEW n \in Node, Mining(n)
               PROVE  LET b == miner[n].block
                      IN  /\ CanAdd(seen[n], chain[n], b)
                               => chain[n] = miner[n].base
                          /\ IsLate(seen[n], chain[n], b)
                               <=> b.voter \notin seen[n]
                                     /\ chain[n] # miner[n].base
    BY DEF LateExactlyWhenOvertaken, Mining
  <2>1. /\ miner[n].block \in Block /\ miner[n].base \in Seq(Block)
        /\ chain[n] \in Seq(Block) /\ miner[n].base \in Held
        /\ chain[n] \in Held
    BY HeldType DEF OneTree, TypeOK
  <2>2. GoodChain(chain[n]) /\ Agree(chain[n], miner[n].base)
    BY <2>1 DEF OneTree
  <2>3. MinedOnBase(n)
    BY DEF OneTree
  <2>4. QED
    BY <2>1, <2>2, <2>3, OntoItsBase, LateWhenReplaced DEF MinedOnBase
<1>2. QED
  BY <1>1, TreeInvariant, PTL

-----------------------------------------------------------------------------
(* Ledger implements Replicas *)

(***************************************************************************)
(* The abstract specification ranks chains the way the code does.          *)
(***************************************************************************)
LEMMA SameRank ==
  ASSUME NEW c, NEW d, Better(c, d)
  PROVE  Replication!Better(c, d)
<1>1. Replication!LastTime(c) = LastTime(c) /\ Replication!LastTime(d) = LastTime(d)
  BY DEF LastTime, Replication!LastTime, Last, Replication!Last
<1>2. QED
  BY <1>1 DEF Better, Replication!Better

(***************************************************************************)
(* A mined block that is added extends the node's chain by a block that is *)
(* new to the whole network.                                               *)
(***************************************************************************)
LEMMA AddBlockExtends ==
  ASSUME OneTree, NEW n \in Node, AddBlock(n)
  PROVE  Replication!Extend(n)
<1> DEFINE b == miner[n].block
<1>1. /\ Mining(n) /\ MinedOnBase(n) /\ b \in Block /\ chain[n] \in Seq(Block)
      /\ chain \in [Node -> Seq(Block)]
  BY HeldType DEF AddBlock, OneTree, Mining, TypeOK
<1>2. chain' = [chain EXCEPT ![n] = Append(chain[n], b)] /\ pushed' = pushed
  BY DEF AddBlock
<1>3. \A c \in LiveChains : \A i \in DOMAIN c : c[i].hash # b.hash
  BY <1>1 DEF MinedOnBase, Held
<1> HIDE DEF b
<1>4. chain'[n] = Append(chain[n], b)
  BY <1>1, <1>2
<1>5. /\ Append(chain[n], b)[Len(Append(chain[n], b))] = b
      /\ Len(Append(chain[n], b)) = Len(chain[n]) + 1
  BY <1>1, ChainAppend
<1>6. Replication!Last(chain'[n]) = b
  BY <1>4, <1>5 DEF Replication!Last
<1>7. Replication!Fresh(b)
  BY <1>3 DEF Replication!Fresh, Replication!Replicated, LiveChains
<1>8. QED
  BY <1>2, <1>4, <1>5, <1>6, <1>7 DEF Replication!Extend

(***************************************************************************)
(* What a step means for the abstract specification: a block found, a      *)
(* chain shared or adopted, a process lost, or nothing.                    *)
(***************************************************************************)
LEMMA StepReplicates ==
  ASSUME OneTree, [Next]_vars
  PROVE  [Replication!Next]_(Replication!vars)
<1>0. TypeOK
  BY DEF OneTree
<1>1. ASSUME NEW n \in Node, AddBlock(n)
      PROVE  Replication!Next
  BY <1>1, AddBlockExtends DEF Replication!Next
<1>2. ASSUME NEW n \in Node, PushMined(n)
      PROVE  Replication!Next
  BY <1>2 DEF PushMined, Replication!Next, Replication!Share
<1>3. ASSUME NEW n \in Node, NEW c \in pushed, AcceptChain(n, c)
      PROVE  Replication!Next
  <2>1. Replication!Better(c, chain[n])
    BY <1>0, <1>3, ValidateIsBetter, SameRank DEF TypeOK, AcceptChain
  <2>2. chain' = [chain EXCEPT ![n] = c] /\ pushed' = pushed
    BY <1>3 DEF AcceptChain
  <2>3. Replication!Adopt(n)
    BY <2>1, <2>2 DEF Replication!Adopt
  <2>4. QED
    BY <2>3 DEF Replication!Next
<1>4. ASSUME NEW s \in syncs, ForwardChain(s)
      PROVE  Replication!Next
  <2>1. s.node \in Node
    BY <1>0 DEF TypeOK, Syncs
  <2>2. Replication!Share(s.node)
    BY <1>4 DEF ForwardChain, Replication!Share
  <2>3. QED
    BY <2>1, <2>2 DEF Replication!Next
<1>5. ASSUME NEW n \in Node, Restart(n)
      PROVE  Replication!Next
  BY <1>5 DEF Restart, Replication!Next, Replication!Lose
<1>6. CASE UNCHANGED <<chain, pushed>>
  BY <1>6 DEF Replication!vars
<1>7. QED
  BY <1>1, <1>2, <1>3, <1>4, <1>5, <1>6
     DEF Next, MinerStep, TakeTask, StartMining, GiveUpBlock, MiningPanics,
         RecordMined,
         InstallCache, vars

(***************************************************************************)
(* The detailed system implements the abstract one: every block that       *)
(* add_block_to_chain appends is new to the network, every chain that      *)
(* sync_chain adopts is better and was pushed, and only a process that     *)
(* ends loses its chain.                                                   *)
(***************************************************************************)
THEOREM LedgerReplicates == Spec => ImplementsReplicas
<1>1. Init => Replication!Init
  BY DEF Init, Replication!Init
<1>2. OneTree /\ [Next]_vars => [Replication!Next]_(Replication!vars)
  BY StepReplicates
<1>3. QED
  BY <1>1, <1>2, TreeInvariant, PTL
     DEF Spec, ImplementsReplicas, Replication!Spec

-----------------------------------------------------------------------------
(* The vote cache *)

\* The two HashMaps of every node's cache are in step.
CachesBalance == \A n \in Node : Balanced(cache[n])

(***************************************************************************)
(* A node's cache stays as it is, begins anew, has a vote recorded in it   *)
(* or is exchanged for the one of some chain.                              *)
(***************************************************************************)
LEMMA CacheStep ==
  ASSUME TypeOK, [Next]_vars, NEW n \in Node
  PROVE  \/ cache'[n] \in {cache[n], EmptyCache}
         \/ \E v \in Voters, c \in Candidates : cache'[n] = RecordVote(cache[n], v, c)
         \/ \E c \in Seq(Block) : cache'[n] = CacheOf(c)
<1>1. cache \in [Node -> Caches]
  BY DEF TypeOK
<1>2. ASSUME NEW m \in Node, MinerStep(m), ~RecordMined(m)
      PROVE  cache' = cache
  BY <1>2 DEF MinerStep, TakeTask, StartMining, AddBlock, GiveUpBlock,
              MiningPanics, PushMined
<1>3. ASSUME NEW m \in Node, RecordMined(m)
      PROVE  \/ cache'[n] = cache[n]
             \/ \E v \in Voters, c \in Candidates : cache'[n] = RecordVote(cache[n], v, c)
  <2>1. miner[m].block.voter \in Voters /\ miner[m].block.data \in Candidates
    BY <1>3, MinerHolds DEF RecordMined, Block, TypeOK
  <2>2. cache' = [cache EXCEPT ![m] =
                    RecordVote(@, miner[m].block.voter, miner[m].block.data)]
    BY <1>3 DEF RecordMined
  <2>3. QED
    BY <1>1, <2>1, <2>2
<1>4. ASSUME NEW m \in Node, NEW c \in pushed, AcceptChain(m, c)
      PROVE  cache' = cache
  BY <1>4 DEF AcceptChain
<1>5. ASSUME NEW s \in syncs, InstallCache(s)
      PROVE  cache'[n] = cache[n] \/ \E c \in Seq(Block) : cache'[n] = CacheOf(c)
  <2>1. s.node \in Node /\ s.adopted \in Seq(Block)
    BY DEF TypeOK, Syncs
  <2>2. cache' = [cache EXCEPT ![s.node] = CacheOf(s.adopted)]
    BY <1>5 DEF InstallCache
  <2>3. QED
    BY <1>1, <2>1, <2>2
<1>6. ASSUME NEW s \in syncs, ForwardChain(s)
      PROVE  cache' = cache
  BY <1>6 DEF ForwardChain
<1>7. ASSUME NEW m \in Node, Restart(m)
      PROVE  cache'[n] \in {cache[n], EmptyCache}
  BY <1>1, <1>7 DEF Restart
<1>8. CASE UNCHANGED vars
  BY <1>8 DEF vars
<1>9. QED
  BY <1>2, <1>3, <1>4, <1>5, <1>6, <1>7, <1>8 DEF Next

(***************************************************************************)
(* Total and tally of a node agree whatever order the handlers write the   *)
(* cache in: each of the writes keeps the HashMaps in step.                *)
(***************************************************************************)
THEOREM TotalIsAlwaysTallySum == Spec => []TotalIsTallySum
<1>1. Init => CachesBalance
  BY EmptyCacheBalances DEF Init, CachesBalance
<1>2. TypeOK /\ CachesBalance /\ [Next]_vars => CachesBalance'
  <2>1. SUFFICES ASSUME TypeOK, CachesBalance, [Next]_vars, NEW n \in Node
                 PROVE  Balanced(cache'[n])
    BY DEF CachesBalance
  <2>2. cache[n] \in Caches /\ Balanced(cache[n])
    BY <2>1 DEF TypeOK, CachesBalance
  <2>3. QED
    BY <2>1, <2>2, CacheStep, EmptyCacheBalances, RecordVoteBalances, CacheOfBalances
<1>3. CachesBalance => TotalIsTallySum
  BY DEF CachesBalance, TotalIsTallySum, Balanced
<1>4. QED
  BY <1>1, <1>2, <1>3, TypeCorrect, PTL DEF Spec

(***************************************************************************)
(* Every chain a node may adopt is counted right: one vote per voter makes *)
(* the count of its cache that of its blocks.                              *)
(***************************************************************************)
THEOREM CachesAlwaysCount == Spec => []CachesCountVotes
<1>1. TypeOK /\ OneVotePerVoter => CachesCountVotes
  <2>1. SUFFICES ASSUME TypeOK, OneVotePerVoter, NEW c \in LiveChains
                 PROVE  CountsVotes(CacheOf(c), c)
    BY DEF CachesCountVotes
  <2>2. c \in Seq(Block)
    BY <2>1 DEF TypeOK, LiveChains
  <2>3. QED
    BY <2>1, <2>2, CacheCountsVotes DEF OneVotePerVoter
<1>2. QED
  BY <1>1, TypeCorrect, VotersCountOnce, PTL
=============================================================================

-------------------------- MODULE ChainGossipProofs --------------------------
(***************************************************************************)
(* Proofs about ChainGossip, for every finite set of nodes, whoever knows  *)
(* whom in the beginning, for all clock readings and every bound on blocks *)
(* and upsets.                                                             *)
(***************************************************************************)
EXTENDS ChainGossip, FiniteSetTheorems, TLAPS

-----------------------------------------------------------------------------
(* The inductive invariant *)

Chain == Seq(Block)

\* The chains that nodes hold, are sent, or have adopted and not pushed yet.
Chains ==
       {chain[n] : n \in Node}
  \cup {m.chain : m \in net}
  \cup {h.adopted : h \in handlers}

\* Hashes were given out when blocks were mined, and name chains.
HashesNameChains ==
  /\ \A c \in Chains : \A i \in DOMAIN c : c[i].hash <= minted
  /\ \A c, d \in Chains : ChainHash(c) = ChainHash(d) => c = d

\* What a message carries its sender has surpassed or holds still.
MessagesAreOld == \A m \in net : AsGood(chain[m.from], m.chain)

\* So it is with what a handler has adopted, and no other handler of its node
\* has adopted the same.
HandlersDiffer ==
  /\ \A h \in handlers : AsGood(chain[h.node], h.adopted) /\ h.adopted # <<>>
  /\ \A g, h \in handlers : g.node = h.node /\ g.adopted = h.adopted => g = h

\* Node n never tracks the hash of a chain better than its own.
TrackedIsOld ==
  \A n \in Node : \A p \in Known(n) :
    /\ tracked[n][p] <= minted
    /\ \A c \in Chains : ChainHash(c) = tracked[n][p] => AsGood(chain[n], c)

\* Peer p has a chain as good as e, or has missed or will get one.
Reached(p, e) == \E c \in Reaching(p) : AsGood(c, e)

\* Those a chain was already sent to got it indeed, or have missed it.
SentIsReached == \A m \in net : \A p \in m.sent : Reached(p, m.chain)

GossipInv ==
  /\ TypeOK
  /\ HashesNameChains
  /\ MessagesAreOld
  /\ HandlersDiffer
  /\ TrackedIsOld
  /\ SparedIsUpToDate
  /\ SentIsReached
  /\ NobodyLeftOut

-----------------------------------------------------------------------------
(* Chains and their rank *)

(***************************************************************************)
(* The tip of a chain, its timestamp and its hash.                         *)
(***************************************************************************)
LEMMA TipOfChain ==
  ASSUME NEW c \in Chain
  PROVE  /\ Len(c) \in Nat /\ LastTime(c) \in Int
         /\ ChainHash(c) \in Nat
         /\ c = <<>> => Len(c) = 0 /\ LastTime(c) = -1 /\ ChainHash(c) = 0
         /\ c # <<>> => /\ Len(c) \in DOMAIN c /\ Len(c) > 0
                        /\ LastTime(c) >= 0
                        /\ ChainHash(c) = c[Len(c)].hash /\ ChainHash(c) > 0
<1>1. CASE c = <<>>
  BY <1>1 DEF LastTime, ChainHash
<1>2. CASE c # <<>>
  <2>1. Len(c) \in Nat /\ Len(c) > 0 /\ Len(c) \in DOMAIN c
    BY <1>2 DEF Chain
  <2>2. c[Len(c)] \in Block
    BY <2>1 DEF Chain
  <2>3. c[Len(c)].ts \in Nat /\ c[Len(c)].hash \in Nat \ {0}
    BY <2>2, TimesAssumption DEF Block
  <2>4. Last(c) = c[Len(c)]
    BY DEF Last
  <2>5. QED
    BY <1>2, <2>1, <2>3, <2>4 DEF LastTime, ChainHash
<1>3. QED
  BY <1>1, <1>2

(***************************************************************************)
(* Being as good is a total preorder, and Chain::validate lets a chain     *)
(* replace another exactly if that one is not as good.                     *)
(***************************************************************************)
LEMMA RankLaws ==
  ASSUME NEW a \in Chain, NEW b \in Chain
  PROVE  /\ AsGood(a, a)
         /\ Outranks(a, b) <=> Better(a, b)
         /\ Better(a, b) => AsGood(a, b)
         /\ AsGood(a, <<>>)
         /\ \A c \in Chain : AsGood(a, b) /\ AsGood(b, c) => AsGood(a, c)
<1>1. /\ Len(a) \in Nat /\ LastTime(a) \in Int
      /\ Len(b) \in Nat /\ LastTime(b) \in Int
  BY TipOfChain
<1>2. Outranks(a, b) <=> Better(a, b)
  BY <1>1 DEF Outranks, Newer, Better
<1>3. AsGood(a, a) /\ (Better(a, b) => AsGood(a, b))
  BY <1>1 DEF AsGood, Better
<1>4. AsGood(a, <<>>)
  <2>1. Len(<<>>) = 0 /\ LastTime(<<>>) = -1
    BY DEF LastTime
  <2>2. a = <<>> \/ Len(a) > 0
    BY TipOfChain
  <2>3. QED
    BY <1>1, <2>1, <2>2 DEF AsGood, Better
<1>5. ASSUME NEW c \in Chain, AsGood(a, b), AsGood(b, c)
      PROVE  AsGood(a, c)
  <2>1. Len(c) \in Nat /\ LastTime(c) \in Int
    BY TipOfChain
  <2>2. QED
    BY <1>1, <1>5, <2>1 DEF AsGood, Better
<1>6. QED
  BY <1>2, <1>3, <1>4, <1>5

(***************************************************************************)
(* The chain a node holds once it has mined a block.                       *)
(***************************************************************************)
LEMMA MinedChain ==
  ASSUME NEW c \in Chain, minted \in Nat, NEW time \in Times
  PROVE  LET d == Append(c, MinedBlock(time))
         IN  /\ d \in Chain /\ d # <<>>
             /\ Len(d) = Len(c) + 1 /\ Last(d) = MinedBlock(time)
             /\ ChainHash(d) = minted + 1
             /\ \A i \in DOMAIN d :
                  d[i].hash = minted + 1
                    \/ (i \in DOMAIN c /\ d[i].hash = c[i].hash)
             /\ Better(d, c) /\ AsGood(d, c)
<1> DEFINE b == MinedBlock(time)
           d == Append(c, b)
<1>1. b \in Block /\ b.hash = minted + 1
  BY DEF MinedBlock, Block
<1> HIDE DEF b
<1>2. /\ d \in Seq(Block) /\ d # <<>> /\ Len(d) = Len(c) + 1
      /\ d[Len(d)] = b
      /\ \A i \in DOMAIN d : i = Len(d) \/ (i \in DOMAIN c /\ d[i] = c[i])
      /\ Len(c) \in Nat
  BY <1>1 DEF Chain
<1> HIDE DEF d
<1>3. Last(d) = b
  BY <1>2 DEF Last
<1>4. ChainHash(d) = minted + 1
  BY <1>1, <1>2, <1>3 DEF ChainHash
<1>5. \A i \in DOMAIN d :
        d[i].hash = minted + 1 \/ (i \in DOMAIN c /\ d[i].hash = c[i].hash)
  BY <1>1, <1>2
<1>6. Better(d, c)
  BY <1>2 DEF Better
<1>7. d \in Chain
  BY <1>2 DEF Chain
<1>8. AsGood(d, c)
  BY <1>6, <1>7, RankLaws
<1>9. QED
  BY <1>2, <1>3, <1>4, <1>5, <1>6, <1>7, <1>8 DEF d, b

-----------------------------------------------------------------------------
(* Types *)

(***************************************************************************)
(* Every state of the network has the declared types.                      *)
(***************************************************************************)
LEMMA TypeStep ==
  ASSUME TypeOK, [Next]_vars
  PROVE  TypeOK'
<1> USE DEF TypeOK, Known
<1>1. ASSUME NEW n \in Node, NEW t \in Times, Extend(n, t)
      PROVE  TypeOK'
  <2> DEFINE c == Append(chain[n], MinedBlock(t))
  <2>1. c \in Seq(Block)
    BY MinedChain DEF Chain
  <2>2. /\ chain' = [chain EXCEPT ![n] = c]
        /\ handlers' = handlers \cup {NewHandler(n, "push", c, {}, TRUE)}
        /\ UNCHANGED <<tracked, net, upsets, missed>>
        /\ minted' \in Nat
    BY <1>1 DEF Extend
  <2> HIDE DEF c
  <2>3. NewHandler(n, "push", c, {}, TRUE) \in Handlers
    BY <2>1 DEF NewHandler, Handlers
  <2>4. chain' \in [Node -> Seq(Block)] /\ handlers' \subseteq Handlers
    BY <2>1, <2>2, <2>3
  <2>5. QED
    BY <2>2, <2>4
<1>2. ASSUME NEW m \in net, Accept(m)
      PROVE  TypeOK'
  <2>1. ChainHash(m.chain) \in Nat /\ m.to \in Node /\ m.chain \in Seq(Block)
    BY TipOfChain DEF Chain, Messages
  <2>2. \A n \in Node : Known(n)' = Known(n)
    BY <1>2 DEF Accept, TrackSender
  <2>3. ASSUME NEW n \in Node, NEW p \in Known(n)
        PROVE  tracked'[n][p] \in Nat
    BY <1>2, <2>1, <2>3 DEF Accept, TrackSender
  <2>4. chain' \in [Node -> Seq(Block)]
    BY <1>2, <2>1 DEF Accept
  <2>5. NewHandler(m.to, "spare", m.chain, m.sent, FALSE) \in Handlers
    BY DEF NewHandler, Handlers, Messages
  <2>6. QED
    BY <1>2, <2>2, <2>3, <2>4, <2>5 DEF Accept
<1>3. ASSUME NEW m \in net, Reject(m)
      PROVE  TypeOK'
  BY <1>3 DEF Reject
<1>4. ASSUME NEW h \in handlers, Spare(h)
      PROVE  TypeOK'
  <2>1. UpToDate(h.node, h.adopted) \subseteq Node
    BY DEF UpToDate, Handlers
  <2>2. [h EXCEPT !.pc = "mark", !.ignore = @ \cup UpToDate(h.node, h.adopted)]
          \in Handlers
    BY <2>1 DEF Handlers
  <2>3. handlers' \subseteq Handlers
    BY <1>4, <2>2 DEF Spare
  <2>4. QED
    BY <1>4, <2>3 DEF Spare
<1>5. ASSUME NEW h \in handlers, Mark(h)
      PROVE  TypeOK'
  <2>1. ChainHash(h.adopted) \in Nat /\ h.node \in Node
    BY TipOfChain DEF Chain, Handlers
  <2>2. \A n \in Node : Known(n)' = Known(n)
    BY <1>5 DEF Mark, TrackAll
  <2>3. ASSUME NEW n \in Node, NEW p \in Known(n)
        PROVE  tracked'[n][p] \in Nat
    BY <1>5, <2>1, <2>3 DEF Mark, TrackAll
  <2>4. handlers' \subseteq Handlers
    BY <1>5 DEF Mark, Handlers
  <2>5. QED
    BY <1>5, <2>2, <2>3, <2>4 DEF Mark
<1>6. ASSUME NEW h \in handlers, NEW bad \in SUBSET Known(h.node), Push(h, bad)
      PROVE  TypeOK'
  <2> DEFINE ids == Known(h.node) \ h.ignore
  <2>1. h.node \in Node /\ ids \subseteq Node /\ bad \subseteq ids
    BY <1>6 DEF Push, Handlers
  <2>2. Cardinality(bad) \in Nat
    BY <2>1, NodeAssumption, FS_Subset, FS_CardinalityType
  <2>3. net' \subseteq Messages
    BY <1>6, <2>1 DEF Push, Messages, Handlers
  <2>4. handlers' \subseteq Handlers
    <3>1. [h EXCEPT !.pc = "remove", !.failed = bad] \in Handlers
      BY <2>1 DEF Handlers
    <3>2. QED
      BY <1>6, <3>1 DEF Push
  <2>5. missed' \subseteq [to: Node, chain: Seq(Block)]
    BY <1>6, <2>1 DEF Push, Handlers
  <2>6. upsets' \in Nat
    BY <1>6, <2>2 DEF Push
  <2>7. QED
    BY <1>6, <2>3, <2>4, <2>5, <2>6 DEF Push
<1>7. ASSUME NEW h \in handlers, RemoveFailed(h)
      PROVE  TypeOK'
  <2>1. /\ tracked' = [tracked EXCEPT ![h.node] =
                         [p \in Known(h.node) \ h.failed |-> tracked[h.node][p]]]
        /\ handlers' \subseteq handlers
        /\ UNCHANGED <<chain, net, minted, upsets, missed>>
    BY <1>7 DEF RemoveFailed
  <2>2. ASSUME NEW n \in Node
        PROVE  /\ Known(n)' \subseteq Known(n)
               /\ \A p \in Known(n)' : tracked'[n][p] = tracked[n][p]
    BY <2>1
  <2>3. QED
    BY <2>1, <2>2
<1>8. ASSUME NEW n \in Node, NEW p \in Node, Learn(n, p)
      PROVE  TypeOK'
  <2>1. /\ tracked' = [tracked EXCEPT ![n] =
                         [q \in Known(n) \cup {p} |->
                            IF q = p THEN 0 ELSE tracked[n][q]]]
        /\ UNCHANGED <<chain, handlers, net, minted>>
        /\ upsets' \in Nat
        /\ missed' \subseteq [to: Node, chain: Seq(Block)]
    BY <1>8 DEF Learn
  <2>2. ASSUME NEW k \in Node
        PROVE  /\ Known(k)' \subseteq Node
               /\ \A q \in Known(k)' : tracked'[k][q] \in Nat
    BY <2>1
  <2>3. QED
    BY <2>1, <2>2
<1>9. ASSUME NEW m \in net, Lose(m)
      PROVE  TypeOK'
  BY <1>9 DEF Lose, Messages
<1>10. CASE UNCHANGED vars
  BY <1>10 DEF vars
<1>11. QED
  BY <1>1, <1>2, <1>3, <1>4, <1>5, <1>6, <1>7, <1>8, <1>9, <1>10
     DEF Next, Receive, Proceed

(***************************************************************************)
(* What messages and handlers are made of.                                 *)
(***************************************************************************)
LEMMA PartsType ==
  ASSUME TypeOK
  PROVE  /\ \A n \in Node : chain[n] \in Chain
         /\ \A m \in net : /\ m.to \in Node /\ m.from \in Node
                           /\ m.chain \in Chain /\ m.sent \subseteq Node
         /\ \A h \in handlers : h.node \in Node /\ h.adopted \in Chain
         /\ \A m \in missed : m.to \in Node /\ m.chain \in Chain
         /\ Chains \subseteq Chain
         /\ \A p \in Node : Reaching(p) \subseteq Chain
BY DEF TypeOK, Chain, Chains, Reaching, Messages, Handlers

-----------------------------------------------------------------------------
(* What a step does to chains, messages and missed pushes *)

(***************************************************************************)
(* A node's chain only improves.                                           *)
(***************************************************************************)
LEMMA ChainsImprove ==
  ASSUME TypeOK, [Next]_vars, NEW n \in Node
  PROVE  AsGood(chain'[n], chain[n])
<1>0. chain[n] \in Chain /\ AsGood(chain[n], chain[n]) /\ chain \in [Node -> Chain]
  BY PartsType, RankLaws DEF TypeOK, Chain
<1>1. ASSUME NEW k \in Node, NEW t \in Times, Extend(k, t)
      PROVE  AsGood(chain'[n], chain[n])
  <2>1. chain' = [chain EXCEPT ![k] = Append(chain[k], MinedBlock(t))]
    BY <1>1 DEF Extend
  <2>2. AsGood(Append(chain[n], MinedBlock(t)), chain[n])
    BY <1>0, MinedChain DEF TypeOK
  <2>3. QED
    BY <1>0, <2>1, <2>2
<1>2. ASSUME NEW m \in net, Accept(m)
      PROVE  AsGood(chain'[n], chain[n])
  <2>1. m.to \in Node /\ m.chain \in Chain
    BY PartsType
  <2>2. chain' = [chain EXCEPT ![m.to] = m.chain]
    BY <1>2 DEF Accept
  <2>3. m.to = n => AsGood(m.chain, chain[n])
    BY <1>0, <1>2, <2>1, RankLaws DEF Accept
  <2>4. QED
    BY <1>0, <2>1, <2>2, <2>3
<1>3. CASE UNCHANGED chain
  BY <1>0, <1>3
<1>4. QED
  BY <1>1, <1>2, <1>3
     DEF Next, Receive, Proceed, Reject, Spare, Mark, Push, RemoveFailed,
         Learn, Lose, vars

\* Message m stays in flight, or was taken note of, or was lost.
DoneWith(m) ==
  \/ m \in net'
  \/ AsGood(chain'[m.to], m.chain)
  \/ [to |-> m.to, chain |-> m.chain] \in missed'

(***************************************************************************)
(* A message stays in flight until its receiver holds a chain as good as   *)
(* the one it carries, or has missed it; and missed pushes are remembered. *)
(***************************************************************************)
LEMMA Delivered ==
  ASSUME TypeOK, [Next]_vars
  PROVE  /\ \A m \in net : DoneWith(m)
         /\ missed \subseteq missed'
<1> USE DEF DoneWith
<1>1. ASSUME NEW k \in net, Accept(k)
      PROVE  /\ \A m \in net : DoneWith(m)
             /\ missed \subseteq missed'
  <2>1. k.to \in Node /\ k.chain \in Chain /\ AsGood(k.chain, k.chain)
    BY PartsType, RankLaws
  <2>2. /\ chain' = [chain EXCEPT ![k.to] = k.chain]
        /\ net' = net \ {k} /\ missed' = missed
    BY <1>1 DEF Accept
  <2>3. chain'[k.to] = k.chain
    BY <2>1, <2>2 DEF TypeOK
  <2>4. QED
    BY <2>1, <2>2, <2>3
<1>2. ASSUME NEW k \in net, Reject(k)
      PROVE  /\ \A m \in net : DoneWith(m)
             /\ missed \subseteq missed'
  <2>1. k.to \in Node /\ k.chain \in Chain /\ chain[k.to] \in Chain
    BY PartsType
  <2>2. AsGood(chain[k.to], k.chain)
    BY <1>2, <2>1, RankLaws DEF Reject, AsGood
  <2>3. QED
    BY <1>2, <2>2 DEF Reject
<1>3. CASE net \subseteq net' /\ missed \subseteq missed'
  BY <1>3
<1>4. ASSUME NEW k \in net, Lose(k)
      PROVE  /\ \A m \in net : DoneWith(m)
             /\ missed \subseteq missed'
  BY <1>4 DEF Lose
<1>5. QED
  BY <1>1, <1>2, <1>3, <1>4
     DEF Next, Receive, Proceed, Extend, Spare, Mark, Push, RemoveFailed,
         Learn, vars

(***************************************************************************)
(* Who is reached by something as good as e stays so.                      *)
(***************************************************************************)
LEMMA ReachedStays ==
  ASSUME TypeOK, TypeOK', [Next]_vars, NEW p \in Node, NEW e \in Chain,
         Reached(p, e)
  PROVE  Reached(p, e)'
<1>1. PICK c \in Reaching(p) : AsGood(c, e)
  BY DEF Reached
<1>2. c \in Chain /\ chain[p] \in Chain /\ chain'[p] \in Chain
  BY PartsType DEF TypeOK, Chain
<1>3. AsGood(chain'[p], c) => Reached(p, e)'
  BY <1>1, <1>2, RankLaws DEF Reached, Reaching
<1>4. CASE c = chain[p]
  BY <1>3, <1>4, ChainsImprove
<1>5. ASSUME NEW m \in net, m.to = p, m.chain = c
      PROVE  Reached(p, e)'
  <2>1. CASE m \in net'
    BY <1>1, <1>5, <2>1 DEF Reached, Reaching
  <2>2. CASE AsGood(chain'[p], c)
    BY <1>3, <2>2
  <2>3. ASSUME NEW k \in missed', k.to = m.to, k.chain = m.chain
        PROVE  Reached(p, e)'
    BY <1>1, <1>5, <2>3 DEF Reached, Reaching
  <2>4. [to |-> m.to, chain |-> m.chain] \in missed' => Reached(p, e)'
    BY <2>3
  <2>5. QED
    BY <1>5, <2>1, <2>2, <2>4, Delivered DEF DoneWith
<1>6. ASSUME NEW m \in missed, m.to = p, m.chain = c
      PROVE  Reached(p, e)'
  <2>1. m \in missed'
    BY Delivered
  <2>2. QED
    BY <1>1, <1>6, <2>1 DEF Reached, Reaching
<1>7. QED
  BY <1>1, <1>4, <1>5, <1>6 DEF Reaching

(***************************************************************************)
(* Only mining makes a new chain.                                          *)
(***************************************************************************)
LEMMA ChainsStep ==
  ASSUME TypeOK, [Next]_vars
  PROVE  \/ Chains' \subseteq Chains /\ minted' = minted
         \/ \E n \in Node, t \in Times :
              /\ Extend(n, t)
              /\ Chains' \subseteq
                   Chains \cup {Append(chain[n], MinedBlock(t))}
              /\ chain[n] \in Chains
<1> USE PartsType
<1>1. ASSUME NEW n \in Node, NEW t \in Times, Extend(n, t)
      PROVE  /\ Chains' \subseteq Chains \cup {Append(chain[n], MinedBlock(t))}
             /\ chain[n] \in Chains
  <2> DEFINE c == Append(chain[n], MinedBlock(t))
  <2>1. /\ chain' = [chain EXCEPT ![n] = c]
        /\ handlers' = handlers \cup {NewHandler(n, "push", c, {}, TRUE)}
        /\ net' = net
    BY <1>1 DEF Extend
  <2> HIDE DEF c
  <2>2. NewHandler(n, "push", c, {}, TRUE).adopted = c
    BY DEF NewHandler
  <2>3. Chains' \subseteq Chains \cup {c}
    BY <2>1, <2>2 DEF Chains, TypeOK
  <2>4. QED
    BY <2>3 DEF c, Chains
<1>2. ASSUME NEW m \in net, Accept(m)
      PROVE  Chains' \subseteq Chains /\ minted' = minted
  <2>1. /\ chain' = [chain EXCEPT ![m.to] = m.chain]
        /\ handlers' = handlers \cup
             {NewHandler(m.to, "spare", m.chain, m.sent, FALSE)}
        /\ net' = net \ {m} /\ minted' = minted
    BY <1>2 DEF Accept
  <2>2. NewHandler(m.to, "spare", m.chain, m.sent, FALSE).adopted = m.chain
    BY DEF NewHandler
  <2>3. QED
    BY <2>1, <2>2 DEF Chains, TypeOK
<1>3. ASSUME NEW m \in net, Reject(m) \/ Lose(m)
      PROVE  Chains' \subseteq Chains /\ minted' = minted
  BY <1>3 DEF Reject, Lose, Chains
<1>4. ASSUME NEW h \in handlers, NEW g, g.adopted = h.adopted,
             handlers' \subseteq handlers \cup {g}, net' = net, chain' = chain
      PROVE  Chains' \subseteq Chains
  BY <1>4 DEF Chains
<1>5. ASSUME NEW h \in handlers, Spare(h) \/ Mark(h)
      PROVE  Chains' \subseteq Chains /\ minted' = minted
  <2>1. /\ [h EXCEPT !.pc = "mark",
                      !.ignore = @ \cup UpToDate(h.node, h.adopted)].adopted
            = h.adopted
        /\ [h EXCEPT !.pc = "push"].adopted = h.adopted
    BY DEF TypeOK, Handlers
  <2>2. QED
    BY <1>4, <1>5, <2>1 DEF Spare, Mark
<1>6. ASSUME NEW h \in handlers, NEW bad \in SUBSET Known(h.node), Push(h, bad)
      PROVE  Chains' \subseteq Chains /\ minted' = minted
  <2>1. [h EXCEPT !.pc = "remove", !.failed = bad].adopted = h.adopted
    BY DEF TypeOK, Handlers
  <2>2. \A m \in net' : m \in net \/ m.chain = chain[h.node]
    BY <1>6 DEF Push
  <2>3. \A g \in handlers' : g \in handlers \/ g.adopted = h.adopted
    BY <1>6, <2>1 DEF Push
  <2>4. chain' = chain /\ minted' = minted
    BY <1>6 DEF Push
  <2>5. QED
    BY <2>2, <2>3, <2>4 DEF Chains
<1>7. CASE /\ UNCHANGED <<chain, net, minted>> /\ handlers' \subseteq handlers
  BY <1>7 DEF Chains
<1>8. QED
  BY <1>1, <1>2, <1>3, <1>5, <1>6, <1>7
     DEF Next, Receive, Proceed, RemoveFailed, Learn, Lose, vars

-----------------------------------------------------------------------------
(* Every step preserves the invariant, one conjunct at a time *)

(***************************************************************************)
(* If the hashes on a chain are at most k, so is its hash.                 *)
(***************************************************************************)
LEMMA HashBound ==
  ASSUME NEW c \in Chain, NEW k \in Nat, \A i \in DOMAIN c : c[i].hash <= k
  PROVE  ChainHash(c) \in Nat /\ ChainHash(c) <= k
<1>1. CASE c = <<>>
  BY <1>1, TipOfChain
<1>2. CASE c # <<>>
  BY <1>2, TipOfChain
<1>3. QED
  BY <1>1, <1>2

(***************************************************************************)
(* A mined block gets a new hash, so that the hash names the new chain.    *)
(***************************************************************************)
LEMMA HashesStep ==
  ASSUME TypeOK, HashesNameChains, [Next]_vars
  PROVE  HashesNameChains'
<1>1. CASE Chains' \subseteq Chains /\ minted' = minted
  BY <1>1 DEF HashesNameChains
<1>2. ASSUME NEW n \in Node, NEW t \in Times, Extend(n, t), chain[n] \in Chains,
             Chains' \subseteq Chains \cup {Append(chain[n], MinedBlock(t))}
      PROVE  HashesNameChains'
  <2> DEFINE d == Append(chain[n], MinedBlock(t))
  <2>1. minted' = minted + 1 /\ minted \in Nat /\ chain[n] \in Chain
    BY <1>2, PartsType DEF Extend, TypeOK
  <2>2. /\ ChainHash(d) = minted + 1
        /\ \A i \in DOMAIN d :
             d[i].hash = minted + 1
               \/ (i \in DOMAIN chain[n] /\ d[i].hash = chain[n][i].hash)
    BY <2>1, MinedChain
  <2> HIDE DEF d
  <2>3. \A c \in Chains : ChainHash(c) # ChainHash(d)
    <3>1. \A c \in Chains : ChainHash(c) \in Nat /\ ChainHash(c) <= minted
      BY <2>1, PartsType, HashBound DEF HashesNameChains
    <3>2. QED
      BY <2>1, <2>2, <3>1
  <2>4. ASSUME NEW c \in Chains, NEW i \in DOMAIN c
        PROVE  c[i].hash <= minted'
    <3>1. c[i].hash \in Nat /\ c[i].hash <= minted
      <4>1. c \in Seq(Block)
        BY PartsType DEF Chain
      <4>2. c[i] \in Block
        BY <4>1
      <4>3. QED
        BY <4>2 DEF HashesNameChains, Block
    <3>2. QED
      BY <2>1, <3>1
  <2>5. \A i \in DOMAIN d : d[i].hash <= minted'
    BY <1>2, <2>1, <2>2, <2>4
  <2>6. \A c \in Chains' : c \in Chains \/ c = d
    BY <1>2 DEF d
  <2>7. \A c \in Chains' : \A i \in DOMAIN c : c[i].hash <= minted'
    BY <2>4, <2>5, <2>6
  <2>8. \A b, c \in Chains' : ChainHash(b) = ChainHash(c) => b = c
    BY <2>3, <2>6 DEF HashesNameChains
  <2>9. QED
    BY <2>7, <2>8 DEF HashesNameChains
<1>3. QED
  BY <1>1, <1>2, ChainsStep

(***************************************************************************)
(* A push carries the chain its sender holds, and chains only improve.     *)
(***************************************************************************)
LEMMA MessagesStep ==
  ASSUME TypeOK, TypeOK', MessagesAreOld, [Next]_vars
  PROVE  MessagesAreOld'
<1> USE PartsType
<1>1. \A n \in Node : chain[n] \in Chain /\ chain'[n] \in Chain
  BY DEF TypeOK, Chain
<1>2. ASSUME NEW m \in net' \cap net
      PROVE  AsGood(chain'[m.from], m.chain)
  <2>1. AsGood(chain'[m.from], chain[m.from]) /\ AsGood(chain[m.from], m.chain)
    BY ChainsImprove DEF MessagesAreOld
  <2>2. QED
    BY <1>1, <2>1, RankLaws
<1>3. ASSUME NEW m \in net' \ net
      PROVE  AsGood(chain'[m.from], m.chain)
  <2>1. m.from \in Node /\ m.chain = chain'[m.from]
    <3>1. ASSUME NEW h \in handlers, NEW bad \in SUBSET Known(h.node),
                 Push(h, bad)
          PROVE  m.from \in Node /\ m.chain = chain'[m.from]
      BY <1>3, <3>1 DEF Push
    <3>2. ~(net' \subseteq net)
      BY <1>3
    <3>3. QED
      BY <3>1, <3>2
         DEF Next, Receive, Proceed, Extend, Accept, Reject, Spare, Mark,
             RemoveFailed, Learn, Lose, vars
  <2>2. QED
    BY <1>1, <2>1, RankLaws
<1>4. QED
  BY <1>2, <1>3 DEF MessagesAreOld

(***************************************************************************)
(* What is adopted or mined is better than all its node has adopted and    *)
(* mined before.                                                           *)
(***************************************************************************)
LEMMA HandlersStep ==
  ASSUME TypeOK, TypeOK', HandlersDiffer, [Next]_vars
  PROVE  HandlersDiffer'
<1> USE PartsType
<1>1. \A n \in Node : chain[n] \in Chain /\ chain'[n] \in Chain
  BY DEF TypeOK, Chain
<1>2. \A n \in Node, c \in Chain :
        AsGood(chain[n], c) => AsGood(chain'[n], c)
  BY <1>1, ChainsImprove, RankLaws
<1>3. \A h \in handlers : AsGood(chain'[h.node], h.adopted) /\ h.adopted # <<>>
  BY <1>2 DEF HandlersDiffer
<1>4. ASSUME NEW n \in Node, NEW h, h.node = n, h.adopted = chain'[n],
             Better(chain'[n], chain[n]), chain'[n] # <<>>,
             handlers' = handlers \cup {h}
      PROVE  HandlersDiffer'
  <2>1. AsGood(chain'[n], h.adopted)
    BY <1>1, <1>4, RankLaws
  <2>2. ASSUME NEW g \in handlers, g.node = n
        PROVE  g.adopted # h.adopted
    BY <1>4, <2>2 DEF HandlersDiffer, AsGood
  <2>3. \A g \in handlers' : g \in handlers \/ g = h
    BY <1>4
  <2>4. \A g \in handlers' : AsGood(chain'[g.node], g.adopted) /\ g.adopted # <<>>
    BY <1>3, <1>4, <2>1, <2>3
  <2>5. \A f, g \in handlers' :
          f.node = g.node /\ f.adopted = g.adopted => f = g
    BY <1>4, <2>2, <2>3 DEF HandlersDiffer
  <2>6. QED
    BY <2>4, <2>5 DEF HandlersDiffer
<1>5. ASSUME NEW h \in handlers, NEW g, g.node = h.node, g.adopted = h.adopted,
             handlers' \subseteq (handlers \ {h}) \cup {g}
      PROVE  HandlersDiffer'
  <2>1. \A f \in handlers' : AsGood(chain'[f.node], f.adopted) /\ f.adopted # <<>>
    BY <1>3, <1>5
  <2>2. \A e, f \in handlers' :
          e.node = f.node /\ e.adopted = f.adopted => e = f
    BY <1>5 DEF HandlersDiffer
  <2>3. QED
    BY <2>1, <2>2 DEF HandlersDiffer
<1>6. CASE handlers' \subseteq handlers
  BY <1>3, <1>6 DEF HandlersDiffer
<1>7. ASSUME NEW n \in Node, NEW t \in Times, Extend(n, t)
      PROVE  HandlersDiffer'
  <2> DEFINE c == Append(chain[n], MinedBlock(t))
  <2>1. Better(c, chain[n]) /\ c # <<>>
    BY <1>1, MinedChain DEF TypeOK
  <2>2. /\ chain' = [chain EXCEPT ![n] = c]
        /\ handlers' = handlers \cup {NewHandler(n, "push", c, {}, TRUE)}
    BY <1>7 DEF Extend
  <2> HIDE DEF c
  <2>3. chain'[n] = c
    BY <2>2 DEF TypeOK
  <2>4. /\ NewHandler(n, "push", c, {}, TRUE).node = n
        /\ NewHandler(n, "push", c, {}, TRUE).adopted = c
    BY DEF NewHandler
  <2>5. QED
    BY <1>4, <2>1, <2>2, <2>3, <2>4
<1>8. ASSUME NEW m \in net, Accept(m)
      PROVE  HandlersDiffer'
  <2> DEFINE h == NewHandler(m.to, "spare", m.chain, m.sent, FALSE)
  <2>1. chain' = [chain EXCEPT ![m.to] = m.chain] /\ handlers' = handlers \cup {h}
    BY <1>8 DEF Accept
  <2>2. Better(m.chain, chain[m.to]) /\ m.chain # <<>>
    <3>1. Better(m.chain, chain[m.to])
      BY <1>1, <1>8, RankLaws DEF Accept
    <3>2. AsGood(chain[m.to], <<>>)
      BY <1>1, RankLaws
    <3>3. QED
      BY <3>1, <3>2 DEF AsGood
  <2>3. chain'[m.to] = m.chain
    BY <2>1 DEF TypeOK
  <2>4. h.node = m.to /\ h.adopted = m.chain
    BY DEF NewHandler
  <2> HIDE DEF h
  <2>5. QED
    BY <1>4, <2>1, <2>2, <2>3, <2>4
<1>9. ASSUME NEW h \in handlers, Spare(h) \/ Mark(h)
      PROVE  HandlersDiffer'
  <2> DEFINE f == [h EXCEPT !.pc = "mark",
                            !.ignore = @ \cup UpToDate(h.node, h.adopted)]
             g == [h EXCEPT !.pc = "push"]
  <2>1. /\ f.node = h.node /\ f.adopted = h.adopted
        /\ g.node = h.node /\ g.adopted = h.adopted
    BY DEF TypeOK, Handlers
  <2>2. handlers' = (handlers \ {h}) \cup {f} \/ handlers' = (handlers \ {h}) \cup {g}
    BY <1>9 DEF Spare, Mark
  <2> HIDE DEF f, g
  <2>3. QED
    BY <1>5, <2>1, <2>2
<1>10. ASSUME NEW h \in handlers, NEW bad \in SUBSET Known(h.node), Push(h, bad)
       PROVE  HandlersDiffer'
  <2> DEFINE g == [h EXCEPT !.pc = "remove", !.failed = bad]
  <2>1. g.node = h.node /\ g.adopted = h.adopted
    BY DEF TypeOK, Handlers
  <2>2. handlers' \subseteq (handlers \ {h}) \cup {g}
    BY <1>10 DEF Push
  <2> HIDE DEF g
  <2>3. QED
    BY <1>5, <2>1, <2>2
<1>11. QED
  BY <1>6, <1>7, <1>8, <1>9, <1>10
     DEF Next, Receive, Proceed, Reject, RemoveFailed, Learn, Lose, vars

(***************************************************************************)
(* What a step does to a tracked hash: nothing, or peer p is the sender of *)
(* an adopted chain, or a handler tracks the chain it adopted for all, or  *)
(* p is learnt.                                                            *)
(***************************************************************************)
LEMMA TrackedStep ==
  ASSUME TypeOK, [Next]_vars, NEW n \in Node, NEW p \in Known(n)'
  PROVE  \/ p \in Known(n) /\ tracked'[n][p] = tracked[n][p]
         \/ \E m \in net :
              /\ Accept(m) /\ m.to = n /\ m.from = p /\ p \in Known(n)
              /\ tracked'[n][p] = ChainHash(m.chain)
         \/ \E h \in handlers :
              /\ Mark(h) /\ h.node = n /\ p \in Known(n)
              /\ tracked'[n][p] = ChainHash(h.adopted)
         \/ Learn(n, p) /\ tracked'[n][p] = 0
<1> USE DEF Known
<1>0. DOMAIN tracked = Node
  BY DEF TypeOK
<1>1. ASSUME NEW m \in net, Accept(m)
      PROVE  \/ p \in Known(n) /\ tracked'[n][p] = tracked[n][p]
             \/ /\ m.to = n /\ m.from = p /\ p \in Known(n)
                /\ tracked'[n][p] = ChainHash(m.chain)
  BY <1>0, <1>1, PartsType DEF Accept, TrackSender
<1>2. ASSUME NEW h \in handlers, Mark(h)
      PROVE  \/ p \in Known(n) /\ tracked'[n][p] = tracked[n][p]
             \/ /\ h.node = n /\ p \in Known(n)
                /\ tracked'[n][p] = ChainHash(h.adopted)
  BY <1>0, <1>2, PartsType DEF Mark, TrackAll
<1>3. ASSUME NEW h \in handlers, RemoveFailed(h)
      PROVE  p \in Known(n) /\ tracked'[n][p] = tracked[n][p]
  BY <1>0, <1>3, PartsType DEF RemoveFailed
<1>4. ASSUME NEW k \in Node, NEW q \in Node, Learn(k, q)
      PROVE  \/ p \in Known(n) /\ tracked'[n][p] = tracked[n][p]
             \/ Learn(n, p) /\ tracked'[n][p] = 0
  <2>1. tracked' = [tracked EXCEPT ![k] =
                      [x \in Known(k) \cup {q} |->
                         IF x = q THEN 0 ELSE tracked[k][x]]]
    BY <1>4 DEF Learn
  <2>2. CASE k = n /\ q = p
    BY <1>0, <1>4, <2>1, <2>2
  <2>3. CASE ~(k = n /\ q = p)
    BY <1>0, <2>1, <2>3
  <2>4. QED
    BY <2>2, <2>3
<1>5. CASE UNCHANGED tracked
  BY <1>5
<1>6. QED
  BY <1>1, <1>2, <1>3, <1>4, <1>5
     DEF Next, Receive, Proceed, Extend, Reject, Spare, Push, Lose, vars

(***************************************************************************)
(* Tracked are the hashes of chains a node has had, and of no other.       *)
(***************************************************************************)
LEMMA TrackedIsOldStep ==
  ASSUME TypeOK, TypeOK', HashesNameChains, HashesNameChains', HandlersDiffer,
         TrackedIsOld, [Next]_vars
  PROVE  TrackedIsOld'
<1> USE PartsType
<1>1. \A n \in Node : chain[n] \in Chain /\ chain'[n] \in Chain
  BY DEF TypeOK, Chain
<1>2. minted \in Nat /\ minted' \in Nat /\ minted <= minted'
  <2>1. ASSUME NEW n \in Node, NEW t \in Times, Extend(n, t)
        PROVE  minted' = minted + 1
    BY <2>1 DEF Extend
  <2>2. minted' = minted \/ minted' = minted + 1
    BY <2>1, ChainsStep
  <2>3. QED
    BY <2>2 DEF TypeOK
<1>3. Chains' \subseteq Chain
  BY DEF TypeOK, Chain, Chains, Messages, Handlers
<1>4. SUFFICES ASSUME NEW n \in Node, NEW p \in Known(n)'
               PROVE  /\ tracked'[n][p] <= minted'
                      /\ \A c \in Chains' :
                           ChainHash(c) = tracked'[n][p] => AsGood(chain'[n], c)
  BY DEF TrackedIsOld
<1>5. CASE p \in Known(n) /\ tracked'[n][p] = tracked[n][p]
  <2>1. tracked[n][p] \in Nat /\ tracked[n][p] <= minted
    BY <1>5 DEF TypeOK, TrackedIsOld
  <2>2. ASSUME NEW c \in Chains, ChainHash(c) = tracked[n][p]
        PROVE  AsGood(chain'[n], c)
    <3>1. AsGood(chain[n], c) /\ c \in Chain
      BY <1>5, <2>2 DEF TrackedIsOld
    <3>2. QED
      BY <1>1, <3>1, ChainsImprove, RankLaws
  <2>3. ASSUME NEW k \in Node, NEW t \in Times, Extend(k, t)
        PROVE  ChainHash(Append(chain[k], MinedBlock(t))) # tracked[n][p]
    <3>1. ChainHash(Append(chain[k], MinedBlock(t))) = minted + 1
      BY <1>1, <1>2, MinedChain
    <3>2. QED
      BY <1>2, <2>1, <3>1
  <2>4. \A c \in Chains' : c \in Chains \/ ChainHash(c) # tracked[n][p]
    BY <2>3, ChainsStep
  <2>5. tracked'[n][p] <= minted'
    BY <1>2, <1>5, <2>1
  <2>6. QED
    BY <1>5, <2>2, <2>4, <2>5
<1>6. ASSUME NEW m \in net, Accept(m), m.to = n,
             tracked'[n][p] = ChainHash(m.chain)
      PROVE  /\ tracked'[n][p] <= minted'
             /\ \A c \in Chains' :
                  ChainHash(c) = tracked'[n][p] => AsGood(chain'[n], c)
  <2>1. chain'[n] = m.chain
    BY <1>6 DEF Accept, TypeOK
  <2>2. m.chain \in Chains'
    BY <2>1 DEF Chains
  <2>3. ChainHash(m.chain) <= minted'
    BY <1>2, <1>3, <2>2, HashBound DEF HashesNameChains
  <2>4. AsGood(m.chain, m.chain)
    BY RankLaws
  <2>5. QED
    BY <1>6, <2>1, <2>2, <2>3, <2>4 DEF HashesNameChains
<1>7. ASSUME NEW h \in handlers, Mark(h), h.node = n,
             tracked'[n][p] = ChainHash(h.adopted)
      PROVE  /\ tracked'[n][p] <= minted'
             /\ \A c \in Chains' :
                  ChainHash(c) = tracked'[n][p] => AsGood(chain'[n], c)
  <2>1. [h EXCEPT !.pc = "push"].adopted = h.adopted
    BY DEF TypeOK, Handlers
  <2>2. h.adopted \in Chains'
    BY <1>7, <2>1 DEF Mark, Chains
  <2>3. ChainHash(h.adopted) <= minted'
    BY <1>2, <1>3, <2>2, HashBound DEF HashesNameChains
  <2>4. chain' = chain /\ AsGood(chain[n], h.adopted)
    BY <1>7 DEF Mark, HandlersDiffer
  <2>5. QED
    BY <1>7, <2>2, <2>3, <2>4 DEF HashesNameChains
<1>8. CASE Learn(n, p) /\ tracked'[n][p] = 0
  <2>1. \A c \in Chains' : ChainHash(c) = 0 => c = <<>>
    BY <1>3, TipOfChain
  <2>2. AsGood(chain'[n], <<>>)
    BY <1>1, RankLaws
  <2>3. QED
    BY <1>2, <1>8, <2>1, <2>2
<1>9. QED
  BY <1>5, <1>6, <1>7, <1>8, TrackedStep

(***************************************************************************)
(* The hash of an adopted chain is tracked for its sender only, until the  *)
(* handler that adopted it has decided whom to spare.                      *)
(***************************************************************************)
LEMMA SparedStep ==
  ASSUME TypeOK, TypeOK', HashesNameChains, MessagesAreOld, HandlersDiffer,
         HandlersDiffer', TrackedIsOld, SparedIsUpToDate, [Next]_vars
  PROVE  SparedIsUpToDate'
<1> USE PartsType
<1>1. \A n \in Node : chain[n] \in Chain /\ chain'[n] \in Chain
  BY DEF TypeOK, Chain
<1>2. SUFFICES ASSUME NEW h \in handlers', h.pc = "spare",
                      NEW p \in Known(h.node)',
                      tracked'[h.node][p] = ChainHash(h.adopted)
               PROVE  AsGood(chain'[p], h.adopted)
  BY DEF SparedIsUpToDate
<1>3. /\ h.node \in Node /\ h.adopted \in Chain /\ p \in Node /\ h.adopted # <<>>
      /\ h.adopted \in Chains'
  BY DEF TypeOK, HandlersDiffer, Chains, Handlers, Chain
<1>4. AsGood(chain[p], h.adopted) => AsGood(chain'[p], h.adopted)
  BY <1>1, <1>3, ChainsImprove, RankLaws
<1>5. CASE h \in handlers
  <2>1. CASE p \in Known(h.node) /\ tracked'[h.node][p] = tracked[h.node][p]
    BY <1>2, <1>4, <1>5, <2>1 DEF SparedIsUpToDate
  <2>2. ASSUME NEW m \in net, Accept(m), m.to = h.node,
               tracked'[h.node][p] = ChainHash(m.chain)
        PROVE  FALSE
    <3>1. m.chain = h.adopted
      BY <1>2, <1>5, <2>2 DEF HashesNameChains, Chains
    <3>2. Better(m.chain, chain[h.node])
      BY <1>1, <1>3, <2>2, RankLaws DEF Accept
    <3>3. QED
      BY <1>5, <3>1, <3>2 DEF HandlersDiffer, AsGood
  <2>3. ASSUME NEW g \in handlers, Mark(g), g.node = h.node,
               tracked'[h.node][p] = ChainHash(g.adopted)
        PROVE  FALSE
    <3>1. g.adopted = h.adopted
      BY <1>2, <1>5, <2>3 DEF HashesNameChains, Chains
    <3>2. g = h
      BY <1>5, <2>3, <3>1 DEF HandlersDiffer
    <3>3. QED
      BY <1>2, <2>3, <3>2 DEF Mark
  <2>4. CASE tracked'[h.node][p] = 0
    <3>1. ChainHash(h.adopted) > 0
      BY <1>3, TipOfChain
    <3>2. QED
      BY <1>2, <2>4, <3>1
  <2>5. QED
    BY <1>3, <2>1, <2>2, <2>3, <2>4, TrackedStep
<1>6. CASE h \notin handlers
  <2>1. ASSUME NEW m \in net, Accept(m)
        PROVE  AsGood(chain'[p], h.adopted)
    <3>1. h = NewHandler(m.to, "spare", m.chain, m.sent, FALSE)
      BY <1>6, <2>1 DEF Accept
    <3>2. h.node = m.to /\ h.adopted = m.chain
      BY <3>1 DEF NewHandler
    <3>3. CASE /\ p \in Known(h.node)
               /\ tracked'[h.node][p] = tracked[h.node][p]
      <4>1. m.chain \in Chains
        BY DEF Chains
      <4>2. AsGood(chain[m.to], m.chain)
        BY <1>2, <3>2, <3>3, <4>1 DEF TrackedIsOld
      <4>3. Better(m.chain, chain[m.to])
        BY <1>1, <2>1, RankLaws DEF Accept
      <4>4. QED
        BY <4>2, <4>3 DEF AsGood
    <3>4. CASE m.from = p
      BY <1>4, <3>2, <3>4 DEF MessagesAreOld
    <3>5. QED
      BY <2>1, <3>2, <3>3, <3>4 DEF Accept, TrackSender, TypeOK, Known
  <2>2. ASSUME ~\E m \in net : Accept(m)
        PROVE  FALSE
    <3>1. ASSUME NEW n \in Node, NEW t \in Times, Extend(n, t)
          PROVE  FALSE
      BY <1>2, <1>6, <3>1 DEF Extend, NewHandler
    <3>2. ASSUME NEW g \in handlers, Spare(g) \/ Mark(g) \/ RemoveFailed(g)
          PROVE  FALSE
      <4>1. /\ [g EXCEPT !.pc = "mark",
                         !.ignore = @ \cup UpToDate(g.node, g.adopted)].pc = "mark"
            /\ [g EXCEPT !.pc = "push"].pc = "push"
        BY DEF TypeOK, Handlers
      <4>2. QED
        BY <1>2, <1>6, <3>2, <4>1 DEF Spare, Mark, RemoveFailed
    <3>3. ASSUME NEW g \in handlers, NEW bad \in SUBSET Known(g.node), Push(g, bad)
          PROVE  FALSE
      <4>1. [g EXCEPT !.pc = "remove", !.failed = bad].pc = "remove"
        BY DEF TypeOK, Handlers
      <4>2. QED
        BY <1>2, <1>6, <3>3, <4>1 DEF Push
    <3>4. QED
      BY <1>6, <2>2, <3>1, <3>2, <3>3
         DEF Next, Receive, Proceed, Reject, Learn, Lose, vars
  <2>3. QED
    BY <2>1, <2>2
<1>7. QED
  BY <1>5, <1>6

(***************************************************************************)
(* A push reaches those it lists as sent to: it is in flight, or missed.   *)
(***************************************************************************)
LEMMA PushReaches ==
  ASSUME TypeOK, NEW h \in handlers, NEW bad, Push(h, bad),
         NEW p \in Known(h.node) \ h.ignore
  PROVE  Reached(p, chain[h.node])'
<1>1. chain[h.node] \in Reaching(p)'
  <2>1. CASE p \in bad
    <3> DEFINE m == [to |-> p, chain |-> chain[h.node]]
    <3>1. m \in missed' /\ m.to = p /\ m.chain = chain[h.node]
      BY <2>1 DEF Push
    <3>2. QED
      BY <3>1 DEF Reaching
  <2>2. CASE p \notin bad
    <3> DEFINE m == [to |-> p, from |-> h.node, chain |-> chain[h.node],
                     sent |-> Known(h.node) \ h.ignore]
    <3>1. m \in net' /\ m.to = p /\ m.chain = chain[h.node]
      BY <2>2 DEF Push
    <3>2. QED
      BY <3>1 DEF Reaching
  <2>3. QED
    BY <2>1, <2>2
<1>2. chain[h.node] \in Chain
  BY PartsType
<1>3. AsGood(chain[h.node], chain[h.node])
  BY <1>2, RankLaws
<1>4. chain' = chain
  BY DEF Push
<1>5. QED
  BY <1>1, <1>3, <1>4 DEF Reached

(***************************************************************************)
(* Those in a message's list of ids already sent to stay reached.          *)
(***************************************************************************)
LEMMA SentStep ==
  ASSUME TypeOK, TypeOK', SentIsReached, [Next]_vars
  PROVE  SentIsReached'
<1> USE PartsType
<1>1. ASSUME NEW m \in net, NEW p \in m.sent
      PROVE  Reached(p, m.chain)'
  <2>1. p \in Node /\ m.chain \in Chain /\ Reached(p, m.chain)
    BY <1>1 DEF SentIsReached
  <2>2. QED
    BY <2>1, ReachedStays
<1>2. ASSUME NEW h \in handlers, NEW bad \in SUBSET Known(h.node), Push(h, bad),
             NEW m \in net', m \notin net, NEW p \in m.sent
      PROVE  Reached(p, m.chain)'
  <2>1. m.chain = chain[h.node] /\ m.sent = Known(h.node) \ h.ignore
    BY <1>2 DEF Push
  <2>2. p \in Known(h.node) \ h.ignore
    BY <1>2, <2>1
  <2>3. chain' = chain
    BY <1>2 DEF Push
  <2>4. Reached(p, chain[h.node])'
    BY <1>2, <2>2, PushReaches
  <2>5. QED
    BY <2>1, <2>3, <2>4
<1>3. CASE net' \subseteq net
  BY <1>1, <1>3 DEF SentIsReached
<1>4. ASSUME NEW h \in handlers, NEW bad \in SUBSET Known(h.node), Push(h, bad)
      PROVE  SentIsReached'
  BY <1>1, <1>2, <1>4 DEF SentIsReached
<1>5. QED
  BY <1>3, <1>4
     DEF Next, Receive, Proceed, Extend, Accept, Reject, Spare, Mark,
         RemoveFailed, Learn, Lose, vars

(***************************************************************************)
(* A peer for whom a push is pending is pushed to, or spared with reason;  *)
(* a changed chain makes pushes pending.                                   *)
(***************************************************************************)
LEMMA NobodyStep ==
  ASSUME TypeOK, TypeOK', SparedIsUpToDate, SentIsReached, SentIsReached',
         NobodyLeftOut, [Next]_vars
  PROVE  NobodyLeftOut'
<1> USE PartsType
<1>0. SUFFICES ASSUME NEW n \in Node, NEW p \in Known(n)'
               PROVE  Pending(n, p)' \/ Reached(p, chain[n])'
  BY DEF NobodyLeftOut, Reached
<1>1. /\ p \in Node /\ chain[n] \in Chain /\ chain'[n] \in Chain
      /\ chain[p] \in Chain /\ AsGood(chain[n], chain[n])
  BY RankLaws DEF TypeOK, Chain
<1>2. Reached(p, chain[n]) /\ chain'[n] = chain[n] => Reached(p, chain[n])'
  <2>1. SUFFICES ASSUME Reached(p, chain[n]), chain'[n] = chain[n]
                 PROVE  Reached(p, chain[n])'
    OBVIOUS
  <2>2. PICK e \in Chain : e = chain[n]
    BY <1>1
  <2>3. Reached(p, e)'
    BY <1>1, <2>1, <2>2, ReachedStays
  <2>4. QED
    BY <2>1, <2>2, <2>3 DEF Reached
<1>3. p \in Known(n) => Pending(n, p) \/ Reached(p, chain[n])
  BY DEF NobodyLeftOut, Reached
<1>4. ASSUME p \in Known(n), chain'[n] = chain[n],
             \A h \in handlers :
               /\ h.node = n /\ h.adopted = chain[n] /\ p \notin h.ignore
               /\ h.pc \in {"spare", "mark", "push"}
               => \/ h \in handlers'
                  \/ \E g \in handlers' :
                       /\ g.node = n /\ g.adopted = chain[n] /\ p \notin g.ignore
                       /\ g.pc \in {"spare", "mark", "push"}
                  \/ Reached(p, chain[n])'
      PROVE  Pending(n, p)' \/ Reached(p, chain[n])'
  BY <1>2, <1>3, <1>4 DEF Pending
<1>5. ASSUME NEW k \in Node, NEW t \in Times, Extend(k, t)
      PROVE  Pending(n, p)' \/ Reached(p, chain[n])'
  <2> DEFINE c == Append(chain[k], MinedBlock(t))
             h == NewHandler(k, "push", c, {}, TRUE)
  <2>1. chain' = [chain EXCEPT ![k] = c] /\ handlers' = handlers \cup {h}
    BY <1>5 DEF Extend
  <2>2. /\ h.node = k /\ h.adopted = c /\ h.ignore = {} /\ h.pc = "push"
    BY DEF NewHandler
  <2> HIDE DEF c, h
  <2>3. CASE k = n
    <3>1. chain'[n] = c
      BY <2>1, <2>3 DEF TypeOK
    <3>2. Pending(n, p)'
      BY <2>1, <2>2, <2>3, <3>1 DEF Pending
    <3>3. QED
      BY <3>2
  <2>4. CASE k # n
    <3>1. chain'[n] = chain[n]
      BY <2>1, <2>4 DEF TypeOK
    <3>2. p \in Known(n)
      BY <1>5 DEF Extend, Known
    <3>3. handlers \subseteq handlers'
      BY <2>1
    <3>4. QED
      BY <1>4, <3>1, <3>2, <3>3
  <2>5. QED
    BY <2>3, <2>4
<1>6. ASSUME NEW m \in net, Accept(m)
      PROVE  Pending(n, p)' \/ Reached(p, chain[n])'
  <2> DEFINE h == NewHandler(m.to, "spare", m.chain, m.sent, FALSE)
  <2>1. /\ chain' = [chain EXCEPT ![m.to] = m.chain]
        /\ handlers' = handlers \cup {h}
    BY <1>6 DEF Accept
  <2>2. /\ h.node = m.to /\ h.adopted = m.chain /\ h.ignore = m.sent
        /\ h.pc = "spare"
    BY DEF NewHandler
  <2> HIDE DEF h
  <2>3. p \in Known(n)
    BY <1>6 DEF Accept, TrackSender, Known, TypeOK
  <2>4. CASE m.to = n /\ p \notin m.sent
    <3>1. chain'[n] = m.chain
      BY <2>1, <2>4 DEF TypeOK
    <3>2. Pending(n, p)'
      BY <2>1, <2>2, <2>4, <3>1 DEF Pending
    <3>3. QED
      BY <3>2
  <2>5. CASE m.to = n /\ p \in m.sent
    <3>1. chain'[n] = m.chain
      BY <2>1, <2>5 DEF TypeOK
    <3>2. Reached(p, m.chain)
      BY <2>5 DEF SentIsReached
    <3>3. Reached(p, m.chain)'
      BY <1>1, <3>2, ReachedStays
    <3>4. QED
      BY <3>1, <3>3 DEF Reached
  <2>6. CASE m.to # n
    <3>1. chain'[n] = chain[n]
      BY <2>1, <2>6 DEF TypeOK
    <3>2. handlers \subseteq handlers'
      BY <2>1
    <3>3. QED
      BY <1>4, <2>3, <3>1, <3>2
  <2>7. QED
    BY <2>4, <2>5, <2>6
<1>7. ASSUME NEW h \in handlers, Spare(h)
      PROVE  Pending(n, p)' \/ Reached(p, chain[n])'
  <2> DEFINE g == [h EXCEPT !.pc = "mark",
                            !.ignore = @ \cup UpToDate(h.node, h.adopted)]
  <2>1. /\ g.node = h.node /\ g.adopted = h.adopted /\ g.pc = "mark"
        /\ g.ignore = h.ignore \cup UpToDate(h.node, h.adopted)
    BY DEF TypeOK, Handlers
  <2>2. /\ handlers' = (handlers \ {h}) \cup {g}
        /\ UNCHANGED <<chain, tracked>> /\ h.pc = "spare"
    BY <1>7 DEF Spare
  <2> HIDE DEF g
  <2>3. p \in Known(n)
    BY <2>2 DEF Known
  <2>4. CASE h.node = n /\ h.adopted = chain[n] /\ p \in UpToDate(n, chain[n])
    <3>1. AsGood(chain[p], chain[n])
      BY <2>2, <2>4 DEF UpToDate, SparedIsUpToDate
    <3>2. Reached(p, chain[n])'
      BY <2>2, <3>1 DEF Reached, Reaching
    <3>3. QED
      BY <3>2
  <2>5. CASE ~(h.node = n /\ h.adopted = chain[n] /\ p \in UpToDate(n, chain[n]))
    BY <1>4, <2>1, <2>2, <2>3, <2>5
  <2>6. QED
    BY <2>4, <2>5
<1>8. ASSUME NEW h \in handlers, Mark(h)
      PROVE  Pending(n, p)' \/ Reached(p, chain[n])'
  <2> DEFINE g == [h EXCEPT !.pc = "push"]
  <2>1. /\ g.node = h.node /\ g.adopted = h.adopted /\ g.pc = "push"
        /\ g.ignore = h.ignore
    BY DEF TypeOK, Handlers
  <2>2. handlers' = (handlers \ {h}) \cup {g} /\ chain' = chain
    BY <1>8 DEF Mark
  <2> HIDE DEF g
  <2>3. p \in Known(n)
    BY <1>8 DEF Mark, TrackAll, Known, TypeOK
  <2>4. QED
    BY <1>4, <2>1, <2>2, <2>3
<1>9. ASSUME NEW h \in handlers, NEW bad \in SUBSET Known(h.node), Push(h, bad)
      PROVE  Pending(n, p)' \/ Reached(p, chain[n])'
  <2>1. /\ chain' = chain /\ p \in Known(n)
        /\ \A g \in handlers : g \in handlers' \/ g = h
    BY <1>9 DEF Push, Known
  <2>2. h.node = n /\ p \notin h.ignore => Reached(p, chain[n])'
    BY <1>9, <2>1, PushReaches
  <2>3. QED
    BY <1>4, <2>1, <2>2
<1>10. ASSUME NEW h \in handlers, RemoveFailed(h)
       PROVE  Pending(n, p)' \/ Reached(p, chain[n])'
  <2>1. p \in Known(n)
    BY <1>10 DEF RemoveFailed, Known, TypeOK
  <2>2. /\ chain' = chain /\ h.pc = "remove"
        /\ \A g \in handlers : g \in handlers' \/ g = h
    BY <1>10 DEF RemoveFailed
  <2>3. QED
    BY <1>4, <2>1, <2>2
<1>11. ASSUME NEW k \in Node, NEW q \in Node, Learn(k, q)
       PROVE  Pending(n, p)' \/ Reached(p, chain[n])'
  <2>1. chain' = chain /\ handlers' = handlers
    BY <1>11 DEF Learn
  <2>2. CASE p \in Known(n)
    BY <1>4, <2>1, <2>2
  <2>3. CASE p \notin Known(n)
    <3>1. k = n /\ q = p
      BY <1>11, <2>3 DEF Learn, Known, TypeOK
    <3>2. chain[n] \in Reaching(p)'
      <4> DEFINE m == [to |-> p, chain |-> chain[n]]
      <4>1. m \in missed' /\ m.to = p /\ m.chain = chain[n]
        BY <1>11, <3>1 DEF Learn
      <4>2. QED
        BY <4>1 DEF Reaching
    <3>3. QED
      BY <1>1, <2>1, <3>2 DEF Reached
  <2>4. QED
    BY <2>2, <2>3
<1>12. CASE UNCHANGED vars \/ \E m \in net : Reject(m) \/ Lose(m)
  <2>1. p \in Known(n) /\ chain' = chain /\ handlers' = handlers
    BY <1>12 DEF vars, Reject, Lose, Known
  <2>2. QED
    BY <1>4, <2>1
<1>13. QED
  BY <1>5, <1>6, <1>7, <1>8, <1>9, <1>10, <1>11, <1>12
     DEF Next, Receive, Proceed

-----------------------------------------------------------------------------
(* What holds in every reachable state *)

(***************************************************************************)
(* The invariant holds throughout.                                         *)
(***************************************************************************)
THEOREM GossipInvariant == Spec => []GossipInv
<1>1. Init => GossipInv
  <2> SUFFICES ASSUME Init PROVE GossipInv
    OBVIOUS
  <2>1. <<>> \in Chain
    BY DEF Chain
  <2>2. TypeOK
    <3>1. chain \in [Node -> Seq(Block)]
      BY <2>1 DEF Init, Chain
    <3>2. PICK known \in InitialPeers :
            tracked = [n \in Node |-> [p \in known[n] \ {n} |-> 0]]
      BY DEF Init
    <3>3. \A n \in Node : known[n] \subseteq Node
      BY <3>2, InitialPeersAssumption
    <3>4. /\ DOMAIN tracked = Node
          /\ \A n \in Node : Known(n) \subseteq Node
          /\ \A n \in Node : \A p \in Known(n) : tracked[n][p] \in Nat
      BY <3>2, <3>3 DEF Known
    <3>5. /\ handlers \subseteq Handlers /\ net \subseteq Messages
          /\ minted \in Nat /\ upsets \in Nat
          /\ missed \subseteq [to: Node, chain: Seq(Block)]
      BY DEF Init
    <3>6. QED
      BY <3>1, <3>4, <3>5 DEF TypeOK
  <2>3. \A c \in Chains : c = <<>>
    BY DEF Init, Chains
  <2>4. AsGood(<<>>, <<>>)
    BY <2>1, RankLaws
  <2>5. \A n \in Node : chain[n] = <<>>
    BY DEF Init
  <2>6. HashesNameChains /\ MessagesAreOld /\ HandlersDiffer
    BY <2>3 DEF Init, HashesNameChains, MessagesAreOld, HandlersDiffer
  <2>7. TrackedIsOld
    <3>1. \A n \in Node : \A p \in Known(n) : tracked[n][p] = 0 /\ minted = 0
      BY DEF Init, Known
    <3>2. QED
      BY <2>3, <2>4, <2>5, <3>1 DEF TrackedIsOld
  <2>8. SparedIsUpToDate /\ SentIsReached
    BY DEF Init, SparedIsUpToDate, SentIsReached
  <2>9. NobodyLeftOut
    <3>1. ASSUME NEW n \in Node, NEW p \in Known(n)
          PROVE  \E c \in Reaching(p) : AsGood(c, chain[n])
      <4>1. p \in Node
        BY <2>2 DEF TypeOK
      <4>2. chain[p] \in Reaching(p)
        BY DEF Reaching
      <4>3. QED
        BY <2>4, <2>5, <4>1, <4>2
    <3>2. QED
      BY <3>1 DEF NobodyLeftOut
  <2>10. QED
    BY <2>2, <2>6, <2>7, <2>8, <2>9 DEF GossipInv
<1>2. GossipInv /\ [Next]_vars => GossipInv'
  <2> SUFFICES ASSUME GossipInv, [Next]_vars PROVE GossipInv'
    OBVIOUS
  <2>1. /\ TypeOK /\ HashesNameChains /\ MessagesAreOld /\ HandlersDiffer
        /\ TrackedIsOld /\ SparedIsUpToDate /\ SentIsReached /\ NobodyLeftOut
    BY DEF GossipInv
  <2>2. TypeOK'
    BY <2>1, TypeStep
  <2>3. HashesNameChains' /\ MessagesAreOld' /\ HandlersDiffer' /\ SentIsReached'
    BY <2>1, <2>2, HashesStep, MessagesStep, HandlersStep, SentStep
  <2>4. TrackedIsOld' /\ SparedIsUpToDate' /\ NobodyLeftOut'
    BY <2>1, <2>2, <2>3, TrackedIsOldStep, SparedStep, NobodyStep
  <2>5. QED
    BY <2>2, <2>3, <2>4 DEF GossipInv
<1>3. QED
  BY <1>1, <1>2, PTL DEF Spec

(***************************************************************************)
(* Every state of the network has the declared types.                      *)
(***************************************************************************)
THEOREM TypeCorrect == Spec => []TypeOK
<1>1. GossipInv => TypeOK
  BY DEF GossipInv
<1>2. QED
  BY <1>1, GossipInvariant, PTL

(***************************************************************************)
(* Nobody is spared a push because of a tracked hash without holding a     *)
(* chain as good as the one pushed, whatever update_chain_hash_all has     *)
(* written into the table.                                                 *)
(***************************************************************************)
THEOREM SparingIsSafe == Spec => []SparedIsUpToDate
<1>1. GossipInv => SparedIsUpToDate
  BY DEF GossipInv
<1>2. QED
  BY <1>1, GossipInvariant, PTL

(***************************************************************************)
(* No known peer is left behind without a push on its way, to come, or     *)
(* failed: tracked hashes and ids already sent to never spare the push     *)
(* that was needed.                                                        *)
(***************************************************************************)
THEOREM NobodyIsLeftOut == Spec => []NobodyLeftOut
<1>1. GossipInv => NobodyLeftOut
  BY DEF GossipInv
<1>2. QED
  BY <1>1, GossipInvariant, PTL

-----------------------------------------------------------------------------
(* ChainGossip implements Replicas *)

(***************************************************************************)
(* The abstract specification ranks chains the way the code does.          *)
(***************************************************************************)
LEMMA SameRank ==
  ASSUME NEW c, NEW d, Better(c, d)
  PROVE  Replication!Better(c, d)
<1>1. Replication!LastTime(c) = LastTime(c) /\ Replication!LastTime(d) = LastTime(d)
  BY DEF LastTime, Replication!LastTime, Last, Replication!Last
<1>2. QED
  BY <1>1 DEF Better, Replication!Better

(***************************************************************************)
(* A mined block is new to all chains that are held or in flight.          *)
(***************************************************************************)
LEMMA MiningExtends ==
  ASSUME TypeOK, HashesNameChains, NEW n \in Node, NEW t \in Times, Extend(n, t)
  PROVE  Replication!Extend(n)
<1> DEFINE b == MinedBlock(t)
           d == Append(chain[n], b)
<1>1. /\ chain[n] \in Chain /\ minted \in Nat /\ chain \in [Node -> Seq(Block)]
      /\ chain' = [chain EXCEPT ![n] = d] /\ net' = net /\ b.hash = minted + 1
  BY PartsType DEF TypeOK, Extend, MinedBlock
<1>2. Len(d) = Len(chain[n]) + 1 /\ Last(d) = b
  BY <1>1, MinedChain
<1> HIDE DEF b
<1>3. chain'[n] = d
  BY <1>1
<1>4. Replication!Last(chain'[n]) = b
  BY <1>2, <1>3 DEF Last, Replication!Last
<1>5. Replication!Replicated \subseteq Chains
  BY DEF Replication!Replicated, Chains
<1>6. ASSUME NEW c \in Chains, NEW i \in DOMAIN c
      PROVE  c[i].hash # b.hash
  <2>1. c \in Seq(Block)
    BY PartsType DEF Chain
  <2>2. c[i] \in Block
    BY <2>1
  <2>3. c[i].hash \in Nat /\ c[i].hash <= minted
    BY <2>2 DEF Block, HashesNameChains
  <2>4. QED
    BY <1>1, <2>3
<1>7. Replication!Fresh(b)
  BY <1>5, <1>6 DEF Replication!Fresh
<1> HIDE DEF d
<1>8. QED
  BY <1>1, <1>2, <1>3, <1>4, <1>7 DEF Replication!Extend, d

(***************************************************************************)
(* What a step means for the abstract specification.                       *)
(***************************************************************************)
LEMMA StepReplicates ==
  ASSUME TypeOK, HashesNameChains, [Next]_vars
  PROVE  [Replication!Next]_(Replication!vars)
<1> USE PartsType
<1>1. ASSUME NEW n \in Node, NEW t \in Times, Extend(n, t)
      PROVE  Replication!Next
  BY <1>1, MiningExtends DEF Replication!Next
<1>2. ASSUME NEW m \in net, Accept(m)
      PROVE  Replication!Next
  <2>1. Better(m.chain, chain[m.to])
    BY <1>2, RankLaws DEF Accept
  <2>2. Replication!Better(m.chain, chain[m.to])
    BY <2>1, SameRank
  <2>3. chain' = [chain EXCEPT ![m.to] = m.chain] /\ net' \subseteq net
    BY <1>2 DEF Accept
  <2>4. Replication!Adopt(m.to)
    BY <2>2, <2>3 DEF Replication!Adopt
  <2>5. QED
    BY <2>4 DEF Replication!Next
<1>3. ASSUME NEW m \in net, Reject(m) \/ Lose(m)
      PROVE  Replication!Next
  BY <1>3 DEF Reject, Lose, Replication!Next, Replication!Forget
<1>4. ASSUME NEW h \in handlers, NEW bad \in SUBSET Known(h.node), Push(h, bad)
      PROVE  [Replication!Next]_(Replication!vars)
  <2> DEFINE n == h.node
             ids == Known(n) \ h.ignore
             new == {[to |-> p, from |-> n, chain |-> chain[n], sent |-> ids] :
                       p \in ids \ bad}
  <2>1. chain' = chain /\ net' = net \cup new /\ n \in Node
    BY <1>4 DEF Push
  <2>2. CASE ids \ bad = {}
    BY <2>1, <2>2 DEF Replication!vars
  <2>3. CASE ids \ bad # {}
    <3>1. \A m \in new : m.chain = chain[n]
      OBVIOUS
    <3>2. \E m \in new : m.chain = chain[n]
      <4>1. PICK p \in ids \ bad : TRUE
        BY <2>3
      <4> DEFINE m == [to |-> p, from |-> n, chain |-> chain[n], sent |-> ids]
      <4>2. m \in new /\ m.chain = chain[n]
        BY <4>1
      <4> HIDE DEF m, new
      <4>3. QED
        BY <4>2
    <3> HIDE DEF new
    <3>3. {m.chain : m \in net'} = {m.chain : m \in net} \cup {chain[n]}
      BY <2>1, <3>1, <3>2
    <3>4. Replication!Share(n)
      BY <2>1, <3>3 DEF Replication!Share
    <3>5. QED
      BY <2>1, <3>4 DEF Replication!Next
  <2>4. QED
    BY <2>2, <2>3
<1>5. CASE UNCHANGED <<chain, net>>
  BY <1>5 DEF Replication!vars
<1>6. QED
  BY <1>1, <1>2, <1>3, <1>4, <1>5
     DEF Next, Receive, Proceed, Spare, Mark, RemoveFailed, Learn, Lose, vars

(***************************************************************************)
(* Gossip implements the abstract replication of chains: sync_chain only   *)
(* adopts better chains that were pushed and are in flight, mining only    *)
(* appends new blocks, and nothing else changes a chain.                   *)
(***************************************************************************)
THEOREM GossipReplicates == Spec => ImplementsReplicas
<1>1. Init => Replication!Init
  BY DEF Init, Replication!Init
<1>2. GossipInv /\ [Next]_vars => [Replication!Next]_(Replication!vars)
  BY StepReplicates DEF GossipInv
<1>3. QED
  BY <1>1, <1>2, GossipInvariant, PTL
     DEF Spec, ImplementsReplicas, Replication!Spec


-----------------------------------------------------------------------------
(* Gossip runs down *)

\* The bounds are kept, and there are finitely many handlers and messages.
Bounded ==
  /\ IsFiniteSet(handlers) /\ IsFiniteSet(net)
  /\ minted <= MaxBlocks /\ upsets <= MaxUpsets

\* The steps that the handlers in H may take.
StepsIn(H) == {x \in H \X (1..RoundOfSteps) : x[2] <= StepsOf(x[1])}

(***************************************************************************)
(* The values of a function on a finite set are finitely many, and no more *)
(* than the elements of the set.                                           *)
(***************************************************************************)
LEMMA FiniteImage ==
  ASSUME NEW S, IsFiniteSet(S), NEW f, f = [x \in S |-> f[x]]
  PROVE  /\ IsFiniteSet({f[x] : x \in S})
         /\ Cardinality({f[x] : x \in S}) <= Cardinality(S)
<1> DEFINE T == {f[x] : x \in S}
<1>1. f \in Surjection(S, T)
  <2>1. f \in [S -> T]
    OBVIOUS
  <2>2. \A t \in T : \E x \in S : f[x] = t
    OBVIOUS
  <2>3. QED
    BY <2>1, <2>2 DEF Surjection
<1>2. QED
  BY <1>1, FS_Surjection

(***************************************************************************)
(* There are w pairs of one handler and a number from 1 to w.              *)
(***************************************************************************)
LEMMA PairsWith ==
  ASSUME NEW h, NEW w \in Nat
  PROVE  /\ IsFiniteSet({<<h, i>> : i \in 1..w})
         /\ Cardinality({<<h, i>> : i \in 1..w}) = w
<1> DEFINE T == {<<h, i>> : i \in 1..w}
           f == [i \in 1..w |-> <<h, i>>]
<1>1. f \in [1..w -> T]
  OBVIOUS
<1>2. \A t \in T : \E i \in 1..w : f[i] = t
  OBVIOUS
<1>3. \A i, j \in 1..w : f[i] = f[j] => i = j
  OBVIOUS
<1> HIDE DEF f, T
<1>4. f \in Surjection(1..w, T) /\ f \in Injection(1..w, T)
  BY <1>1, <1>2, <1>3 DEF Surjection, Injection, IsInjective
<1>5. IsFiniteSet(1..w) /\ Cardinality(1..w) = w
  BY FS_Interval
<1>6. IsFiniteSet(T) /\ Cardinality(T) = w
  BY <1>4, <1>5, FS_Surjection
<1>7. QED
  BY <1>6 DEF T

(***************************************************************************)
(* How many steps a handler takes at most.                                 *)
(***************************************************************************)
LEMMA StepsOfOne ==
  ASSUME NEW h \in Handlers
  PROVE  /\ Cardinality(Node) \in Nat /\ RoundOfSteps \in Nat
         /\ StepsOf(h) \in 1..RoundOfSteps
         /\ h.pc = "spare" => StepsOf(h) = RoundOfSteps
         /\ h.pc = "mark" => StepsOf(h) = RoundOfSteps - 1
         /\ h.pc = "push" => StepsOf(h) = RoundOfSteps - 2
         /\ h.pc = "remove" => StepsOf(h) = 1
<1>1. Cardinality(Node) \in Nat
  BY NodeAssumption, FS_CardinalityType
<1>2. h.pc \in {"spare", "mark", "push", "remove"}
  BY DEF Handlers
<1>3. QED
  BY <1>1, <1>2 DEF StepsOf, RoundOfSteps

(***************************************************************************)
(* The steps of a set of handlers when one is removed from it or added.    *)
(***************************************************************************)
LEMMA StepsInLaws ==
  ASSUME NEW H \in SUBSET Handlers, IsFiniteSet(H), NEW h \in Handlers
  PROVE  /\ IsFiniteSet(StepsIn(H)) /\ Cardinality(StepsIn(H)) \in Nat
         /\ h \in H => Cardinality(StepsIn(H \ {h}))
                         = Cardinality(StepsIn(H)) - StepsOf(h)
         /\ Cardinality(StepsIn(H \cup {h}))
              <= Cardinality(StepsIn(H)) + StepsOf(h)
<1> DEFINE w == StepsOf(h)
           own == {<<h, i>> : i \in 1..w}
<1>1. RoundOfSteps \in Nat /\ w \in 1..RoundOfSteps
  BY StepsOfOne
<1>0. w \in Nat
  BY <1>1
<1> HIDE DEF w
<1>2. IsFiniteSet(own) /\ Cardinality(own) = w
  BY <1>0, PairsWith
<1>3. ASSUME NEW G, IsFiniteSet(G)
      PROVE  IsFiniteSet(StepsIn(G)) /\ Cardinality(StepsIn(G)) \in Nat
  <2>1. IsFiniteSet(1..RoundOfSteps)
    BY <1>1, FS_Interval
  <2>2. IsFiniteSet(G \X (1..RoundOfSteps))
    BY <1>3, <2>1, FS_Product
  <2>3. StepsIn(G) \in SUBSET (G \X (1..RoundOfSteps))
    BY DEF StepsIn
  <2>4. IsFiniteSet(StepsIn(G))
    BY <2>2, <2>3, FS_Subset
  <2>5. QED
    BY <2>4, FS_CardinalityType
<1>4. ASSUME NEW G, IsFiniteSet(G)
      PROVE  /\ StepsIn(G \cup {h}) = StepsIn(G \ {h}) \cup own
             /\ StepsIn(G \ {h}) \cap own = {}
  <2>1. ASSUME NEW x \in StepsIn(G \cup {h})
        PROVE  x \in StepsIn(G \ {h}) \cup own
    <3>1. PICK g \in G \cup {h}, i \in 1..RoundOfSteps :
            x = <<g, i>> /\ i <= StepsOf(g)
      BY DEF StepsIn
    <3>2. CASE g = h
      <4>1. i \in 1..w
        BY <1>0, <3>1, <3>2 DEF w
      <4>2. QED
        BY <3>1, <3>2, <4>1
    <3>3. CASE g # h
      BY <3>1, <3>3 DEF StepsIn
    <3>4. QED
      BY <3>2, <3>3
  <2>2. ASSUME NEW x \in own
        PROVE  x \in StepsIn(G \cup {h}) /\ x[1] = h
    <3>1. PICK i \in 1..w : x = <<h, i>>
      OBVIOUS
    <3>2. i \in 1..RoundOfSteps /\ i <= w
      BY <1>1
    <3>3. QED
      BY <3>1, <3>2 DEF StepsIn, w
  <2>3. StepsIn(G \ {h}) \subseteq StepsIn(G \cup {h})
    BY DEF StepsIn
  <2>4. \A x \in StepsIn(G \ {h}) : x[1] # h
    BY DEF StepsIn
  <2> HIDE DEF own
  <2>5. QED
    BY <2>1, <2>2, <2>3, <2>4
<1> HIDE DEF own, w
<1>5. ASSUME NEW G, IsFiniteSet(G)
      PROVE  Cardinality(StepsIn(G \cup {h})) = Cardinality(StepsIn(G \ {h})) + w
  <2>1. IsFiniteSet(G \ {h})
    BY <1>5, FS_RemoveElement
  <2>2. IsFiniteSet(StepsIn(G \ {h})) /\ Cardinality(StepsIn(G \ {h})) \in Nat
    BY <1>3, <2>1
  <2>3. Cardinality(StepsIn(G \ {h}) \cap own) = 0
    BY <1>4, <1>5, FS_EmptySet
  <2>4. Cardinality(StepsIn(G \ {h}) \cup own) =
          Cardinality(StepsIn(G \ {h})) + w - 0
    BY <1>2, <2>2, <2>3, FS_Union
  <2>5. QED
    <3>1. Cardinality(StepsIn(G \ {h}) \cup own) = Cardinality(StepsIn(G \ {h})) + w
      BY <1>0, <2>2, <2>4
    <3>2. StepsIn(G \cup {h}) = StepsIn(G \ {h}) \cup own
      BY <1>4, <1>5
    <3>3. QED
      BY <3>1, <3>2
<1>6. ASSUME h \in H
      PROVE  Cardinality(StepsIn(H \ {h})) = Cardinality(StepsIn(H)) - StepsOf(h)
  <2>1. H \cup {h} = H
    BY <1>6
  <2>2. IsFiniteSet(H \ {h})
    BY FS_RemoveElement
  <2>3. Cardinality(StepsIn(H \ {h})) \in Nat
    BY <1>3, <2>2
  <2>4. QED
    BY <1>1, <1>5, <2>1, <2>3 DEF w
<1>7. Cardinality(StepsIn(H \cup {h})) <= Cardinality(StepsIn(H)) + StepsOf(h)
  <2>1. StepsIn(H \ {h}) \in SUBSET StepsIn(H)
    BY DEF StepsIn
  <2>2. IsFiniteSet(StepsIn(H)) /\ Cardinality(StepsIn(H)) \in Nat
    BY <1>3
  <2>3. IsFiniteSet(H \ {h})
    BY FS_RemoveElement
  <2>4. Cardinality(StepsIn(H \ {h})) <= Cardinality(StepsIn(H))
    BY <2>1, <2>2, FS_Subset
  <2>5. Cardinality(StepsIn(H \ {h})) \in Nat
    BY <1>3, <2>3
  <2>6. QED
    BY <1>1, <1>5, <2>2, <2>4, <2>5 DEF w
<1>8. QED
  BY <1>3, <1>6, <1>7

(***************************************************************************)
(* The steps of a set of handlers when one takes the place of another.     *)
(***************************************************************************)
LEMMA StepsOfExchange ==
  ASSUME NEW H \in SUBSET Handlers, IsFiniteSet(H), NEW h \in H, NEW g \in Handlers
  PROVE  Cardinality(StepsIn((H \ {h}) \cup {g}))
           <= Cardinality(StepsIn(H)) - StepsOf(h) + StepsOf(g)
<1> DEFINE G == H \ {h}
<1>1. G \in SUBSET Handlers /\ IsFiniteSet(G) /\ h \in Handlers
  BY FS_RemoveElement
<1>2. /\ Cardinality(StepsIn(G)) = Cardinality(StepsIn(H)) - StepsOf(h)
      /\ Cardinality(StepsIn(H)) \in Nat
  BY <1>1, StepsInLaws
<1> HIDE DEF G
<1>3. Cardinality(StepsIn(G \cup {g})) <= Cardinality(StepsIn(G)) + StepsOf(g)
  BY <1>1, StepsInLaws
<1>4. QED
  BY <1>2, <1>3 DEF G

(***************************************************************************)
(* A push sends a message at most to each node it does not fail to reach.  *)
(***************************************************************************)
LEMMA PushedMessages ==
  ASSUME TypeOK, Bounded, NEW h \in handlers, NEW bad \in SUBSET Known(h.node),
         Push(h, bad)
  PROVE  /\ IsFiniteSet(net')
         /\ Cardinality(net') \in Nat
         /\ IsFiniteSet(bad) /\ Cardinality(bad) \in Nat
         /\ Cardinality(net') <= Cardinality(net) + Cardinality(Node)
                                   - Cardinality(bad)
<1> DEFINE n == h.node
           ids == Known(n) \ h.ignore
           f == [p \in ids \ bad |->
                   [to |-> p, from |-> n, chain |-> chain[n], sent |-> ids]]
           new == {f[p] : p \in ids \ bad}
<1>1. net' = net \cup new
  BY DEF Push
<1>2. bad \in SUBSET Node /\ ids \ bad \in SUBSET (Node \ bad)
  BY DEF Push, TypeOK, Handlers
<1>3. IsFiniteSet(bad) /\ Cardinality(bad) \in Nat /\ Cardinality(Node) \in Nat
  BY <1>2, NodeAssumption, FS_Subset, FS_CardinalityType
<1>4. /\ IsFiniteSet(Node \ bad)
      /\ Cardinality(Node \ bad) = Cardinality(Node) - Cardinality(bad)
  <2>1. Node \ bad \in SUBSET Node
    OBVIOUS
  <2>2. IsFiniteSet(Node \ bad) /\ Cardinality(Node \ bad) \in Nat
    BY <2>1, NodeAssumption, FS_Subset, FS_CardinalityType
  <2>3. (Node \ bad) \cup bad = Node /\ (Node \ bad) \cap bad = {}
    BY <1>2
  <2>4. Cardinality(Node) = Cardinality(Node \ bad) + Cardinality(bad) - Cardinality({})
    BY <1>3, <2>2, <2>3, FS_Union
  <2>5. QED
    BY <1>3, <2>2, <2>4, FS_EmptySet
<1>5. /\ IsFiniteSet(ids \ bad)
      /\ Cardinality(ids \ bad) <= Cardinality(Node) - Cardinality(bad)
      /\ Cardinality(ids \ bad) \in Nat
  BY <1>2, <1>4, FS_Subset, FS_CardinalityType
<1>6. IsFiniteSet(new) /\ Cardinality(new) <= Cardinality(ids \ bad)
  <2> DEFINE S == ids \ bad
  <2>1. f = [p \in S |-> f[p]]
    OBVIOUS
  <2>2. IsFiniteSet(S)
    BY <1>5
  <2> HIDE DEF f, S
  <2>3. IsFiniteSet({f[p] : p \in S}) /\ Cardinality({f[p] : p \in S}) <= Cardinality(S)
    BY <2>1, <2>2, FiniteImage
  <2>4. QED
    BY <2>3 DEF S
<1> HIDE DEF new, ids, f
<1>7. /\ Cardinality(new) \in Nat /\ Cardinality(net) \in Nat
      /\ Cardinality(net \cap new) \in Nat
  BY <1>6, FS_CardinalityType, FS_Intersection DEF Bounded
<1>8. /\ IsFiniteSet(net \cup new)
      /\ Cardinality(net \cup new)
           = Cardinality(net) + Cardinality(new) - Cardinality(net \cap new)
  BY <1>6, FS_Union DEF Bounded
<1>9. QED
  BY <1>1, <1>3, <1>5, <1>6, <1>7, <1>8, FS_CardinalityType

(***************************************************************************)
(* The bounds are kept.                                                    *)
(***************************************************************************)
LEMMA BoundedStep ==
  ASSUME TypeOK, Bounded, [Next]_vars
  PROVE  Bounded'
<1> USE DEF Bounded
<1>1. IsFiniteSet(handlers')
  <2>1. \E g, h : handlers' \in {handlers, handlers \cup {g}, handlers \ {h},
                                 (handlers \ {h}) \cup {g}}
    <3>1. ASSUME NEW n \in Node, NEW t \in Times, Extend(n, t)
          PROVE  \E g : handlers' = handlers \cup {g}
      BY <3>1 DEF Extend
    <3>2. ASSUME NEW m \in net, Accept(m)
          PROVE  \E g : handlers' = handlers \cup {g}
      BY <3>2 DEF Accept
    <3>3. ASSUME NEW h \in handlers, Spare(h) \/ Mark(h)
          PROVE  \E g : handlers' = (handlers \ {h}) \cup {g}
      BY <3>3 DEF Spare, Mark
    <3>4. ASSUME NEW h \in handlers, NEW bad \in SUBSET Known(h.node), Push(h, bad)
          PROVE  \/ handlers' = handlers \ {h}
                 \/ \E g : handlers' = (handlers \ {h}) \cup {g}
      BY <3>4 DEF Push
    <3>5. ASSUME NEW h \in handlers, RemoveFailed(h)
          PROVE  handlers' = handlers \ {h}
      BY <3>5 DEF RemoveFailed
    <3>6. CASE UNCHANGED handlers
      BY <3>6
    <3>7. QED
      BY <3>1, <3>2, <3>3, <3>4, <3>5, <3>6
         DEF Next, Receive, Proceed, Reject, Learn, Lose, vars
  <2>2. \A g, h : /\ IsFiniteSet(handlers \cup {g}) /\ IsFiniteSet(handlers \ {h})
                  /\ IsFiniteSet((handlers \ {h}) \cup {g})
    BY FS_AddElement, FS_RemoveElement
  <2>3. QED
    BY <2>1, <2>2
<1>2. IsFiniteSet(net')
  <2>1. ASSUME NEW m \in net, Accept(m) \/ Reject(m) \/ Lose(m)
        PROVE  IsFiniteSet(net')
    BY <2>1, FS_RemoveElement DEF Accept, Reject, Lose
  <2>2. ASSUME NEW h \in handlers, NEW bad \in SUBSET Known(h.node), Push(h, bad)
        PROVE  IsFiniteSet(net')
    BY <2>2, PushedMessages
  <2>3. CASE UNCHANGED net
    BY <2>3
  <2>4. QED
    BY <2>1, <2>2, <2>3
       DEF Next, Receive, Proceed, Extend, Spare, Mark, RemoveFailed, Learn, vars
<1>3. minted' <= MaxBlocks
  <2>1. ASSUME NEW n \in Node, NEW t \in Times, Extend(n, t)
        PROVE  minted' <= MaxBlocks
    BY <2>1, BoundsAssumption DEF TypeOK, Extend
  <2>2. CASE UNCHANGED minted
    BY <2>2
  <2>3. QED
    BY <2>1, <2>2
       DEF Next, Receive, Proceed, Accept, Reject, Spare, Mark, Push, RemoveFailed,
           Learn, Lose, vars
<1>4. upsets' <= MaxUpsets
  <2>1. ASSUME NEW n \in Node, NEW p \in Node, Learn(n, p)
        PROVE  upsets' <= MaxUpsets
    BY <2>1, BoundsAssumption DEF TypeOK, Learn
  <2>2. ASSUME NEW h \in handlers, NEW bad \in SUBSET Known(h.node), Push(h, bad)
        PROVE  upsets' <= MaxUpsets
    BY <2>2 DEF Push
  <2>3. ASSUME NEW m \in net, Lose(m)
        PROVE  upsets' <= MaxUpsets
    BY <2>3, BoundsAssumption DEF TypeOK, Lose
  <2>4. CASE UNCHANGED upsets
    BY <2>4
  <2>5. QED
    BY <2>1, <2>2, <2>3, <2>4
       DEF Next, Receive, Proceed, Extend, Accept, Reject, Spare, Mark, RemoveFailed,
           vars
<1>5. QED
  BY <1>1, <1>2, <1>3, <1>4

(***************************************************************************)
(* One chain is better than another to which the one it is as good as is.  *)
(***************************************************************************)
LEMMA BetterLaws ==
  ASSUME NEW a \in Chain, NEW b \in Chain, NEW c \in Chain
  PROVE  /\ ~Better(a, a)
         /\ Better(a, b) /\ AsGood(b, c) => Better(a, c)
<1>1. /\ Len(a) \in Nat /\ LastTime(a) \in Int
      /\ Len(b) \in Nat /\ LastTime(b) \in Int
      /\ Len(c) \in Nat /\ LastTime(c) \in Int
  BY TipOfChain
<1>2. QED
  BY <1>1 DEF Better, AsGood

(***************************************************************************)
(* There are finitely many improvements.                                   *)
(***************************************************************************)
LEMMA ImprovementsType ==
  ASSUME TypeOK, Bounded
  PROVE  /\ Offered \subseteq Chain
         /\ IsFiniteSet(Improvements) /\ Cardinality(Improvements) \in Nat
<1>1. IsFiniteSet({chain[n] : n \in Node})
  <2>1. chain = [n \in Node |-> chain[n]]
    BY DEF TypeOK
  <2>2. QED
    BY <2>1, NodeAssumption, FiniteImage
<1>2. IsFiniteSet({m.chain : m \in net})
  <2> DEFINE f == [m \in net |-> m.chain]
  <2>1. {m.chain : m \in net} = {f[m] : m \in net} /\ f = [m \in net |-> f[m]]
    OBVIOUS
  <2> HIDE DEF f
  <2>2. QED
    BY <2>1, FiniteImage DEF Bounded
<1>3. IsFiniteSet(Offered)
  BY <1>1, <1>2, FS_Union DEF Offered
<1>4. IsFiniteSet(Node \X Offered)
  BY <1>3, NodeAssumption, FS_Product
<1>5. Improvements \in SUBSET (Node \X Offered)
  BY DEF Improvements
<1>6. IsFiniteSet(Improvements)
  BY <1>4, <1>5, FS_Subset
<1>7. QED
  BY <1>6, FS_CardinalityType, PartsType DEF Offered

(***************************************************************************)
(* Where nothing new is offered, there is nothing more to improve on.      *)
(***************************************************************************)
LEMMA FewerImprovements ==
  ASSUME TypeOK, TypeOK', Bounded, [Next]_vars, Offered' \subseteq Offered
  PROVE  /\ Improvements' \subseteq Improvements
         /\ Cardinality(Improvements') <= Cardinality(Improvements)
<1>1. ASSUME NEW x \in Improvements'
      PROVE  x \in Improvements
  <2>1. PICK n \in Node, c \in Offered' : x = <<n, c>> /\ Better(c, chain'[n])
    BY DEF Improvements
  <2>2. /\ c \in Offered /\ c \in Chain /\ chain[n] \in Chain /\ chain'[n] \in Chain
    BY ImprovementsType DEF TypeOK, Chain
  <2>3. AsGood(chain'[n], chain[n])
    BY ChainsImprove
  <2>4. Better(c, chain[n])
    BY <2>1, <2>2, <2>3, BetterLaws
  <2>5. QED
    BY <2>1, <2>2, <2>4 DEF Improvements
<1>2. Improvements' \in SUBSET Improvements
  BY <1>1
<1>3. QED
  BY <1>2, ImprovementsType, FS_Subset

(***************************************************************************)
(* A mined block is an improvement for all nodes but the one that mined    *)
(* it.                                                                     *)
(***************************************************************************)
LEMMA ImprovementsOfMining ==
  ASSUME TypeOK, TypeOK', Bounded, NEW n \in Node, NEW t \in Times, Extend(n, t)
  PROVE  Cardinality(Improvements')
           <= Cardinality(Improvements) + Cardinality(Node) - 1
<1> DEFINE c == Append(chain[n], MinedBlock(t))
           others == Node \ {n}
           new == {<<k, c>> : k \in others}
<1>1. /\ chain' = [chain EXCEPT ![n] = c] /\ net' = net
  BY DEF Extend
<1>2. chain \in [Node -> Chain] /\ minted \in Nat
  BY DEF TypeOK, Chain
<1>3. c \in Chain /\ AsGood(c, chain[n])
  BY <1>2, MinedChain
<1> HIDE DEF c
<1>4. chain'[n] = c /\ \A k \in others : chain'[k] = chain[k]
  BY <1>1, <1>2
<1>5. Offered' \subseteq Offered \cup {c}
  BY <1>1, <1>4 DEF Offered
<1>6. Offered \subseteq Chain
  BY ImprovementsType
<1>7. ASSUME NEW x \in Improvements'
      PROVE  x \in Improvements \cup new
  <2>1. PICK k \in Node, d \in Offered' : x = <<k, d>> /\ Better(d, chain'[k])
    BY DEF Improvements
  <2>2. CASE d = c
    <3>1. k # n
      BY <1>3, <1>4, <2>1, <2>2, BetterLaws
    <3>2. QED
      BY <2>1, <2>2, <3>1
  <2>3. CASE d # c
    <3>1. d \in Offered /\ d \in Chain
      BY <1>5, <1>6, <2>3
    <3>2. Better(d, chain[k])
      BY <1>2, <1>3, <1>4, <2>1, <3>1, BetterLaws
    <3>3. QED
      BY <2>1, <3>1, <3>2 DEF Improvements
  <2>4. QED
    BY <2>2, <2>3
<1>8. IsFiniteSet(others) /\ Cardinality(others) = Cardinality(Node) - 1
  BY NodeAssumption, FS_RemoveElement
<1>9. IsFiniteSet(new) /\ Cardinality(new) <= Cardinality(Node) - 1
  <2> DEFINE f == [k \in others |-> <<k, c>>]
  <2>1. new = {f[k] : k \in others} /\ f = [k \in others |-> f[k]]
    OBVIOUS
  <2> HIDE DEF f, new, others
  <2>2. QED
    BY <1>8, <2>1, FiniteImage
<1> HIDE DEF new
<1>10. IsFiniteSet(Improvements) /\ Cardinality(Improvements) \in Nat
  BY ImprovementsType
<1>11. Cardinality(new) \in Nat /\ Cardinality(Improvements \cap new) \in Nat
  BY <1>9, <1>10, FS_CardinalityType, FS_Intersection
<1>12. /\ IsFiniteSet(Improvements \cup new)
       /\ Cardinality(Improvements \cup new)
            <= Cardinality(Improvements) + Cardinality(new)
  <2>1. /\ IsFiniteSet(Improvements \cup new)
        /\ Cardinality(Improvements \cup new)
             = Cardinality(Improvements) + Cardinality(new)
                 - Cardinality(Improvements \cap new)
    BY <1>9, <1>10, FS_Union
  <2>2. QED
    BY <1>10, <1>11, <2>1
<1>13. Improvements' \in SUBSET (Improvements \cup new)
  BY <1>7
<1>14. /\ Cardinality(Improvements') <= Cardinality(Improvements \cup new)
       /\ Cardinality(Improvements') \in Nat
       /\ Cardinality(Improvements \cup new) \in Nat
  BY <1>12, <1>13, FS_Subset, FS_CardinalityType
<1>15. QED
  BY <1>9, <1>10, <1>11, <1>12, <1>14, NodeAssumption, FS_CardinalityType

(***************************************************************************)
(* Who adopts a chain has one improvement less.                            *)
(***************************************************************************)
LEMMA ImprovementsOfAdopting ==
  ASSUME TypeOK, TypeOK', Bounded, NEW m \in net, Accept(m)
  PROVE  Cardinality(Improvements') <= Cardinality(Improvements) - 1
<1> DEFINE x == <<m.to, m.chain>>
<1>1. /\ m.to \in Node /\ m.chain \in Chain /\ chain \in [Node -> Chain]
  BY PartsType DEF TypeOK, Chain
<1>2. /\ chain' = [chain EXCEPT ![m.to] = m.chain] /\ net' \subseteq net
      /\ Better(m.chain, chain[m.to])
  BY <1>1, RankLaws DEF Accept
<1>3. m.chain \in Offered
  BY DEF Offered
<1>4. Offered' \subseteq Offered
  <2>1. ASSUME NEW n \in Node
        PROVE  chain'[n] \in Offered
    BY <1>1, <1>2, <1>3 DEF Offered
  <2>2. QED
    BY <1>2, <2>1 DEF Offered
<1>5. [Next]_vars
  BY DEF Next, Receive
<1>6. Improvements' \subseteq Improvements
  BY <1>4, <1>5, FewerImprovements
<1>7. x \in Improvements
  BY <1>1, <1>2, <1>3 DEF Improvements
<1>8. x \notin Improvements'
  BY <1>1, <1>2, BetterLaws DEF Improvements
<1>9. IsFiniteSet(Improvements) /\ Cardinality(Improvements) \in Nat
  BY ImprovementsType
<1>10. /\ IsFiniteSet(Improvements \ {x})
       /\ Cardinality(Improvements \ {x}) = Cardinality(Improvements) - 1
  BY <1>7, <1>9, FS_RemoveElement
<1>11. Improvements' \in SUBSET (Improvements \ {x})
  BY <1>6, <1>8
<1>12. QED
  BY <1>10, <1>11, FS_Subset

(***************************************************************************)
(* A push offers a chain that its sender holds.                            *)
(***************************************************************************)
LEMMA PushOffersNothing ==
  ASSUME TypeOK, NEW h \in handlers, NEW bad \in SUBSET Known(h.node), Push(h, bad)
  PROVE  Offered' \subseteq Offered
<1>1. chain' = chain /\ h.node \in Node
  BY PartsType DEF Push
<1>2. ASSUME NEW m \in net'
      PROVE  m \in net \/ m.chain = chain[h.node]
  BY DEF Push
<1>3. QED
  BY <1>1, <1>2 DEF Offered

(***************************************************************************)
(* Multiplying by the steps of a round keeps the order.                    *)
(***************************************************************************)
LEMMA Rounds ==
  ASSUME NEW r \in Nat, NEW x \in Nat, NEW y \in Nat
  PROVE  /\ r * x \in Nat
         /\ x <= y => r * x <= r * y
         /\ x + 1 <= y => r * x + r <= r * y
<1>1. r * x \in Nat /\ r * y \in Nat
  OBVIOUS
<1>2. ASSUME x <= y PROVE r * x <= r * y
  <2>1. PICK d \in Nat : y = x + d
    BY <1>2
  <2>2. r * y = r * x + r * d /\ r * d \in Nat
    BY <2>1
  <2>3. QED
    BY <1>1, <2>2
<1>3. ASSUME x + 1 <= y PROVE r * x + r <= r * y
  <2>1. PICK d \in Nat : y = x + 1 + d
    BY <1>3
  <2>2. r * y = r * x + r + r * d /\ r * d \in Nat
    BY <2>1
  <2>3. QED
    BY <1>1, <2>2
<1>4. QED
  BY <1>1, <1>2, <1>3

\* The blocks to be mined and the improvements that are left, each worth a
\* round of steps.
RoundsLeft == (MaxBlocks - minted) * Cardinality(Node) + Cardinality(Improvements)

\* The parts that the steps left are made of.
ImprovementsLeft == Cardinality(Improvements)
RoundWork == RoundOfSteps * RoundsLeft
HandlerWork == Cardinality(StepsIn(handlers))
MessageWork == Cardinality(net)
UpsetsLeft == MaxUpsets - upsets

StepsAdd ==
  /\ MaxBlocks - minted \in Nat /\ ImprovementsLeft \in Nat /\ RoundsLeft \in Nat
  /\ RoundWork \in Nat /\ HandlerWork \in Nat
  /\ MessageWork \in Nat /\ UpsetsLeft \in Nat
  /\ StepsLeft = RoundWork + HandlerWork + MessageWork + UpsetsLeft

(***************************************************************************)
(* The parts of the steps left are natural numbers.                        *)
(***************************************************************************)
LEMMA StepsLeftType == TypeOK /\ Bounded => StepsAdd
<1> SUFFICES ASSUME TypeOK, Bounded PROVE StepsAdd
  OBVIOUS
<1>1. Cardinality(Node) \in Nat /\ RoundOfSteps \in Nat
  BY NodeAssumption, FS_CardinalityType DEF RoundOfSteps
<1>2. MaxBlocks - minted \in Nat /\ MaxUpsets - upsets \in Nat
  BY BoundsAssumption DEF TypeOK, Bounded
<1>3. (MaxBlocks - minted) * Cardinality(Node) \in Nat
  BY <1>1, <1>2, Rounds
<1>4. RoundsLeft \in Nat /\ Cardinality(Improvements) \in Nat
  BY <1>3, ImprovementsType DEF RoundsLeft
<1>5. RoundOfSteps * RoundsLeft \in Nat
  BY <1>1, <1>4, Rounds
<1>6. Cardinality(StepsIn(handlers)) \in Nat
  <2>1. CASE handlers = {}
    <3>1. StepsIn(handlers) = {}
      BY <2>1 DEF StepsIn
    <3>2. QED
      BY <3>1, FS_EmptySet
  <2>2. CASE handlers # {}
    BY <2>2, StepsInLaws DEF TypeOK, Bounded
  <2>3. QED
    BY <2>1, <2>2
<1>7. Cardinality(net) \in Nat
  BY FS_CardinalityType DEF Bounded
<1>8. StepsLeft = RoundOfSteps * RoundsLeft
                    + Cardinality(StepsIn(handlers)) + Cardinality(net)
                    + (MaxUpsets - upsets)
  BY DEF StepsLeft, RoundsLeft, StepsIn, StepsOfHandlers
<1>9. QED
  BY <1>2, <1>4, <1>5, <1>6, <1>7, <1>8
     DEF StepsAdd, ImprovementsLeft, RoundWork, HandlerWork, MessageWork, UpsetsLeft

(***************************************************************************)
(* Every step spends some of the steps left.                               *)
(***************************************************************************)
LEMMA StepSpends ==
  ASSUME TypeOK, TypeOK', Bounded, Next
  PROVE  StepsLeft' \in 0..(StepsLeft - 1)
<1> DEFINE N == Cardinality(Node)
           R == N + 3
<1>0. [Next]_vars /\ Bounded'
  BY BoundedStep
<1>1. StepsAdd /\ StepsAdd'
  BY <1>0, StepsLeftType, PTL
<1>2. PICK i, i1 : i = ImprovementsLeft /\ i1 = ImprovementsLeft'
  OBVIOUS
<1>3. PICK r, r1 : r = RoundsLeft /\ r1 = RoundsLeft'
  OBVIOUS
<1>4. PICK w, w1 : w = RoundWork /\ w1 = RoundWork'
  OBVIOUS
<1>5. PICK s, s1 : s = HandlerWork /\ s1 = HandlerWork'
  OBVIOUS
<1>6. PICK m, m1 : m = MessageWork /\ m1 = MessageWork'
  OBVIOUS
<1>7. PICK u, u1 : u = UpsetsLeft /\ u1 = UpsetsLeft'
  OBVIOUS
<1>8. SUFFICES ASSUME NEW l, NEW l1, l = StepsLeft, l1 = StepsLeft'
               PROVE  l1 \in 0..(l - 1)
  BY Zenon
<1>9. /\ i \in Nat /\ i1 \in Nat /\ r \in Nat /\ r1 \in Nat
      /\ w \in Nat /\ w1 \in Nat /\ s \in Nat /\ s1 \in Nat
      /\ m \in Nat /\ m1 \in Nat /\ u \in Nat /\ u1 \in Nat
      /\ l = w + s + m + u /\ l1 = w1 + s1 + m1 + u1
  BY <1>1, <1>2, <1>3, <1>4, <1>5, <1>6, <1>7, <1>8, Zenon DEF StepsAdd
<1>10. SUFFICES w1 + s1 + m1 + u1 <= w + s + m + u - 1
  BY <1>9
<1>11. N \in Nat /\ RoundOfSteps = R
  BY NodeAssumption, FS_CardinalityType DEF RoundOfSteps
<1>12. /\ i = Cardinality(Improvements) /\ i1 = Cardinality(Improvements')
       /\ s = Cardinality(StepsIn(handlers)) /\ s1 = Cardinality(StepsIn(handlers'))
       /\ m = Cardinality(net) /\ m1 = Cardinality(net')
       /\ u = MaxUpsets - upsets /\ u1 = MaxUpsets - upsets'
  BY <1>2, <1>5, <1>6, <1>7, Zenon
     DEF ImprovementsLeft, HandlerWork, MessageWork, UpsetsLeft,
         StepsIn, StepsOf, RoundOfSteps
<1>13. /\ r = (MaxBlocks - minted) * N + i
       /\ r1 = (MaxBlocks - minted') * N + i1
  BY <1>3, <1>12, Zenon DEF RoundsLeft
<1>14. w = R * r /\ w1 = R * r1
  BY <1>3, <1>4, Zenon DEF RoundWork, RoundOfSteps
<1>15. /\ minted \in Nat /\ MaxBlocks \in Nat /\ upsets \in Nat /\ MaxUpsets \in Nat
       /\ MaxBlocks - minted \in Nat
  <2>1. minted <= MaxBlocks
    BY DEF Bounded
  <2>2. QED
    BY <2>1, BoundsAssumption DEF TypeOK
<1>16. (MaxBlocks - minted) * N \in Nat
  BY <1>11, <1>15, Rounds
<1>17. handlers \in SUBSET Handlers /\ IsFiniteSet(handlers) /\ IsFiniteSet(net)
  BY DEF TypeOK, Bounded
<1>18. /\ r1 <= r => w1 <= w
       /\ r1 + 1 <= r => w1 + R <= w
  BY <1>9, <1>11, <1>14, Rounds
<1>19. UNCHANGED minted /\ Offered' \subseteq Offered => w1 <= w
  <2> SUFFICES ASSUME UNCHANGED minted, Offered' \subseteq Offered
               PROVE  r1 <= r
    BY <1>18
  <2>1. i1 <= i
    BY <1>0, <1>12, FewerImprovements
  <2>2. QED
    BY <1>9, <1>13, <1>16, <2>1
<1> HIDE DEF N
<1>20. ASSUME NEW n \in Node, NEW t \in Times, Extend(n, t)
       PROVE  w1 + s1 + m1 + u1 <= w + s + m + u - 1
  <2> DEFINE h == NewHandler(n, "push", Append(chain[n], MinedBlock(t)), {}, TRUE)
  <2>1. /\ handlers' = handlers \cup {h} /\ UNCHANGED <<net, upsets>>
        /\ minted' = minted + 1
    BY <1>20 DEF Extend
  <2>2. h \in handlers' /\ h.pc = "push"
    BY <2>1 DEF NewHandler
  <2> HIDE DEF h
  <2>3. h \in Handlers
    BY <2>2 DEF TypeOK
  <2>4. StepsOf(h) = N + 1
    BY <1>11, <2>2, <2>3, StepsOfOne
  <2>5. s1 <= s + StepsOf(h)
    BY <1>12, <1>17, <2>1, <2>3, StepsInLaws
  <2>6. m1 = m /\ u1 = u
    BY <1>12, <2>1
  <2>7. i1 <= i + N - 1
    BY <1>12, <1>20, ImprovementsOfMining DEF N
  <2>8. (MaxBlocks - minted') * N = (MaxBlocks - minted) * N - N
    BY <1>11, <1>15, <2>1
  <2>9. r1 + 1 <= r
    BY <1>9, <1>11, <1>13, <1>16, <2>7, <2>8
  <2>10. w1 + R <= w
    BY <1>18, <2>9
  <2>11. QED
    BY <1>9, <1>11, <2>4, <2>5, <2>6, <2>10
<1>21. ASSUME NEW x \in net, Accept(x)
       PROVE  w1 + s1 + m1 + u1 <= w + s + m + u - 1
  <2> DEFINE h == NewHandler(x.to, "spare", x.chain, x.sent, FALSE)
  <2>1. /\ handlers' = handlers \cup {h} /\ net' = net \ {x}
        /\ UNCHANGED <<minted, upsets>>
    BY <1>21 DEF Accept
  <2>2. h \in handlers' /\ h.pc = "spare"
    BY <2>1 DEF NewHandler
  <2> HIDE DEF h
  <2>3. h \in Handlers
    BY <2>2 DEF TypeOK
  <2>4. StepsOf(h) = R
    BY <1>11, <2>2, <2>3, StepsOfOne
  <2>5. s1 <= s + StepsOf(h)
    BY <1>12, <1>17, <2>1, <2>3, StepsInLaws
  <2>6. m1 = m - 1 /\ u1 = u
    BY <1>12, <1>17, <2>1, FS_RemoveElement
  <2>7. i1 <= i - 1
    BY <1>12, <1>21, ImprovementsOfAdopting
  <2>8. r1 + 1 <= r
    BY <1>9, <1>13, <1>16, <2>1, <2>7
  <2>9. w1 + R <= w
    BY <1>18, <2>8
  <2>10. QED
    BY <1>9, <1>11, <2>4, <2>5, <2>6, <2>9
<1>22. ASSUME NEW x \in net, Reject(x)
       PROVE  w1 + s1 + m1 + u1 <= w + s + m + u - 1
  <2>1. net' = net \ {x} /\ UNCHANGED <<chain, handlers, minted, upsets>>
    BY <1>22 DEF Reject
  <2>2. w1 <= w
    BY <1>19, <2>1 DEF Offered
  <2>3. m1 = m - 1 /\ u1 = u /\ s1 = s
    BY <1>12, <1>17, <2>1, FS_RemoveElement
  <2>4. QED
    BY <1>9, <2>2, <2>3
<1>23. ASSUME NEW h \in handlers, Spare(h) \/ Mark(h)
       PROVE  w1 + s1 + m1 + u1 <= w + s + m + u - 1
  <2>1. h \in Handlers
    BY <1>17
  <2>2. PICK g : /\ handlers' = (handlers \ {h}) \cup {g}
                 /\ \/ h.pc = "spare" /\ g.pc = "mark"
                    \/ h.pc = "mark" /\ g.pc = "push"
    <3>1. CASE Spare(h)
      <4> DEFINE g == [h EXCEPT !.pc = "mark",
                                !.ignore = @ \cup UpToDate(h.node, h.adopted)]
      <4>1. g.pc = "mark" /\ h.pc = "spare" /\ handlers' = (handlers \ {h}) \cup {g}
        BY <2>1, <3>1 DEF Spare, Handlers
      <4> HIDE DEF g
      <4>2. QED
        BY <4>1
    <3>2. CASE Mark(h)
      <4> DEFINE g == [h EXCEPT !.pc = "push"]
      <4>1. g.pc = "push" /\ h.pc = "mark" /\ handlers' = (handlers \ {h}) \cup {g}
        BY <2>1, <3>2 DEF Mark, Handlers
      <4> HIDE DEF g
      <4>2. QED
        BY <4>1
    <3>3. QED
      BY <1>23, <3>1, <3>2
  <2>3. UNCHANGED <<chain, net, minted, upsets>>
    BY <1>23 DEF Spare, Mark
  <2>4. g \in Handlers
    BY <2>2 DEF TypeOK
  <2>5. StepsOf(g) = StepsOf(h) - 1 /\ StepsOf(h) \in Nat
    BY <1>11, <2>1, <2>2, <2>4, StepsOfOne
  <2>6. s1 <= s - StepsOf(h) + StepsOf(g)
    BY <1>12, <1>17, <2>2, <2>4, StepsOfExchange
  <2>7. w1 <= w
    BY <1>19, <2>3 DEF Offered
  <2>8. m1 = m /\ u1 = u
    BY <1>12, <2>3
  <2>9. QED
    BY <1>9, <2>5, <2>6, <2>7, <2>8
<1>24. ASSUME NEW h \in handlers, NEW bad \in SUBSET Known(h.node), Push(h, bad)
       PROVE  w1 + s1 + m1 + u1 <= w + s + m + u - 1
  <2> DEFINE g == [h EXCEPT !.pc = "remove", !.failed = bad]
             b == Cardinality(bad)
  <2>1. /\ handlers' = (handlers \ {h}) \cup (IF bad = {} THEN {} ELSE {g})
        /\ UNCHANGED <<chain, minted>> /\ upsets' = upsets + b
        /\ h.pc = "push"
    BY <1>24 DEF Push
  <2>2. m1 <= m + N - b /\ b \in Nat /\ IsFiniteSet(bad)
    BY <1>12, <1>24, PushedMessages DEF N
  <2>3. bad # {} => b >= 1
    BY <2>2, FS_EmptySet
  <2> HIDE DEF b
  <2>4. u1 = u - b
    BY <1>12, <1>15, <2>1, <2>2
  <2>5. h \in Handlers /\ StepsOf(h) = N + 1
    BY <1>11, <1>17, <2>1, StepsOfOne
  <2>6. CASE bad = {}
    <3>1. handlers' = handlers \ {h}
      BY <2>1, <2>6
    <3>2. s1 = s - StepsOf(h)
      BY <1>12, <1>17, <2>5, <3>1, StepsInLaws
    <3>3. Offered' \subseteq Offered
      BY <1>24, PushOffersNothing
    <3>4. w1 <= w
      BY <1>19, <2>1, <3>3
    <3>5. QED
      BY <1>9, <1>11, <2>2, <2>4, <2>5, <3>2, <3>4
  <2>7. CASE bad # {}
    <3>1. g \in handlers' /\ g.pc = "remove"
      BY <2>1, <2>5, <2>7 DEF Handlers
    <3>2. handlers' = (handlers \ {h}) \cup {g}
      BY <2>1, <2>7
    <3> HIDE DEF g
    <3>3. g \in Handlers
      BY <3>1 DEF TypeOK
    <3>4. StepsOf(g) = 1
      BY <3>1, <3>3, StepsOfOne
    <3>5. s1 <= s - StepsOf(h) + StepsOf(g)
      BY <1>12, <1>17, <3>2, <3>3, StepsOfExchange
    <3>6. Offered' \subseteq Offered
      BY <1>24, PushOffersNothing
    <3>7. w1 <= w
      BY <1>19, <2>1, <3>6
    <3>8. QED
      BY <1>9, <1>11, <2>2, <2>3, <2>4, <2>5, <2>7, <3>4, <3>5, <3>7
  <2>8. QED
    BY <2>6, <2>7
<1>25. ASSUME NEW h \in handlers, RemoveFailed(h)
       PROVE  w1 + s1 + m1 + u1 <= w + s + m + u - 1
  <2>1. /\ handlers' = handlers \ {h} /\ UNCHANGED <<chain, net, minted, upsets>>
        /\ h.pc = "remove"
    BY <1>25 DEF RemoveFailed
  <2>2. h \in Handlers /\ StepsOf(h) = 1
    BY <1>17, <2>1, StepsOfOne
  <2>3. s1 = s - 1
    BY <1>12, <1>17, <2>1, <2>2, StepsInLaws
  <2>4. w1 <= w
    BY <1>19, <2>1 DEF Offered
  <2>5. m1 = m /\ u1 = u
    BY <1>12, <2>1
  <2>6. QED
    BY <1>9, <2>3, <2>4, <2>5
<1>26. ASSUME NEW n \in Node, NEW p \in Node, Learn(n, p)
       PROVE  w1 + s1 + m1 + u1 <= w + s + m + u - 1
  <2>1. UNCHANGED <<chain, handlers, net, minted>> /\ upsets' = upsets + 1
    BY <1>26 DEF Learn
  <2>2. w1 <= w
    BY <1>19, <2>1 DEF Offered
  <2>3. m1 = m /\ s1 = s
    BY <1>12, <2>1
  <2>4. u1 = u - 1
    BY <1>12, <1>15, <2>1
  <2>5. QED
    BY <1>9, <2>2, <2>3, <2>4
<1>27. ASSUME NEW x \in net, Lose(x)
       PROVE  w1 + s1 + m1 + u1 <= w + s + m + u - 1
  <2>1. /\ net' = net \ {x} /\ UNCHANGED <<chain, handlers, minted>>
        /\ upsets' = upsets + 1
    BY <1>27 DEF Lose
  <2>2. w1 <= w
    BY <1>19, <2>1 DEF Offered
  <2>3. m1 = m - 1 /\ s1 = s
    BY <1>12, <1>17, <2>1, FS_RemoveElement
  <2>4. u1 = u - 1
    BY <1>12, <1>15, <2>1
  <2>5. QED
    BY <1>9, <2>2, <2>3, <2>4
<1>28. QED
  BY <1>20, <1>21, <1>22, <1>23, <1>24, <1>25, <1>26, <1>27
     DEF Next, Receive, Proceed

(***************************************************************************)
(* Gossip runs down: every step is one of those that were left.            *)
(***************************************************************************)
THEOREM GossipAlwaysRunsDown == Spec => GossipRunsDown
<1>1. Init => Bounded
  BY FS_EmptySet, BoundsAssumption DEF Init, Bounded
<1>2. TypeOK /\ Bounded /\ [Next]_vars => Bounded'
  BY BoundedStep
<1>3. TypeOK /\ TypeOK' /\ Bounded /\ [Next]_vars =>
        [StepsLeft' \in 0..(StepsLeft - 1)]_vars
  BY StepSpends
<1>4. QED
  BY <1>1, <1>2, <1>3, TypeCorrect, PTL DEF Spec, GossipRunsDown

(***************************************************************************)
(* Where gossip comes to rest, the nodes agree: once every message and     *)
(* every handler is done with, each node's chain is as good as that of     *)
(* any node that knows it, or a push of such a chain to it failed or was   *)
(* lost.                                                                   *)
(***************************************************************************)
THEOREM RestingNodesAgree == Spec => (GossipRests => Converges)
<1> DEFINE Agree ==
      \A n \in Node : \A p \in Known(n) :
        \E c \in {chain[p]} \cup {m.chain : m \in {x \in missed : x.to = p}} :
          AsGood(c, chain[n])
           Rest == net = {} /\ handlers = {}
<1>1. NobodyLeftOut /\ Rest => Agree
  <2> SUFFICES ASSUME NobodyLeftOut, Rest, NEW n \in Node, NEW p \in Known(n)
               PROVE  \E c \in {chain[p]} \cup
                                {m.chain : m \in {x \in missed : x.to = p}} :
                        AsGood(c, chain[n])
    OBVIOUS
  <2>1. ~Pending(n, p)
    BY DEF Pending
  <2>2. PICK c \in Reaching(p) : AsGood(c, chain[n])
    BY <2>1 DEF NobodyLeftOut
  <2>3. QED
    BY <2>2 DEF Reaching
<1>2. GossipRests <=> <>[]Rest
  BY DEF GossipRests
<1>3. Converges <=> <>[]Agree
  BY DEF Converges
<1> HIDE DEF Agree, Rest
<1>4. QED
  BY <1>1, <1>2, <1>3, NobodyIsLeftOut, PTL
=============================================================================

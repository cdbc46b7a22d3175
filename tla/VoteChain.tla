------------------------------ MODULE VoteChain ------------------------------
(***************************************************************************)
(* The data a bk-rs node votes with, and the pure functions over it:       *)
(* blocks and the miner that fills them in, the validation of whole chains *)
(* and of single blocks, and the vote cache behind the HTTP API.           *)
(*                                                                         *)
(* A hash is a natural number that identifies the block it was computed    *)
(* from: SHA-256 over the serialized block and its nonce is taken to be    *)
(* free of collisions.  The bytes, the nonce and the proof-of-work search  *)
(* are left out; that a block was sealed by Block::hash is what having a   *)
(* hash other than NoHash means.                                           *)
(***************************************************************************)
EXTENDS ChainRank

CONSTANTS
  Voters,       \* the voter ids a mining task may carry, valid or not
  UuidVoters,   \* the voter ids that parse as a UUID
  Candidates,   \* the candidates a vote may name
  NoVote        \* what get_vote answers for a voter it does not know

ASSUME VotersAssumption == UuidVoters \subseteq Voters
ASSUME NoVoteAssumption == NoVote \notin Candidates

NoHash == 0     \* the empty byte vector, the prev_hash of a first block
Hashes == Nat \ {NoHash}

Block == [idx: Nat, data: Candidates, prev: Nat, hash: Hashes,
          voter: Voters, ts: Nat]

\* Variants of the operators further down, each with a mistake the properties
\* of the modules that build on this one are meant to tell from the code.
CandidatesOf(c) == {c[i].data : i \in DOMAIN c}
CanAddAgain(voted, cur, b) ==
  /\ b.idx = Len(cur) /\ b.voter \in UuidVoters
  /\ cur # <<>> => b.prev = Last(cur).hash
CanAddAnywhere(voted, cur, b) ==
  b.voter \in UuidVoters \ voted /\ b.idx = Len(cur)
RecordVoteAgain(k, v, c) ==
  [votes |-> [k.votes EXCEPT ![v] = c], tally |-> [k.tally EXCEPT ![c] = @ + 1]]

\* The voter ids sync_chain collects from the chain it adopts.
VotersOf(c) == {c[i].voter : i \in DOMAIN c}

-----------------------------------------------------------------------------
(* Mining *)

\* The block mine_block makes for voter v's vote on top of chain c, the hash
\* and the time being what the search and the clock return.
MineBlock(v, candidate, c, hash, time) ==
  [idx |-> Len(c), data |-> candidate,
   prev |-> IF c = <<>> THEN NoHash ELSE Last(c).hash,
   hash |-> hash, voter |-> v, ts |-> time]

\* Block::validate.  Of its checks only the voter id's form can fail for a
\* block that came out of Block::new: the others read what Block::hash wrote.
ValidBlock(b) == b.hash # NoHash /\ b.voter \in UuidVoters

-----------------------------------------------------------------------------
(* Validation *)

\* Chain::validate: may chain new replace chain cur?  The loop starts at the
\* second block, so the first one is neither validated nor among the voter
\* ids that must be distinct.
Validate(new, cur) ==
  /\ Outranks(new, cur)
  /\ \A i \in 2..Len(new) :
       /\ new[i].prev = new[i-1].hash
       /\ ValidBlock(new[i])
       /\ \A j \in 2..(i-1) : new[j].voter # new[i].voter

\* Chain::validate_addition answers AddBlock.
CanAdd(voted, cur, b) ==
  /\ b.voter \notin voted
  /\ ValidBlock(b)
  /\ IF cur = <<>>
       THEN b.idx = 0
       ELSE b.idx = Last(cur).idx + 1 /\ b.prev = Last(cur).hash

\* Chain::validate_addition answers AttemptedLateAdd; the answer to any other
\* block is IgnoreBlock.
IsLate(voted, cur, b) ==
  /\ b.voter \notin voted
  /\ cur # <<>>
  /\ \/ b.idx <= Last(cur).idx
     \/ b.idx = Last(cur).idx + 1 /\ b.prev # Last(cur).hash

-----------------------------------------------------------------------------
(* The vote cache *)

\* VoteCache: a voter or a candidate that the HashMaps have no entry for has
\* no vote, or the count 0.
Caches == [votes: [Voters -> Candidates \cup {NoVote}],
           tally: [Candidates -> Nat]]

EmptyCache == [votes |-> [v \in Voters |-> NoVote],
               tally |-> [c \in Candidates |-> 0]]

\* VoteCache::record_vote: the vote is overwritten, the tally is not moved.
RecordVote(k, v, c) ==
  [votes |-> [k.votes EXCEPT ![v] = c],
   tally |-> IF k.votes[v] = NoVote
               THEN [k.tally EXCEPT ![c] = @ + 1]
               ELSE k.tally]

\* A mistake in CacheOf: the first block is passed over, as in Validate.
CacheOfLater(c) ==
  FoldLeft(LAMBDA k, b : RecordVote(k, b.voter, b.data), EmptyCache,
           SubSeq(c, 2, Len(c)))

\* The cache sync_chain builds while it walks the chain it adopts.
CacheOf(c) ==
  FoldLeft(LAMBDA k, b : RecordVote(k, b.voter, b.data), EmptyCache, c)

\* The entries of the two HashMaps.
Voted(k) == {v \in Voters : k.votes[v] # NoVote}
Tallied(k) == {c \in Candidates : k.tally[c] > 0}

TotalVotes(k) == Cardinality(Voted(k))

-----------------------------------------------------------------------------
(* What a cache should say *)

TallySum(k) == SumFunctionOnSet(k.tally, Tallied(k))

\* Cache k is the count of chain c: it has the vote of each block, no other,
\* and for each candidate the number of blocks.
CountsVotes(k, c) ==
  /\ \A i \in DOMAIN c : k.votes[c[i].voter] = c[i].data
  /\ \A v \in Voters \ VotersOf(c) : k.votes[v] = NoVote
  /\ \A d \in Candidates :
       k.tally[d] = Cardinality({i \in DOMAIN c : c[i].data = d})
=============================================================================

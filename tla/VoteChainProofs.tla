--------------------------- MODULE VoteChainProofs ---------------------------
(***************************************************************************)
(* Proofs about the functions of VoteChain and ProofOfWork, for every      *)
(* chain and every hash.  What they compute is defined by recursion; the   *)
(* proofs are by induction, for which lemma Induction has a set of natural *)
(* numbers in the place of a predicate.                                    *)
(***************************************************************************)
EXTENDS VoteChain, ProofOfWork, FiniteSetTheorems, TLAPS

-----------------------------------------------------------------------------
(* Induction and folds *)

(***************************************************************************)
(* Every set of natural numbers has a least element.                       *)
(***************************************************************************)
LEMMA LeastNatural ==
  ASSUME NEW T, T \subseteq Nat, T # {}
  PROVE  \E m \in T : \A n \in T : m <= n
<1> DEFINE R == OpToRel(<, Nat)
<1>1. IsWellFoundedOn(R, Nat)
  BY NatLessThanWellFounded, Zenon
<1>2. \A x, y \in Nat : x < y => <<x, y>> \in R
  BY Zenon DEF OpToRel
<1> HIDE DEF R
<1>3. PICK m \in T : \A n \in T : <<n, m>> \notin R
  BY <1>1, WFMin
<1>4. \A n \in T : ~(n < m)
  BY <1>2, <1>3
<1>5. QED
  BY <1>4

(***************************************************************************)
(* Induction on natural numbers, with a set in place of a predicate.       *)
(***************************************************************************)
LEMMA Induction ==
  ASSUME NEW S, 0 \in S, \A n \in Nat : n \in S => n + 1 \in S
  PROVE  Nat \subseteq S
<1>1. SUFFICES ASSUME Nat \ S # {} PROVE FALSE
  OBVIOUS
<1>2. PICK m \in Nat \ S : \A n \in Nat \ S : m <= n
  BY <1>1, LeastNatural
<1>3. m - 1 \in Nat /\ ~(m <= m - 1)
  BY <1>2
<1>4. QED
  BY <1>2, <1>3

(***************************************************************************)
(* What the recursive function inside a fold over set D is chosen to be:   *)
(* it takes the elements out of a set one by one, in the order that pick   *)
(* gives, and applies step to each.                                        *)
(***************************************************************************)
SetFolds(D, V, base, pick, step) ==
  {f \in [SUBSET D -> V] : \A s \in SUBSET D :
     f[s] = IF s = {} THEN base ELSE step[pick[s]][f[s \ {pick[s]}]]}

(***************************************************************************)
(* There is such a function for every finite set.                          *)
(***************************************************************************)
LEMMA FoldExists ==
  ASSUME NEW D, IsFiniteSet(D), NEW V, NEW base \in V, NEW pick, NEW step,
         \A s \in (SUBSET D) \ {{}} : pick[s] \in s,
         \A x \in D, v \in V : step[x][v] \in V
  PROVE  SetFolds(D, V, base, pick, step) # {}
<1> DEFINE Small(k) == {s \in SUBSET D : Cardinality(s) <= k}
           Value(f, s) == IF s = {} THEN base
                                    ELSE step[pick[s]][f[s \ {pick[s]}]]
           IsFold(f, k) == f \in [Small(k) -> V] /\ \A s \in Small(k) : f[s] = Value(f, s)
           Reached == {k \in Nat : \E f : IsFold(f, k)}
<1>1. \A s \in SUBSET D : IsFiniteSet(s) /\ Cardinality(s) \in Nat
  BY FS_Subset, FS_CardinalityType
<1>2. \A s \in (SUBSET D) \ {{}} :
        s \ {pick[s]} \in SUBSET D /\ Cardinality(s \ {pick[s]}) = Cardinality(s) - 1
  BY <1>1, FS_RemoveElement
<1>3. \A k \in Nat : \A s : s \in Small(k + 1) /\ s # {} =>
        pick[s] \in D /\ s \ {pick[s]} \in Small(k)
  BY <1>1, <1>2
<1>4. \A k \in Nat : Small(k) \subseteq Small(k + 1)
  BY <1>1
<1>5. \A s \in Small(0) : s = {}
  BY <1>1, FS_EmptySet
<1> HIDE DEF Small
<1>6. \E f : IsFold(f, 0)
  <2>1. IsFold([s \in Small(0) |-> base], 0)
    BY <1>5
  <2>2. QED
    BY <2>1
<1>7. ASSUME NEW k \in Nat, NEW f, IsFold(f, k)
      PROVE  \E g : IsFold(g, k + 1)
  <2> DEFINE g == [s \in Small(k + 1) |-> Value(f, s)]
  <2>1. \A s \in Small(k + 1) : Value(f, s) \in V
    BY <1>3, <1>7
  <2>2. \A s \in Small(k) : g[s] = f[s]
    BY <1>4, <1>7
  <2>3. g \in [Small(k + 1) -> V] /\ \A s \in Small(k + 1) : g[s] = Value(f, s)
    BY <2>1
  <2> HIDE DEF g
  <2>4. \A s \in Small(k + 1) : Value(g, s) = Value(f, s)
    BY <1>3, <2>2
  <2>5. IsFold(g, k + 1)
    BY <2>3, <2>4
  <2>6. QED
    BY <2>5
<1> HIDE DEF IsFold
<1>8. 0 \in Reached /\ \A k \in Nat : k \in Reached => k + 1 \in Reached
  BY <1>6, <1>7
<1> HIDE DEF Reached
<1>9. Nat \subseteq Reached
  BY <1>8, Induction
<1> USE DEF Reached
<1>10. Cardinality(D) \in Nat /\ Small(Cardinality(D)) = SUBSET D
  BY <1>1, FS_Subset, FS_CardinalityType DEF Small
<1>11. PICK f : IsFold(f, Cardinality(D))
  BY <1>9, <1>10
<1>12. QED
  BY <1>10, <1>11 DEF IsFold, SetFolds

(***************************************************************************)
(* Any positions of a sequence have a last one.                            *)
(***************************************************************************)
LEMMA LastPosition ==
  ASSUME NEW n \in Nat, NEW s, s \subseteq 1..n, s # {}
  PROVE  Max(s) \in s /\ \A i \in s : i <= Max(s)
<1> DEFINE T == {n - i : i \in s}
<1>1. T \subseteq Nat /\ T # {}
  <2>1. \A i \in s : n - i \in Nat
    OBVIOUS
  <2>2. QED
    BY <2>1
<1>2. PICK m \in T : \A k \in T : m <= k
  BY <1>1, LeastNatural
<1>3. PICK j \in s : m = n - j
  BY <1>2
<1>4. \A i \in s : j >= i
  BY <1>2, <1>3
<1>5. QED
  BY <1>3, <1>4 DEF Max

(***************************************************************************)
(* record_vote turns a cache into a cache.                                 *)
(***************************************************************************)
LEMMA RecordVoteType ==
  ASSUME NEW k \in Caches, NEW v \in Voters, NEW c \in Candidates
  PROVE  RecordVote(k, v, c) \in Caches
BY DEF Caches, RecordVote

(***************************************************************************)
(* The cache of a new process is a cache.                                  *)
(***************************************************************************)
LEMMA EmptyCacheType == EmptyCache \in Caches
BY DEF EmptyCache, Caches

(***************************************************************************)
(* The cache of a chain comes about block by block: r[i] is the cache once *)
(* the first i blocks are recorded.                                        *)
(***************************************************************************)
LEMMA CacheRun ==
  ASSUME NEW c \in Seq(Block)
  PROVE  \E r \in [0..Len(c) -> Caches] :
           /\ r[0] = EmptyCache
           /\ \A i \in 1..Len(c) : r[i] = RecordVote(r[i-1], c[i].voter, c[i].data)
           /\ r[Len(c)] = CacheOf(c)
<1> DEFINE D == DOMAIN c
           Recorded(g, s) == RecordVote(g[s \ {Max(s)}], c[Max(s)].voter, c[Max(s)].data)
           IsIter(g) == g = [s \in SUBSET D |->
                               IF s = {} THEN EmptyCache ELSE Recorded(g, s)]
           iter == CHOOSE g : IsIter(g)
           r == [i \in 0..Len(c) |-> iter[1..i]]
<1>1. D = 1..Len(c) /\ Len(c) \in Nat /\ IsFiniteSet(D)
  BY FS_Interval
<1>2. \A i \in D : c[i].voter \in Voters /\ c[i].data \in Candidates
  <2>1. \A i \in D : c[i] \in Block
    OBVIOUS
  <2>2. QED
    BY <2>1 DEF Block
<1> HIDE DEF D
<1>3. \E g : IsIter(g)
  <2> DEFINE pick == [s \in SUBSET D |-> Max(s)]
             step == [i \in D |-> [k \in Caches |->
                        RecordVote(k, c[i].voter, c[i].data)]]
  <2>1. \A s \in (SUBSET D) \ {{}} : pick[s] \in s /\ pick[s] = Max(s)
    BY <1>1, LastPosition
  <2>2. \A i \in D, k \in Caches :
          /\ step[i][k] \in Caches
          /\ step[i][k] = RecordVote(k, c[i].voter, c[i].data)
    BY <1>2, RecordVoteType
  <2> HIDE DEF pick, step
  <2>3. PICK f : f \in SetFolds(D, Caches, EmptyCache, pick, step)
    <3>1. \A s \in (SUBSET D) \ {{}} : pick[s] \in s
      BY <2>1
    <3>2. \A i \in D, k \in Caches : step[i][k] \in Caches
      BY <2>2
    <3>3. QED
      BY <1>1, <3>1, <3>2, EmptyCacheType, FoldExists
  <2>4. f \in [SUBSET D -> Caches] /\ f[{}] = EmptyCache
    BY <2>3 DEF SetFolds
  <2>5. \A s \in (SUBSET D) \ {{}} : f[s] = Recorded(f, s)
    BY <2>1, <2>2, <2>3 DEF SetFolds
  <2>6. f = [s \in SUBSET D |-> IF s = {} THEN EmptyCache ELSE Recorded(f, s)]
    BY <2>4, <2>5
  <2>7. QED
    BY <2>6
<1>4. CacheOf(c) = iter[D]
  BY DEF CacheOf, FoldLeft, MapThenFoldSet, D
<1>5. IsIter(iter)
  BY <1>3
<1> HIDE DEF iter
<1>6. iter[{}] = EmptyCache
  BY <1>5
<1>7. ASSUME NEW i \in 1..Len(c)
      PROVE  iter[1..i] = RecordVote(iter[1..(i-1)], c[i].voter, c[i].data)
  <2>1. i \in Nat /\ 1..i \in SUBSET D /\ i \in 1..i
    BY <1>1
  <2>2. Max(1..i) = i
    <3>1. Max(1..i) \in 1..i /\ \A j \in 1..i : j <= Max(1..i)
      BY <2>1, LastPosition
    <3>2. QED
      BY <2>1, <3>1
  <2>3. (1..i) \ {i} = 1..(i-1)
    BY <2>1
  <2>4. iter[1..i] = Recorded(iter, 1..i)
    BY <1>5, <2>1
  <2>5. QED
    BY <2>2, <2>3, <2>4
<1> DEFINE Typed == {i \in Nat : i <= Len(c) => iter[1..i] \in Caches}
<1>8. 0 \in Typed /\ \A i \in Nat : i \in Typed => i + 1 \in Typed
  <2>1. 0 \in Typed
    <3>1. 1..0 = {}
      OBVIOUS
    <3>2. QED
      BY <1>6, <3>1, EmptyCacheType
  <2>2. ASSUME NEW i \in Nat, i \in Typed, i + 1 <= Len(c)
        PROVE  iter[1..(i+1)] \in Caches
    <3>1. iter[1..i] \in Caches /\ i + 1 \in 1..Len(c) /\ (i + 1) - 1 = i
      BY <1>1, <2>2
    <3>2. iter[1..(i+1)] = RecordVote(iter[1..i], c[i+1].voter, c[i+1].data)
      BY <1>7, <3>1
    <3>3. QED
      BY <1>1, <1>2, <3>1, <3>2, RecordVoteType
  <2>3. QED
    BY <2>1, <2>2
<1> HIDE DEF Typed
<1>9. Nat \subseteq Typed
  BY <1>8, Induction
<1>10. r \in [0..Len(c) -> Caches]
  BY <1>1, <1>9 DEF Typed
<1>11. \A i \in 1..Len(c) : i - 1 \in 0..Len(c) /\ i \in 0..Len(c)
  BY <1>1
<1>12. r[0] = EmptyCache /\ r[Len(c)] = CacheOf(c)
  <2>1. 1..0 = {} /\ 0 \in 0..Len(c) /\ Len(c) \in 0..Len(c)
    BY <1>1
  <2>2. QED
    BY <1>1, <1>4, <1>6, <2>1
<1>13. \A i \in 1..Len(c) : r[i] = RecordVote(r[i-1], c[i].voter, c[i].data)
  BY <1>7, <1>11
<1>14. QED
  BY <1>10, <1>12, <1>13

-----------------------------------------------------------------------------
(* Sums *)

\* What the recursive function of SumFunctionOnSet is chosen to be.
IsSum(f, D, t) ==
  f = [s \in SUBSET D |->
         IF s = {} THEN 0
         ELSE t[CHOOSE x \in s : TRUE] + f[s \ {CHOOSE x \in s : TRUE}]]

(***************************************************************************)
(* The sum over a finite set is what such a function gives.                *)
(***************************************************************************)
LEMMA SumExists ==
  ASSUME NEW S, IsFiniteSet(S), NEW t, \A x \in S : t[x] \in Nat
  PROVE  \E f : IsSum(f, S, t) /\ SumFunctionOnSet(t, S) = f[S]
<1> DEFINE pick == [s \in SUBSET S |-> CHOOSE x \in s : TRUE]
           step == [x \in S |-> [k \in Nat |-> t[x] + k]]
           iter == CHOOSE f : IsSum(f, S, t)
<1>1. \A s \in (SUBSET S) \ {{}} : pick[s] \in s /\ pick[s] = CHOOSE x \in s : TRUE
  OBVIOUS
<1>2. \A x \in S, k \in Nat : step[x][k] \in Nat /\ step[x][k] = t[x] + k
  OBVIOUS
<1> HIDE DEF pick, step
<1>3. PICK f : f \in SetFolds(S, Nat, 0, pick, step)
  <2>1. \A s \in (SUBSET S) \ {{}} : pick[s] \in s
    BY <1>1
  <2>2. \A x \in S, k \in Nat : step[x][k] \in Nat
    BY <1>2
  <2>3. QED
    BY <2>1, <2>2, FoldExists
<1>4. f \in [SUBSET S -> Nat] /\ f[{}] = 0
  BY <1>3 DEF SetFolds
<1>5. \A s \in (SUBSET S) \ {{}} :
        f[s] = t[CHOOSE x \in s : TRUE] + f[s \ {CHOOSE x \in s : TRUE}]
  <2>1. TAKE s \in (SUBSET S) \ {{}}
  <2>2. pick[s] \in S /\ s \ {pick[s]} \in SUBSET S
    BY <1>1
  <2>3. f[s] = step[pick[s]][f[s \ {pick[s]}]]
    BY <1>3, <2>1 DEF SetFolds
  <2>4. QED
    BY <1>1, <1>2, <1>4, <2>2, <2>3
<1>6. IsSum(f, S, t)
  BY <1>4, <1>5 DEF IsSum
<1>7. IsSum(iter, S, t)
  BY <1>6
<1>8. SumFunctionOnSet(t, S) = iter[S]
  BY DEF SumFunctionOnSet, FoldFunctionOnSet, MapThenFoldSet, IsSum
<1>9. QED
  BY <1>7, <1>8

(***************************************************************************)
(* A sum depends on nothing but the numbers that are summed.               *)
(***************************************************************************)
LEMMA SumUnique ==
  ASSUME NEW S, IsFiniteSet(S), NEW t, NEW u, \A x \in S : t[x] = u[x],
         \A x \in S : t[x] \in Nat,
         NEW f, NEW D, S \subseteq D, IsSum(f, D, t),
         NEW g, NEW E, S \subseteq E, IsSum(g, E, u)
  PROVE  f[S] \in Nat /\ f[S] = g[S]
<1> DEFINE Same == {k \in Nat : \A s \in SUBSET S :
                      Cardinality(s) = k => f[s] \in Nat /\ f[s] = g[s]}
<1>1. \A s \in SUBSET S : IsFiniteSet(s) /\ Cardinality(s) \in Nat
  BY FS_Subset, FS_CardinalityType
<1>2. \A s \in SUBSET S : s = {} => f[s] = 0 /\ g[s] = 0
  BY DEF IsSum
<1>3. 0 \in Same
  BY <1>1, <1>2, FS_EmptySet
<1>4. ASSUME NEW k \in Nat, k \in Same, NEW s \in SUBSET S, Cardinality(s) = k + 1
      PROVE  f[s] \in Nat /\ f[s] = g[s]
  <2> DEFINE x == CHOOSE x \in s : TRUE
  <2>1. s # {}
    <3>1. Cardinality({}) = 0
      BY FS_EmptySet
    <3>2. Cardinality(s) # 0
      BY <1>4
    <3>3. QED
      BY <3>1, <3>2
  <2>2. x \in s
    BY <2>1
  <2>3. f[s] = t[x] + f[s \ {x}] /\ g[s] = u[x] + g[s \ {x}]
    BY <2>1 DEF IsSum
  <2>4. s \ {x} \in SUBSET S /\ Cardinality(s \ {x}) = k
    <3>1. Cardinality(s \ {x}) = Cardinality(s) - 1
      BY <1>1, <2>2, FS_RemoveElement
    <3>2. QED
      BY <1>4, <3>1
  <2>5. f[s \ {x}] \in Nat /\ f[s \ {x}] = g[s \ {x}]
    BY <1>4, <2>4
  <2>6. t[x] \in Nat /\ t[x] = u[x]
    BY <2>2
  <2> HIDE DEF x
  <2>7. QED
    BY <2>3, <2>5, <2>6
<1>5. \A k \in Nat : k \in Same => k + 1 \in Same
  BY <1>4
<1> HIDE DEF Same
<1>6. Nat \subseteq Same
  BY <1>3, <1>5, Induction
<1>7. QED
  BY <1>1, <1>6 DEF Same

(***************************************************************************)
(* What is summed comes in no particular order: any element may be the     *)
(* last.                                                                   *)
(***************************************************************************)
LEMMA SumAnyLast ==
  ASSUME NEW S, IsFiniteSet(S), NEW t, \A x \in S : t[x] \in Nat,
         NEW f, IsSum(f, S, t), NEW y \in S
  PROVE  f[S] = t[y] + f[S \ {y}]
<1> DEFINE AnyLast == {k \in Nat : \A s \in SUBSET S :
                     Cardinality(s) = k => \A z \in s : f[s] = t[z] + f[s \ {z}]}
<1>1. \A s \in SUBSET S : IsFiniteSet(s) /\ Cardinality(s) \in Nat
  BY FS_Subset, FS_CardinalityType
<1>2. \A s \in SUBSET S : f[s] \in Nat
  <2>1. TAKE s \in SUBSET S
  <2>2. QED
    BY <1>1, <2>1, SumUnique
<1>3. 0 \in AnyLast
  BY <1>1, FS_EmptySet
<1>4. ASSUME NEW k \in Nat, k \in AnyLast, NEW s \in SUBSET S, Cardinality(s) = k + 1,
             NEW z \in s
      PROVE  f[s] = t[z] + f[s \ {z}]
  <2> DEFINE x == CHOOSE x \in s : TRUE
  <2>1. x \in s /\ f[s] = t[x] + f[s \ {x}]
    BY DEF IsSum
  <2> HIDE DEF x
  <2>2. CASE x = z
    BY <2>1, <2>2
  <2>3. CASE x # z
    <3> DEFINE rest == (s \ {x}) \ {z}
    <3>1. /\ s \ {x} \in SUBSET S /\ Cardinality(s \ {x}) = k
          /\ s \ {z} \in SUBSET S /\ Cardinality(s \ {z}) = k
      <4>1. /\ Cardinality(s \ {x}) = Cardinality(s) - 1
            /\ Cardinality(s \ {z}) = Cardinality(s) - 1
        BY <1>1, <1>4, <2>1, FS_RemoveElement
      <4>2. QED
        BY <1>4, <4>1
    <3>2. f[s \ {x}] = t[z] + f[rest]
      BY <1>4, <2>3, <3>1
    <3>3. f[s \ {z}] = t[x] + f[(s \ {z}) \ {x}]
      BY <1>4, <2>1, <2>3, <3>1
    <3>4. (s \ {z}) \ {x} = rest /\ rest \in SUBSET S
      OBVIOUS
    <3>5. t[x] \in Nat /\ t[z] \in Nat /\ f[rest] \in Nat
      BY <1>2, <2>1, <3>4
    <3>6. f[s \ {z}] = t[x] + f[rest]
      BY <3>3, <3>4
    <3> HIDE DEF rest
    <3>7. QED
      BY <2>1, <3>2, <3>5, <3>6
  <2>4. QED
    BY <2>2, <2>3
<1>5. ASSUME NEW k \in Nat, k \in AnyLast PROVE k + 1 \in AnyLast
  <2>1. \A s \in SUBSET S : Cardinality(s) = k + 1 =>
          \A z \in s : f[s] = t[z] + f[s \ {z}]
    BY <1>4, <1>5
  <2>2. k + 1 \in Nat
    OBVIOUS
  <2>3. QED
    BY <2>1, <2>2, Zenon
<1> HIDE DEF AnyLast
<1>6. Nat \subseteq AnyLast
  BY <1>3, <1>5, Induction
<1>7. QED
  BY <1>1, <1>6 DEF AnyLast

(***************************************************************************)
(* The empty sum.                                                          *)
(***************************************************************************)
LEMMA SumOfNothing == ASSUME NEW t PROVE SumFunctionOnSet(t, {}) = 0
<1>1. PICK f : IsSum(f, {}, t) /\ SumFunctionOnSet(t, {}) = f[{}]
  BY SumExists, FS_EmptySet
<1>2. QED
  BY <1>1 DEF IsSum

(***************************************************************************)
(* The sum is a natural number, and of equal numbers the same.             *)
(***************************************************************************)
LEMMA SumsAgree ==
  ASSUME NEW S, IsFiniteSet(S), NEW t, NEW u, \A x \in S : t[x] = u[x],
         \A x \in S : t[x] \in Nat
  PROVE  /\ SumFunctionOnSet(t, S) \in Nat
         /\ SumFunctionOnSet(t, S) = SumFunctionOnSet(u, S)
<1>1. \A x \in S : u[x] \in Nat
  OBVIOUS
<1>2. PICK f : IsSum(f, S, t) /\ SumFunctionOnSet(t, S) = f[S]
  BY SumExists
<1>3. PICK g : IsSum(g, S, u) /\ SumFunctionOnSet(u, S) = g[S]
  BY <1>1, SumExists
<1>4. f[S] \in Nat /\ f[S] = g[S]
  BY <1>2, <1>3, SumUnique
<1>5. QED
  BY <1>2, <1>3, <1>4

(***************************************************************************)
(* Another element adds its number to the sum.                             *)
(***************************************************************************)
LEMMA SumWithOneMore ==
  ASSUME NEW S, IsFiniteSet(S), NEW y, y \notin S,
         NEW t, \A x \in S \cup {y} : t[x] \in Nat
  PROVE  SumFunctionOnSet(t, S \cup {y}) = SumFunctionOnSet(t, S) + t[y]
<1> DEFINE T == S \cup {y}
<1>1. IsFiniteSet(T) /\ y \in T /\ S \subseteq T /\ T \ {y} = S
  BY FS_AddElement
<1>2. PICK f : IsSum(f, T, t) /\ SumFunctionOnSet(t, T) = f[T]
  BY <1>1, SumExists
<1>3. PICK g : IsSum(g, S, t) /\ SumFunctionOnSet(t, S) = g[S]
  BY SumExists
<1>4. g[S] \in Nat /\ g[S] = f[S]
  BY <1>1, <1>2, <1>3, SumUnique
<1>5. f[T] = t[y] + f[S]
  <2>1. f[T] = t[y] + f[T \ {y}]
    BY <1>1, <1>2, SumAnyLast
  <2>2. QED
    BY <1>1, <2>1
<1>6. QED
  BY <1>2, <1>3, <1>4, <1>5

-----------------------------------------------------------------------------
(* The vote cache *)

\* What /votes/total answers is what the counts of /votes/tally add up to.
Balanced(k) ==
  /\ IsFiniteSet(Voted(k)) /\ IsFiniteSet(Tallied(k))
  /\ TotalVotes(k) = TallySum(k)

(***************************************************************************)
(* The cache of a new process has no votes and no counts.                  *)
(***************************************************************************)
LEMMA EmptyCacheBalances == Balanced(EmptyCache)
<1>1. Voted(EmptyCache) = {} /\ Tallied(EmptyCache) = {}
  BY DEF Voted, Tallied, EmptyCache
<1>2. TotalVotes(EmptyCache) = Cardinality(Voted(EmptyCache))
  BY DEF TotalVotes, Voted
<1>3. QED
  BY <1>1, <1>2, FS_EmptySet, SumOfNothing DEF Balanced, TallySum

(***************************************************************************)
(* record_vote keeps the two HashMaps in step: it counts exactly when the  *)
(* voter had no vote, whatever vote it overwrites otherwise.               *)
(***************************************************************************)
LEMMA RecordVoteBalances ==
  ASSUME NEW k \in Caches, Balanced(k), NEW v \in Voters, NEW c \in Candidates
  PROVE  Balanced(RecordVote(k, v, c))
<1> DEFINE new == RecordVote(k, v, c)
<1>1. c # NoVote /\ k.votes \in [Voters -> Candidates \cup {NoVote}]
      /\ k.tally \in [Candidates -> Nat]
  BY NoVoteAssumption DEF Caches
<1>2. Voted(new) = Voted(k) \cup {v}
  BY <1>1 DEF RecordVote, Voted
<1>3. /\ TotalVotes(k) = Cardinality(Voted(k)) /\ TotalVotes(k) \in Nat
      /\ TotalVotes(new) = Cardinality(Voted(new)) /\ IsFiniteSet(Voted(new))
      /\ TotalVotes(new) = IF v \in Voted(k) THEN TotalVotes(k) ELSE TotalVotes(k) + 1
  <2>1. /\ TotalVotes(k) = Cardinality(Voted(k))
        /\ TotalVotes(new) = Cardinality(Voted(new))
    BY DEF TotalVotes, Voted
  <2>2. QED
    BY <1>2, <2>1, FS_AddElement, FS_CardinalityType DEF Balanced
<1>4. CASE v \in Voted(k)
  <2>1. new.tally = k.tally
    BY <1>4 DEF RecordVote, Voted
  <2>2. Tallied(new) = Tallied(k) /\ TallySum(new) = TallySum(k)
    BY <2>1 DEF Tallied, TallySum
  <2>3. QED
    BY <1>3, <1>4, <2>2 DEF Balanced
<1>5. CASE v \notin Voted(k)
  <2> DEFINE others == Tallied(k) \ {c}
  <2>1. new.tally = [k.tally EXCEPT ![c] = @ + 1]
    BY <1>5 DEF RecordVote, Voted
  <2>2. /\ new.tally[c] = k.tally[c] + 1 /\ k.tally[c] \in Nat
        /\ \A d \in Candidates : k.tally[d] \in Nat /\ new.tally[d] \in Nat
        /\ \A d \in Candidates \ {c} : new.tally[d] = k.tally[d]
    BY <1>1, <2>1
  <2>3. Tallied(new) = others \cup {c}
    BY <2>2 DEF Tallied
  <2>4. IsFiniteSet(others) /\ c \notin others /\ others \subseteq Candidates
    BY FS_RemoveElement DEF Balanced, Tallied
  <2>5. TallySum(new) = SumFunctionOnSet(new.tally, others) + k.tally[c] + 1
    <3>1. SumFunctionOnSet(new.tally, others \cup {c})
            = SumFunctionOnSet(new.tally, others) + new.tally[c]
      <4>1. \A x \in others \cup {c} : new.tally[x] \in Nat
        BY <2>2, <2>4
      <4>2. QED
        BY <2>4, <4>1, SumWithOneMore
    <3>2. SumFunctionOnSet(new.tally, others) \in Nat
      <4>1. \A x \in others : new.tally[x] \in Nat /\ new.tally[x] = new.tally[x]
        BY <2>2, <2>4
      <4>2. QED
        BY <2>4, <4>1, SumsAgree
    <3>3. TallySum(new) = SumFunctionOnSet(new.tally, others \cup {c})
      BY <2>3 DEF TallySum
    <3>4. QED
      BY <2>2, <3>1, <3>2, <3>3
  <2>6. /\ SumFunctionOnSet(k.tally, others) \in Nat
        /\ SumFunctionOnSet(new.tally, others) = SumFunctionOnSet(k.tally, others)
    <3>1. \A x \in others : k.tally[x] \in Nat /\ k.tally[x] = new.tally[x]
      BY <2>2, <2>4
    <3>2. QED
      BY <2>4, <3>1, SumsAgree
  <2>7. TallySum(k) = SumFunctionOnSet(k.tally, others) + k.tally[c]
    <3>1. CASE c \in Tallied(k)
      <4>1. Tallied(k) = others \cup {c}
        BY <3>1
      <4>2. \A x \in others \cup {c} : k.tally[x] \in Nat
        BY <2>2, <2>4
      <4>3. QED
        BY <2>4, <4>1, <4>2, SumWithOneMore DEF TallySum
    <3>2. CASE c \notin Tallied(k)
      <4>1. Tallied(k) = others /\ k.tally[c] = 0
        BY <2>2, <3>2 DEF Tallied
      <4>2. QED
        BY <2>6, <4>1 DEF TallySum
    <3>3. QED
      BY <3>1, <3>2
  <2>8. TallySum(new) = TallySum(k) + 1
    BY <2>2, <2>5, <2>6, <2>7
  <2>9. IsFiniteSet(Tallied(new))
    BY <2>3, <2>4, FS_AddElement
  <2>10. QED
    BY <1>3, <1>5, <2>8, <2>9 DEF Balanced
<1>6. QED
  BY <1>4, <1>5

(***************************************************************************)
(* So the cache of any chain is balanced, even of one with a voter twice.  *)
(***************************************************************************)
LEMMA CacheOfBalances ==
  ASSUME NEW c \in Seq(Block)
  PROVE  CacheOf(c) \in Caches /\ Balanced(CacheOf(c))
<1>1. PICK r \in [0..Len(c) -> Caches] :
        /\ r[0] = EmptyCache
        /\ \A i \in 1..Len(c) : r[i] = RecordVote(r[i-1], c[i].voter, c[i].data)
        /\ r[Len(c)] = CacheOf(c)
  BY CacheRun
<1>2. \A i \in 1..Len(c) : c[i].voter \in Voters /\ c[i].data \in Candidates
  <2>1. \A i \in 1..Len(c) : c[i] \in Block
    OBVIOUS
  <2>2. QED
    BY <2>1 DEF Block
<1> DEFINE S == {i \in Nat : i <= Len(c) => Balanced(r[i])}
<1>3. 0 \in S
  BY <1>1, EmptyCacheBalances
<1>4. ASSUME NEW i \in Nat, i \in S PROVE i + 1 \in S
  <2>1. SUFFICES ASSUME i + 1 <= Len(c) PROVE Balanced(r[i+1])
    OBVIOUS
  <2>2. i \in 0..Len(c) /\ i + 1 \in 1..Len(c) /\ (i + 1) - 1 = i /\ Balanced(r[i])
    BY <1>4, <2>1
  <2>3. r[i] \in Caches /\ r[i+1] = RecordVote(r[i], c[i+1].voter, c[i+1].data)
    BY <1>1, <2>2
  <2>4. QED
    BY <1>2, <2>2, <2>3, RecordVoteBalances
<1> HIDE DEF S
<1>5. Nat \subseteq S
  BY <1>3, <1>4, Induction
<1>6. Len(c) \in Nat /\ Len(c) \in 0..Len(c)
  OBVIOUS
<1>7. QED
  BY <1>1, <1>5, <1>6 DEF S

(***************************************************************************)
(* The cache of a chain on which nobody votes twice is its count: it has   *)
(* each vote, no other, and as many for a candidate as there are blocks.   *)
(***************************************************************************)
THEOREM CacheCountsVotes ==
  ASSUME NEW c \in Seq(Block),
         \A i, j \in DOMAIN c : c[i].voter = c[j].voter => i = j
  PROVE  CountsVotes(CacheOf(c), c)
<1>1. PICK r \in [0..Len(c) -> Caches] :
        /\ r[0] = EmptyCache
        /\ \A i \in 1..Len(c) : r[i] = RecordVote(r[i-1], c[i].voter, c[i].data)
        /\ r[Len(c)] = CacheOf(c)
  BY CacheRun
<1>2. \A i \in 1..Len(c) : c[i].voter \in Voters /\ c[i].data \in Candidates
  <2>1. \A i \in 1..Len(c) : c[i] \in Block
    OBVIOUS
  <2>2. QED
    BY <2>1 DEF Block
<1>3. DOMAIN c = 1..Len(c) /\ Len(c) \in Nat
  OBVIOUS
<1> DEFINE For(d, n) == {i \in 1..n : c[i].data = d}
           Counted(k, n) ==
             /\ \A i \in 1..n : k.votes[c[i].voter] = c[i].data
             /\ \A v \in Voters :
                  (\A i \in 1..n : c[i].voter # v) => k.votes[v] = NoVote
             /\ \A d \in Candidates : k.tally[d] = Cardinality(For(d, n))
           S == {n \in Nat : n <= Len(c) => Counted(r[n], n)}
<1>4. Counted(EmptyCache, 0)
  <2>1. 1..0 = {}
    OBVIOUS
  <2>2. \A d \in Candidates : For(d, 0) = {}
    BY <2>1
  <2>3. \A d \in Candidates : EmptyCache.tally[d] = Cardinality(For(d, 0))
    BY <2>2, FS_EmptySet DEF EmptyCache
  <2>4. QED
    BY <2>1, <2>3 DEF EmptyCache
<1>5. ASSUME NEW n \in Nat, n + 1 <= Len(c), NEW k \in Caches, Counted(k, n)
      PROVE  Counted(RecordVote(k, c[n+1].voter, c[n+1].data), n + 1)
  <2> DEFINE v == c[n+1].voter
             d == c[n+1].data
             new == RecordVote(k, v, d)
  <2>1. v \in Voters /\ d \in Candidates /\ n + 1 \in 1..Len(c)
    BY <1>2, <1>3, <1>5
  <2>2. \A i \in 1..n : i \in 1..Len(c) /\ i # n + 1 /\ c[i].voter \in Voters
    BY <1>2, <1>3, <1>5
  <2>3. \A i \in 1..n : c[i].voter # v
    BY <1>3, <2>1, <2>2
  <2>4. k.votes[v] = NoVote
    BY <1>5, <2>1, <2>3
  <2>5. new.votes = [k.votes EXCEPT ![v] = d] /\ new.tally = [k.tally EXCEPT ![d] = @ + 1]
    BY <2>4 DEF RecordVote
  <2>6. k.votes \in [Voters -> Candidates \cup {NoVote}] /\ k.tally \in [Candidates -> Nat]
    BY DEF Caches
  <2>7. 1..(n+1) = (1..n) \cup {n + 1} /\ n + 1 \notin 1..n
    OBVIOUS
  <2> HIDE DEF new, v, d
  <2>8. \A e \in Candidates : new.tally[e] = Cardinality(For(e, n + 1))
    <3>1. TAKE e \in Candidates
    <3>2. k.tally[e] = Cardinality(For(e, n)) /\ IsFiniteSet(For(e, n))
      <4>1. IsFiniteSet(1..n) /\ For(e, n) \subseteq 1..n
        BY FS_Interval
      <4>2. QED
        BY <1>5, <4>1, FS_Subset
    <3>3. CASE e = d
      <4>1. For(e, n + 1) = For(e, n) \cup {n + 1} /\ n + 1 \notin For(e, n)
        BY <2>7, <3>3 DEF d
      <4>2. Cardinality(For(e, n + 1)) = Cardinality(For(e, n)) + 1
        BY <3>2, <4>1, FS_AddElement
      <4>3. new.tally[e] = k.tally[e] + 1
        BY <2>5, <2>6, <3>3
      <4>4. QED
        BY <3>2, <4>2, <4>3
    <3>4. CASE e # d
      <4>1. For(e, n + 1) = For(e, n)
        BY <2>7, <3>4 DEF d
      <4>2. new.tally[e] = k.tally[e]
        BY <2>5, <2>6, <3>4
      <4>3. QED
        BY <3>2, <4>1, <4>2
    <3>5. QED
      BY <3>3, <3>4
  <2>9. \A i \in 1..(n+1) : new.votes[c[i].voter] = c[i].data
    <3>1. \A i \in 1..n : new.votes[c[i].voter] = c[i].data
      BY <1>5, <2>2, <2>3, <2>5, <2>6
    <3>2. new.votes[v] = d
      BY <2>1, <2>5, <2>6
    <3>3. QED
      BY <2>7, <3>1, <3>2 DEF v, d
  <2>10. \A w \in Voters :
           (\A i \in 1..(n+1) : c[i].voter # w) => new.votes[w] = NoVote
    <3>1. SUFFICES ASSUME NEW w \in Voters, \A i \in 1..(n+1) : c[i].voter # w
                   PROVE  new.votes[w] = NoVote
      OBVIOUS
    <3>2. w # v /\ \A i \in 1..n : c[i].voter # w
      BY <2>7, <3>1 DEF v
    <3>3. QED
      BY <1>5, <2>5, <2>6, <3>2
  <2>11. QED
    BY <2>8, <2>9, <2>10 DEF new, v, d
<1> HIDE DEF Counted
<1>6. ASSUME NEW n \in Nat, n \in S PROVE n + 1 \in S
  <2>1. SUFFICES ASSUME n + 1 <= Len(c) PROVE Counted(r[n+1], n + 1)
    OBVIOUS
  <2>2. n \in 0..Len(c) /\ n + 1 \in 1..Len(c) /\ (n + 1) - 1 = n /\ Counted(r[n], n)
    BY <1>3, <1>6, <2>1
  <2>3. r[n] \in Caches /\ r[n+1] = RecordVote(r[n], c[n+1].voter, c[n+1].data)
    BY <1>1, <2>2
  <2>4. QED
    BY <1>5, <2>1, <2>2, <2>3
<1>7. 0 \in S
  BY <1>1, <1>4
<1> HIDE DEF S
<1>8. Nat \subseteq S
  BY <1>6, <1>7, Induction
<1>9. Counted(CacheOf(c), Len(c))
  BY <1>1, <1>3, <1>8 DEF S
<1>10. \A v \in Voters \ VotersOf(c), i \in 1..Len(c) : c[i].voter # v
  BY <1>3 DEF VotersOf
<1>11. QED
  BY <1>3, <1>9, <1>10 DEF CountsVotes, Counted

-----------------------------------------------------------------------------
(* Proof of work *)

(***************************************************************************)
(* The first k bits of a byte are zero if the byte without the others is.  *)
(***************************************************************************)
LEMMA LeadingBits ==
  ASSUME NEW b \in Byte, NEW k \in 1..8
  PROVE  ShiftRight(b, 8 - k) = 0 <=> \A i \in 0..(k - 1) : BitOfByte(b, i) = 0
<1>1. b \in Int /\ 0 <= b /\ b <= 255
  BY DEF Byte
<1>2. /\ BitOfByte(b, 0) = (b \div 128) % 2 /\ BitOfByte(b, 1) = (b \div 64) % 2
      /\ BitOfByte(b, 2) = (b \div 32) % 2 /\ BitOfByte(b, 3) = (b \div 16) % 2
      /\ BitOfByte(b, 4) = (b \div 8) % 2 /\ BitOfByte(b, 5) = (b \div 4) % 2
      /\ BitOfByte(b, 6) = (b \div 2) % 2 /\ BitOfByte(b, 7) = (b \div 1) % 2
  BY DEF BitOfByte, TwoTo
<1>3. /\ ShiftRight(b, 0) = b \div 1 /\ ShiftRight(b, 1) = b \div 2
      /\ ShiftRight(b, 2) = b \div 4 /\ ShiftRight(b, 3) = b \div 8
      /\ ShiftRight(b, 4) = b \div 16 /\ ShiftRight(b, 5) = b \div 32
      /\ ShiftRight(b, 6) = b \div 64 /\ ShiftRight(b, 7) = b \div 128
  BY DEF ShiftRight, TwoTo
<1>4. CASE k = 1
  BY <1>1, <1>2, <1>3, <1>4
<1>5. CASE k = 2
  BY <1>1, <1>2, <1>3, <1>5
<1>6. CASE k = 3
  BY <1>1, <1>2, <1>3, <1>6
<1>7. CASE k = 4
  BY <1>1, <1>2, <1>3, <1>7
<1>8. CASE k = 5
  BY <1>1, <1>2, <1>3, <1>8
<1>9. CASE k = 6
  BY <1>1, <1>2, <1>3, <1>9
<1>10. CASE k = 7
  BY <1>1, <1>2, <1>3, <1>10
<1>11. CASE k = 8
  BY <1>1, <1>2, <1>3, <1>11
<1>12. QED
  BY <1>4, <1>5, <1>6, <1>7, <1>8, <1>9, <1>10, <1>11

(***************************************************************************)
(* check_leading_zeroes tests just what its name says, for every           *)
(* difficulty that the hash has enough bits for, multiples of eight or not.*)
(***************************************************************************)
THEOREM LeadingZeroesAreChecked ==
  ASSUME NEW hash \in Seq(Byte), NEW difficulty \in Nat,
         difficulty <= 8 * Len(hash)
  PROVE  CheckLeadingZeroes(hash, difficulty) <=> BeginsWithZeroes(hash, difficulty)
<1> DEFINE full == difficulty \div 8
           rest == difficulty % 8
<1>1. /\ full \in Nat /\ rest \in 0..7 /\ difficulty = 8 * full + rest
      /\ Len(hash) \in Nat /\ full <= Len(hash)
      /\ rest > 0 => full < Len(hash)
  OBVIOUS
<1>2. \A i \in 1..Len(hash) : hash[i] \in Byte
  OBVIOUS
<1>3. \A i \in 0..7 : BitOfByte(0, i) = 0
  BY DEF BitOfByte, TwoTo
<1>4. CheckLeadingZeroes(hash, difficulty) <=>
        /\ \A i \in 1..Len(hash) : i <= full => hash[i] = 0
        /\ rest > 0 =>
             full < Len(hash) /\ ShiftRight(hash[full + 1], 8 - rest) = 0
  BY DEF CheckLeadingZeroes
<1> HIDE DEF full, rest
<1>5. ASSUME CheckLeadingZeroes(hash, difficulty), NEW j \in 0..(difficulty - 1)
      PROVE  Bit(hash, j) = 0
  <2>1. PICK q \in Nat, i \in 0..7 : q = j \div 8 /\ i = j % 8 /\ j = 8 * q + i
    OBVIOUS
  <2>2. Bit(hash, j) = BitOfByte(hash[q + 1], i)
    BY <2>1 DEF Bit
  <2>3. CASE q < full
    <3>1. hash[q + 1] = 0
      BY <1>1, <1>4, <1>5, <2>3
    <3>2. QED
      BY <1>3, <2>2, <3>1
  <2>4. CASE q >= full
    <3>1. q = full /\ rest > 0 /\ i < rest
      BY <1>1, <2>1, <2>4
    <3>2. ShiftRight(hash[full + 1], 8 - rest) = 0 /\ hash[full + 1] \in Byte
      BY <1>1, <1>2, <1>4, <1>5, <3>1
    <3>3. \A t \in 0..(rest - 1) : BitOfByte(hash[full + 1], t) = 0
      BY <1>1, <3>1, <3>2, LeadingBits
    <3>4. i \in 0..(rest - 1)
      BY <1>1, <3>1
    <3>5. QED
      BY <2>2, <3>1, <3>3, <3>4
  <2>5. QED
    BY <1>1, <2>3, <2>4
<1>6. ASSUME BeginsWithZeroes(hash, difficulty)
      PROVE  CheckLeadingZeroes(hash, difficulty)
  <2>1. ASSUME NEW q \in Nat, NEW i \in 0..7, 8 * q + i < difficulty
        PROVE  BitOfByte(hash[q + 1], i) = 0
    <3>1. 8 * q + i \in 0..(difficulty - 1)
      BY <2>1
    <3>2. (8 * q + i) \div 8 = q /\ (8 * q + i) % 8 = i
      BY <2>1
    <3>3. Bit(hash, 8 * q + i) = 0
      BY <1>6, <3>1 DEF BeginsWithZeroes
    <3>4. QED
      BY <3>2, <3>3 DEF Bit
  <2>2. ASSUME NEW n \in 1..Len(hash), n <= full
        PROVE  hash[n] = 0
    <3>1. PICK q \in Nat : n = q + 1 /\ 8 * q + 7 < difficulty
      BY <1>1, <2>2
    <3>2. \A i \in 0..7 : BitOfByte(hash[n], i) = 0
      BY <2>1, <3>1
    <3>3. ShiftRight(hash[n], 8 - 8) = 0
      <4>1. hash[n] \in Byte /\ 8 \in 1..8
        BY <1>2
      <4>2. \A i \in 0..(8 - 1) : BitOfByte(hash[n], i) = 0
        BY <3>2
      <4>3. QED
        BY <4>1, <4>2, LeadingBits
    <3>4. PICK b \in Byte : b = hash[n]
      BY <1>2
    <3>5. b \in Int /\ b \div 1 = b
      BY DEF Byte
    <3>6. ShiftRight(b, 0) = b \div 1 /\ 8 - 8 = 0
      BY DEF ShiftRight, TwoTo
    <3>7. QED
      BY <3>3, <3>4, <3>5, <3>6
  <2>3. ASSUME rest > 0
        PROVE  full < Len(hash) /\ ShiftRight(hash[full + 1], 8 - rest) = 0
    <3>1. full < Len(hash) /\ hash[full + 1] \in Byte /\ rest \in 1..8
      BY <1>1, <1>2, <2>3
    <3>2. \A i \in 0..(rest - 1) : BitOfByte(hash[full + 1], i) = 0
      BY <1>1, <2>1
    <3>3. QED
      BY <3>1, <3>2, LeadingBits
  <2>4. QED
    BY <1>4, <2>2, <2>3
<1>7. QED
  BY <1>5, <1>6 DEF BeginsWithZeroes
=============================================================================

------------------------- MODULE GraphSearchProofs -------------------------
(***************************************************************************)
(* Proofs about the dense scan: the invariant Inv of GraphSearch is        *)
(* inductive, so that for any index, any query, any pass and any value of  *)
(* the counter of the visited marks, before and after it wraps, the search *)
(* of the base layer stops only when it has settled.                       *)
(***************************************************************************)
EXTENDS GraphSearch, OrderLemmas, SequenceTheorems

(***************************************************************************)
(* Numbers.                                                                *)
(***************************************************************************)

\* The least and the greatest of two and of three numbers.
LEMMA MinOfTwo ==
    ASSUME NEW a \in Int, NEW b \in Int
    PROVE  /\ Min({a, b}) \in {a, b} /\ Min({a, b}) \in Int
           /\ Min({a, b}) <= a /\ Min({a, b}) <= b
  <1>1. \E x \in {a, b} : \A y \in {a, b} : x =< y
    <2>1. CASE a <= b
      BY <2>1
    <2>2. CASE ~(a <= b)
      BY <2>2
    <2> QED BY <2>1, <2>2
  <1> QED BY <1>1 DEF Min

LEMMA MaxOfTwo ==
    ASSUME NEW a \in Int, NEW b \in Int
    PROVE  /\ Max({a, b}) \in {a, b} /\ Max({a, b}) \in Int
           /\ Max({a, b}) >= a /\ Max({a, b}) >= b
  <1>1. \E x \in {a, b} : \A y \in {a, b} : x >= y
    <2>1. CASE a >= b
      BY <2>1
    <2>2. CASE ~(a >= b)
      BY <2>2
    <2> QED BY <2>1, <2>2
  <1> QED BY <1>1 DEF Max

LEMMA MaxOfThree ==
    ASSUME NEW a \in Int, NEW b \in Int, NEW c \in Int
    PROVE  /\ Max({a, b, c}) \in {a, b, c} /\ Max({a, b, c}) \in Int
           /\ Max({a, b, c}) >= a /\ Max({a, b, c}) >= b /\ Max({a, b, c}) >= c
  <1>1. \E x \in {a, b, c} : \A y \in {a, b, c} : x >= y
    <2>1. CASE a >= b /\ a >= c
      BY <2>1
    <2>2. CASE b >= a /\ b >= c
      BY <2>2
    <2>3. CASE c >= a /\ c >= b
      BY <2>3
    <2> QED BY <2>1, <2>2, <2>3
  <1> QED BY <1>1 DEF Max

LEMMA MinOfFour ==
    ASSUME NEW a \in Int, NEW b \in Int, NEW c \in Int, NEW d \in Int
    PROVE  Min({a, b, c, d}) \in {a, b, c, d} /\ Min({a, b, c, d}) \in Int
  <1>1. \E x \in {a, b, c, d} : \A y \in {a, b, c, d} : x =< y
    <2>1. CASE a =< b /\ a =< c /\ a =< d
      BY <2>1
    <2>2. CASE b =< a /\ b =< c /\ b =< d
      BY <2>2
    <2>3. CASE c =< a /\ c =< b /\ c =< d
      BY <2>3
    <2>4. CASE d =< a /\ d =< b /\ d =< c
      BY <2>4
    <2> QED BY <2>1, <2>2, <2>3, <2>4
  <1> QED BY <1>1 DEF Min

(***************************************************************************)
(* Heaps: sets of items, ordered by distance and then by node.             *)
(***************************************************************************)

Items == [k : Int, d : Int]

LEMMA LessIsAnOrder ==
    /\ \A x \in Items : ~Less(x, x)
    /\ \A x, y, z \in Items : Less(x, y) /\ Less(y, z) => Less(x, z)
    /\ \A x, y \in Items : x = y \/ Less(x, y) \/ Less(y, x)
  BY DEF Less, Items

Under(S, x) == {y \in S : Less(y, x)}

\* The items under a better one are fewer.
LEMMA UnderGrows ==
    ASSUME NEW S \in SUBSET Items, IsFiniteSet(S)
    PROVE  /\ \A x \in Items : IsFiniteSet(Under(S, x)) /\ Cardinality(Under(S, x)) \in Nat
           /\ \A x \in S, y \in Items : Less(x, y) =>
                Cardinality(Under(S, x)) < Cardinality(Under(S, y))
  <1>1. \A x \in Items : IsFiniteSet(Under(S, x)) /\ Cardinality(Under(S, x)) \in Nat
    <2> SUFFICES ASSUME NEW x \in Items
                 PROVE  IsFiniteSet(Under(S, x)) /\ Cardinality(Under(S, x)) \in Nat
      OBVIOUS
    <2>1. Under(S, x) \in SUBSET S
      BY DEF Under
    <2> QED BY <2>1, FS_Subset, FS_CardinalityType
  <1>2. ASSUME NEW x \in S, NEW y \in Items, Less(x, y)
        PROVE  Cardinality(Under(S, x)) < Cardinality(Under(S, y))
    <2>1. Under(S, x) \in SUBSET Under(S, y) /\ x \in Under(S, y) /\ x \notin Under(S, x)
      BY <1>2, LessIsAnOrder DEF Under
    <2>2. /\ Cardinality(Under(S, x)) <= Cardinality(Under(S, y))
          /\ Cardinality(Under(S, y)) = Cardinality(Under(S, x)) => Under(S, y) = Under(S, x)
      BY <1>1, <2>1, FS_Subset
    <2>3. Cardinality(Under(S, x)) \in Nat /\ Cardinality(Under(S, y)) \in Nat
      BY <1>1
    <2> QED BY <2>1, <2>2, <2>3
  <1> QED BY <1>1, <1>2

\* A heap that is not empty has a best and a worst item.
LEMMA BestIsBest ==
    ASSUME NEW S \in SUBSET Items, IsFiniteSet(S), S # {}
    PROVE  Best(S) \in S /\ \A y \in S : y = Best(S) \/ Less(Best(S), y)
  <1> DEFINE ranks == {Cardinality(Under(S, x)) : x \in S}
  <1>1. PICK r \in ranks : \A s \in ranks : r <= s
    <2>1. ranks \in SUBSET Nat /\ ranks # {}
      BY UnderGrows
    <2> HIDE DEF ranks
    <2> QED BY <2>1, LeastExists
  <1>2. PICK x \in S : r = Cardinality(Under(S, x))
    OBVIOUS
  <1>3. \A y \in S : y = x \/ Less(x, y)
    <2> SUFFICES ASSUME NEW y \in S, Less(y, x) PROVE FALSE
      BY LessIsAnOrder
    <2>1. Cardinality(Under(S, y)) < Cardinality(Under(S, x))
      BY UnderGrows
    <2>2. Cardinality(Under(S, x)) <= Cardinality(Under(S, y))
      BY <1>1, <1>2
    <2>3. Cardinality(Under(S, x)) \in Nat /\ Cardinality(Under(S, y)) \in Nat
      BY UnderGrows
    <2> QED BY <2>1, <2>2, <2>3
  <1> QED BY <1>3 DEF Best

LEMMA WorstIsWorst ==
    ASSUME NEW S \in SUBSET Items, IsFiniteSet(S), S # {}
    PROVE  Worst(S) \in S /\ \A y \in S : y = Worst(S) \/ Less(y, Worst(S))
  <1> DEFINE n == Cardinality(S)
             room == {n - Cardinality(Under(S, x)) : x \in S}
  <1>1. \A x \in S : Cardinality(Under(S, x)) \in Nat /\ n \in Nat /\ Cardinality(Under(S, x)) <= n
    <2> SUFFICES ASSUME NEW x \in S
                 PROVE  Cardinality(Under(S, x)) \in Nat /\ n \in Nat /\ Cardinality(Under(S, x)) <= n
      OBVIOUS
    <2>1. Under(S, x) \in SUBSET S
      BY DEF Under
    <2> QED BY <2>1, FS_Subset, FS_CardinalityType, UnderGrows
  <1>2. PICK r \in room : \A s \in room : r <= s
    <2>1. room \in SUBSET Nat /\ room # {}
      <3> HIDE DEF n
      <3> QED BY <1>1
    <2> HIDE DEF room
    <2> QED BY <2>1, LeastExists
  <1>3. PICK x \in S : r = n - Cardinality(Under(S, x))
    OBVIOUS
  <1>4. \A y \in S : y = x \/ Less(y, x)
    <2> SUFFICES ASSUME NEW y \in S, Less(x, y) PROVE FALSE
      BY LessIsAnOrder
    <2>1. Cardinality(Under(S, x)) < Cardinality(Under(S, y))
      BY UnderGrows
    <2>2. n - Cardinality(Under(S, x)) <= n - Cardinality(Under(S, y))
      BY <1>2, <1>3
    <2> HIDE DEF n
    <2> QED BY <2>1, <2>2, <1>1
  <1> QED BY <1>4 DEF Worst

\* What a heap of the best `cap` keeps: at most `cap` items; what it drops is
\* worse than all of a full heap; and what a heap keeps of more offers it
\* would have kept of fewer.
LEMMA BestOfKeepsTheBest ==
    ASSUME NEW S \in SUBSET Items, IsFiniteSet(S), NEW cap \in Nat \ {0}
    PROVE  /\ BestOf(S, cap) \in SUBSET S /\ IsFiniteSet(BestOf(S, cap))
           /\ Cardinality(BestOf(S, cap)) \in Nat /\ Cardinality(BestOf(S, cap)) <= cap
           /\ \A x \in S \ BestOf(S, cap) :
                Cardinality(BestOf(S, cap)) = cap /\ \A y \in BestOf(S, cap) : Less(y, x)
           /\ \A T \in SUBSET S : \A x \in T : x \in BestOf(S, cap) => x \in BestOf(T, cap)
  <1> DEFINE K == BestOf(S, cap)
  <1>1. \A x : x \in K <=> x \in S /\ Cardinality(Under(S, x)) < cap
    BY DEF BestOf, Under
  <1>2. K \in SUBSET S /\ IsFiniteSet(K) /\ Cardinality(K) \in Nat
    <2>1. K \in SUBSET S
      BY <1>1
    <2> HIDE DEF K
    <2> QED BY <2>1, FS_Subset, FS_CardinalityType
  <1>3. Cardinality(K) <= cap
    <2>1. CASE K = {}
      <3> HIDE DEF K
      <3> QED BY <2>1, FS_EmptySet
    <2>2. CASE K # {}
      <3> DEFINE w == Worst(K)
      <3>1. K \in SUBSET Items
        BY <1>2
      <3>2. w \in K /\ \A y \in K : y = w \/ Less(y, w)
        <4> HIDE DEF K
        <4> QED BY <3>1, <1>2, <2>2, WorstIsWorst
      <3>3. K \ {w} \in SUBSET Under(S, w)
        <4> HIDE DEF K, w
        <4> QED BY <3>2, <1>2 DEF Under
      <3>4. Cardinality(Under(S, w)) < cap /\ w \in Items
        <4> HIDE DEF K, w
        <4> QED BY <3>1, <3>2, <1>1
      <3>5. Cardinality(K \ {w}) = Cardinality(K) - 1
        <4> HIDE DEF K, w
        <4> QED BY <3>2, <1>2, FS_RemoveElement
      <3>6. Cardinality(K \ {w}) <= Cardinality(Under(S, w)) /\ Cardinality(Under(S, w)) \in Nat
        <4> HIDE DEF K, w
        <4> QED BY <3>3, <3>4, UnderGrows, FS_Subset
      <3> HIDE DEF K, w
      <3> QED BY <3>4, <3>5, <3>6, <1>2
    <2> QED BY <2>1, <2>2
  <1>4. ASSUME NEW x \in S \ K
        PROVE  Cardinality(K) = cap /\ \A y \in K : Less(y, x)
    <2>1. \A y \in S : Cardinality(Under(S, y)) \in Nat
      BY UnderGrows
    <2>2. \A y \in S \ K : ~(Cardinality(Under(S, y)) < cap)
      <3> HIDE DEF K
      <3> QED BY <1>1
    <2>3. ASSUME NEW y \in K, NEW z \in S \ K
          PROVE  Less(y, z)
      <3> HIDE DEF K
      <3>1. y \in S /\ Cardinality(Under(S, y)) < cap /\ y # z
        BY <1>1
      <3>2. ~Less(z, y)
        <4> SUFFICES ASSUME Less(z, y) PROVE FALSE
          OBVIOUS
        <4>1. Cardinality(Under(S, z)) < Cardinality(Under(S, y))
          BY <3>1, UnderGrows
        <4> QED BY <4>1, <2>1, <2>2, <3>1
      <3> QED BY <3>1, <3>2, LessIsAnOrder
    <2> DEFINE b == Best(S \ K)
    <2>4. b \in S \ K /\ \A y \in S \ K : y = b \/ Less(b, y)
      <3> HIDE DEF K
      <3>1. S \ K \in SUBSET S /\ S \ K # {}
        OBVIOUS
      <3>2. IsFiniteSet(S \ K)
        BY <3>1, FS_Subset
      <3> QED BY <3>1, <3>2, BestIsBest
    <2>5. Under(S, b) \in SUBSET K
      <3> HIDE DEF K, b
      <3> QED BY <2>4, LessIsAnOrder DEF Under
    <2> HIDE DEF K, b
    <2>6. Cardinality(Under(S, b)) <= Cardinality(K)
      BY <2>5, <1>2, FS_Subset
    <2>7. Cardinality(K) = cap
      BY <2>6, <2>4, <2>1, <2>2, <1>2, <1>3
    <2> QED BY <2>3, <2>7
  <1>5. ASSUME NEW T \in SUBSET S, NEW x \in T, x \in K
        PROVE  x \in BestOf(T, cap)
    <2>1. Under(T, x) \in SUBSET Under(S, x)
      BY DEF Under
    <2>2. IsFiniteSet(Under(S, x)) /\ Cardinality(Under(S, x)) \in Nat
      BY UnderGrows
    <2>3. Cardinality(Under(T, x)) <= Cardinality(Under(S, x)) /\ IsFiniteSet(Under(T, x))
      BY <2>1, <2>2, FS_Subset
    <2>4. Cardinality(Under(T, x)) \in Nat
      BY <2>3, FS_CardinalityType
    <2>5. Cardinality(Under(S, x)) < cap
      <3> HIDE DEF K
      <3> QED BY <1>1, <1>5
    <2>6. Cardinality(Under(T, x)) < cap
      BY <2>2, <2>3, <2>4, <2>5
    <2> QED BY <2>6 DEF BestOf, Under
  <1> QED BY <1>2, <1>3, <1>4, <1>5

\* What a full heap has dropped it would drop again: more offers only make it
\* better.
LEMMA DroppedForGood ==
    ASSUME NEW K \in SUBSET Items, NEW S \in SUBSET Items, IsFiniteSet(S), K \subseteq S,
           NEW cap \in Nat \ {0}, IsFiniteSet(K), Cardinality(K) = cap,
           NEW x \in Items, \A y \in K : Less(y, x)
    PROVE  Cardinality(BestOf(S, cap)) = cap /\ \A y \in BestOf(S, cap) : Less(y, x)
  <1> DEFINE B == BestOf(S, cap)
  <1>1. /\ B \in SUBSET S /\ IsFiniteSet(B) /\ Cardinality(B) \in Nat /\ Cardinality(B) <= cap
        /\ \A z \in S \ B : Cardinality(B) = cap
    BY BestOfKeepsTheBest
  <1>2. Cardinality(B) = cap
    <2>1. CASE S \subseteq B
      <3>1. K \in SUBSET B
        BY <2>1
      <3>2. Cardinality(K) <= Cardinality(B)
        <4> HIDE DEF B
        <4> QED BY <3>1, <1>1, FS_Subset
      <3> HIDE DEF B
      <3> QED BY <3>2, <1>1
    <2>2. CASE ~(S \subseteq B)
      <3> HIDE DEF B
      <3> QED BY <2>2, <1>1
    <2> QED BY <2>1, <2>2
  <1>3. ASSUME NEW y \in B
        PROVE  Less(y, x)
    <2> SUFFICES ASSUME ~Less(y, x) PROVE FALSE
      OBVIOUS
    <2>1. y \in S /\ Cardinality(Under(S, y)) < cap
      BY DEF BestOf, Under
    <2>2. y = x \/ Less(x, y)
      BY <2>1, LessIsAnOrder
    <2>3. K \in SUBSET Under(S, y)
      BY <2>1, <2>2, LessIsAnOrder DEF Under
    <2>4. IsFiniteSet(Under(S, y)) /\ Cardinality(Under(S, y)) \in Nat
      BY <2>1, UnderGrows
    <2>5. Cardinality(K) <= Cardinality(Under(S, y))
      BY <2>3, <2>4, FS_Subset
    <2> QED BY <2>1, <2>4, <2>5
  <1> QED BY <1>2, <1>3

LEMMA SequenceIsFinite ==
    ASSUME NEW T, NEW s \in Seq(T)
    PROVE  IsFiniteSet(DOMAIN s) /\ ToSet(s) \subseteq T /\ IsFiniteSet(ToSet(s))
  <1>1. DOMAIN s = 1 .. Len(s) /\ Len(s) \in Nat /\ \A i \in DOMAIN s : s[i] \in T
    OBVIOUS
  <1>2. IsFiniteSet(DOMAIN s)
    BY <1>1, FS_Interval
  <1>3. IsFiniteSet({s[i] : i \in DOMAIN s})
    BY <1>2, ImageIsFinite
  <1> QED BY <1>1, <1>2, <1>3 DEF ToSet

(***************************************************************************)
(* Distances and entry points.                                             *)
(***************************************************************************)

View == IndexView(idx) /\ q \in Queries

LEMMA DistancesAreNumbers ==
    ASSUME View, NEW k \in Nodes
    PROVE  /\ ScoreNode(k) \in Int /\ ExactVectorDistance(k) \in Int
           /\ EntryDistance(k) \in Int /\ SampleDistance(k) \in Int
           /\ HasExactVector \/ (EntryDistance(k) = ScoreNode(k) /\ SampleDistance(k) = ScoreNode(k))
  <1>1. ScoreNode(k) \in Int /\ ExactVectorDistance(k) \in Int
    BY DEF View, IndexView, Nodes, ScoreNode, ExactVectorDistance
  <1> QED BY <1>1 DEF EntryDistance, SampleDistance, UseExactLowBitRouting, UseExactHighdimL2Entry

LEMMA PointsAreItems == IndexView(idx) => Points \subseteq Items /\ ScoredPoints \subseteq Points
  BY DEF Points, ScoredPoints, Items, Nodes, IndexView

\* The distances under which nodes become entry points.
LEMMA NodesBecomePoints ==
    ASSUME View, NEW k \in Nodes
    PROVE  /\ Item(k, ScoreNode(k)) \in ScoredPoints /\ Item(k, Unscored) \in ScoredPoints
           /\ Item(k, EntryDistance(k)) \in ScoredPoints /\ Item(k, SampleDistance(k)) \in ScoredPoints
  <1>1. Unscored \in Int
    BY SearchAssumption DEF Unscored
  <1> HIDE DEF Unscored
  <1> QED BY <1>1, DistancesAreNumbers DEF Item, Points, ScoredPoints

\* Lists of entry points: each node once.
PointLists == {es \in Seq(ScoredPoints) : UniqueKeys(es)}

\* A greedy move goes to a neighbour.
LEMMA GreedyMove ==
    ASSUME View, NEW at \in ScoredPoints, NEW level \in 0 .. idx.maxLevel, Closer(at, level) # {}
    PROVE  Item(idx.adj[level][at.k][Best(Closer(at, level)).k], Best(Closer(at, level)).d) \in ScoredPoints
  <1> DEFINE adj == idx.adj[level][at.k]
             near == {i \in DOMAIN adj : adj[i] \in Nodes /\ idx.level[adj[i]] >= level}
             close == {j \in near : EntryDistance(adj[j]) < at.d}
             f == [i \in close |-> Item(i, EntryDistance(adj[i]))]
             C == Closer(at, level)
  <1>1. adj \in Seq(Nat)
    BY DEF View, IndexView, ScoredPoints, Points, Nodes
  <1>2. C = {f[i] : i \in close}
    BY DEF Closer
  <1>3. close \in SUBSET DOMAIN adj /\ \A i \in close : adj[i] \in Nodes /\ i \in Nat
    BY <1>1
  <1>4. IsFiniteSet(C)
    <2> HIDE DEF f, close, adj, C
    <2>1. IsFiniteSet(close)
      BY <1>1, <1>3, SequenceIsFinite, FS_Subset
    <2> QED BY <1>2, <2>1, ImageIsFinite
  <1>5. \A c \in C : c \in Items /\ adj[c.k] \in Nodes /\ c.d = EntryDistance(adj[c.k])
    <2> SUFFICES ASSUME NEW c \in C
                 PROVE  c \in Items /\ adj[c.k] \in Nodes /\ c.d = EntryDistance(adj[c.k])
      OBVIOUS
    <2>1. PICK i \in close : c = f[i]
      <3> HIDE DEF f, close, C
      <3> QED BY <1>2
    <2>2. c = Item(i, EntryDistance(adj[i]))
      BY <2>1
    <2> HIDE DEF f, close, C, adj
    <2>3. EntryDistance(adj[i]) \in Int
      BY <1>3, DistancesAreNumbers
    <2> QED BY <2>2, <2>3, <1>3 DEF Item, Items
  <1>6. Best(C) \in C
    <2> HIDE DEF C
    <2> QED BY <1>4, <1>5, BestIsBest DEF C
  <1> HIDE DEF adj, C
  <1>7. Item(adj[Best(C).k], Best(C).d) \in ScoredPoints
    BY <1>5, <1>6, NodesBecomePoints
  <1> QED BY <1>7 DEF adj, C

LEMMA GreedySearchEndsAtANode ==
    ASSUME View, NEW cur \in ScoredPoints, NEW level \in 0 .. idx.maxLevel
    PROVE  ScanGreedySearch(cur, level) \in ScoredPoints
  <1> DEFINE n == idx.n
             move(at) == IF Closer(at, level) = {} THEN at
                         ELSE Item(idx.adj[level][at.k][Best(Closer(at, level)).k],
                                   Best(Closer(at, level)).d)
             F == [i \in 1 .. n |-> [at \in ScoredPoints |-> move(at)]]
             Q(f) == f = [i \in 0 .. n |-> IF i = 0 THEN cur ELSE move(f[i - 1])]
             after == CHOOSE f : Q(f)
  <1>1. n \in Nat
    BY DEF View, IndexView
  <1>2. \A at \in ScoredPoints : move(at) \in ScoredPoints
    BY GreedyMove
  <1>3. ScanGreedySearch(cur, level) = after[n]
    BY DEF ScanGreedySearch
  <1>4. /\ F \in [1 .. n -> [ScoredPoints -> ScoredPoints]]
        /\ \A i \in 1 .. n : \A at \in ScoredPoints : F[i][at] = move(at)
    BY <1>2
  <1> HIDE DEF move, n, F, Q, after
  <1>5. PICK h \in [0 .. n -> ScoredPoints] : h[0] = cur /\ \A i \in 1 .. n : h[i] = F[i][h[i - 1]]
    BY <1>1, <1>4, StepByStep
  <1>6. Q(h)
    <2>1. \A i \in 1 .. n : h[i - 1] \in ScoredPoints
      BY <1>1, <1>5
    <2>2. \A i \in 1 .. n : h[i] = move(h[i - 1])
      BY <1>4, <1>5, <2>1
    <2> QED BY <1>1, <1>5, <2>2 DEF Q
  <1>7. Q(after)
    BY <1>6 DEF after
  <1>8. after[0] \in ScoredPoints /\ \A i \in 1 .. n : after[i - 1] \in ScoredPoints => after[i] \in ScoredPoints
    BY <1>1, <1>2, <1>7 DEF Q
  <1>9. \A i \in 0 .. n : after[i] \in ScoredPoints
    BY <1>1, <1>8, StepsStay
  <1> QED BY <1>1, <1>3, <1>9

LEMMA DescentEndsAtANode ==
    ASSUME View, idx.n > 0
    PROVE  Descend \in ScoredPoints
  <1> DEFINE n == idx.maxLevel
             start == Item(EntryNode, EntryDistance(EntryNode))
             down(i, at) == LET level == idx.maxLevel - i + 1
                            IN IF idx.level[at.k] >= level THEN ScanGreedySearch(at, level) ELSE at
             F == [i \in 1 .. n |-> [at \in ScoredPoints |-> down(i, at)]]
             Q(f) == f = [i \in 0 .. n |-> IF i = 0 THEN start ELSE down(i, f[i - 1])]
             after == CHOOSE f : Q(f)
  <1>1. n \in Nat /\ idx.n \in Nat
    BY DEF View, IndexView
  <1>2. start \in ScoredPoints
    <2>1. EntryNode \in Nodes
      BY <1>1 DEF EntryNode, Nodes
    <2> QED BY <2>1, NodesBecomePoints
  <1>3. \A i \in 1 .. n, at \in ScoredPoints : down(i, at) \in ScoredPoints
    <2> SUFFICES ASSUME NEW i \in 1 .. n, NEW at \in ScoredPoints PROVE down(i, at) \in ScoredPoints
      OBVIOUS
    <2>1. idx.maxLevel - i + 1 \in 0 .. idx.maxLevel
      BY <1>1
    <2>2. ScanGreedySearch(at, idx.maxLevel - i + 1) \in ScoredPoints
      BY <2>1, GreedySearchEndsAtANode
    <2> QED BY <2>2
  <1>4. Descend = after[n]
    BY DEF Descend
  <1>5. /\ F \in [1 .. n -> [ScoredPoints -> ScoredPoints]]
        /\ \A i \in 1 .. n : \A at \in ScoredPoints : F[i][at] = down(i, at)
    BY <1>3
  <1> HIDE DEF down, n, F, Q, after, start
  <1>6. PICK h \in [0 .. n -> ScoredPoints] : h[0] = start /\ \A i \in 1 .. n : h[i] = F[i][h[i - 1]]
    BY <1>1, <1>2, <1>5, StepByStep
  <1>7. Q(h)
    <2>1. \A i \in 1 .. n : h[i - 1] \in ScoredPoints
      BY <1>1, <1>6
    <2>2. \A i \in 1 .. n : h[i] = down(i, h[i - 1])
      BY <1>5, <1>6, <2>1
    <2> QED BY <1>1, <1>6, <2>2 DEF Q
  <1>8. Q(after)
    BY <1>7 DEF after
  <1>9. after[0] \in ScoredPoints /\ \A i \in 1 .. n : after[i - 1] \in ScoredPoints => after[i] \in ScoredPoints
    BY <1>1, <1>2, <1>3, <1>8 DEF Q
  <1>10. \A i \in 0 .. n : after[i] \in ScoredPoints
    BY <1>1, <1>9, StepsStay
  <1> QED BY <1>1, <1>4, <1>10

\* Offering a node to the entry points leaves entry points.
LEMMA OffersKeepPoints ==
    ASSUME View, NEW es \in PointLists
    PROVE  /\ \A k \in Nodes : OfferLevelEntry(es, k) \in PointLists
           /\ \A e \in ScoredPoints : OfferDistanceEntry(es, e) \in PointLists
           /\ ScoreLevelEntries(es) \in PointLists
  <1>1. /\ es \in Seq(ScoredPoints) /\ UniqueKeys(es)
        /\ DOMAIN es = 1 .. Len(es) /\ Len(es) \in Nat /\ \A i \in DOMAIN es : es[i] \in ScoredPoints
    BY DEF PointLists
  <1>2. ASSUME NEW f, DOMAIN f = DOMAIN es, \A i \in DOMAIN es : f[i] \in ScoredPoints,
               f = [i \in DOMAIN f |-> f[i]], UniqueKeys(f)
        PROVE  f \in PointLists
    <2>1. DOMAIN f = 1 .. Len(es) /\ Len(es) \in Nat
      BY <1>1, <1>2
    <2>2. f \in [1 .. Len(es) -> ScoredPoints]
      BY <1>2, <2>1
    <2>3. f \in Seq(ScoredPoints)
      BY <2>1, <2>2
    <2> QED BY <1>2, <2>3 DEF PointLists
  <1>3. ASSUME NEW e \in ScoredPoints, ~EntryAlreadySelected(es, e.k)
        PROVE  Append(es, e) \in PointLists
    <2> DEFINE f == Append(es, e)
    <2>1. /\ f \in Seq(ScoredPoints) /\ DOMAIN f = 1 .. Len(es) + 1
          /\ f[Len(es) + 1] = e /\ \A i \in DOMAIN es : f[i] = es[i]
      BY <1>1
    <2> HIDE DEF f
    <2>2. \A i \in DOMAIN f : i \in DOMAIN es \/ i = Len(es) + 1
      BY <1>1, <2>1
    <2>3. UniqueKeys(f)
      BY <1>1, <1>3, <2>1, <2>2 DEF UniqueKeys, EntryAlreadySelected
    <2> QED BY <2>1, <2>3 DEF PointLists, f
  <1>4. ASSUME NEW e \in ScoredPoints, ~EntryAlreadySelected(es, e.k), NEW w
        PROVE  [es EXCEPT ![w] = e] \in PointLists
    <2> DEFINE f == [es EXCEPT ![w] = e]
    <2>1. DOMAIN f = DOMAIN es /\ f = [i \in DOMAIN f |-> f[i]]
      OBVIOUS
    <2>2. \A i \in DOMAIN es : f[i] = IF i = w THEN e ELSE es[i]
      OBVIOUS
    <2> HIDE DEF f
    <2>3. UniqueKeys(f)
      BY <1>1, <1>4, <2>1, <2>2 DEF UniqueKeys, EntryAlreadySelected
    <2>4. f \in PointLists
      BY <1>1, <1>2, <2>1, <2>2, <2>3
    <2> QED BY <2>4 DEF f
  <1>5. ASSUME NEW k \in Nodes
        PROVE  OfferLevelEntry(es, k) \in PointLists
    <2> DEFINE new == Item(k, Unscored)
               lower(a, b) == idx.level[a.k] < idx.level[b.k]
                              \/ (idx.level[a.k] = idx.level[b.k] /\ a.k > b.k)
               worst == CHOOSE i \in DOMAIN es : \A j \in DOMAIN es : j = i \/ lower(es[i], es[j])
    <2>1. new \in ScoredPoints /\ new.k = k
      BY NodesBecomePoints DEF Item
    <2>2. IF EntryAlreadySelected(es, k) THEN OfferLevelEntry(es, k) = es
          ELSE OfferLevelEntry(es, k) \in {es, Append(es, new), [es EXCEPT ![worst] = new]}
      BY DEF OfferLevelEntry
    <2> HIDE DEF new, worst
    <2> QED BY <1>3, <1>4, <2>1, <2>2
  <1>6. ASSUME NEW e \in ScoredPoints
        PROVE  OfferDistanceEntry(es, e) \in PointLists
    <2> DEFINE f == [i \in DOMAIN es |-> IF es[i].k = e.k /\ e.d < es[i].d THEN e ELSE es[i]]
               worst == CHOOSE i \in DOMAIN es :
                          /\ \A j \in DOMAIN es : es[j].d <= es[i].d
                          /\ \A j \in 1..(i - 1) : es[j].d < es[i].d
    <2>1. IF EntryAlreadySelected(es, e.k) THEN OfferDistanceEntry(es, e) = f
          ELSE OfferDistanceEntry(es, e) \in {es, Append(es, e), [es EXCEPT ![worst] = e]}
      BY DEF OfferDistanceEntry
    <2>2. f \in PointLists
      <3>1. /\ DOMAIN f = DOMAIN es /\ f = [i \in DOMAIN f |-> f[i]]
            /\ \A i \in DOMAIN es : f[i] \in ScoredPoints /\ f[i].k = es[i].k
        BY <1>1
      <3> HIDE DEF f
      <3>2. UniqueKeys(f)
        BY <1>1, <3>1 DEF UniqueKeys
      <3> QED BY <1>2, <3>1, <3>2
    <2> HIDE DEF f, worst
    <2> QED BY <1>3, <1>4, <2>1, <2>2
  <1>7. ScoreLevelEntries(es) \in PointLists
    <2> DEFINE f == ScoreLevelEntries(es)
    <2>1. DOMAIN f = DOMAIN es /\ f = [i \in DOMAIN f |-> f[i]]
      BY DEF ScoreLevelEntries
    <2>2. ASSUME NEW i \in DOMAIN es
          PROVE  f[i] \in ScoredPoints /\ f[i].k = es[i].k
      <3>1. es[i] \in ScoredPoints
        BY <1>1
      <3>2. es[i].k \in Nodes
        BY <3>1 DEF ScoredPoints, Points
      <3>3. Item(es[i].k, ScoreNode(es[i].k)) \in ScoredPoints
        BY <3>2, NodesBecomePoints
      <3>4. f[i] = IF i = 1 THEN es[1] ELSE Item(es[i].k, ScoreNode(es[i].k))
        BY DEF ScoreLevelEntries
      <3> QED BY <3>1, <3>3, <3>4 DEF Item
    <2> HIDE DEF f
    <2>3. UniqueKeys(f)
      BY <1>1, <2>1, <2>2 DEF UniqueKeys
    <2>4. f \in PointLists
      BY <1>2, <2>1, <2>2, <2>3
    <2> QED BY <2>4 DEF f
  <1> QED BY <1>5, <1>6, <1>7

\* Distances that make a node an entry point.
Scoring(distance) == \A k \in Nodes : Item(k, distance[k]) \in ScoredPoints

LEMMA DistanceEntriesArePoints ==
    ASSUME NEW es, NEW nodes, NEW distance
    PROVE  View /\ es \in PointLists /\ Len(nodes) \in Nat /\ Scoring(distance) =>
             OfferDistanceEntries(es, nodes, distance) \in PointLists
  <1> DEFINE n == Len(nodes)
             Lists == PointLists
             start == es
             offered(i) == nodes[i] \in Nodes /\ ~EntryAlreadySelected(es, nodes[i])
             offer(i, at) ==
               IF offered(i) THEN OfferDistanceEntry(at, Item(nodes[i], distance[nodes[i]])) ELSE at
             F == [i \in 1 .. n |-> [at \in Lists |-> offer(i, at)]]
             Q(f) == f = [i \in 0 .. n |-> IF i = 0 THEN start ELSE offer(i, f[i - 1])]
             after == CHOOSE f : Q(f)
  <1>1. SUFFICES ASSUME View, es \in PointLists, Len(nodes) \in Nat, Scoring(distance)
                 PROVE  OfferDistanceEntries(es, nodes, distance) \in PointLists
    OBVIOUS
  <1>2. n \in Nat
    BY <1>1
  <1>3. \A i \in 1 .. n, at \in Lists : offer(i, at) \in Lists
    <2> SUFFICES ASSUME NEW i \in 1 .. n, NEW at \in Lists, offered(i)
                 PROVE  OfferDistanceEntry(at, Item(nodes[i], distance[nodes[i]])) \in Lists
      OBVIOUS
    <2>1. Item(nodes[i], distance[nodes[i]]) \in ScoredPoints
      BY <1>1 DEF Scoring
    <2> QED BY <1>1, <2>1, OffersKeepPoints
  <1>4. OfferDistanceEntries(es, nodes, distance) = after[n]
    BY DEF OfferDistanceEntries
  <1>5. /\ F \in [1 .. n -> [Lists -> Lists]]
        /\ \A i \in 1 .. n : \A at \in Lists : F[i][at] = offer(i, at)
    <2> HIDE DEF Lists, n
    <2> QED BY <1>3
  <1>6. start \in Lists
    BY <1>1
  <1> HIDE DEF start, offer, n, F, Q, after, Lists
  <1>7. F \in [1 .. n -> [Lists -> Lists]]
    BY <1>5
  <1>8. PICK h \in [0 .. n -> Lists] : h[0] = start /\ \A i \in 1 .. n : h[i] = F[i][h[i - 1]]
    BY <1>2, <1>6, <1>7, StepByStep
  <1>9. Q(h)
    <2>1. \A i \in 1 .. n : h[i - 1] \in Lists
      BY <1>2, <1>8
    <2>2. \A i \in 1 .. n : h[i] = offer(i, h[i - 1])
      BY <1>5, <1>8, <2>1
    <2> QED BY <1>2, <1>8, <2>2 DEF Q
  <1>10. Q(after)
    BY <1>9 DEF after
  <1>11. after[0] \in Lists /\ \A i \in 1 .. n : after[i - 1] \in Lists => after[i] \in Lists
    BY <1>2, <1>3, <1>6, <1>10 DEF Q
  <1>12. \A i \in 0 .. n : after[i] \in Lists
    BY <1>2, <1>11, StepsStay
  <1> QED BY <1>2, <1>4, <1>12 DEF Lists

LEMMA LevelEntriesArePoints ==
    ASSUME View, NEW entry \in ScoredPoints
    PROVE  LevelEntries(entry) \in PointLists
  <1> DEFINE segments == Len(idx.segments)
             nodes == [i \in 1..(segments + Len(idx.routing)) |->
                         IF i <= segments THEN idx.segments[i].entry ELSE idx.routing[i - segments]]
             n == Len(nodes)
             Lists == PointLists
             start == <<entry>>
             offered(i) == /\ nodes[i] \in Nodes \ {entry.k}
                           /\ i > segments => Live(nodes[i]) /\ idx.level[nodes[i]] > 0
             offer(i, at) == IF offered(i) THEN OfferLevelEntry(at, nodes[i]) ELSE at
             F == [i \in 1 .. n |-> [at \in Lists |-> offer(i, at)]]
             Q(f) == f = [i \in 0 .. n |-> IF i = 0 THEN start ELSE offer(i, f[i - 1])]
             after == CHOOSE f : Q(f)
  <1>1. n \in Nat
    <2>1. segments \in Nat /\ Len(idx.routing) \in Nat
      BY DEF View, IndexView
    <2>2. segments + Len(idx.routing) \in Nat
      <3> HIDE DEF segments
      <3> QED BY <2>1
    <2> HIDE DEF segments
    <2> QED BY <2>2
  <1>2. \A i \in 1 .. n, at \in Lists : offer(i, at) \in Lists
    <2> SUFFICES ASSUME NEW i \in 1 .. n, NEW at \in Lists, offered(i)
                 PROVE  OfferLevelEntry(at, nodes[i]) \in Lists
      OBVIOUS
    <2>1. nodes[i] \in Nodes
      OBVIOUS
    <2> HIDE DEF nodes
    <2> QED BY <2>1, OffersKeepPoints
  <1>3. LevelEntries(entry) = ScoreLevelEntries(after[n])
    BY DEF LevelEntries
  <1>4. /\ F \in [1 .. n -> [Lists -> Lists]]
        /\ \A i \in 1 .. n : \A at \in Lists : F[i][at] = offer(i, at)
    <2> HIDE DEF Lists, n, offered
    <2> QED BY <1>2
  <1>5. start \in Lists
    <2>1. start \in Seq(ScoredPoints) /\ DOMAIN start = {1}
      OBVIOUS
    <2> QED BY <2>1 DEF UniqueKeys, PointLists
  <1> HIDE DEF start, offer, n, F, Q, after, Lists
  <1>6. F \in [1 .. n -> [Lists -> Lists]]
    BY <1>4
  <1>7. PICK h \in [0 .. n -> Lists] : h[0] = start /\ \A i \in 1 .. n : h[i] = F[i][h[i - 1]]
    BY <1>1, <1>5, <1>6, StepByStep
  <1>8. Q(h)
    <2>1. \A i \in 1 .. n : h[i - 1] \in Lists
      BY <1>1, <1>7
    <2>2. \A i \in 1 .. n : h[i] = offer(i, h[i - 1])
      BY <1>4, <1>7, <2>1
    <2> QED BY <1>1, <1>7, <2>2 DEF Q
  <1>9. Q(after)
    BY <1>8 DEF after
  <1>10. after[0] \in Lists /\ \A i \in 1 .. n : after[i - 1] \in Lists => after[i] \in Lists
    BY <1>1, <1>2, <1>5, <1>9 DEF Q
  <1>11. \A i \in 0 .. n : after[i] \in Lists
    BY <1>1, <1>10, StepsStay
  <1>12. after[n] \in PointLists
    BY <1>1, <1>11 DEF Lists
  <1> QED BY <1>3, <1>12, OffersKeepPoints

LEMMA RankedIsAList ==
    ASSUME NEW S, IsFiniteSet(S)
    PROVE  DOMAIN Ranked(S) = 1 .. Cardinality(S) /\ Cardinality(S) \in Nat
  BY FS_CardinalityType DEF Ranked

\* Items for a finite set of nodes.
LEMMA ItemsAreFinite ==
    ASSUME NEW K, IsFiniteSet(K), NEW f
    PROVE  IsFiniteSet({Item(k, f[k]) : k \in K})
  <1> DEFINE g == [k \in K |-> Item(k, f[k])]
  <1>1. {g[k] : k \in K} = {Item(k, f[k]) : k \in K}
    OBVIOUS
  <1> HIDE DEF g
  <1> QED BY <1>1, ImageIsFinite

LEMMA NodesAreFinite == View => IsFiniteSet(Nodes)
  <1> SUFFICES ASSUME View PROVE IsFiniteSet(Nodes)
    OBVIOUS
  <1> DEFINE m == idx.n - 1
  <1>1. m \in Int /\ Nodes = 0 .. m
    BY DEF View, IndexView, Nodes
  <1> HIDE DEF m
  <1> QED BY <1>1, FS_Interval

LEMMA SamplesArePoints ==
    ASSUME View, NEW es, NEW ef \in Nat
    PROVE  es \in PointLists => SampleEntries(es, ef) \in PointLists
  <1>1. SUFFICES ASSUME es \in PointLists PROVE SampleEntries(es, ef) \in PointLists
    OBVIOUS
  <1> DEFINE wanted == IF idx.l2 /\ HighDim /\ idx.bits = 4 THEN Max({MaxEntryPoints, ef \div 4}) ELSE ef
             count == Min({idx.n, Min({EntrySampleCount, Max({wanted, MaxEntryPoints})})})
             spaced == ToSet(EvenlySpaced(count, idx.n))
             fresh == {k \in spaced : ~EntryAlreadySelected(es, k)}
             items == {Item(k, SampleDistance(k)) : k \in fresh}
             sampled == Ranked(items)
             nodes == [i \in DOMAIN sampled |-> sampled[i].k]
             distance == [k \in Nodes |-> SampleDistance(k)]
  <1>2. count \in Int
    <2>1. wanted \in Int
      <3>1. MaxEntryPoints \in Int /\ ef \div 4 \in Int
        BY SearchAssumption
      <3>2. Max({MaxEntryPoints, ef \div 4}) \in Int
        BY <3>1, MaxOfTwo
      <3> QED BY <3>2
    <2> HIDE DEF wanted
    <2>2. MaxEntryPoints \in Int /\ EntrySampleCount \in Int /\ idx.n \in Int
      BY SearchAssumption DEF View, IndexView
    <2>3. Max({wanted, MaxEntryPoints}) \in Int
      BY <2>1, <2>2, MaxOfTwo
    <2>4. Min({EntrySampleCount, Max({wanted, MaxEntryPoints})}) \in Int
      BY <2>2, <2>3, MinOfTwo
    <2> QED BY <2>2, <2>4, MinOfTwo
  <1>3. IsFiniteSet(items)
    <2> HIDE DEF count
    <2>1. IsFiniteSet(1 .. count)
      BY <1>2, FS_Interval
    <2> DEFINE e == EvenlySpaced(count, idx.n)
    <2>2. DOMAIN e = 1 .. count
      BY DEF EvenlySpaced
    <2>3. IsFiniteSet(spaced)
      <3> HIDE DEF e
      <3>1. IsFiniteSet({e[i] : i \in DOMAIN e})
        BY <2>1, <2>2, ImageIsFinite
      <3> QED BY <3>1 DEF e, ToSet
    <2>4. IsFiniteSet(fresh)
      <3>1. fresh \in SUBSET spaced
        OBVIOUS
      <3> HIDE DEF spaced, fresh
      <3> QED BY <2>3, <3>1, FS_Subset
    <2> HIDE DEF fresh
    <2> DEFINE f == [k \in fresh |-> SampleDistance(k)]
    <2>5. items = {Item(k, f[k]) : k \in fresh}
      OBVIOUS
    <2> HIDE DEF f, items
    <2> QED BY <2>4, <2>5, ItemsAreFinite
  <1>4. Len(nodes) \in Nat
    <2> HIDE DEF items
    <2>1. DOMAIN nodes = 1 .. Cardinality(items) /\ Cardinality(items) \in Nat
      BY <1>3, RankedIsAList
    <2> HIDE DEF sampled
    <2> QED BY <2>1
  <1>5. Scoring(distance)
    BY NodesBecomePoints DEF Scoring
  <1>6. SampleEntries(es, ef) \in {es, OfferDistanceEntries(es, nodes, distance)}
    BY DEF SampleEntries
  <1> HIDE DEF nodes, distance
  <1>7. OfferDistanceEntries(es, nodes, distance) \in PointLists
    BY <1>1, <1>4, <1>5, DistanceEntriesArePoints
  <1> QED BY <1>1, <1>6, <1>7

LEMMA SeedsArePoints ==
    ASSUME View, NEW es
    PROVE  es \in PointLists => AddPayloadEntrySeeds(es) \in PointLists
  <1>1. SUFFICES ASSUME es \in PointLists PROVE AddPayloadEntrySeeds(es) \in PointLists
    OBVIOUS
  <1> DEFINE count == Min({PayloadSeedCount, Len(RefSeq)})
             spread == [i \in 1..count |-> RefSeq[EvenlySpaced(count, Len(RefSeq))[i] + 1]]
  <1>2. Len(RefSeq) \in Nat
    <2> DEFINE items == {Item(k, 0) : k \in PayloadRefs}
               r == Ranked(items)
    <2>1. IsFiniteSet(PayloadRefs)
      <3>1. PayloadRefs \in SUBSET Nodes
        BY DEF PayloadRefs
      <3> QED BY <3>1, NodesAreFinite, FS_Subset
    <2>2. IsFiniteSet(items)
      <3> DEFINE f == [k \in PayloadRefs |-> 0]
      <3>1. items = {Item(k, f[k]) : k \in PayloadRefs}
        OBVIOUS
      <3> HIDE DEF f, items
      <3> QED BY <2>1, <3>1, ItemsAreFinite
    <2>3. DOMAIN RefSeq = DOMAIN r
      BY DEF RefSeq
    <2> HIDE DEF items
    <2>4. DOMAIN RefSeq = 1 .. Cardinality(items) /\ Cardinality(items) \in Nat
      BY <2>2, <2>3, RankedIsAList
    <2> QED BY <2>4
  <1>3. count \in Nat
    <2> DEFINE m == Len(RefSeq)
    <2>1. PayloadSeedCount \in Nat /\ m \in Nat /\ PayloadSeedCount \in Int /\ m \in Int
      BY <1>2, SearchAssumption
    <2> HIDE DEF m
    <2>2. Min({PayloadSeedCount, m}) \in {PayloadSeedCount, m}
      BY <2>1, MinOfTwo
    <2>3. Min({PayloadSeedCount, m}) \in Nat
      BY <2>1, <2>2
    <2> QED BY <2>3 DEF m
  <1>4. Len(spread) \in Nat
    <2> HIDE DEF count
    <2> QED BY <1>3
  <1>5. Scoring(Scores)
    BY NodesBecomePoints DEF Scoring, Scores
  <1>6. AddPayloadEntrySeeds(es) \in {es, OfferDistanceEntries(es, spread, Scores)}
    BY DEF AddPayloadEntrySeeds
  <1> HIDE DEF spread
  <1>7. OfferDistanceEntries(es, spread, Scores) \in PointLists
    BY <1>1, <1>4, <1>5, DistanceEntriesArePoints
  <1> QED BY <1>1, <1>6, <1>7

\* The entry points of the base layer are nodes of the index, with distances.
LEMMA EntriesArePoints ==
    ASSUME View, idx.n > 0, NEW ef \in Nat
    PROVE  Entries(ef).points \in PointLists
  <1> DEFINE seeded == AddPayloadEntrySeeds(SampleEntries(LevelEntries(Descend), ef))
  <1>1. LevelEntries(Descend) \in PointLists
    BY DescentEndsAtANode, LevelEntriesArePoints
  <1>2. SampleEntries(LevelEntries(Descend), ef) \in PointLists
    BY <1>1, SamplesArePoints
  <1>3. seeded \in PointLists
    BY <1>2, SeedsArePoints
  <1>4. Scoring(Scores) /\ Len(idx.sidecar) \in Nat
    BY NodesBecomePoints DEF Scoring, Scores, View, IndexView
  <1>5. Entries(ef).points = OfferDistanceEntries(seeded, idx.sidecar, Scores)
    BY DEF Entries
  <1> HIDE DEF seeded
  <1> QED BY <1>3, <1>4, <1>5, DistanceEntriesArePoints

(***************************************************************************)
(* Targets and widths of a pass.                                           *)
(***************************************************************************)

Parameters ==
    /\ EfSearch \in Nat \ {0} /\ Oversampling \in Nat \ {0} /\ DefaultFinalK \in Nat \ {0}
    /\ MaxScanTuples \in Nat \ {0} /\ TightFillMult \in Nat \ {0}

LEMMA ParametersAreNumbers ==
    /\ Parameters
    /\ EfSearch \in Int /\ Oversampling \in Int /\ DefaultFinalK \in Int
    /\ MaxScanTuples \in Int /\ TightFillMult \in Int
    /\ 0 \in Int /\ 1 \in Int /\ 2 \in Int
  BY SearchAssumption DEF Parameters

LEMMA ResultTargetIsPositive ==
    ASSUME View, idx.n > 0
    PROVE  ResultTarget \in Nat \ {0}
  <1>1. q.limit \in Int /\ q.minTarget \in Int /\ q.selectivity \in Int
        /\ idx.n \in Nat \ {0} /\ idx.n \in Int
    BY SearchAssumption, SMTT(30) DEF View, IndexView, Query
  <1>2. CandidateOversampling \in Int
    <2>1. Min({Oversampling, 2}) \in Int
      BY ParametersAreNumbers, MinOfTwo
    <2> QED BY <2>1, ParametersAreNumbers DEF CandidateOversampling, Parameters
  <1>3. AskedTarget \in Int
    <2> DEFINE limit == Max({1, q.limit})
               wide == IF Selective THEN limit * q.selectivity * CandidateOversampling ELSE 0
               byLimit == IF q.limit = NoLimit
                          THEN IF q.minTarget > 0 THEN q.minTarget ELSE DefaultFinalK
                          ELSE Max({limit * CandidateOversampling, EfSearch, wide})
    <2>1. limit \in Int
      BY <1>1, ParametersAreNumbers, MaxOfTwo
    <2> HIDE DEF limit
    <2>2. wide \in Int /\ limit * CandidateOversampling \in Int
      BY <1>1, <1>2, <2>1
    <2> HIDE DEF wide
    <2>3. Max({limit * CandidateOversampling, EfSearch, wide}) \in Int
      <3> DEFINE a == limit * CandidateOversampling
      <3>1. a \in Int /\ EfSearch \in Int
        BY <2>2, ParametersAreNumbers DEF Parameters
      <3> HIDE DEF a
      <3>2. Max({a, EfSearch, wide}) \in {a, EfSearch, wide}
        BY <2>2, <3>1, MaxOfThree
      <3>3. Max({a, EfSearch, wide}) \in Int
        BY <2>2, <3>1, <3>2
      <3> QED BY <3>3 DEF a
    <2>4. byLimit \in Int
      BY <1>1, <2>3, ParametersAreNumbers DEF Parameters
    <2>5. AskedTarget = Max({byLimit, q.minTarget})
      BY DEF AskedTarget, limit, wide
    <2> HIDE DEF byLimit
    <2> QED BY <1>1, <2>4, <2>5, MaxOfTwo
  <1>4. L2Target \in Int
    BY ParametersAreNumbers DEF L2Target, Parameters
  <1>5. RequestedBaseTarget \in Int
    <2> DEFINE a == IF q.minTarget > 0 THEN q.minTarget ELSE DefaultFinalK
               b == IF q.limit = NoLimit THEN 1 ELSE Max({1, q.limit})
    <2>1. a \in Int
      BY <1>1, ParametersAreNumbers DEF Parameters
    <2>2. b \in Int
      <3>1. Max({1, q.limit}) \in Int
        BY <1>1, ParametersAreNumbers, MaxOfTwo
      <3> QED BY <3>1
    <2>3. RequestedBaseTarget = Max({1, a, b})
      BY DEF RequestedBaseTarget
    <2> HIDE DEF a, b
    <2> QED BY <2>1, <2>2, <2>3, ParametersAreNumbers, MaxOfThree
  <1>6. BudgetCap \in Int
    <2> DEFINE a == (3 * RequestedBaseTarget + 1) \div 2
               b == 4 * RequestedBaseTarget
    <2>1. a \in Int /\ b \in Int
      BY <1>5
    <2>2. BudgetCap = Max({EfSearch, Min({a, b})})
      BY DEF BudgetCap
    <2> HIDE DEF a, b
    <2>3. Min({a, b}) \in Int
      BY <2>1, MinOfTwo
    <2> QED BY <2>2, <2>3, MaxOfTwo, ParametersAreNumbers
  <1>7. QED
    <2> DEFINE c == IF Unmapped THEN Min({idx.n, MaxScanTuples}) ELSE 0
               widened == Max({AskedTarget, L2Target, c})
               capped == IF LatencyBudget THEN Min({widened, BudgetCap}) ELSE widened
               atLeast == Max({capped, 1})
    <2>1. c \in Int
      <3>1. Min({idx.n, MaxScanTuples}) \in Int
        BY <1>1, MinOfTwo, ParametersAreNumbers
      <3> QED BY <3>1
    <2> HIDE DEF c
    <2>2. widened \in Int
      BY <1>3, <1>4, <2>1, MaxOfThree
    <2> HIDE DEF widened
    <2>3. capped \in Int
      <3>1. Min({widened, BudgetCap}) \in Int
        BY <1>6, <2>2, MinOfTwo
      <3> QED BY <2>2, <3>1
    <2>4. ResultTarget = Min({atLeast, idx.n})
      BY DEF ResultTarget, widened, c
    <2> HIDE DEF capped
    <2>5. atLeast \in Int /\ atLeast >= 1
      BY <2>3, MaxOfTwo
    <2> HIDE DEF atLeast
    <2>6. Min({atLeast, idx.n}) \in {atLeast, idx.n}
      BY <1>1, <2>5, MinOfTwo, Zenon
    <2> QED BY <1>1, <2>4, <2>5, <2>6

\* The square root that scales a width for the segments exists.
LEMMA CeilSqrtExists ==
    ASSUME NEW x \in Nat \ {0}, NEW s \in Nat \ {0}
    PROVE  CeilSqrtTimes(x, s) \in 0 .. (x * s)
  <1> DEFINE t == x * x * s
             m == x * s
             R == {y \in 0 .. m : y * y >= t}
  <1>1. m \in Nat /\ t \in Nat /\ t > 0
    <2>1. x * x \in Nat /\ x * x > 0
      OBVIOUS
    <2>2. \A a, b \in Nat \ {0} : a * b \in Nat /\ a * b > 0
      OBVIOUS
    <2>3. x * x \in Nat \ {0}
      BY <2>1
    <2>4. (x * x) * s \in Nat /\ (x * x) * s > 0
      BY <2>2, <2>3
    <2> QED BY <2>2, <2>4
  <1>2. m * m >= t
    <2>1. \A a, b \in Nat : b > 0 => a * b >= a
      OBVIOUS
    <2>2. m * m = t * s
      OBVIOUS
    <2> HIDE DEF m, t
    <2> QED BY <1>1, <2>1, <2>2
  <1> HIDE DEF m, t
  <1>3. R \in SUBSET Nat /\ R # {}
    <2>1. m \in R
      BY <1>1, <1>2
    <2> QED BY <1>1, <2>1
  <1>4. PICK y \in R : \A z \in R : y <= z
    <2> HIDE DEF R
    <2> QED BY <1>3, LeastExists
  <1>5. y \in 0 .. m /\ y * y >= t
    BY <1>4
  <1>6. y # 0
    <2>1. y = 0 => y * y = 0
      OBVIOUS
    <2> QED BY <1>1, <1>5, <2>1
  <1>7. (y - 1) * (y - 1) < t
    <2>1. y - 1 \in 0 .. m /\ ~(y <= y - 1)
      BY <1>1, <1>5, <1>6
    <2>2. ~((y - 1) * (y - 1) >= t)
      BY <1>4, <2>1
    <2>3. (y - 1) * (y - 1) \in Int
      BY <2>1
    <2> QED BY <1>1, <2>2, <2>3
  <1>8. \E z \in 0 .. m : z * z >= t /\ (z - 1) * (z - 1) < t
    BY <1>5, <1>7
  <1>9. CeilSqrtTimes(x, s) = CHOOSE z \in 0 .. m : z * z >= t /\ (z - 1) * (z - 1) < t
    BY DEF CeilSqrtTimes, m, t
  <1>10. CeilSqrtTimes(x, s) \in 0 .. m
    BY <1>8, <1>9
  <1> QED BY <1>10 DEF m

LEMMA SearchWidthIsPositive ==
    ASSUME View, idx.n > 0, NEW target \in Nat
    PROVE  SearchEf(target) \in Nat \ {0}
  <1>1. /\ idx.n \in Nat \ {0} /\ EfSearch \in Nat \ {0}
        /\ idx.n \in Int /\ target \in Int
    BY ParametersAreNumbers DEF Parameters, View, IndexView
  <1> DEFINE ef == Min({Max({EfSearch, target}), idx.n})
             s == Max({Len(idx.segments), 1})
             scaled == IF idx.exactBuild THEN ef * s ELSE CeilSqrtTimes(ef, s)
  <1>2. ef \in Nat \ {0}
    <2> DEFINE w == Max({EfSearch, target})
    <2>1. w \in {EfSearch, target} /\ w >= EfSearch
      BY <1>1, ParametersAreNumbers, MaxOfTwo
    <2> HIDE DEF w
    <2>2. w \in Nat \ {0} /\ w \in Int
      BY <1>1, <2>1
    <2>3. Min({w, idx.n}) \in {w, idx.n}
      BY <1>1, <2>2, MinOfTwo
    <2> QED BY <1>1, <2>2, <2>3 DEF w
  <1>3. s \in Nat \ {0}
    <2> DEFINE l == Len(idx.segments)
    <2>1. l \in Nat /\ l \in Int
      BY DEF View, IndexView
    <2> HIDE DEF l
    <2>2. Max({l, 1}) \in {l, 1} /\ Max({l, 1}) >= 1
      BY <2>1, ParametersAreNumbers, MaxOfTwo
    <2> QED BY <2>1, <2>2 DEF l
  <1>4. SearchEf(target) = IF s = 1 THEN ef ELSE Max({Min({scaled, idx.n}), ef})
    BY DEF SearchEf, ScaleSearchEfForSegments
  <1> HIDE DEF ef, s
  <1>5. scaled \in Int
    <2>1. CeilSqrtTimes(ef, s) \in Int
      <3>1. CeilSqrtTimes(ef, s) \in 0 .. (ef * s) /\ ef * s \in Int
        BY <1>2, <1>3, CeilSqrtExists
      <3> QED BY <3>1
    <2> QED BY <1>2, <1>3, <2>1
  <1> HIDE DEF scaled
  <1>6. Min({scaled, idx.n}) \in Int
    BY <1>1, <1>5, MinOfTwo
  <1> DEFINE r == Min({scaled, idx.n})
  <1>7. r \in Int
    BY <1>6
  <1> HIDE DEF r
  <1>8. Max({r, ef}) \in {r, ef} /\ Max({r, ef}) >= ef
    <2>1. ef \in Int
      BY <1>2
    <2> QED BY <1>7, <2>1, MaxOfTwo
  <1>9. Max({r, ef}) \in Nat \ {0}
    BY <1>2, <1>7, <1>8
  <1> QED BY <1>2, <1>4, <1>9 DEF r

\* The passes that may follow have a target and a width too.
LEMMA NextPassesHaveTargets ==
    ASSUME View, idx.n > 0, scan.target \in Nat, scan.ef \in Nat \ {0}
    PROVE  /\ AdaptiveTarget \in Nat /\ AdaptiveEf \in Nat \ {0}
           /\ TightTarget \in Nat /\ TightEf \in Nat \ {0}
           /\ Max({RetryTarget, 1}) \in Nat /\ Max({RetryEf, RetryTarget}) \in Nat \ {0}
  <1>1. /\ idx.n \in Nat \ {0} /\ idx.n \in Int
        /\ scan.target \in Int /\ scan.target + 1 \in Int /\ scan.ef + 1 \in Int
        /\ \A num \in Int : Ceil(scan.target, num, 2) \in Int /\ Ceil(scan.ef, num, 2) \in Int
    <2>1. \A a \in Int : (a + 2 - 1) \div 2 \in Int
      OBVIOUS
    <2>2. \A x, num \in Int : Ceil(x, num, 2) \in Int
      BY <2>1 DEF Ceil
    <2>3. scan.target \in Int /\ scan.ef \in Int
      OBVIOUS
    <2>4. idx.n \in Nat \ {0}
      BY DEF View, IndexView
    <2>5. scan.target + 1 \in Int /\ scan.ef + 1 \in Int /\ idx.n \in Int
      BY <2>3, <2>4
    <2> QED BY <2>2, <2>3, <2>4, <2>5, Zenon
  <1>2. AdaptiveTarget \in Nat /\ AdaptiveTarget \in Int
    <2> DEFINE t == scan.target
               factor == IF policy.profile = "balanced" THEN 3 ELSE 4
               most == IF policy.profile = "balanced" THEN 3 ELSE 8
               a == Ceil(t, factor, 2)
               c == Ceil(t, most, 2)
               b == Max({c, t + 1})
               m == Min({a, b, MaxScanTuples, idx.n})
    <2>1. a \in Int /\ c \in Int
      <3>1. factor \in Int /\ most \in Int
        OBVIOUS
      <3> HIDE DEF factor, most
      <3> QED BY <1>1, <3>1
    <2> HIDE DEF a, c
    <2>2. b \in Int
      BY <1>1, <2>1, MaxOfTwo
    <2> HIDE DEF b
    <2>3. m \in Int
      BY <1>1, <2>1, <2>2, ParametersAreNumbers, MinOfFour
    <2>4. AdaptiveTarget = Max({t + 1, m})
      BY DEF AdaptiveTarget, a, b, c
    <2> HIDE DEF m
    <2>5. AdaptiveTarget \in Int /\ AdaptiveTarget >= t + 1
      BY <1>1, <2>3, <2>4, MaxOfTwo
    <2> QED BY <2>5
  <1>3. AdaptiveEf \in Nat \ {0}
    <2> DEFINE m == Max({scan.ef + 1, AdaptiveTarget})
    <2>1. m \in Int /\ m >= scan.ef + 1
      BY <1>1, <1>2, MaxOfTwo
    <2> HIDE DEF m
    <2>2. Min({m, idx.n}) \in {m, idx.n}
      BY <1>1, <2>1, MinOfTwo
    <2>3. AdaptiveEf = Min({m, idx.n})
      BY DEF AdaptiveEf, m
    <2> QED BY <1>1, <2>1, <2>2, <2>3
  <1>4. TightTarget \in Nat /\ TightTarget \in Int
    <2> DEFINE w == EfSearch * Oversampling * TightFillMult
               m == Max({scan.target, w})
    <2>1. w \in Int
      BY ParametersAreNumbers
    <2> HIDE DEF w
    <2>2. m \in Int /\ m >= scan.target
      BY <1>1, <2>1, MaxOfTwo
    <2>3. TightTarget = Min({idx.n, m})
      BY DEF TightTarget, w
    <2> HIDE DEF m
    <2>4. Min({idx.n, m}) \in {idx.n, m}
      BY <1>1, <2>2, MinOfTwo
    <2> QED BY <1>1, <2>2, <2>3, <2>4
  <1>5. TightEf \in Nat \ {0}
    <2> DEFINE m == Max({EfSearch, TightTarget})
    <2>1. m \in Int /\ m >= EfSearch
      BY <1>4, ParametersAreNumbers, MaxOfTwo
    <2> HIDE DEF m
    <2>2. Min({m, idx.n}) \in {m, idx.n}
      BY <1>1, <2>1, MinOfTwo
    <2>3. TightEf = Min({m, idx.n}) /\ EfSearch \in Nat \ {0}
      BY ParametersAreNumbers DEF TightEf, m, Parameters
    <2> QED BY <1>1, <2>1, <2>2, <2>3
  <1>6. RetryCap \in Int /\ RetryCap >= 1
    <2> DEFINE m == Min({idx.n, MaxScanTuples})
    <2>1. m \in Int
      BY <1>1, ParametersAreNumbers, MinOfTwo
    <2>2. RetryCap = Max({m, 1})
      BY DEF RetryCap
    <2> HIDE DEF m
    <2> QED BY <2>1, <2>2, ParametersAreNumbers, MaxOfTwo
  <1>7. RetryTarget \in Int /\ RetryTarget >= 1
    <2> DEFINE c == Ceil(scan.target, 3, 2)
               a == Min({c, RetryCap})
               b == scan.target + 1
               m == Max({a, b})
    <2>1. c \in Int /\ b \in Int /\ b >= 1
      BY <1>1
    <2> HIDE DEF c, b
    <2>2. a \in Int
      BY <1>6, <2>1, MinOfTwo
    <2> HIDE DEF a
    <2>3. m \in Int /\ m >= b
      BY <2>1, <2>2, MaxOfTwo
    <2> HIDE DEF m
    <2>4. RetryTarget = Min({m, RetryCap})
      BY DEF RetryTarget, m, a, b, c
    <2>5. Min({m, RetryCap}) \in {m, RetryCap}
      BY <1>6, <2>3, MinOfTwo
    <2> QED BY <1>6, <2>1, <2>3, <2>4, <2>5
  <1>8. RetryEf \in Int
    <2> DEFINE c == Ceil(scan.ef, 3, 2)
               m == Max({c, RetryTarget})
    <2>1. c \in Int
      BY <1>1
    <2>2. RetryEf = Min({m, RetryCap})
      BY DEF RetryEf
    <2> HIDE DEF c
    <2>3. m \in Int
      BY <1>7, <2>1, MaxOfTwo
    <2> HIDE DEF m
    <2> QED BY <1>6, <2>2, <2>3, MinOfTwo
  <1>9. Max({RetryTarget, 1}) \in Nat
    <2>1. Max({RetryTarget, 1}) \in Int /\ Max({RetryTarget, 1}) >= 1
      BY <1>7, ParametersAreNumbers, MaxOfTwo
    <2> QED BY <2>1
  <1>10. Max({RetryEf, RetryTarget}) \in Nat \ {0}
    <2>1. Max({RetryEf, RetryTarget}) \in Int /\ Max({RetryEf, RetryTarget}) >= RetryTarget
      BY <1>7, <1>8, MaxOfTwo
    <2> QED BY <1>7, <2>1
  <1> QED BY <1>2, <1>3, <1>4, <1>5, <1>9, <1>10

(***************************************************************************)
(* The invariant.                                                          *)
(***************************************************************************)

\* A new search starts with a number that marks nothing.
LEMMA VisitIsNew ==
    ASSUME IndexView(idx), VisitInv, NEW v \in {NextVisit, FreshVisit}
    PROVE  /\ v.gen \in 0 .. (GenModulus - 1) /\ v.gens \in [Nodes -> 0 .. v.gen]
           /\ \A k \in Nodes : v.gens[k] # v.gen
  <1>1. GenModulus \in Nat \ {0, 1}
    BY SearchAssumption
  <1>2. gen \in 0 .. (GenModulus - 1) /\ gens \in [Nodes -> 0 .. gen]
    BY DEF VisitInv
  <1> DEFINE g == (gen + 1) % GenModulus
  <1>3. CASE v = FreshVisit
    BY <1>1, <1>3 DEF FreshVisit
  <1>4. CASE v = NextVisit /\ gen = GenModulus - 1
    <2>1. g = 0
      <3>1. gen + 1 = GenModulus
        BY <1>1, <1>4
      <3>2. GenModulus % GenModulus = 0
        BY <1>1
      <3> QED BY <3>1, <3>2
    <2>2. v = [gen |-> 1, gens |-> [k \in Nodes |-> 0]]
      BY <1>4, <2>1 DEF NextVisit
    <2> QED BY <1>1, <2>2
  <1>5. CASE v = NextVisit /\ gen # GenModulus - 1
    <2>1. g = gen + 1 /\ g # 0 /\ g \in 0 .. (GenModulus - 1)
      <3>1. gen + 1 \in 0 .. (GenModulus - 1) /\ gen + 1 # 0
        BY <1>1, <1>2, <1>5
      <3> QED BY <1>1, <3>1
    <2>2. v = [gen |-> g, gens |-> gens]
      BY <1>5, <2>1 DEF NextVisit
    <2> HIDE DEF g
    <2>3. gens \in [Nodes -> 0 .. g] /\ \A k \in Nodes : gens[k] # g
      BY <1>1, <1>2, <2>1
    <2> QED BY <2>1, <2>2, <2>3
  <1> QED BY <1>3, <1>4, <1>5

LEMMA InitEstablishesInv == Init => Inv
  <1> SUFFICES ASSUME Init PROVE Inv
    OBVIOUS
  <1>1. IndexView(idx)
    <2> PICK v \in Indexes : idx = ReadMeta(v)
      BY DEF Init
    <2>1. IndexView(v)
      BY SearchAssumption
    <2> DEFINE routing == IF ToSet(v.routing) \subseteq 0..(v.n - 1) THEN v.routing ELSE <<>>
               segments == idx.segments
    <2>2. /\ DOMAIN idx = DOMAIN v /\ idx.routing = routing
          /\ \A f \in {"n", "entry", "maxLevel", "level", "adj", "code", "exact", "residual", "sidecar"} :
               idx[f] = v[f]
      BY <2>1 DEF IndexView, ReadMeta
    <2>3. routing \in Seq(Int)
      BY <2>1 DEF IndexView
    <2>4. segments \in Seq([start : Nat, count : Nat, entry : Int])
      <3> DEFINE one == <<[start |-> 0, count |-> v.n, entry |-> v.entry]>>
      <3>1. one \in Seq([start : Nat, count : Nat, entry : Int])
        BY <2>1 DEF IndexView
      <3>2. segments \in {one, v.segments, <<>>}
        BY <2>1 DEF IndexView, ReadMeta
      <3>3. /\ v.segments \in Seq([start : Nat, count : Nat, entry : Int])
            /\ <<>> \in Seq([start : Nat, count : Nat, entry : Int])
        BY <2>1 DEF IndexView
      <3> HIDE DEF one, segments
      <3> QED BY <3>1, <3>2, <3>3
    <2> HIDE DEF routing
    <2>5. /\ idx.n = v.n /\ idx.entry = v.entry /\ idx.maxLevel = v.maxLevel /\ idx.level = v.level
          /\ idx.adj = v.adj /\ idx.code = v.code /\ idx.exact = v.exact /\ idx.sidecar = v.sidecar
          /\ idx.residual = v.residual
      BY <2>2
    <2> QED BY <2>1, <2>2, <2>3, <2>4, <2>5 DEF IndexView
  <1>2. VisitInv
    BY SearchAssumption DEF Init, VisitInv
  <1>3. scan.pc = "idle"
    BY DEF Init, Idle
  <1> QED BY <1>1, <1>2, <1>3 DEF Inv, DescriptorInv, BeamInv

\* The descriptor keeps its query while a scan goes on.
LEMMA PassStarts ==
    ASSUME Inv, scan.pc \in {"begun", "base"}, idx.n > 0, UNCHANGED idx,
           NEW target \in Nat, NEW ef \in Nat \ {0},
           NEW pass \in {"first", "adaptive", "tight", "retry"}, NEW widening,
           StartPass(target, ef, pass, widening)
    PROVE  Inv'
  <1> DEFINE points == Entries(ef).points
             P == ToSet(points)
             v == IF idx.cached THEN NextVisit ELSE FreshVisit
             fields == {"pc", "policy", "q", "pass", "target", "ef", "points", "frontier",
                        "nearest", "widening", "sidecarUnused", "results", "at"}
  <1>1. IndexView(idx) /\ View /\ fields \subseteq DOMAIN scan /\ q \in Queries
    BY DEF Inv, DescriptorInv, View
  <1>2. points \in Seq(ScoredPoints) /\ UniqueKeys(points)
    BY <1>1, EntriesArePoints DEF PointLists
  <1>3. P \subseteq Points /\ IsFiniteSet(P) /\ P \in SUBSET Items
    <2> HIDE DEF points
    <2> QED BY <1>1, <1>2, SequenceIsFinite, PointsAreItems
  <1>4. /\ v.gen \in 0 .. (GenModulus - 1) /\ v.gens \in [Nodes -> 0 .. v.gen]
        /\ \A k \in Nodes : v.gens[k] # v.gen
    <2>1. v \in {NextVisit, FreshVisit}
      OBVIOUS
    <2> HIDE DEF v
    <2> QED BY <2>1, VisitIsNew DEF Inv
  <1>5. /\ gen' = v.gen
        /\ gens' = [k \in Nodes |-> IF EntryAlreadySelected(points, k) THEN v.gen ELSE v.gens[k]]
        /\ scan' = [scan EXCEPT !.pc = "base", !.target = target, !.ef = ef, !.pass = pass,
                      !.widening = widening, !.sidecarUnused = Entries(ef).sidecarUnused,
                      !.points = points, !.frontier = P, !.nearest = BestOf(P, ef)]
    BY DEF StartPass
  <1> HIDE DEF points, v
  <1>6. /\ fields \subseteq DOMAIN scan' /\ scan'.q = scan.q
        /\ scan'.target = target /\ scan'.ef = ef /\ scan'.pass = pass /\ scan'.points = points
        /\ scan'.frontier = P /\ scan'.nearest = BestOf(P, ef)
    BY <1>1, <1>5
  <1>7. scan'.pc = "base"
    BY <1>1, <1>5
  <1>8. Nodes' = Nodes
    BY DEF Nodes
  <1>9. VisitInv'
    <2>1. gens' \in [Nodes -> 0 .. v.gen]
      BY <1>4, <1>5
    <2> QED BY <1>4, <1>5, <1>8, <2>1 DEF VisitInv
  <1>10. \A k \in Nodes : Marked(k)' <=> \E e \in P : e.k = k
    <2>1. \A k \in Nodes : EntryAlreadySelected(points, k) <=> \E e \in P : e.k = k
      BY DEF EntryAlreadySelected, ToSet
    <2> QED BY <1>4, <1>5, <2>1 DEF Marked
  <1>11. DescriptorInv'
    <2>1. q' \in Queries
      BY <1>1, <1>6 DEF q
    <2> QED BY <1>6, <1>7, <2>1 DEF DescriptorInv
  <1>12. /\ BestOf(P, ef) \in SUBSET P /\ IsFiniteSet(BestOf(P, ef))
         /\ Cardinality(BestOf(P, ef)) <= ef
         /\ \A x \in P \ BestOf(P, ef) :
              Cardinality(BestOf(P, ef)) = ef /\ \A y \in BestOf(P, ef) : Less(y, x)
    <2> HIDE DEF P
    <2> QED BY <1>3, BestOfKeepsTheBest
  <1>13. ASSUME NEW k \in Nodes, Marked(k)', NEW x \in OfferedAs(k)'
         PROVE  Settled(x)'
    <2>1. \E e \in P : e.k = k
      BY <1>10, <1>13
    <2>2. {e \in ToSet(scan'.points) : e.k = k} # {} /\ ToSet(scan'.points) = P
      BY <1>6, <2>1
    <2>3. x \in P
      BY <1>13, <2>2 DEF OfferedAs
    <2> QED BY <1>6, <1>12, <2>3 DEF Settled
  <1>14. \A e \in P : Marked(e.k)'
    BY <1>3, <1>10 DEF Points
  <1>15. ASSUME NEW i \in scan'.nearest
         PROVE  Marked(i.k)' /\ i \in OfferedAs(i.k)'
    <2>1. i \in P /\ ToSet(scan'.points) = P
      BY <1>6, <1>12
    <2>2. i \in {e \in ToSet(scan'.points) : e.k = i.k}
      BY <2>1
    <2> HIDE DEF P
    <2> QED BY <1>14, <2>1, <2>2 DEF OfferedAs
  <1>16. BeamInv'
    <2>1. Points' = Points /\ ScoredPoints' = ScoredPoints
      <3>1. Points' = Points
        BY <1>8 DEF Points
      <3>2. HasExactVector' = HasExactVector /\ \A e \in Points : ScoreNode(e.k)' = ScoreNode(e.k)
        BY <1>6 DEF HasExactVector, ScoreNode, q
      <3> QED BY <3>1, <3>2 DEF ScoredPoints
    <2>2. ToSet(scan'.points) = P /\ scan'.nearest \ scan'.frontier = {}
      BY <1>6, <1>12
    <2>3. scan'.points \in Seq(ScoredPoints)' /\ UniqueKeys(scan.points)'
      BY <1>2, <1>6, <2>1 DEF UniqueKeys
    <2> HIDE DEF P
    <2> QED BY <1>2, <1>15, <2>3, <1>3, <1>6, <1>8, <1>12, <1>13, <1>14, <2>1, <2>2 DEF BeamInv
  <1> QED BY <1>1, <1>9, <1>11, <1>16 DEF Inv

LEMMA OffersArePoints ==
    ASSUME View, BeamInv, scan.pc = "base", NEW k \in Nodes, NEW x \in OfferedAs(k)
    PROVE  x \in Points
  <1>1. ToSet(scan.points) \subseteq Points
    <2>1. ToSet(scan.points) \subseteq ScoredPoints
      BY SequenceIsFinite DEF BeamInv
    <2> QED BY <2>1 DEF ScoredPoints
  <1>2. Item(k, ScoreNode(k)) \in Points
    BY DistancesAreNumbers DEF Item, Points
  <1> QED BY <1>1, <1>2 DEF OfferedAs

\* An expansion settles what it offers, and unsettles nothing.
LEMMA BaseStepKeepsInv ==
    ASSUME Inv, BaseStep
    PROVE  Inv'
  <1> DEFINE item == Best(scan.frontier)
             adj == idx.adj[0][item.k]
             batch == {i \in DOMAIN adj : adj[i] \in Nodes /\ gens[adj[i]] # gen}
             offer(i) == Item(adj[i], ScoreNode(adj[i]))
             offers(b) == scan.nearest \cup {offer(i) : i \in b}
             queued == {i \in batch : offer(i) \in BestOf(offers({j \in batch : j <= i}), scan.ef)}
             S == offers(batch)
             K == BestOf(S, scan.ef)
             fields == {"pc", "policy", "q", "pass", "target", "ef", "points", "frontier",
                        "nearest", "widening", "sidecarUnused", "results", "at"}
  <1>1. /\ IndexView(idx) /\ VisitInv /\ DescriptorInv /\ BeamInv /\ View /\ scan.pc = "base"
        /\ fields \subseteq DOMAIN scan /\ q \in Queries
    BY DEF Inv, BaseStep, DescriptorInv, View
  <1>2. /\ idx.n > 0 /\ scan.target \in Nat /\ scan.ef \in Nat \ {0}
        /\ scan.pass \in {"first", "adaptive", "tight", "retry"}
        /\ scan.points \in Seq(ScoredPoints) /\ UniqueKeys(scan.points)
        /\ scan.frontier \subseteq Points /\ IsFiniteSet(scan.frontier)
        /\ scan.nearest \subseteq Points /\ IsFiniteSet(scan.nearest)
        /\ \A e \in ToSet(scan.points) : Marked(e.k)
        /\ \A i \in scan.nearest : Marked(i.k) /\ i \in OfferedAs(i.k)
        /\ \A k \in Nodes : Marked(k) => \A x \in OfferedAs(k) : Settled(x)
        /\ \A i \in scan.nearest \ scan.frontier :
             \A k \in ToSet(idx.adj[0][i.k]) \cap Nodes : Marked(k)
    BY <1>1 DEF BeamInv
  <1>3. Points \subseteq Items
    BY <1>1, PointsAreItems
  <1>4. item \in scan.frontier /\ item \in Points
    <2>1. scan.frontier # {}
      BY DEF BaseStep, SearchDone
    <2>2. scan.frontier \in SUBSET Items
      BY <1>2, <1>3
    <2> QED BY <1>2, <2>1, <2>2, BestIsBest
  <1>5. adj \in Seq(Nat)
    <2>1. item.k \in 0 .. (idx.n - 1) /\ 0 \in 0 .. idx.maxLevel
      BY <1>1, <1>4 DEF Points, Nodes, IndexView
    <2> HIDE DEF item
    <2> QED BY <1>1, <2>1 DEF IndexView
  <1>6. /\ UNCHANGED <<idx, gen>>
        /\ gens' = [k \in Nodes |-> IF \E i \in batch : adj[i] = k THEN gen ELSE gens[k]]
        /\ scan' = [scan EXCEPT !.nearest = K,
                      !.frontier = (@ \ {item}) \cup {offer(i) : i \in queued}]
    BY DEF BaseStep, SearchBaseLayerStep
  <1>7. batch \subseteq DOMAIN adj /\ \A i \in batch : adj[i] \in Nodes /\ i \in Nat
    BY <1>5
  <1>8. \A i \in batch : offer(i) \in Points
    <2> HIDE DEF batch, adj
    <2> QED BY <1>1, <1>7, DistancesAreNumbers DEF Item, Points
  <1>9. IsFiniteSet(batch)
    <2>1. IsFiniteSet(DOMAIN adj)
      <3> HIDE DEF adj
      <3> QED BY <1>5, SequenceIsFinite
    <2>2. batch \in SUBSET DOMAIN adj
      OBVIOUS
    <2> HIDE DEF batch, adj
    <2> QED BY <2>1, <2>2, FS_Subset
  <1>10. \A b \in SUBSET batch : IsFiniteSet({offer(i) : i \in b})
    <2> SUFFICES ASSUME NEW b \in SUBSET batch PROVE IsFiniteSet({offer(i) : i \in b})
      OBVIOUS
    <2> DEFINE f == [i \in batch |-> offer(i)]
    <2>1. {f[i] : i \in b} = {offer(i) : i \in b}
      OBVIOUS
    <2>2. IsFiniteSet(b)
      <3> HIDE DEF batch
      <3> QED BY <1>9, FS_Subset
    <2> HIDE DEF f, batch
    <2> QED BY <2>1, <2>2, ImageIsFinite
  <1>11. S \in SUBSET Items /\ S \subseteq Points /\ IsFiniteSet(S)
    <2>1. S \subseteq Points
      <3> HIDE DEF batch, adj
      <3> QED BY <1>2, <1>8
    <2>2. IsFiniteSet({offer(i) : i \in batch})
      <3> HIDE DEF batch, offer
      <3> QED BY <1>10
    <2> HIDE DEF batch, adj, offer
    <2> QED BY <1>2, <1>3, <2>1, <2>2, FS_Union
  <1>12. /\ K \in SUBSET S /\ IsFiniteSet(K) /\ Cardinality(K) <= scan.ef
         /\ \A x \in S \ K : Cardinality(K) = scan.ef /\ \A y \in K : Less(y, x)
         /\ \A T \in SUBSET S : \A x \in T : x \in K => x \in BestOf(T, scan.ef)
    <2> HIDE DEF S
    <2> QED BY <1>2, <1>11, BestOfKeepsTheBest
  <1> HIDE DEF item, batch, adj
  <1>13. /\ fields \subseteq DOMAIN scan' /\ scan'.q = scan.q /\ scan'.pc = "base"
         /\ scan'.target = scan.target /\ scan'.ef = scan.ef /\ scan'.pass = scan.pass
         /\ scan'.points = scan.points
         /\ scan'.frontier = (scan.frontier \ {item}) \cup {offer(i) : i \in queued}
         /\ scan'.nearest = K
    <2> HIDE DEF offer, queued, K
    <2> QED BY <1>1, <1>6
  <1>14. Nodes' = Nodes /\ Points' = Points
    BY <1>6 DEF Nodes, Points
  <1>15. VisitInv'
    BY <1>1, <1>6, <1>14 DEF VisitInv
  <1>16. \A k \in Nodes : Marked(k)' <=> Marked(k) \/ \E i \in batch : adj[i] = k
    BY <1>6 DEF Marked
  <1>17. DescriptorInv'
    <2>1. q' \in Queries
      BY <1>1, <1>13 DEF q
    <2> QED BY <1>13, <2>1 DEF DescriptorInv
  <1>18. \A k \in Nodes : OfferedAs(k)' = OfferedAs(k)
    BY <1>6, <1>13 DEF OfferedAs, ScoreNode, q
  <1>19. \A x \in S : Settled(x)'
    <2> HIDE DEF S, K
    <2> QED BY <1>12, <1>13 DEF Settled
  <1>20. ASSUME NEW k \in Nodes, Marked(k)', NEW x \in OfferedAs(k)'
         PROVE  Settled(x)'
    <2>1. x \in OfferedAs(k)
      BY <1>18, <1>20
    <2>2. x \in Points /\ x \in Items
      BY <1>1, <1>3, <2>1, OffersArePoints
    <2>3. CASE Marked(k) /\ x \in scan.nearest
      BY <1>19, <2>3
    <2>4. CASE Marked(k) /\ x \notin scan.nearest
      <3>1. Cardinality(scan.nearest) = scan.ef /\ \A y \in scan.nearest : Less(y, x)
        BY <1>2, <2>1, <2>4 DEF Settled
      <3>2. scan.nearest \subseteq S /\ scan.nearest \in SUBSET Items
        BY <1>2, <1>3
      <3>3. Cardinality(K) = scan.ef /\ \A y \in K : Less(y, x)
        <4> HIDE DEF S
        <4> QED BY <1>2, <1>11, <2>2, <3>1, <3>2, DroppedForGood
      <3> HIDE DEF K
      <3> QED BY <1>13, <3>3 DEF Settled
    <2>5. CASE ~Marked(k)
      <3>1. PICK i \in batch : adj[i] = k
        BY <1>16, <1>20, <2>5
      <3>2. {e \in ToSet(scan.points) : e.k = k} = {}
        BY <1>2, <2>5
      <3>3. x = offer(i)
        BY <2>1, <3>1, <3>2 DEF OfferedAs
      <3>4. x \in S
        BY <3>3
      <3> HIDE DEF S
      <3> QED BY <1>19, <3>4
    <2> QED BY <2>3, <2>4, <2>5
  <1>21. ASSUME NEW i \in scan'.nearest \ scan'.frontier, NEW k \in ToSet(idx.adj[0][i.k]) \cap Nodes
         PROVE  Marked(k)'
    <2>1. i \in K /\ i \in S
      BY <1>12, <1>13
    <2>2. CASE i \in scan.nearest /\ i = item
      <3>1. PICK p \in DOMAIN adj : adj[p] = k
        BY <2>2 DEF adj, ToSet
      <3>2. Marked(k) \/ p \in batch
        BY <3>1 DEF Marked, batch
      <3> QED BY <1>16, <3>1, <3>2
    <2>3. CASE i \in scan.nearest /\ i # item
      <3>1. i \notin scan.frontier
        BY <1>13, <2>3
      <3>2. Marked(k)
        BY <1>2, <2>3, <3>1
      <3> QED BY <1>16, <3>2
    <2>4. CASE i \notin scan.nearest
      <3>1. PICK p \in batch : i = offer(p)
        BY <2>1, <2>4
      <3> DEFINE T == offers({j \in batch : j <= p})
      <3>2. T \in SUBSET S
        OBVIOUS
      <3>3. p \in {j \in batch : j <= p}
        BY <1>7
      <3>4. i \in T
        BY <3>1, <3>3
      <3>5. i \in BestOf(T, scan.ef)
        <4> HIDE DEF S, T, K
        <4> QED BY <1>12, <2>1, <3>2, <3>4
      <3>6. p \in queued
        BY <3>1, <3>5
      <3>7. i \in scan'.frontier
        <4> HIDE DEF queued
        <4> QED BY <1>13, <3>1, <3>6
      <3> QED BY <3>7
    <2> QED BY <2>2, <2>3, <2>4
  <1>22. scan'.frontier \subseteq Points /\ IsFiniteSet(scan'.frontier)
    <2> DEFINE Q == {offer(i) : i \in queued}
               R == scan.frontier \ {item}
    <2>1. queued \in SUBSET batch
      OBVIOUS
    <2> HIDE DEF queued
    <2>2. Q \subseteq Points
      BY <1>8, <2>1
    <2>3. IsFiniteSet(Q)
      <3> HIDE DEF offer
      <3> QED BY <1>10, <2>1
    <2>4. R \subseteq Points /\ IsFiniteSet(R)
      BY <1>2, FS_RemoveElement
    <2>5. scan'.frontier = R \cup Q
      BY <1>13
    <2> HIDE DEF Q, R
    <2> QED BY <2>2, <2>3, <2>4, <2>5, FS_Union
  <1>23. \A e \in ToSet(scan.points) : Marked(e.k)'
    <2>1. \A e \in ToSet(scan.points) : e.k \in Nodes
      <3>1. ToSet(scan.points) \subseteq Points
        BY <1>2, SequenceIsFinite, PointsAreItems, <1>1
      <3> QED BY <3>1 DEF Points
    <2> QED BY <1>2, <1>16, <2>1
  <1>24. ASSUME NEW i \in scan'.nearest
         PROVE  Marked(i.k)' /\ i \in OfferedAs(i.k)'
    <2>1. i \in K /\ i \in S
      BY <1>12, <1>13
    <2>2. i.k \in Nodes
      BY <1>11, <2>1 DEF Points
    <2>3. CASE i \in scan.nearest
      <3>1. Marked(i.k) /\ i \in OfferedAs(i.k)
        BY <1>2, <2>3
      <3> QED BY <1>16, <1>18, <2>2, <3>1
    <2>4. CASE i \notin scan.nearest
      <3>1. PICK p \in batch : i = offer(p)
        BY <2>1, <2>4
      <3>2. i = Item(adj[p], ScoreNode(adj[p])) /\ i.k = adj[p] /\ ~Marked(adj[p])
        BY <3>1 DEF Item, batch, Marked
      <3>3. {e \in ToSet(scan.points) : e.k = i.k} = {}
        BY <1>2, <3>2
      <3>4. i \in OfferedAs(i.k)
        BY <3>2, <3>3 DEF OfferedAs
      <3> QED BY <1>16, <1>18, <2>2, <3>2, <3>4
    <2> QED BY <2>3, <2>4
  <1>25. ScoredPoints' = ScoredPoints
    <2>1. HasExactVector' = HasExactVector /\ \A e \in Points : ScoreNode(e.k)' = ScoreNode(e.k)
      BY <1>6, <1>13 DEF HasExactVector, ScoreNode, q
    <2> QED BY <1>14, <2>1 DEF ScoredPoints
  <1>26. BeamInv'
    <2>1. K \subseteq Points
      BY <1>11, <1>12
    <2>2. scan'.points \in Seq(ScoredPoints)' /\ UniqueKeys(scan.points)'
      BY <1>2, <1>13, <1>25 DEF UniqueKeys
    <2> HIDE DEF K, S, queued, offer
    <2> QED BY <1>2, <1>24, <2>2, <1>6, <1>12, <1>13, <1>14, <1>20, <1>21, <1>22, <1>23, <2>1 DEF BeamInv
  <1>27. IndexView(idx)'
    BY <1>1, <1>6 DEF IndexView
  <1> QED BY <1>15, <1>17, <1>26, <1>27 DEF Inv

\* Outside the search of the base layer only the marks and the descriptor count.
LEMMA QuietStep ==
    ASSUME Inv, UNCHANGED idx, VisitInv', DescriptorInv', scan'.pc # "base"
    PROVE  Inv'
  <1>1. IndexView(idx)'
    BY DEF Inv, IndexView
  <1> QED BY <1>1 DEF Inv, BeamInv

LEMMA RowsKeepInv ==
    ASSUME Inv, scan.pc # "idle", UNCHANGED <<idx, gens, gen>>, NEW rs, Rows(rs)
    PROVE  Inv'
  <1> DEFINE fields == {"pc", "policy", "q", "pass", "target", "ef", "points", "frontier",
                        "nearest", "widening", "sidecarUnused", "results", "at"}
  <1>1. fields \subseteq DOMAIN scan /\ q \in Queries
    BY DEF Inv, DescriptorInv
  <1>2. fields \subseteq DOMAIN scan' /\ scan'.q = scan.q /\ scan'.pc = "rows"
    BY <1>1 DEF Rows
  <1>3. DescriptorInv'
    <2>1. q' \in Queries
      BY <1>1, <1>2 DEF q
    <2> QED BY <1>2, <2>1 DEF DescriptorInv
  <1>4. VisitInv'
    BY DEF Inv, VisitInv, Nodes
  <1> QED BY <1>2, <1>3, <1>4, QuietStep

LEMMA RescanKeepsInv ==
    ASSUME Inv, NEW query \in Queries, Rescan(query)
    PROVE  Inv'
  <1>1. DescriptorInv' /\ scan'.pc = "begun"
    BY DEF Rescan, DescriptorInv, q
  <1>2. VisitInv' /\ UNCHANGED idx
    BY DEF Inv, Rescan, VisitInv, Nodes
  <1> QED BY <1>1, <1>2, QuietStep

LEMMA CollectStartKeepsInv ==
    ASSUME Inv, CollectStart
    PROVE  Inv'
  <1> DEFINE widening == IF Unmapped THEN "filter"
                         ELSE IF idx.l2 /\ HighDim THEN "dimension" ELSE "none"
             fields == {"pc", "policy", "q", "pass", "target", "ef", "points", "frontier",
                        "nearest", "widening", "sidecarUnused", "results", "at"}
  <1>1. /\ scan.pc = "begun" /\ UNCHANGED idx /\ View /\ idx.n \in Nat
        /\ fields \subseteq DOMAIN scan /\ q \in Queries
    BY DEF Inv, CollectStart, DescriptorInv, View, IndexView
  <1>2. CASE idx.n = 0
    BY <1>1, <1>2, RowsKeepInv DEF CollectStart
  <1>3. CASE idx.n # 0 /\ PayloadExactBandApplies
    <2>1. /\ scan' = [scan EXCEPT !.pc = "rows", !.target = ResultTarget,
                                  !.results = CollectPayloadExactBand(ResultTarget)]
          /\ UNCHANGED <<idx, gens, gen>>
      BY <1>3 DEF CollectStart
    <2>2. fields \subseteq DOMAIN scan' /\ scan'.q = scan.q /\ scan'.pc = "rows"
      BY <1>1, <2>1
    <2>3. DescriptorInv'
      <3>1. q' \in Queries
        BY <1>1, <2>2 DEF q
      <3> QED BY <2>2, <3>1 DEF DescriptorInv
    <2>4. VisitInv'
      BY <2>1 DEF Inv, VisitInv, Nodes
    <2> QED BY <2>1, <2>2, <2>3, <2>4, QuietStep
  <1>4. CASE idx.n # 0 /\ ~PayloadExactBandApplies
    <2>1. StartPass(ResultTarget, SearchEf(ResultTarget), "first", widening)
      BY <1>4 DEF CollectStart
    <2>2. idx.n > 0
      BY <1>1, <1>4
    <2>3. ResultTarget \in Nat
      BY <1>1, <2>2, ResultTargetIsPositive
    <2>4. SearchEf(ResultTarget) \in Nat \ {0}
      BY <1>1, <2>2, <2>3, SearchWidthIsPositive
    <2> HIDE DEF widening
    <2> QED BY <1>1, <2>1, <2>2, <2>3, <2>4, PassStarts
  <1> QED BY <1>2, <1>3, <1>4

LEMMA PassEndKeepsInv ==
    ASSUME Inv, PassEnd
    PROVE  Inv'
  <1>1. /\ scan.pc = "base" /\ UNCHANGED idx /\ View
        /\ idx.n > 0 /\ scan.target \in Nat /\ scan.ef \in Nat \ {0}
    BY DEF Inv, PassEnd, DescriptorInv, View, BeamInv
  <1>2. /\ AdaptiveTarget \in Nat /\ AdaptiveEf \in Nat \ {0}
        /\ TightTarget \in Nat /\ TightEf \in Nat \ {0}
        /\ Max({RetryTarget, 1}) \in Nat /\ Max({RetryEf, RetryTarget}) \in Nat \ {0}
    BY <1>1, NextPassesHaveTargets
  <1>3. CASE StartPass(AdaptiveTarget, AdaptiveEf, "adaptive", scan.widening)
    BY <1>1, <1>2, <1>3, PassStarts
  <1>4. CASE StartPass(TightTarget, TightEf, "tight", "exact_policy")
    BY <1>1, <1>2, <1>4, PassStarts
  <1>5. CASE StartPass(Max({RetryTarget, 1}), Max({RetryEf, RetryTarget}), "retry", scan.widening)
    BY <1>1, <1>2, <1>5, PassStarts
  <1>6. CASE \E rs : Rows(rs) /\ UNCHANGED <<gens, gen>>
    BY <1>1, <1>6, RowsKeepInv
  <1>7. \/ StartPass(AdaptiveTarget, AdaptiveEf, "adaptive", scan.widening)
        \/ StartPass(TightTarget, TightEf, "tight", "exact_policy")
        \/ FinishResults(PassResults)
    BY DEF PassEnd
  <1>8. ASSUME FinishResults(PassResults)
        PROVE  \/ StartPass(Max({RetryTarget, 1}), Max({RetryEf, RetryTarget}), "retry", scan.widening)
               \/ \E rs : Rows(rs) /\ UNCHANGED <<gens, gen>>
    BY <1>8 DEF FinishResults
  <1> QED BY <1>3, <1>4, <1>5, <1>6, <1>7, <1>8

LEMMA StepKeepsInv == Inv /\ [Next]_vars => Inv'
  <1> SUFFICES ASSUME Inv, [Next]_vars PROVE Inv'
    OBVIOUS
  <1>1. CASE \E query \in Queries : Rescan(query)
    BY <1>1, RescanKeepsInv
  <1>2. CASE CollectStart
    BY <1>2, CollectStartKeepsInv
  <1>3. CASE BaseStep
    BY <1>3, BaseStepKeepsInv
  <1>4. CASE PassEnd
    BY <1>4, PassEndKeepsInv
  <1>5. CASE GetTuple
    <2> DEFINE fields == {"pc", "policy", "q", "pass", "target", "ef", "points", "frontier",
                          "nearest", "widening", "sidecarUnused", "results", "at"}
    <2>1. /\ scan.pc = "rows" /\ UNCHANGED <<idx, gens, gen>>
          /\ scan' = [scan EXCEPT !.at = @ + 1]
      BY <1>5 DEF GetTuple
    <2>2. fields \subseteq DOMAIN scan /\ q \in Queries
      BY <2>1 DEF Inv, DescriptorInv
    <2>3. fields \subseteq DOMAIN scan' /\ scan'.q = scan.q /\ scan'.pc = "rows"
      BY <2>1, <2>2
    <2>4. q' \in Queries
      BY <2>2, <2>3 DEF q
    <2>5. DescriptorInv' /\ VisitInv'
      BY <2>1, <2>3, <2>4 DEF DescriptorInv, Inv, VisitInv, Nodes
    <2> QED BY <2>1, <2>3, <2>5, QuietStep
  <1>6. CASE Cancel
    <2>1. scan'.pc = "idle" /\ UNCHANGED <<idx, gens, gen>>
      BY <1>6 DEF Cancel, Idle
    <2>2. DescriptorInv' /\ VisitInv'
      BY <2>1 DEF DescriptorInv, Inv, VisitInv, Nodes
    <2> QED BY <2>1, <2>2, QuietStep
  <1>7. CASE \E k \in Nodes : Vacuum(k)
    <2>1. /\ scan.pc \in {"idle", "begun"} /\ UNCHANGED <<idx, scan>>
          /\ gens' = [j \in Nodes |-> 0] /\ gen' = 0
      BY <1>7 DEF Vacuum
    <2>2. VisitInv'
      BY <2>1, SearchAssumption DEF VisitInv, Nodes
    <2>3. DescriptorInv'
      BY <2>1 DEF Inv, DescriptorInv, q
    <2> QED BY <2>1, <2>2, <2>3, QuietStep
  <1>8. CASE UNCHANGED vars
    <2>1. UNCHANGED <<idx, gens, gen, scan>>
      BY <1>8 DEF vars
    <2>2. /\ IndexView(idx)' /\ VisitInv' /\ DescriptorInv'
      BY <2>1 DEF Inv, IndexView, VisitInv, DescriptorInv, Nodes, q
    <2>3. /\ Nodes' = Nodes /\ Points' = Points /\ ScoredPoints' = ScoredPoints
          /\ \A k : Marked(k)' = Marked(k) /\ OfferedAs(k)' = OfferedAs(k)
          /\ \A x : Settled(x)' = Settled(x)
      BY <2>1 DEF Nodes, Points, ScoredPoints, Marked, OfferedAs, Settled, HasExactVector,
                  ScoreNode, q
    <2>4. BeamInv'
      BY <2>1, <2>3 DEF Inv, BeamInv, UniqueKeys
    <2> QED BY <2>2, <2>4 DEF Inv
  <1> QED BY <1>1, <1>2, <1>3, <1>4, <1>5, <1>6, <1>7, <1>8 DEF Next

\* The invariant of the dense scan, SearchBaseLayer and the passes around it,
\* holds for every index, query, policy and modulus of the visit counter.
THEOREM SearchInvHolds == Spec => []Inv
  <1>1. Init => Inv
    BY InitEstablishesInv
  <1>2. Inv /\ [Next]_vars => Inv'
    BY StepKeepsInv
  <1> QED BY <1>1, <1>2, PTL DEF Spec

LEMMA InvSettles == Inv => BeamSettled
  <1> SUFFICES ASSUME Inv, Ended,
                      NEW i \in scan.nearest, NEW j \in ToSet(idx.adj[0][i.k]) \cap Nodes,
                      NEW x \in OfferedAs(j)
               PROVE  Settled(x)
    BY DEF BeamSettled
  <1>1. /\ scan.nearest \in SUBSET Items /\ IsFiniteSet(scan.nearest)
        /\ scan.frontier \in SUBSET Items /\ IsFiniteSet(scan.frontier)
        /\ \A k \in Nodes : Marked(k) => \A y \in OfferedAs(k) : Settled(y)
        /\ \A y \in scan.nearest \ scan.frontier :
             \A k \in ToSet(idx.adj[0][y.k]) \cap Nodes : Marked(k)
    BY PointsAreItems DEF Inv, BeamInv, Ended
  <1>2. i \notin scan.frontier
    <2> SUFFICES ASSUME i \in scan.frontier PROVE FALSE
      OBVIOUS
    <2>1. Less(Worst(scan.nearest), Best(scan.frontier))
      BY DEF Ended, SearchDone
    <2>2. /\ Best(scan.frontier) \in Items
          /\ i = Best(scan.frontier) \/ Less(Best(scan.frontier), i)
      <3>1. scan.frontier # {}
        OBVIOUS
      <3> QED BY <1>1, <3>1, BestIsBest
    <2>3. /\ Worst(scan.nearest) \in Items
          /\ i = Worst(scan.nearest) \/ Less(i, Worst(scan.nearest))
      <3>1. scan.nearest # {}
        OBVIOUS
      <3> QED BY <1>1, <3>1, WorstIsWorst
    <2>4. i \in Items
      BY <1>1
    <2> DEFINE b == Best(scan.frontier)
               w == Worst(scan.nearest)
    <2> HIDE DEF b, w
    <2>5. /\ Less(w, b) /\ b \in Items /\ w \in Items
          /\ i = b \/ Less(b, i)
          /\ i = w \/ Less(i, w)
      BY <2>1, <2>2, <2>3 DEF b, w
    <2> QED BY <2>4, <2>5, LessIsAnOrder
  <1>3. Marked(j)
    BY <1>1, <1>2
  <1> QED BY <1>1, <1>3

\* When SearchBaseLayer stops, every neighbour of a node it keeps has been
\* offered to this very search, and is kept or worse than a full band: no mark
\* of an earlier, cancelled or wrapped search hid it.
THEOREM SearchesSettle == Spec => []BeamSettled
  BY SearchInvHolds, InvSettles, PTL

(***************************************************************************)
(* Lists of rows.                                                          *)
(***************************************************************************)

RowItems == [k : Wanted, d : Int, exact : BOOLEAN]

\* Lists of wanted nodes, each once.
RowLists == {rs \in Seq(RowItems) : UniqueKeys(rs)}

Rising(rs) == \A i, j \in DOMAIN rs : i < j => Less(rs[i], rs[j])

\* Without exact vectors a row has the score of its code, if it was scored.
ScoredRow(r) == HasExactVector \/ (~r.exact /\ r.d \in {ScoreNode(r.k), Unscored})
AllScored(S) == \A r \in S : ScoredRow(r)

LEMMA RowFacts ==
    ASSUME View, NEW rs \in RowLists
    PROVE  /\ DOMAIN rs = 1 .. Len(rs) /\ Len(rs) \in Nat /\ rs \in Seq(RowItems) /\ UniqueKeys(rs)
           /\ \A i \in DOMAIN rs : /\ rs[i] \in RowItems /\ rs[i].k \in Wanted /\ rs[i].k \in Nodes
                                   /\ rs[i].k \in Int /\ rs[i].d \in Int
           /\ ToSet(rs) \in SUBSET RowItems /\ IsFiniteSet(ToSet(rs))
           /\ \A x, y \in ToSet(rs) : x.k = y.k => x = y
  <1>1. /\ rs \in Seq(RowItems) /\ UniqueKeys(rs) /\ DOMAIN rs = 1 .. Len(rs) /\ Len(rs) \in Nat
        /\ \A i \in DOMAIN rs : rs[i] \in RowItems
    BY DEF RowLists
  <1>2. \A r \in RowItems : r.k \in Wanted /\ r.k \in Nodes /\ r.k \in Int /\ r.d \in Int
    BY DEF RowItems, Wanted, Nodes, View, IndexView
  <1>3. ToSet(rs) \subseteq RowItems /\ IsFiniteSet(ToSet(rs))
    BY <1>1, SequenceIsFinite
  <1>4. \A x, y \in ToSet(rs) : x.k = y.k => x = y
    BY <1>1 DEF ToSet, UniqueKeys
  <1> QED BY <1>1, <1>2, <1>3, <1>4

\* A list is as long as the set of its rows, and no longer than there are
\* wanted nodes.
LEMMA RowCount ==
    ASSUME View, NEW rs \in RowLists
    PROVE  /\ Len(rs) = Cardinality(ToSet(rs)) /\ Len(rs) <= Cardinality(Wanted)
           /\ Cardinality(Wanted) \in Nat
           /\ {rs[i].k : i \in DOMAIN rs} = Wanted => Len(rs) = Cardinality(Wanted)
  <1> DEFINE n == Len(rs)
             keys == [i \in 1 .. n |-> rs[i].k]
  <1>1. /\ DOMAIN rs = 1 .. n /\ n \in Nat /\ UniqueKeys(rs) /\ rs \in Seq(RowItems)
        /\ \A i \in DOMAIN rs : rs[i].k \in Wanted
        /\ IsFiniteSet(ToSet(rs))
    BY RowFacts
  <1>2. IsFiniteSet(Wanted) /\ Cardinality(Wanted) \in Nat
    <2>1. Wanted \in SUBSET Nodes
      BY DEF Wanted
    <2>2. IsFiniteSet(Wanted)
      BY <2>1, NodesAreFinite, FS_Subset
    <2> QED BY <2>2, FS_CardinalityType
  <1>3. IsFiniteSet(1 .. n) /\ Cardinality(1 .. n) = n
    <2>1. 1 \in Int /\ n \in Int
      BY <1>1
    <2> HIDE DEF n
    <2>2. IsFiniteSet(1 .. n) /\ Cardinality(1 .. n) = IF 1 > n THEN 0 ELSE n - 1 + 1
      BY <2>1, FS_Interval
    <2> QED BY <1>1, <2>2
  <1>4. keys \in Injection(1 .. n, Wanted)
    <2>1. keys \in [1 .. n -> Wanted]
      BY <1>1
    <2>2. \A i, j \in 1 .. n : keys[i] = keys[j] => i = j
      BY <1>1 DEF UniqueKeys
    <2> HIDE DEF keys
    <2> QED BY <2>1, <2>2 DEF Injection, IsInjective
  <1>5. rs \in Surjection(1 .. n, ToSet(rs)) /\ rs \in Injection(1 .. n, ToSet(rs))
    <2> HIDE DEF n
    <2>1. rs \in [1 .. n -> ToSet(rs)]
      <3>1. \A i \in 1 .. n : rs[i] \in ToSet(rs)
        BY <1>1 DEF ToSet
      <3> QED BY <1>1, <3>1
    <2>2. \A x \in ToSet(rs) : \E i \in 1 .. n : rs[i] = x
      BY <1>1 DEF ToSet
    <2>3. \A i, j \in 1 .. n : rs[i] = rs[j] => i = j
      BY <1>1 DEF UniqueKeys
    <2> QED BY <2>1, <2>2, <2>3 DEF Injection, IsInjective, Surjection
  <1> HIDE DEF n, keys
  <1>6. Cardinality(ToSet(rs)) = n
    BY <1>3, <1>5, FS_Surjection
  <1>7. n <= Cardinality(Wanted)
    BY <1>2, <1>3, <1>4, FS_Injection
  <1>8. ASSUME {rs[i].k : i \in DOMAIN rs} = Wanted PROVE n = Cardinality(Wanted)
    <2>1. \A k \in Wanted : \E i \in 1 .. n : keys[i] = k
      BY <1>1, <1>8 DEF keys
    <2>2. keys \in Surjection(1 .. n, Wanted)
      BY <1>4, <2>1 DEF Injection, Surjection
    <2> QED BY <1>3, <2>2, <1>4, FS_Surjection
  <1> QED BY <1>2, <1>6, <1>7, <1>8 DEF n

\* Ranking a set of rows lists each of them once, the best first.
LEMMA RankedRows ==
    ASSUME View, NEW S \in SUBSET RowItems, IsFiniteSet(S), \A x, y \in S : x.k = y.k => x = y
    PROVE  /\ Ranked(S) \in RowLists /\ Rising(Ranked(S)) /\ ToSet(Ranked(S)) = S
           /\ Len(Ranked(S)) = Cardinality(S)
  <1> DEFINE L == {xy \in S \X S : Less(xy[1], xy[2])}
             s == Ranked(S)
             n == Cardinality(S)
  <1>1. \A x, y \in S : <<x, y>> \in L <=> Less(x, y)
    OBVIOUS
  <1>2. \A x \in S : {y \in S : <<y, x>> \in L} = {y \in S : Less(y, x)}
    BY <1>1
  <1>3. s = RankList(S, L)
    <2>1. s = [i \in 1 .. n |-> CHOOSE x \in S : Cardinality({y \in S : Less(y, x)}) = i - 1]
      BY DEF Ranked
    <2>2. \A i \in 1 .. n :
             (CHOOSE x \in S : Cardinality({y \in S : Less(y, x)}) = i - 1)
              = (CHOOSE x \in S : Cardinality({y \in S : <<y, x>> \in L}) = i - 1)
      <3> HIDE DEF L, n
      <3> QED BY <1>2, Zenon
    <2> HIDE DEF L
    <2> QED BY <2>1, <2>2, Zenon DEF RankList
  <1>4. /\ \A x \in S : <<x, x>> \notin L
        /\ \A x, y, z \in S : <<x, y>> \in L /\ <<y, z>> \in L => <<x, z>> \in L
        /\ \A x, y \in S : x = y \/ <<x, y>> \in L \/ <<y, x>> \in L
    <2>1. \A x \in S : x.k \in Int /\ x.d \in Int
      BY DEF RowItems, Wanted, Nodes, View, IndexView
    <2> HIDE DEF L
    <2> QED BY <1>1, <2>1 DEF Less
  <1>5. /\ s \in [1 .. n -> S]
        /\ \A i, j \in 1 .. n : s[i] = s[j] => i = j
        /\ \A x \in S : \E i \in 1 .. n : s[i] = x
        /\ \A i, j \in 1 .. n : i < j => <<s[i], s[j]>> \in L
    <2> HIDE DEF L, s, n
    <2>1. StrictOrder(S, L)
      BY <1>4, Zenon DEF StrictOrder
    <2>2. /\ RankList(S, L) \in [1 .. Cardinality(S) -> S]
          /\ \A i, j \in 1 .. Cardinality(S) : RankList(S, L)[i] = RankList(S, L)[j] => i = j
          /\ \A x \in S : \E i \in 1 .. Cardinality(S) : RankList(S, L)[i] = x
          /\ \A i, j \in 1 .. Cardinality(S) : i < j => <<RankList(S, L)[i], RankList(S, L)[j]>> \in L
      BY ONLY IsFiniteSet(S), <2>1, OrderedList
    <2> QED BY <1>3, <2>2 DEF n
  <1>6. n \in Nat
    BY FS_CardinalityType
  <1> HIDE DEF s, n, L
  <1>7. s \in Seq(S) /\ Len(s) = n /\ DOMAIN s = 1 .. n
    BY <1>5, <1>6
  <1>8. ToSet(s) \subseteq S /\ S \subseteq ToSet(s)
    BY <1>5, <1>7 DEF ToSet
  <1>9. UniqueKeys(s)
    BY <1>5, <1>7 DEF UniqueKeys
  <1>10. Rising(s)
    BY <1>1, <1>5, <1>7 DEF Rising
  <1>11. s \in Seq(RowItems)
    BY <1>7
  <1> QED BY <1>7, <1>8, <1>9, <1>10, <1>11 DEF s, n, RowLists

\* Taking a part of a list.
LEMMA PartOfRows ==
    ASSUME View, NEW rs \in RowLists, NEW m \in Nat, NEW n \in 0 .. Len(rs), m <= n
    PROVE  LET part == SubSeq(rs, m + 1, n)
           IN  /\ part \in RowLists /\ Len(part) = n - m /\ DOMAIN part = 1 .. n - m
               /\ \A i \in 1 .. n - m : part[i] = rs[m + i]
               /\ ToSet(part) \subseteq ToSet(rs)
               /\ Rising(rs) => Rising(part)
  <1> DEFINE part == SubSeq(rs, m + 1, n)
  <1>1. DOMAIN rs = 1 .. Len(rs) /\ Len(rs) \in Nat /\ rs \in Seq(RowItems) /\ UniqueKeys(rs)
    BY RowFacts
  <1>2. /\ n \in Nat /\ m + 1 \in 1 .. Len(rs) + 1 /\ n - m \in Nat
        /\ \A i \in 1 .. n - m : m + i \in 1 .. Len(rs) /\ m + i \in 1 .. n
    BY <1>1
  <1>3. /\ part \in Seq(RowItems) /\ Len(part) = n - m
        /\ \A i \in 1 .. n - m : part[i] = rs[m + i]
    <2>1. /\ part \in Seq(RowItems)
          /\ Len(part) = IF m + 1 <= n THEN n - (m + 1) + 1 ELSE 0
          /\ \A i \in 1 .. n - (m + 1) + 1 : part[i] = rs[(m + 1) + i - 1]
      <3>1. \A i \in m + 1 .. n : rs[i] \in RowItems
        BY <1>1, <1>2
      <3> QED BY <1>1, <1>2, SubSeqProperties
    <2>2. n - (m + 1) + 1 = n - m /\ (~(m + 1 <= n) => n - m = 0)
      BY <1>2
    <2>3. \A i \in 1 .. n - m : (m + 1) + i - 1 = m + i
      BY <1>2
    <2> HIDE DEF part
    <2> QED BY <2>1, <2>2, <2>3
  <1> HIDE DEF part
  <1>4. DOMAIN part = 1 .. n - m
    BY <1>2, <1>3
  <1>5. UniqueKeys(part)
    <2> SUFFICES ASSUME NEW i \in 1 .. n - m, NEW j \in 1 .. n - m, part[i].k = part[j].k PROVE i = j
      BY <1>4 DEF UniqueKeys
    <2> DEFINE a == m + i
               b == m + j
    <2>1. a \in DOMAIN rs /\ b \in DOMAIN rs /\ rs[a].k = rs[b].k
      BY <1>1, <1>2, <1>3
    <2> HIDE DEF a, b
    <2>2. a = b
      BY <1>1, <2>1 DEF UniqueKeys
    <2> QED BY <1>2, <2>2 DEF a, b
  <1>6. ToSet(part) \subseteq ToSet(rs)
    BY <1>1, <1>2, <1>3, <1>4 DEF ToSet
  <1>7. ASSUME Rising(rs) PROVE Rising(part)
    <2> SUFFICES ASSUME NEW i \in 1 .. n - m, NEW j \in 1 .. n - m, i < j PROVE Less(part[i], part[j])
      BY <1>4 DEF Rising
    <2>1. m + i < m + j
      BY <1>2
    <2> QED BY <1>1, <1>2, <1>3, <1>7, <2>1 DEF Rising
  <1> QED BY <1>3, <1>4, <1>5, <1>6, <1>7 DEF part, RowLists

LEMMA TakenRows ==
    ASSUME View, NEW rs \in RowLists, NEW n \in Nat
    PROVE  /\ TakeFirst(rs, n) \in RowLists /\ ToSet(TakeFirst(rs, n)) \subseteq ToSet(rs)
           /\ Rising(rs) => Rising(TakeFirst(rs, n))
           /\ Len(TakeFirst(rs, n)) \in {n, Len(rs)}
  <1> DEFINE m == Min({n, Len(rs)})
  <1>1. m \in 0 .. Len(rs) /\ m \in {n, Len(rs)}
    <2>1. Len(rs) \in Nat
      BY RowFacts
    <2>2. n \in Int /\ Len(rs) \in Int
      BY <2>1
    <2>3. m \in {n, Len(rs)} /\ m <= n /\ m <= Len(rs)
      BY <2>2, MinOfTwo
    <2> HIDE DEF m
    <2> QED BY <2>1, <2>3
  <1>2. TakeFirst(rs, n) = SubSeq(rs, 0 + 1, m)
    BY DEF TakeFirst
  <1> HIDE DEF m
  <1>3. 0 \in Nat /\ 0 <= m /\ m - 0 = m
    BY <1>1
  <1> QED BY <1>1, <1>2, <1>3, PartOfRows

LEMMA SortedRows ==
    ASSUME View, NEW rs \in RowLists
    PROVE  /\ Sorted(rs) \in RowLists /\ Rising(Sorted(rs)) /\ ToSet(Sorted(rs)) = ToSet(rs)
           /\ Len(Sorted(rs)) = Len(rs)
  BY RowFacts, RowCount, RankedRows DEF Sorted

\* What the base layer leaves.
LEMMA BaseRows ==
    ASSUME Inv, View, scan.pc = "base"
    PROVE  BaseResults \in RowLists /\ Rising(BaseResults) /\ AllScored(ToSet(BaseResults))
  <1> DEFINE distance(i) == IF UseExactLowBitRouting THEN ExactVectorDistance(i.k) ELSE i.d
             row(i) == Result(i.k, distance(i), UseExactLowBitRouting)
             kept == {j \in scan.nearest : j.k \in Wanted}
             found == {row(i) : i \in kept}
  <1>1. /\ scan.nearest \subseteq Points /\ IsFiniteSet(scan.nearest) /\ scan.target \in Nat
        /\ \A i \in scan.nearest : i \in OfferedAs(i.k)
        /\ scan.points \in Seq(ScoredPoints) /\ UniqueKeys(scan.points)
    BY DEF Inv, BeamInv
  <1>2. ToSet(scan.points) \subseteq ScoredPoints
    BY <1>1, SequenceIsFinite
  <1>3. \A x, y \in kept : x.k = y.k => x = y
    <2> SUFFICES ASSUME NEW x \in kept, NEW y \in kept, x.k = y.k PROVE x = y
      OBVIOUS
    <2>1. \A e, f \in ToSet(scan.points) : e.k = f.k => e = f
      BY <1>1 DEF ToSet, UniqueKeys
    <2>2. x \in OfferedAs(x.k) /\ y \in OfferedAs(x.k)
      BY <1>1
    <2> QED BY <2>1, <2>2 DEF OfferedAs
  <1>4. \A i \in kept : HasExactVector \/ i.d \in {ScoreNode(i.k), Unscored}
    <2> SUFFICES ASSUME NEW i \in kept PROVE HasExactVector \/ i.d \in {ScoreNode(i.k), Unscored}
      OBVIOUS
    <2>1. i \in ToSet(scan.points) \/ i = Item(i.k, ScoreNode(i.k))
      BY <1>1 DEF OfferedAs
    <2> QED BY <1>2, <2>1 DEF Item, ScoredPoints
  <1>5. ASSUME NEW i \in kept
        PROVE  row(i) \in RowItems /\ row(i).k = i.k /\ ScoredRow(row(i))
    <2>1. i.k \in Nodes /\ i.k \in Wanted /\ i.d \in Int
      BY <1>1 DEF Points
    <2>2. distance(i) \in Int /\ UseExactLowBitRouting \in BOOLEAN
      <3>1. ExactVectorDistance(i.k) \in Int
        BY <2>1, DistancesAreNumbers
      <3> QED BY <2>1, <3>1 DEF UseExactLowBitRouting
    <2>3. UseExactLowBitRouting => HasExactVector
      BY DEF UseExactLowBitRouting
    <2>4. HasExactVector \/ i.d \in {ScoreNode(i.k), Unscored}
      BY <1>4
    <2>5. row(i) \in RowItems /\ row(i).k = i.k
      <3> HIDE DEF distance
      <3> QED BY <2>1, <2>2 DEF Result, RowItems
    <2>6. UseExactLowBitRouting \/ row(i) = Result(i.k, i.d, FALSE)
      <3>1. ~UseExactLowBitRouting => distance(i) = i.d
        OBVIOUS
      <3>2. ~UseExactLowBitRouting => UseExactLowBitRouting = FALSE
        BY <2>2
      <3> HIDE DEF distance
      <3> QED BY <3>1, <3>2
    <2> HIDE DEF row
    <2> QED BY <2>3, <2>4, <2>5, <2>6 DEF ScoredRow, Result
  <1>6. IsFiniteSet(found)
    <2> DEFINE f == [i \in kept |-> row(i)]
    <2>1. IsFiniteSet(kept)
      <3>1. kept \in SUBSET scan.nearest
        OBVIOUS
      <3> HIDE DEF kept
      <3> QED BY <1>1, <3>1, FS_Subset
    <2>2. found = {f[i] : i \in kept}
      OBVIOUS
    <2> HIDE DEF f, kept, found
    <2> QED BY <2>1, <2>2, ImageIsFinite
  <1>7. found \in SUBSET RowItems /\ \A x, y \in found : x.k = y.k => x = y
    <2> HIDE DEF row, kept
    <2> QED BY <1>3, <1>5
  <1>8. AllScored(found)
    <2> HIDE DEF row, kept
    <2> QED BY <1>5 DEF AllScored
  <1>9. BaseResults = TakeFirst(Ranked(found), scan.target)
    BY DEF BaseResults
  <1> HIDE DEF found
  <1>10. Ranked(found) \in RowLists /\ Rising(Ranked(found)) /\ ToSet(Ranked(found)) = found
    BY <1>6, <1>7, RankedRows
  <1>11. /\ BaseResults \in RowLists /\ Rising(BaseResults) /\ ToSet(BaseResults) \subseteq found
    BY <1>1, <1>9, <1>10, TakenRows
  <1> QED BY <1>8, <1>11 DEF AllScored

\* Rows for nodes that a list does not have yet.
LEMMA NewRows ==
    ASSUME View, NEW rs \in RowLists, NEW K \in SUBSET (Wanted \ {rs[i].k : i \in DOMAIN rs})
    PROVE  LET all == ToSet(rs) \cup {Result(k, ScoreNode(k), FALSE) : k \in K}
           IN  /\ all \in SUBSET RowItems /\ IsFiniteSet(all)
               /\ \A x, y \in all : x.k = y.k => x = y
               /\ AllScored(ToSet(rs)) => AllScored(all)
  <1> DEFINE row(k) == Result(k, ScoreNode(k), FALSE)
             new == {row(k) : k \in K}
  <1>1. /\ ToSet(rs) \in SUBSET RowItems /\ IsFiniteSet(ToSet(rs))
        /\ \A x, y \in ToSet(rs) : x.k = y.k => x = y
        /\ \A x \in ToSet(rs) : x.k \notin K
    <2>1. \A x \in ToSet(rs) : x.k \notin K
      BY DEF ToSet
    <2> QED BY <2>1, RowFacts
  <1>2. \A k \in K : row(k) \in RowItems /\ row(k).k = k /\ ScoredRow(row(k))
    <2> SUFFICES ASSUME NEW k \in K PROVE row(k) \in RowItems /\ row(k).k = k /\ ScoredRow(row(k))
      OBVIOUS
    <2>1. k \in Wanted /\ k \in Nodes
      BY DEF Wanted
    <2>2. ScoreNode(k) \in Int
      BY <2>1, DistancesAreNumbers
    <2> QED BY <2>1, <2>2 DEF Result, RowItems, ScoredRow
  <1>3. IsFiniteSet(new)
    <2> DEFINE f == [k \in K |-> row(k)]
    <2>1. IsFiniteSet(K)
      <3>1. K \in SUBSET Nodes
        BY DEF Wanted
      <3> QED BY <3>1, NodesAreFinite, FS_Subset
    <2>2. new = {f[k] : k \in K}
      OBVIOUS
    <2> HIDE DEF f, new
    <2> QED BY <2>1, <2>2, ImageIsFinite
  <1>4. \A x \in new : x \in RowItems /\ x.k \in K /\ ScoredRow(x) /\ x = row(x.k)
    <2> HIDE DEF row
    <2> QED BY <1>2
  <1> HIDE DEF row, new
  <1>5. IsFiniteSet(ToSet(rs) \cup new)
    BY <1>1, <1>3, FS_Union
  <1>6. \A x, y \in ToSet(rs) \cup new : x.k = y.k => x = y
    BY <1>1, <1>4
  <1>7. AllScored(ToSet(rs)) => AllScored(ToSet(rs) \cup new)
    BY <1>4 DEF AllScored
  <1> QED BY <1>1, <1>4, <1>5, <1>6, <1>7 DEF new, row

\* A list that is not short, or has every wanted node.
Enough(rs, target) == Len(rs) >= target \/ Len(rs) >= Cardinality(Wanted)

\* Filling an underfilled band.
LEMMA FilledRows ==
    ASSUME View, scan.target \in Nat, NEW rs \in RowLists, Rising(rs), AllScored(ToSet(rs))
    PROVE  LET filled == FillCandidateBand(rs)
           IN  /\ filled \in RowLists /\ Rising(filled) /\ AllScored(ToSet(filled))
               /\ Enough(filled, scan.target)
  <1> DEFINE chosen == {rs[i].k : i \in DOMAIN rs}
             pool == IF PayloadRefRange THEN PayloadRefs
                     ELSE IF q.filter # NoFilter /\ AnyPayloadRefs THEN {} ELSE Nodes
             K == {j \in pool \ chosen : j \in Wanted}
             all == ToSet(rs) \cup {Result(k, ScoreNode(k), FALSE) : k \in K}
  <1>1. \/ FillCandidateBand(rs) = rs /\ Len(rs) >= scan.target
        \/ FillCandidateBand(rs) = TakeFirst(Ranked(all), scan.target)
    BY DEF FillCandidateBand
  <1>2. K \in SUBSET (Wanted \ chosen)
    OBVIOUS
  <1>3. {r.k : r \in all} = Wanted
    <2>1. Wanted \subseteq Nodes /\ \A k \in Wanted : Live(k) /\ NodeMatchesPayload(k)
      BY DEF Wanted
    <2>2. q.filter # NoFilter /\ idx.cached => PayloadRefs = Wanted
      BY DEF PayloadRefs, Wanted, NodeMatchesPayload
    <2>3. PayloadRefRange => q.filter # NoFilter /\ idx.cached /\ PayloadRefs # {}
      BY DEF PayloadRefRange, PayloadRefs
    <2>4. AnyPayloadRefs => idx.cached
      BY DEF AnyPayloadRefs
    <2>5. Wanted \subseteq pool
      <3>1. CASE PayloadRefRange
        BY <2>2, <2>3, <3>1
      <3>2. CASE ~PayloadRefRange /\ q.filter # NoFilter /\ AnyPayloadRefs
        BY <2>2, <2>4, <3>2 DEF PayloadRefRange
      <3>3. CASE ~PayloadRefRange /\ ~(q.filter # NoFilter /\ AnyPayloadRefs)
        BY <2>1, <3>3
      <3> QED BY <3>1, <3>2, <3>3
    <2>6. {r.k : r \in ToSet(rs)} = chosen /\ chosen \subseteq Wanted
      <3>1. \A i \in DOMAIN rs : rs[i].k \in Wanted
        BY RowFacts
      <3> QED BY <3>1 DEF ToSet
    <2>7. {r.k : r \in {Result(k, ScoreNode(k), FALSE) : k \in K}} = K
      <3>1. \A k \in K : Result(k, ScoreNode(k), FALSE).k = k
        BY DEF Result
      <3> HIDE DEF K
      <3> QED BY <3>1
    <2>8. K \cup chosen = Wanted
      BY <2>5, <2>6
    <2> HIDE DEF K, chosen
    <2> QED BY <2>6, <2>7, <2>8
  <1>4. /\ all \in SUBSET RowItems /\ IsFiniteSet(all) /\ AllScored(all)
        /\ \A x, y \in all : x.k = y.k => x = y
    <2> HIDE DEF K
    <2> QED BY <1>2, NewRows
  <1> HIDE DEF all
  <1>5. Ranked(all) \in RowLists /\ Rising(Ranked(all)) /\ ToSet(Ranked(all)) = all
    BY <1>4, RankedRows
  <1> DEFINE t == TakeFirst(Ranked(all), scan.target)
  <1>6. t \in RowLists /\ Rising(t) /\ ToSet(t) \subseteq all /\ Len(t) \in {scan.target, Len(Ranked(all))}
    BY <1>5, TakenRows
  <1>7. Len(Ranked(all)) = Cardinality(Wanted)
    <2> DEFINE s == Ranked(all)
    <2>1. {s[i].k : i \in DOMAIN s} = {r.k : r \in ToSet(s)}
      BY DEF ToSet
    <2>2. s \in RowLists /\ {s[i].k : i \in DOMAIN s} = Wanted
      BY <1>5, <1>3, <2>1
    <2> HIDE DEF s
    <2>3. Len(s) = Cardinality(Wanted)
      BY <2>2, RowCount
    <2> QED BY <2>3 DEF s
  <1>8. Cardinality(Wanted) \in Nat
    BY RowCount
  <1> HIDE DEF t
  <1>9. AllScored(ToSet(t))
    BY <1>4, <1>6 DEF AllScored
  <1>10. Enough(t, scan.target)
    BY <1>6, <1>7, <1>8 DEF Enough
  <1> QED BY <1>1, <1>6, <1>9, <1>10 DEF t, Enough

\* Joining lists, one after another.
LEMMA JoinedLists ==
    ASSUME NEW L, NEW lists, NEW n \in Nat, n >= 1, Len(lists) = n, \A i \in 1 .. n : lists[i] \in L,
           \A a, b \in L : a \o b \in L
    PROVE  FlattenSeq(lists) \in L
  <1> DEFINE Q(f) == f = [i \in 1 .. n |-> IF i = 1 THEN lists[i] ELSE f[i - 1] \o lists[i]]
             flatten == CHOOSE f : Q(f)
             F == [i \in 1 .. n - 1 |-> [at \in L |-> at \o lists[i + 1]]]
  <1>1. FlattenSeq(lists) = flatten[n]
    BY DEF FlattenSeq
  <1>2. F \in [1 .. n - 1 -> [L -> L]]
    <2>1. \A i \in 1 .. n - 1 : i + 1 \in 1 .. n
      OBVIOUS
    <2> QED BY <2>1
  <1>3. \A i \in 1 .. n - 1, at \in L : F[i][at] = at \o lists[i + 1]
    OBVIOUS
  <1> HIDE DEF F, Q, flatten
  <1>4. PICK h \in [0 .. n - 1 -> L] :
           h[0] = lists[1] /\ \A i \in 1 .. n - 1 : h[i] = F[i][h[i - 1]]
    <2>1. PICK m \in Nat : m = n - 1
      OBVIOUS
    <2>2. PICK first \in L : first = lists[1]
      OBVIOUS
    <2>3. m \in Nat /\ first \in L /\ F \in [1 .. m -> [L -> L]]
      BY <1>2, <2>1
    <2>4. \E h \in [0 .. m -> L] : h[0] = first /\ \A i \in 1 .. m : h[i] = F[i][h[i - 1]]
      BY ONLY <2>3, StepByStep
    <2> QED BY <2>1, <2>2, <2>4
  <1>5. Q([i \in 1 .. n |-> h[i - 1]])
    <2> DEFINE g == [i \in 1 .. n |-> h[i - 1]]
    <2>1. ASSUME NEW i \in 1 .. n
          PROVE  g[i] = IF i = 1 THEN lists[i] ELSE g[i - 1] \o lists[i]
      <3>1. CASE i = 1
        BY <1>4, <3>1
      <3>2. CASE i # 1
        <4>1. i - 1 \in 1 .. n - 1 /\ i - 1 \in 1 .. n /\ i - 2 \in 0 .. n - 1 /\ (i - 1) - 1 = i - 2
              /\ (i - 1) + 1 = i
          BY <3>2
        <4>2. h[i - 1] = F[i - 1][h[i - 2]] /\ h[i - 2] \in L
          BY <1>4, <4>1
        <4>3. h[i - 1] = h[i - 2] \o lists[i]
          BY <1>3, <4>1, <4>2
        <4>4. g[i] = h[i - 1] /\ g[i - 1] = h[i - 2]
          BY <4>1
        <4> QED BY <3>2, <4>3, <4>4
      <3> QED BY <3>1, <3>2
    <2> QED BY <2>1 DEF Q
  <1>6. Q(flatten)
    BY <1>5 DEF flatten
  <1>7. \A i \in 0 .. n - 1 : flatten[i + 1] \in L
    <2> DEFINE f == [i \in 0 .. n - 1 |-> flatten[i + 1]]
    <2>1. f[0] \in L
      BY <1>6 DEF Q
    <2>2. ASSUME NEW i \in 1 .. n - 1, f[i - 1] \in L PROVE f[i] \in L
      <3>1. i + 1 \in 1 .. n /\ i + 1 # 1 /\ (i + 1) - 1 = i /\ (i - 1) + 1 = i /\ i \in 0 .. n - 1
            /\ i - 1 \in 0 .. n - 1
        OBVIOUS
      <3>2. flatten[i + 1] = flatten[i] \o lists[i + 1]
        BY <1>6, <3>1 DEF Q
      <3>3. f[i - 1] = flatten[i] /\ f[i] = flatten[i + 1]
        BY <3>1
      <3> QED BY <2>2, <3>1, <3>2, <3>3
    <2> HIDE DEF f
    <2>3. n - 1 \in Nat
      OBVIOUS
    <2>4. \A i \in 0 .. n - 1 : f[i] \in L
      BY <2>1, <2>2, <2>3, StepsStay
    <2> QED BY <2>4 DEF f
  <1>8. flatten[n] \in L
    <2>1. n - 1 \in 0 .. n - 1 /\ (n - 1) + 1 = n
      OBVIOUS
    <2> QED BY <1>7, <2>1
  <1> QED BY <1>1, <1>8

LEMMA FlattenedIsAList ==
    ASSUME NEW T, NEW lists \in Seq(Seq(T)), lists # <<>>
    PROVE  FlattenSeq(lists) \in Seq(T)
  <1>1. Len(lists) \in Nat /\ Len(lists) >= 1 /\ \A i \in 1 .. Len(lists) : lists[i] \in Seq(T)
    OBVIOUS
  <1>2. PICK L : L = Seq(T)
    OBVIOUS
  <1>3. \A a, b \in L : a \o b \in L
    BY <1>2
  <1>4. FlattenSeq(lists) \in L
    BY <1>1, <1>2, <1>3, JoinedLists
  <1> QED BY <1>2, <1>4

\* A row takes a free place, or that of the last row.
LEMMA OfferedRows ==
    ASSUME View, NEW rs \in RowLists, rs # <<>>, AllScored(ToSet(rs)),
           NEW k \in Wanted, \A i \in DOMAIN rs : rs[i].k # k
    PROVE  LET offered == OfferCandidateSorted(rs, k)
           IN  /\ offered \in RowLists /\ offered # <<>> /\ AllScored(ToSet(offered))
               /\ Len(offered) >= Len(rs)
               /\ \A i \in DOMAIN offered : offered[i].k = k \/ \E j \in DOMAIN rs : offered[i].k = rs[j].k
  <1> DEFINE new == Result(k, ScoreNode(k), FALSE)
             longer == Append(rs, new)
             swapped == [rs EXCEPT ![Len(rs)] = new]
  <1>1. /\ DOMAIN rs = 1 .. Len(rs) /\ Len(rs) \in Nat /\ rs \in Seq(RowItems) /\ UniqueKeys(rs)
        /\ Len(rs) # 0 /\ Len(rs) \in DOMAIN rs
        /\ \A i \in DOMAIN rs : rs[i] \in RowItems /\ ScoredRow(rs[i])
    <2>1. /\ DOMAIN rs = 1 .. Len(rs) /\ Len(rs) \in Nat /\ rs \in Seq(RowItems) /\ UniqueKeys(rs)
          /\ \A i \in DOMAIN rs : rs[i] \in RowItems
      BY RowFacts
    <2>2. Len(rs) # 0
      BY <2>1
    <2>3. \A i \in DOMAIN rs : ScoredRow(rs[i])
      BY DEF AllScored, ToSet
    <2> QED BY <2>1, <2>2, <2>3
  <1>2. new \in RowItems /\ new.k = k /\ ScoredRow(new)
    <2>1. ScoreNode(k) \in Int
      BY DistancesAreNumbers DEF Wanted
    <2> QED BY <2>1 DEF Result, RowItems, ScoredRow
  <1>3. OfferCandidateSorted(rs, k) \in {rs, longer, swapped}
    BY DEF OfferCandidateSorted
  <1> DEFINE Good(s) == /\ s \in RowLists /\ s # <<>> /\ AllScored(ToSet(s)) /\ Len(s) >= Len(rs)
                        /\ \A i \in DOMAIN s : s[i].k = k \/ \E j \in DOMAIN rs : s[i].k = rs[j].k
  <1>4. Good(rs)
    BY <1>1
  <1> HIDE DEF new
  <1>5. Good(longer)
    <2>1. /\ longer \in Seq(RowItems) /\ DOMAIN longer = 1 .. Len(rs) + 1 /\ longer # <<>>
          /\ Len(longer) = Len(rs) + 1
          /\ longer[Len(rs) + 1] = new /\ \A i \in DOMAIN rs : longer[i] = rs[i]
      BY <1>1, <1>2
    <2> HIDE DEF longer
    <2>2. \A i \in DOMAIN longer : i \in DOMAIN rs \/ i = Len(rs) + 1
      BY <1>1, <2>1
    <2>3. UniqueKeys(longer)
      BY <1>1, <1>2, <2>1, <2>2 DEF UniqueKeys
    <2>4. AllScored(ToSet(longer))
      BY <1>1, <1>2, <2>1, <2>2 DEF AllScored, ToSet
    <2>5. Len(longer) >= Len(rs)
      BY <1>1, <2>1
    <2> QED BY <1>2, <2>1, <2>2, <2>3, <2>4, <2>5 DEF RowLists
  <1>6. Good(swapped)
    <2>1. /\ DOMAIN swapped = DOMAIN rs /\ Len(swapped) = Len(rs) /\ swapped \in Seq(RowItems)
          /\ \A i \in DOMAIN rs : swapped[i] = IF i = Len(rs) THEN new ELSE rs[i]
      BY <1>1, <1>2
    <2> HIDE DEF swapped
    <2>2. UniqueKeys(swapped)
      BY <1>1, <1>2, <2>1 DEF UniqueKeys
    <2>3. AllScored(ToSet(swapped))
      BY <1>1, <1>2, <2>1 DEF AllScored, ToSet
    <2>4. swapped # <<>> /\ Len(swapped) >= Len(rs)
      BY <1>1, <2>1
    <2> QED BY <1>2, <2>1, <2>2, <2>3, <2>4 DEF RowLists
  <1> HIDE DEF longer, swapped
  <1> QED BY <1>3, <1>4, <1>5, <1>6

\* Adding the neighbours of the best.
LEMMA ExpandedRows ==
    ASSUME View, NEW rs \in RowLists, Rising(rs), AllScored(ToSet(rs))
    PROVE  LET expanded == ApplyLocalExpansion(rs)
           IN  /\ expanded \in RowLists /\ Rising(expanded) /\ AllScored(ToSet(expanded))
               /\ Len(expanded) >= Len(rs)
  <1> DEFINE chosen == {rs[i].k : i \in DOMAIN rs}
             seeds == TakeFirst(rs, 8)
             nodes == FlattenSeq([i \in DOMAIN seeds |-> idx.adj[0][seeds[i].k]])
             n == Len(nodes)
             offered(i) == nodes[i] \in Wanted \ chosen /\ \A j \in 1..(i - 1) : nodes[j] # nodes[i]
             offer(i, at) == IF offered(i) THEN OfferCandidateSorted(at, nodes[i]) ELSE at
             Q(f) == f = [i \in 0 .. n |-> IF i = 0 THEN rs ELSE offer(i, f[i - 1])]
             after == CHOOSE f : Q(f)
             \* What the list may be before place i + 1.
             Upto(i) == {at \in RowLists :
                           /\ at # <<>> /\ AllScored(ToSet(at)) /\ Len(at) >= Len(rs)
                           /\ \A p \in DOMAIN at : at[p].k \in chosen \cup {nodes[j] : j \in 1 .. i}}
  <1>1. Len(rs) \in Nat
    <2> HIDE DEF n
    <2> QED BY RowFacts
  <1>2. CASE ~LocalExpansionShouldTrigger(rs)
    <2>1. ApplyLocalExpansion(rs) = rs
      BY <1>2 DEF ApplyLocalExpansion
    <2>2. Len(rs) >= Len(rs)
      BY <1>1
    <2> QED BY <2>1, <2>2
  <1>3. CASE LocalExpansionShouldTrigger(rs)
    <2>1. rs # <<>> /\ ApplyLocalExpansion(rs) = Sorted(after[n])
      BY <1>3 DEF ApplyLocalExpansion, LocalExpansionShouldTrigger
    <2>2. n \in Nat
      <3> DEFINE lists == [i \in DOMAIN seeds |-> idx.adj[0][seeds[i].k]]
      <3>1. /\ seeds \in RowLists /\ DOMAIN seeds = 1 .. Len(seeds) /\ Len(seeds) \in Nat
            /\ \A i \in DOMAIN seeds : seeds[i].k \in Nodes
        <4>1. seeds \in RowLists
          BY TakenRows
        <4> HIDE DEF seeds
        <4> QED BY <4>1, RowFacts
      <3>2. Len(seeds) # 0
        <4> DEFINE m == Min({8, Len(rs)})
        <4>1. Len(rs) \in Nat /\ Len(rs) # 0 /\ DOMAIN rs = 1 .. Len(rs)
          <5>1. Len(rs) \in Nat /\ DOMAIN rs = 1 .. Len(rs) /\ rs \in Seq(RowItems)
            <6> HIDE DEF n
            <6> QED BY RowFacts
          <5>2. \A T : \A s \in Seq(T) : s # <<>> => Len(s) # 0
            OBVIOUS
          <5> QED BY <2>1, <5>1, <5>2
        <4>2. m \in 1 .. Len(rs)
          <5>1. 8 \in Int /\ Len(rs) \in Int
            BY <4>1
          <5>2. m \in Int /\ m <= Len(rs) /\ m \in {8, Len(rs)}
            BY <5>1, MinOfTwo
          <5> HIDE DEF m
          <5>3. \A a \in Nat, b \in Int : a # 0 /\ b <= a /\ b \in {8, a} => b \in 1 .. a
            OBVIOUS
          <5> QED BY <4>1, <5>2, <5>3, Zenon
        <4>3. seeds = SubSeq(rs, 0 + 1, m)
          BY DEF TakeFirst
        <4> HIDE DEF m, seeds
        <4>4. 0 \in Nat /\ 0 <= m /\ m \in 0 .. Len(rs)
          BY <4>1, <4>2
        <4>5. Len(seeds) = m - 0
          BY <4>3, <4>4, PartOfRows
        <4> QED BY <4>1, <4>2, <4>5
      <3>3. \A k \in Nodes : idx.adj[0][k] \in Seq(Nat)
        <4>1. 0 \in 0 .. idx.maxLevel
          BY DEF View, IndexView
        <4> QED BY <4>1 DEF View, IndexView, Nodes
      <3> HIDE DEF seeds
      <3>4. lists \in Seq(Seq(Nat)) /\ lists # <<>>
        <4>1. lists \in [1 .. Len(seeds) -> Seq(Nat)]
          BY <3>1, <3>3
        <4>2. lists \in Seq(Seq(Nat)) /\ Len(lists) = Len(seeds)
          BY <3>1, <4>1
        <4> QED BY <3>2, <4>2
      <3> HIDE DEF lists
      <3>5. FlattenSeq(lists) \in Seq(Nat)
        BY <3>4, FlattenedIsAList
      <3>6. nodes = FlattenSeq(lists)
        BY DEF lists
      <3> HIDE DEF nodes
      <3> QED BY <3>5, <3>6
    <2> HIDE DEF nodes
    <2>3. rs \in Upto(0)
      BY <1>1, <2>1
    <2>4. ASSUME NEW i \in 1 .. n, NEW at \in Upto(i - 1)
          PROVE  offer(i, at) \in Upto(i)
      <3>1. i \in Nat /\ i - 1 \in Nat /\ 1 .. i = 1 .. (i - 1) \cup {i}
        BY <2>2
      <3>2. /\ at \in RowLists /\ at # <<>> /\ AllScored(ToSet(at)) /\ Len(at) >= Len(rs)
            /\ \A p \in DOMAIN at : at[p].k \in chosen \cup {nodes[j] : j \in 1 .. (i - 1)}
        OBVIOUS
      <3> HIDE DEF chosen, n
      <3>3. CASE ~offered(i)
        BY <3>1, <3>2, <3>3
      <3>4. CASE offered(i)
        <4> DEFINE more == OfferCandidateSorted(at, nodes[i])
        <4>1. nodes[i] \in Wanted /\ \A p \in DOMAIN at : at[p].k # nodes[i]
          BY <3>2, <3>4
        <4>2. /\ more \in RowLists /\ more # <<>> /\ AllScored(ToSet(more)) /\ Len(more) >= Len(at)
              /\ \A p \in DOMAIN more : more[p].k = nodes[i] \/ \E j \in DOMAIN at : more[p].k = at[j].k
          BY <3>2, <4>1, OfferedRows
        <4> HIDE DEF more
        <4>3. Len(more) >= Len(rs)
          <5>1. Len(at) \in Nat /\ Len(more) \in Nat
            BY <3>2, <4>2, RowFacts
          <5> QED BY <1>1, <3>2, <4>2, <5>1
        <4>4. more \in Upto(i)
          BY <3>1, <3>2, <4>2, <4>3
        <4> QED BY <3>4, <4>4 DEF more
      <3> QED BY <3>3, <3>4
    <2> DEFINE All == UNION {Upto(i) : i \in 0 .. n}
               F == [i \in 1 .. n |-> [at \in All |-> IF at \in Upto(i - 1) THEN offer(i, at) ELSE rs]]
               U == [i \in 0 .. n |-> Upto(i)]
    <2> HIDE DEF offer, n, Upto, Q, after
    <2>5. \A i \in 0 .. n : U[i] = Upto(i)
      OBVIOUS
    <2> HIDE DEF U
    <2>6. rs \in All /\ \A i \in 0 .. n : Upto(i) \subseteq All
      BY <2>2, <2>3
    <2>7. \A i \in 1 .. n, at \in All : (IF at \in Upto(i - 1) THEN offer(i, at) ELSE rs) \in All
      BY <2>2, <2>4, <2>6
    <2>8. /\ F \in [1 .. n -> [All -> All]]
          /\ \A i \in 1 .. n : \A at \in All : F[i][at] = IF at \in Upto(i - 1) THEN offer(i, at) ELSE rs
      <3> HIDE DEF All
      <3> QED BY <2>7
    <2> HIDE DEF F
    <2>9. PICK h \in [0 .. n -> All] : h[0] = rs /\ \A i \in 1 .. n : h[i] = F[i][h[i - 1]]
      <3> HIDE DEF All
      <3>1. F \in [1 .. n -> [All -> All]]
        BY <2>8
      <3> QED BY <2>2, <2>6, <3>1, StepByStep, SMTT(30)
    <2>10. \A i \in 0 .. n : h[i] \in Upto(i)
      <3> HIDE DEF All
      <3>1. h[0] \in U[0]
        BY <2>5, <2>2, <2>3, <2>9
      <3>2. ASSUME NEW i \in 1 .. n, h[i - 1] \in U[i - 1] PROVE h[i] \in U[i]
        <4>1. i - 1 \in 0 .. n /\ i \in 0 .. n
          BY <2>2
        <4>2. h[i - 1] \in Upto(i - 1) /\ h[i - 1] \in All
          BY <2>5, <2>9, <3>2, <4>1
        <4>3. h[i] = offer(i, h[i - 1])
          BY <2>8, <2>9, <4>2
        <4>4. h[i] \in Upto(i)
          BY <2>4, <4>2, <4>3
        <4> QED BY <2>5, <4>1, <4>4
      <3>3. \A i \in 0 .. n : h[i] \in U[i]
        BY <2>2, <3>1, <3>2, PlacesStay
      <3> QED BY <2>5, <3>3
    <2>11. Q(h)
      <3>1. \A i \in 1 .. n : h[i] = offer(i, h[i - 1])
        <4> SUFFICES ASSUME NEW i \in 1 .. n PROVE h[i] = offer(i, h[i - 1])
          OBVIOUS
        <4>1. i - 1 \in 0 .. n
          BY <2>2
        <4>2. h[i - 1] \in Upto(i - 1) /\ h[i - 1] \in All
          BY <2>9, <2>10, <4>1
        <4> HIDE DEF All
        <4> QED BY <2>8, <2>9, <4>2
      <3>2. h = [i \in 0 .. n |-> h[i]]
        BY <2>9
      <3>3. \A i \in 0 .. n : h[i] = IF i = 0 THEN rs ELSE offer(i, h[i - 1])
        BY <2>2, <2>9, <3>1
      <3> QED BY <3>2, <3>3 DEF Q
    <2>12. Q(after)
      BY <2>11 DEF after
    <2>13. \A i \in 0 .. n : after[i] \in Upto(i)
      <3>1. after[0] \in U[0]
        BY <2>5, <2>2, <2>3, <2>12 DEF Q
      <3>2. ASSUME NEW i \in 1 .. n, after[i - 1] \in U[i - 1] PROVE after[i] \in U[i]
        <4>1. i - 1 \in 0 .. n /\ i \in 0 .. n /\ i # 0
          BY <2>2
        <4>2. after[i - 1] \in Upto(i - 1)
          BY <2>5, <3>2, <4>1
        <4>3. after[i] = offer(i, after[i - 1])
          BY <2>12, <4>1 DEF Q
        <4>4. after[i] \in Upto(i)
          BY <2>4, <4>2, <4>3
        <4> QED BY <2>5, <4>1, <4>4
      <3>3. \A i \in 0 .. n : after[i] \in U[i]
        BY <2>2, <3>1, <3>2, PlacesStay
      <3> QED BY <2>5, <3>3
    <2>14. after[n] \in RowLists /\ AllScored(ToSet(after[n])) /\ Len(after[n]) >= Len(rs)
      BY <2>2, <2>13 DEF Upto
    <2>15. /\ Sorted(after[n]) \in RowLists /\ Rising(Sorted(after[n]))
           /\ ToSet(Sorted(after[n])) = ToSet(after[n]) /\ Len(Sorted(after[n])) = Len(after[n])
      BY <2>14, SortedRows
    <2> QED BY <2>1, <2>14, <2>15
  <1> QED BY <1>2, <1>3

\* What a pass makes of its base layer.
FilledPass ==
    \/ Selective \/ scan.pass = "tight"
    \/ scan.pass \in {"first", "retry"} /\ q.filter = NoFilter /\ scan.target >= idx.n

LEMMA PassRows ==
    ASSUME Inv, View, scan.pc = "base"
    PROVE  /\ PassResults \in RowLists /\ Rising(PassResults) /\ AllScored(ToSet(PassResults))
           /\ FilledPass => Enough(PassResults, scan.target)
  <1> DEFINE found == BaseResults
             filled == FillCandidateBand(found)
  <1>1. found \in RowLists /\ Rising(found) /\ AllScored(ToSet(found)) /\ scan.target \in Nat
    BY BaseRows DEF Inv, BeamInv
  <1> HIDE DEF found
  <1>2. filled \in RowLists /\ Rising(filled) /\ AllScored(ToSet(filled)) /\ Enough(filled, scan.target)
    BY <1>1, FilledRows
  <1> HIDE DEF filled
  <1>3. /\ PassResults \in {found, filled, ApplyLocalExpansion(found), ApplyLocalExpansion(filled)}
        /\ FilledPass => PassResults \in {filled, ApplyLocalExpansion(filled)}
    BY DEF PassResults, FilledPass, found, filled
  <1>4. \A band \in {found, filled} :
          /\ ApplyLocalExpansion(band) \in RowLists /\ Rising(ApplyLocalExpansion(band))
          /\ AllScored(ToSet(ApplyLocalExpansion(band)))
          /\ Len(ApplyLocalExpansion(band)) >= Len(band)
    BY <1>1, <1>2, ExpandedRows
  <1>5. Enough(ApplyLocalExpansion(filled), scan.target)
    <2>1. /\ Len(filled) \in Nat /\ Len(ApplyLocalExpansion(filled)) \in Nat
          /\ Cardinality(Wanted) \in Nat
      BY <1>2, <1>4, RowFacts, RowCount
    <2> QED BY <1>1, <1>2, <1>4, <2>1 DEF Enough
  <1> QED BY <1>1, <1>2, <1>3, <1>4, <1>5

\* A new distance for some rows.
LEMMA SameNodes ==
    ASSUME View, NEW rs \in RowLists, NEW new \in [1 .. Len(rs) -> RowItems],
           \A i \in DOMAIN rs : new[i].k = rs[i].k
    PROVE  new \in RowLists /\ Len(new) = Len(rs)
  <1>1. DOMAIN rs = 1 .. Len(rs) /\ Len(rs) \in Nat /\ UniqueKeys(rs)
    BY RowFacts
  <1>2. new \in Seq(RowItems) /\ Len(new) = Len(rs) /\ DOMAIN new = 1 .. Len(rs)
    BY <1>1
  <1>3. UniqueKeys(new)
    BY <1>1, <1>2 DEF UniqueKeys
  <1> QED BY <1>2, <1>3 DEF RowLists

\* Sorting the first of a list.
LEMMA SortedFirstRows ==
    ASSUME View, NEW rs \in RowLists, NEW n \in 0 .. Len(rs)
    PROVE  SortFirst(rs, n) \in RowLists /\ Len(SortFirst(rs, n)) = Len(rs)
  <1> DEFINE front == SubSeq(rs, 0 + 1, n)
             back == SubSeq(rs, n + 1, Len(rs))
             s == Sorted(front)
             c == s \o back
  <1>1. DOMAIN rs = 1 .. Len(rs) /\ Len(rs) \in Nat /\ UniqueKeys(rs)
    BY RowFacts
  <1>2. /\ front \in RowLists /\ DOMAIN front = 1 .. n /\ Len(front) = n
        /\ \A i \in 1 .. n : front[i] = rs[i]
    <2>1. 0 \in Nat /\ 0 <= n /\ n - 0 = n /\ \A i \in 1 .. n : 0 + i = i
      BY <1>1
    <2>2. /\ front \in RowLists /\ DOMAIN front = 1 .. n - 0 /\ Len(front) = n - 0
          /\ \A i \in 1 .. n - 0 : front[i] = rs[0 + i]
      BY <2>1, PartOfRows
    <2> HIDE DEF front
    <2> QED BY <2>1, <2>2
  <1>3. /\ back \in RowLists /\ Len(back) = Len(rs) - n
        /\ \A i \in DOMAIN back : \E j \in 1 .. Len(rs) : j > n /\ back[i] = rs[j]
    <2>1. n \in Nat /\ n <= Len(rs) /\ Len(rs) \in 0 .. Len(rs)
      BY <1>1
    <2>2. /\ back \in RowLists /\ Len(back) = Len(rs) - n /\ DOMAIN back = 1 .. Len(rs) - n
          /\ \A i \in 1 .. Len(rs) - n : back[i] = rs[n + i]
      BY <2>1, PartOfRows
    <2>3. \A i \in 1 .. Len(rs) - n : n + i \in 1 .. Len(rs) /\ n + i > n
      BY <1>1
    <2> HIDE DEF back
    <2> QED BY <2>2, <2>3
  <1> HIDE DEF front, back
  <1>4. s \in RowLists /\ ToSet(s) = ToSet(front) /\ Len(s) = n
    BY <1>2, SortedRows
  <1> HIDE DEF s
  <1>5. \A i \in DOMAIN s : \E j \in 1 .. Len(rs) : j <= n /\ s[i] = rs[j]
    <2> SUFFICES ASSUME NEW i \in DOMAIN s PROVE \E j \in 1 .. Len(rs) : j <= n /\ s[i] = rs[j]
      OBVIOUS
    <2>1. s[i] \in ToSet(front)
      BY <1>4 DEF ToSet
    <2>2. PICK j \in 1 .. n : s[i] = front[j]
      BY <1>2, <2>1 DEF ToSet
    <2>3. j \in 1 .. Len(rs) /\ j <= n
      BY <1>1
    <2> QED BY <1>2, <2>2, <2>3
  <1>6. /\ DOMAIN s = 1 .. Len(s) /\ Len(s) \in Nat /\ s \in Seq(RowItems) /\ UniqueKeys(s)
        /\ DOMAIN back = 1 .. Len(back) /\ Len(back) \in Nat /\ back \in Seq(RowItems) /\ UniqueKeys(back)
    BY <1>3, <1>4, RowFacts
  <1>7. /\ c \in Seq(RowItems) /\ Len(c) = Len(s) + Len(back) /\ DOMAIN c = 1 .. Len(s) + Len(back)
        /\ \A i \in 1 .. Len(s) + Len(back) :
             c[i] = IF i <= Len(s) THEN s[i] ELSE back[i - Len(s)]
    BY <1>6
  <1> HIDE DEF c
  <1>8. UniqueKeys(c)
    <2> SUFFICES ASSUME NEW i \in 1 .. Len(s) + Len(back), NEW j \in 1 .. Len(s) + Len(back),
                        c[i].k = c[j].k
                 PROVE  i = j
      BY <1>7 DEF UniqueKeys
    <2>1. \A p \in 1 .. Len(s) + Len(back) :
            \/ p \in DOMAIN s /\ c[p] = s[p]
            \/ p - Len(s) \in DOMAIN back /\ c[p] = back[p - Len(s)] /\ ~(p <= Len(s))
      BY <1>6, <1>7
    <2>2. CASE c[i] = s[i] /\ i \in DOMAIN s /\ c[j] = s[j] /\ j \in DOMAIN s
      BY <1>6, <2>2 DEF UniqueKeys
    <2>3. CASE /\ i - Len(s) \in DOMAIN back /\ c[i] = back[i - Len(s)]
               /\ j - Len(s) \in DOMAIN back /\ c[j] = back[j - Len(s)]
      <3>1. i - Len(s) = j - Len(s)
        BY <1>6, <2>3 DEF UniqueKeys
      <3> QED BY <1>6, <3>1
    <2>4. ASSUME NEW a \in DOMAIN s, NEW b \in DOMAIN back, s[a].k = back[b].k PROVE FALSE
      <3>1. PICK x \in 1 .. Len(rs) : x <= n /\ s[a] = rs[x]
        BY <1>5
      <3>2. PICK y \in 1 .. Len(rs) : y > n /\ back[b] = rs[y]
        BY <1>3
      <3>3. x = y
        BY <1>1, <2>4, <3>1, <3>2 DEF UniqueKeys
      <3> QED BY <1>1, <3>1, <3>2, <3>3
    <2>5. CASE c[i] = s[i] /\ i \in DOMAIN s /\ j - Len(s) \in DOMAIN back /\ c[j] = back[j - Len(s)]
      BY <2>4, <2>5
    <2>6. CASE c[j] = s[j] /\ j \in DOMAIN s /\ i - Len(s) \in DOMAIN back /\ c[i] = back[i - Len(s)]
      BY <2>4, <2>6
    <2> QED BY <2>1, <2>2, <2>3, <2>5, <2>6
  <1>9. SortFirst(rs, n) = c
    <2>1. 0 + 1 = 1
      OBVIOUS
    <2> QED BY <2>1 DEF SortFirst, front, back, s, c
  <1>10. Len(c) = Len(rs)
    BY <1>1, <1>3, <1>4, <1>7
  <1> QED BY <1>7, <1>8, <1>9, <1>10 DEF RowLists

\* The two rerank steps that no exact vector takes part in.
LEMMA ResidualRows ==
    ASSUME View, NEW rs \in RowLists
    PROVE  /\ ApplyResidualRerank(rs) \in RowLists /\ Len(ApplyResidualRerank(rs)) = Len(rs)
           /\ idx.l2 \/ ~idx.sketches => ApplyResidualRerank(rs) = rs
  <1> DEFINE band == ResidualBand(rs)
             spread == rs[band].d - rs[1].d
             adjusted == [i \in DOMAIN rs |-> IF i > band THEN rs[i] ELSE
                     Result(rs[i].k, rs[i].d - idx.residual[rs[i].k] * ((3 * spread) \div 20), FALSE)]
  <1>1. CASE Len(rs) <= 1 \/ idx.l2 \/ ~idx.sketches
    BY <1>1 DEF ApplyResidualRerank
  <1>2. CASE ~(Len(rs) <= 1 \/ idx.l2 \/ ~idx.sketches)
    <2>1. ApplyResidualRerank(rs) = SortFirst(adjusted, band)
      BY <1>2 DEF ApplyResidualRerank
    <2>2. /\ DOMAIN rs = 1 .. Len(rs) /\ Len(rs) \in Nat
          /\ \A i \in DOMAIN rs : /\ rs[i] \in RowItems /\ rs[i].k \in Wanted /\ rs[i].k \in Nodes
                                  /\ rs[i].d \in Int
      BY RowFacts
    <2>3. band \in 1 .. Len(rs)
      <3> DEFINE wish == IF q.limit = NoLimit THEN q.minTarget ELSE q.limit
                 many == 2 * Max({1, wish})
                 width == Max({20, many})
      <3>1. wish \in Int /\ 1 \in Int /\ 20 \in Int
        BY SearchAssumption DEF View, Query
      <3> HIDE DEF wish
      <3>2. Max({1, wish}) \in Int
        BY <3>1, MaxOfTwo
      <3>3. many \in Int
        BY <3>2
      <3> HIDE DEF many
      <3>4. width \in Int /\ width >= 20
        BY <3>1, <3>3, MaxOfTwo
      <3> HIDE DEF width
      <3>5. Len(rs) \in Int
        BY <2>2
      <3>6. Min({Len(rs), width}) \in {Len(rs), width} /\ Min({Len(rs), width}) <= Len(rs)
        BY <3>4, <3>5, MinOfTwo
      <3>7. band = Min({Len(rs), width})
        BY DEF ResidualBand, width, many, wish
      <3> HIDE DEF band
      <3>8. \A a \in Nat, w \in Int : \A b : ~(a <= 1) /\ w >= 20 /\ b \in {a, w} /\ b <= a => b \in 1 .. a
        OBVIOUS
      <3> QED BY <1>2, <2>2, <3>4, <3>6, <3>7, <3>8, Zenon
    <2> HIDE DEF band
    <2>4. spread \in Int
      <3>1. 1 \in DOMAIN rs /\ band \in DOMAIN rs
        BY <1>2, <2>2, <2>3
      <3> QED BY <2>2, <3>1
    <2> HIDE DEF spread
    <2>5. (3 * spread) \div 20 \in Int
      BY <2>4
    <2>6. \A i \in DOMAIN rs : adjusted[i] \in RowItems /\ adjusted[i].k = rs[i].k
      <3> SUFFICES ASSUME NEW i \in DOMAIN rs
                   PROVE  adjusted[i] \in RowItems /\ adjusted[i].k = rs[i].k
        OBVIOUS
      <3> DEFINE step == (3 * spread) \div 20
                 d == rs[i].d - idx.residual[rs[i].k] * step
      <3>1. adjusted[i] = IF i > band THEN rs[i] ELSE Result(rs[i].k, d, FALSE)
        OBVIOUS
      <3>2. idx.residual[rs[i].k] \in Int /\ rs[i].d \in Int /\ step \in Int
        BY <2>2, <2>5 DEF View, IndexView, Nodes
      <3> HIDE DEF step, adjusted
      <3>3. d \in Int
        BY <3>2
      <3> HIDE DEF d
      <3>4. Result(rs[i].k, d, FALSE) \in RowItems /\ Result(rs[i].k, d, FALSE).k = rs[i].k
        BY <2>2, <3>3 DEF Result, RowItems
      <3> QED BY <2>2, <3>1, <3>4
    <2>7. adjusted \in RowLists /\ Len(adjusted) = Len(rs)
      <3>1. adjusted \in [1 .. Len(rs) -> RowItems]
        BY <2>2, <2>6
      <3> HIDE DEF adjusted
      <3> QED BY <2>2, <2>6, <3>1, SameNodes
    <2> HIDE DEF adjusted
    <2>8. band \in 0 .. Len(adjusted)
      BY <2>2, <2>3, <2>7
    <2> QED BY <1>2, <2>1, <2>7, <2>8, SortedFirstRows
  <1> QED BY <1>1, <1>2

LEMMA HeapRows ==
    ASSUME View, NEW rs \in RowLists
    PROVE  /\ HeapRescore(rs) \in RowLists /\ Len(HeapRescore(rs)) = Len(rs)
           /\ EffectiveHeapRescoreMode = "off" => HeapRescore(rs) = rs
  <1> DEFINE limit == HeapRescoreLimit(rs)
             seen(i) == i <= limit /\ ~rs[i].exact /\ rs[i].k \notin idx.hidden
             new == [i \in DOMAIN rs |-> IF seen(i) THEN Result(rs[i].k, ExactVectorDistance(rs[i].k), TRUE)
                                         ELSE rs[i]]
  <1>1. HeapRescore(rs) = IF EffectiveHeapRescoreMode = "off" THEN rs ELSE SortFirst(new, limit)
    BY DEF HeapRescore
  <1>2. /\ DOMAIN rs = 1 .. Len(rs) /\ Len(rs) \in Nat
        /\ \A i \in DOMAIN rs : rs[i] \in RowItems /\ rs[i].k \in Wanted /\ rs[i].k \in Nodes
    BY RowFacts
  <1>3. limit \in 0 .. Len(rs)
    <2> DEFINE wish == IF q.finalK > 0 THEN q.finalK
                       ELSE IF q.limit # NoLimit THEN Max({1, q.limit}) ELSE DefaultFinalK
    <2>1. wish \in Nat
      <3>1. /\ q.finalK \in Nat /\ q.limit \in Int /\ DefaultFinalK \in Nat /\ 1 \in Int
        BY SearchAssumption DEF View, Query
      <3>2. Max({1, q.limit}) \in Int /\ Max({1, q.limit}) >= 1
        BY <3>1, MaxOfTwo
      <3>3. Max({1, q.limit}) \in Nat
        BY <3>2
      <3> QED BY <3>1, <3>3
    <2> HIDE DEF wish
    <2>2. wish \in Int /\ Len(rs) \in Int
      BY <1>2, <2>1
    <2>3. Min({Len(rs), wish}) \in {Len(rs), wish} /\ Min({Len(rs), wish}) <= Len(rs)
      BY <2>2, MinOfTwo
    <2>4. limit = Min({Len(rs), wish})
      BY DEF HeapRescoreLimit, wish
    <2> HIDE DEF limit
    <2>5. \A a \in Nat, w \in Nat : \A b : b \in {a, w} /\ b <= a => b \in 0 .. a
      OBVIOUS
    <2> QED BY <1>2, <2>1, <2>3, <2>4, <2>5, Zenon
  <1> HIDE DEF limit
  <1>4. \A i \in DOMAIN rs : new[i] \in RowItems /\ new[i].k = rs[i].k
    <2> SUFFICES ASSUME NEW i \in DOMAIN rs PROVE new[i] \in RowItems /\ new[i].k = rs[i].k
      OBVIOUS
    <2> DEFINE d == ExactVectorDistance(rs[i].k)
    <2>1. d \in Int
      BY <1>2, DistancesAreNumbers
    <2>2. new[i] \in {rs[i], Result(rs[i].k, d, TRUE)}
      OBVIOUS
    <2> HIDE DEF new, d
    <2>3. Result(rs[i].k, d, TRUE) \in RowItems /\ Result(rs[i].k, d, TRUE).k = rs[i].k
      BY <1>2, <2>1 DEF Result, RowItems
    <2> QED BY <1>2, <2>2, <2>3
  <1>5. new \in RowLists /\ Len(new) = Len(rs)
    <2>1. new \in [1 .. Len(rs) -> RowItems]
      BY <1>2, <1>4
    <2> HIDE DEF new
    <2> QED BY <1>2, <1>4, <2>1, SameNodes
  <1> HIDE DEF new
  <1>6. SortFirst(new, limit) \in RowLists /\ Len(SortFirst(new, limit)) = Len(rs)
    BY <1>3, <1>5, SortedFirstRows
  <1> QED BY <1>1, <1>6

\* The rows that an exact rescore keeps.
LEMMA ExactRows ==
    ASSUME View, NEW rs \in RowLists
    PROVE  /\ ExactRescore(rs) \in RowLists /\ Rising(ExactRescore(rs))
           /\ \A r \in ToSet(ExactRescore(rs)) : r.exact /\ r.d = ExactVectorDistance(r.k)
           /\ scan.widening # "dimension" => Len(ExactRescore(rs)) = Len(rs)
  <1> DEFINE n == FinalRescoreCount(rs)
             exact == [i \in 1 .. n |-> Result(rs[i].k, ExactVectorDistance(rs[i].k), TRUE)]
             front == SubSeq(rs, 0 + 1, n)
  <1>1. /\ DOMAIN rs = 1 .. Len(rs) /\ Len(rs) \in Nat
        /\ \A i \in DOMAIN rs : rs[i].k \in Wanted /\ rs[i].k \in Nodes
    BY RowFacts
  <1>2. n \in 0 .. Len(rs)
    <2> DEFINE wish == IF q.limit = NoLimit THEN q.minTarget ELSE q.limit
               many == 4 * Max({1, wish})
               least == 2 * Max({1, q.minTarget})
               width == Max({many, least})
    <2>1. wish \in Int /\ q.minTarget \in Int /\ 1 \in Int
      BY SearchAssumption DEF View, Query
    <2> HIDE DEF wish
    <2>2. Max({1, wish}) \in Int /\ Max({1, wish}) >= 1 /\ Max({1, q.minTarget}) \in Int
      BY <2>1, MaxOfTwo
    <2>3. many \in Int /\ many >= 4 /\ least \in Int
      BY <2>2
    <2> HIDE DEF many, least
    <2>4. width \in Int /\ width >= many
      BY <2>3, MaxOfTwo
    <2> HIDE DEF width
    <2>5. width \in Nat /\ Len(rs) \in Int
      BY <1>1, <2>3, <2>4
    <2>6. Min({Len(rs), width}) \in {Len(rs), width} /\ Min({Len(rs), width}) <= Len(rs)
      BY <2>4, <2>5, MinOfTwo
    <2>7. n = Len(rs) \/ n = Min({Len(rs), width})
      BY DEF FinalRescoreCount, width, many, least, wish
    <2> HIDE DEF n
    <2>8. \A a \in Nat, w \in Nat : \A b : b \in {a, w} /\ b <= a => b \in 0 .. a
      OBVIOUS
    <2>9. Len(rs) \in 0 .. Len(rs)
      BY <1>1
    <2> QED BY <1>1, <2>5, <2>6, <2>7, <2>8, <2>9, Zenon
  <1>3. scan.widening # "dimension" => n = Len(rs)
    BY DEF FinalRescoreCount
  <1> HIDE DEF n
  <1>4. /\ front \in RowLists /\ Len(front) = n
        /\ \A i \in 1 .. n : front[i] = rs[i]
    <2>1. 0 \in Nat /\ 0 <= n /\ n - 0 = n /\ \A i \in 1 .. n : 0 + i = i
      BY <1>1, <1>2
    <2>2. /\ front \in RowLists /\ Len(front) = n - 0
          /\ \A i \in 1 .. n - 0 : front[i] = rs[0 + i]
      BY <1>2, <2>1, PartOfRows
    <2> HIDE DEF front
    <2> QED BY <2>1, <2>2
  <1> HIDE DEF front
  <1>5. ASSUME NEW i \in 1 .. n
        PROVE  /\ exact[i] \in RowItems /\ exact[i].k = rs[i].k /\ exact[i].exact = TRUE
               /\ exact[i].d = ExactVectorDistance(exact[i].k)
    <2>1. rs[i].k \in Wanted /\ rs[i].k \in Nodes
      BY <1>1, <1>2
    <2> DEFINE d == ExactVectorDistance(rs[i].k)
    <2>2. d \in Int
      BY <2>1, DistancesAreNumbers
    <2>3. exact[i] = [k |-> rs[i].k, d |-> d, exact |-> TRUE]
      BY DEF Result
    <2> HIDE DEF exact, d
    <2>4. exact[i].k = rs[i].k /\ exact[i].d = d /\ exact[i].exact = TRUE /\ exact[i] \in RowItems
      BY <2>1, <2>2, <2>3 DEF RowItems
    <2> QED BY <2>4 DEF d
  <1>6. exact \in RowLists /\ Len(exact) = n
    <2>1. DOMAIN front = 1 .. n
      BY <1>4, RowFacts
    <2>2. exact \in [1 .. Len(front) -> RowItems]
      BY <1>4, <1>5
    <2> HIDE DEF exact
    <2> QED BY <1>4, <1>5, <2>1, <2>2, SameNodes
  <1>7. DOMAIN exact = 1 .. n
    OBVIOUS
  <1>8. ExactRescore(rs) = Sorted(exact)
    BY DEF ExactRescore, n
  <1> HIDE DEF exact
  <1>9. \A r \in ToSet(exact) : r.exact /\ r.d = ExactVectorDistance(r.k)
    BY <1>5, <1>7 DEF ToSet
  <1> QED BY <1>6, <1>8, <1>9, <1>3, SortedRows

\* What the references of one payload value answer.
LEMMA BandRows ==
    ASSUME View, NEW target \in Nat
    PROVE  LET rs == CollectPayloadExactBand(target)
           IN  /\ rs \in RowLists /\ Rising(rs) /\ (PayloadRefRange => Enough(rs, target))
               /\ \A r \in ToSet(rs) :
                    r.d = IF r.exact THEN ExactVectorDistance(r.k) ELSE ScoreNode(r.k)
  <1> DEFINE distance(k) == IF HasExactVector THEN ExactVectorDistance(k) ELSE ScoreNode(k)
             row(k) == Result(k, distance(k), HasExactVector)
             K == PayloadRefs \cap Wanted
             all == {row(k) : k \in K}
  <1>1. ASSUME NEW k \in K
        PROVE  /\ row(k) \in RowItems /\ row(k).k = k
               /\ row(k).d = IF row(k).exact THEN ExactVectorDistance(k) ELSE ScoreNode(k)
    <2>1. k \in Wanted /\ ExactVectorDistance(k) \in Int /\ ScoreNode(k) \in Int
      BY DistancesAreNumbers DEF Wanted
    <2>2. HasExactVector \in BOOLEAN
      BY DEF HasExactVector
    <2> QED BY <2>1, <2>2 DEF Result, RowItems
  <1>2. IsFiniteSet(all)
    <2> DEFINE f == [k \in K |-> row(k)]
    <2>1. IsFiniteSet(K)
      <3>1. K \in SUBSET Nodes
        BY DEF Wanted
      <3> QED BY <3>1, NodesAreFinite, FS_Subset
    <2>2. all = {f[k] : k \in K}
      OBVIOUS
    <2> HIDE DEF f, all
    <2> QED BY <2>1, <2>2, ImageIsFinite
  <1>3. CollectPayloadExactBand(target) = TakeFirst(Ranked(all), target)
    BY DEF CollectPayloadExactBand
  <1>4. /\ all \in SUBSET RowItems /\ \A x, y \in all : x.k = y.k => x = y
        /\ \A r \in all : r.d = IF r.exact THEN ExactVectorDistance(r.k) ELSE ScoreNode(r.k)
        /\ {r.k : r \in all} = K
    <2> HIDE DEF row, K
    <2> QED BY <1>1
  <1>5. PayloadRefRange => K = Wanted
    BY DEF PayloadRefRange, PayloadRefs, Wanted, NodeMatchesPayload
  <1> HIDE DEF all
  <1>6. Ranked(all) \in RowLists /\ Rising(Ranked(all)) /\ ToSet(Ranked(all)) = all
    BY <1>2, <1>4, RankedRows
  <1> DEFINE t == TakeFirst(Ranked(all), target)
  <1>7. t \in RowLists /\ Rising(t) /\ ToSet(t) \subseteq all /\ Len(t) \in {target, Len(Ranked(all))}
    BY <1>6, TakenRows
  <1>8. ASSUME PayloadRefRange PROVE Len(Ranked(all)) = Cardinality(Wanted)
    <2> DEFINE s == Ranked(all)
    <2>1. {s[i].k : i \in DOMAIN s} = {r.k : r \in ToSet(s)}
      BY DEF ToSet
    <2>2. s \in RowLists /\ {s[i].k : i \in DOMAIN s} = Wanted
      BY <1>4, <1>6, <1>5, <1>8, <2>1
    <2> HIDE DEF s
    <2>3. Len(s) = Cardinality(Wanted)
      BY <2>2, RowCount
    <2> QED BY <2>3 DEF s
  <1> HIDE DEF t
  <1>9. PayloadRefRange => Enough(t, target)
    <2>1. Cardinality(Wanted) \in Nat
      BY <1>6, RowCount
    <2> QED BY <1>7, <1>8, <2>1 DEF Enough
  <1> QED BY <1>3, <1>4, <1>7, <1>9 DEF t

\* What CollectsSound says of the rows, and when a list may be short.
Collectable(rs) ==
    /\ rs \in RowLists
    /\ Uniform => /\ Rising(rs)
                  /\ \A r \in ToSet(rs) :
                       r.d \in {IF r.exact THEN ExactVectorDistance(r.k) ELSE ScoreNode(r.k), Unscored}

\* The last rows of a search.
LEMMA FinishedRows ==
    ASSUME Inv, View, scan.pc = "base", FinishResults(PassResults), scan'.pc = "rows"
    PROVE  /\ Collectable(scan'.results)
           /\ scan'.target = scan.target /\ scan'.widening = scan.widening
           /\ scan.widening # "dimension" => Len(scan'.results) = Len(PassResults)
  <1> DEFINE rs == PassResults
             residual == ApplyResidualRerank(rs)
             rescored == HeapRescore(residual)
             end == IF idx.exactFree THEN rescored ELSE ExactRescore(rs)
             fields == {"pc", "policy", "q", "pass", "target", "ef", "points", "frontier",
                        "nearest", "widening", "sidecarUnused", "results", "at"}
  <1>1. rs \in RowLists /\ Rising(rs) /\ AllScored(ToSet(rs))
    BY PassRows
  <1>2. fields \subseteq DOMAIN scan
    BY DEF Inv, DescriptorInv
  <1>3. \/ StartPass(Max({RetryTarget, 1}), Max({RetryEf, RetryTarget}), "retry", scan.widening)
        \/ Rows(end)
    BY DEF FinishResults
  <1> HIDE DEF rs, rescored, residual, end
  <1>4. scan'.results = end /\ scan'.target = scan.target /\ scan'.widening = scan.widening
    <2>1. ASSUME NEW target, NEW ef, NEW pass, NEW widening, StartPass(target, ef, pass, widening)
          PROVE  scan'.pc = "base"
      BY <1>2, <2>1 DEF StartPass
    <2>2. Rows(end)
      BY <1>3, <2>1
    <2> QED BY <1>2, <2>2 DEF Rows
  <1>5. CASE idx.exactFree
    <2>1. /\ residual \in RowLists /\ Len(residual) = Len(rs) /\ (idx.l2 \/ ~idx.sketches => residual = rs)
      BY <1>1, ResidualRows DEF residual
    <2>2. /\ rescored \in RowLists /\ Len(rescored) = Len(rs) /\ (EffectiveHeapRescoreMode = "off" => rescored = residual)
      BY <2>1, HeapRows DEF rescored
    <2>3. Uniform => rescored = rs
      BY <1>5, <2>1, <2>2 DEF Uniform
    <2>4. ~HasExactVector
      BY <1>5 DEF HasExactVector
    <2>5. \A r \in ToSet(rs) :
             r.d \in {IF r.exact THEN ExactVectorDistance(r.k) ELSE ScoreNode(r.k), Unscored}
      BY <1>1, <2>4 DEF AllScored, ScoredRow
    <2>6. end = rescored
      BY <1>5 DEF end
    <2> QED BY <1>1, <1>4, <2>2, <2>3, <2>5, <2>6 DEF Collectable, rs
  <1>6. CASE ~idx.exactFree
    <2>1. end = ExactRescore(rs)
      BY <1>6 DEF end
    <2>2. /\ end \in RowLists /\ Rising(end)
          /\ \A r \in ToSet(end) : r.exact /\ r.d = ExactVectorDistance(r.k)
          /\ scan.widening # "dimension" => Len(end) = Len(rs)
      BY <1>1, <2>1, ExactRows
    <2> QED BY <1>4, <2>2 DEF Collectable, rs
  <1> QED BY <1>5, <1>6

\* The scans that are not to come out short.
Filled ==
    /\ scan'.widening # "dimension"
    /\ Selective \/ (q.filter = NoFilter /\ scan'.target >= idx.n /\ scan.pass # "adaptive")

LEMMA StepCollects ==
    ASSUME Inv, [Next]_vars, Collected
    PROVE  /\ View /\ Collectable(scan'.results)
           /\ Filled /\ Len(scan'.results) < scan'.target => Len(scan'.results) >= Cardinality(Wanted)
  <1> DEFINE fields == {"pc", "policy", "q", "pass", "target", "ef", "points", "frontier",
                        "nearest", "widening", "sidecarUnused", "results", "at"}
  <1>1. scan.pc # "rows" /\ scan'.pc = "rows"
    BY DEF Collected
  <1>2. scan.pc # "idle" => View /\ fields \subseteq DOMAIN scan
    BY DEF Inv, DescriptorInv, View
  <1>3. ASSUME NEW target, NEW ef, NEW pass, NEW widening, scan.pc # "idle",
               StartPass(target, ef, pass, widening)
        PROVE  FALSE
    BY <1>1, <1>2, <1>3 DEF StartPass
  <1>4. CASE CollectStart
    <2>1. scan.pc = "begun" /\ View /\ fields \subseteq DOMAIN scan
      BY <1>2, <1>4 DEF CollectStart
    <2>2. CASE idx.n = 0
      <3>1. Rows(<<>>)
        BY <1>4, <2>2 DEF CollectStart
      <3>2. scan'.results = <<>>
        BY <2>1, <3>1 DEF Rows
      <3>3. <<>> \in Seq(RowItems) /\ DOMAIN <<>> = {} /\ ToSet(<<>>) = {}
        BY DEF ToSet
      <3>4. Cardinality(Wanted) = 0 /\ Len(<<>>) = 0
        <4>1. Wanted = {}
          BY <2>2 DEF Wanted, Nodes
        <4> QED BY <4>1, FS_EmptySet
      <3> QED BY <2>1, <3>2, <3>3, <3>4 DEF Collectable, RowLists, UniqueKeys, Rising
    <2>3. CASE idx.n # 0 /\ PayloadExactBandApplies
      <3> DEFINE band == CollectPayloadExactBand(ResultTarget)
      <3>1. scan' = [scan EXCEPT !.pc = "rows", !.target = ResultTarget, !.results = band]
        BY <1>4, <2>3 DEF CollectStart
      <3>2. scan'.results = band /\ scan'.target = ResultTarget
        BY <2>1, <3>1
      <3>3. idx.n > 0
        BY <2>1, <2>3 DEF View, IndexView
      <3>4. ResultTarget \in Nat
        BY <2>1, <3>3, ResultTargetIsPositive
      <3>5. /\ band \in RowLists /\ Rising(band) /\ Enough(band, ResultTarget)
            /\ \A r \in ToSet(band) :
                 r.d = IF r.exact THEN ExactVectorDistance(r.k) ELSE ScoreNode(r.k)
        BY <2>1, <2>3, <3>4, BandRows DEF PayloadExactBandApplies
      <3>6. Len(band) \in Nat
        BY <2>1, <3>5, RowFacts
      <3> HIDE DEF band
      <3> QED BY <2>1, <3>2, <3>4, <3>5, <3>6 DEF Collectable, Enough
    <2>4. CASE idx.n # 0 /\ ~PayloadExactBandApplies
      <3>1. \E widening : StartPass(ResultTarget, SearchEf(ResultTarget), "first", widening)
        BY <1>4, <2>4 DEF CollectStart
      <3>2. scan.pc # "idle"
        BY <2>1
      <3> QED BY <1>3, <3>1, <3>2
    <2> QED BY <2>2, <2>3, <2>4
  <1>5. CASE PassEnd
    <2>1. scan.pc = "base" /\ scan.pc # "idle" /\ View
      BY <1>2, <1>5 DEF PassEnd
    <2>2. \/ StartPass(AdaptiveTarget, AdaptiveEf, "adaptive", scan.widening)
          \/ StartPass(TightTarget, TightEf, "tight", "exact_policy")
          \/ FinishResults(PassResults)
      BY <1>5 DEF PassEnd
    <2>3. FinishResults(PassResults)
      BY <1>3, <2>1, <2>2
    <2>4. /\ Collectable(scan'.results)
          /\ scan'.target = scan.target /\ scan'.widening = scan.widening
          /\ scan.widening # "dimension" => Len(scan'.results) = Len(PassResults)
      BY <1>1, <2>1, <2>3, FinishedRows
    <2>5. Filled => FilledPass
      BY <2>1, <2>4 DEF Filled, FilledPass, Inv, BeamInv
    <2>6. FilledPass => Enough(PassResults, scan.target)
      BY <2>1, PassRows
    <2>7. Filled /\ Len(scan'.results) < scan'.target => Len(scan'.results) >= Cardinality(Wanted)
      <3>1. scan.target \in Nat /\ Len(PassResults) \in Nat
        BY <2>1, PassRows, RowFacts DEF Inv, BeamInv
      <3> QED BY <2>4, <2>5, <2>6, <3>1 DEF Enough, Filled
    <2> QED BY <2>1, <2>4, <2>7
  <1>6. CASE \E query \in Queries : Rescan(query)
    BY <1>1, <1>6 DEF Rescan
  <1>7. CASE BaseStep
    <2>1. scan.pc = "base" /\ fields \subseteq DOMAIN scan
      BY <1>2, <1>7 DEF BaseStep
    <2> QED BY <1>1, <1>7, <2>1 DEF BaseStep, SearchBaseLayerStep
  <1>8. CASE GetTuple
    BY <1>1, <1>8 DEF GetTuple
  <1>9. CASE Cancel
    BY <1>1, <1>9 DEF Cancel, Idle
  <1>10. CASE \E k \in Nodes : Vacuum(k)
    BY <1>1, <1>10 DEF Vacuum
  <1>11. CASE UNCHANGED vars
    BY <1>1, <1>11 DEF vars
  <1> QED BY <1>4, <1>5, <1>6, <1>7, <1>8, <1>9, <1>10, <1>11 DEF Next

\* Whatever pass ends a scan, what it hands over are live nodes that match the
\* payload filter, each once, and where no rerank step mixes two kinds of
\* distance they come best first with the distance of their own code or vector.
THEOREM CollectsAreSound == Spec => CollectsSound
  <1>1. Inv /\ [Next]_vars =>
          (Collected =>
             LET rs == scan'.results
             IN /\ \A i \in DOMAIN rs : rs[i].k \in Wanted
                /\ \A i, j \in DOMAIN rs : i < j => rs[i].k # rs[j].k
                /\ Uniform => \A i \in DOMAIN rs :
                     /\ rs[i].d \in {IF rs[i].exact THEN ExactVectorDistance(rs[i].k)
                                     ELSE ScoreNode(rs[i].k), Unscored}
                     /\ \A j \in 1..(i - 1) : Less(rs[j], rs[i]))
    <2> SUFFICES ASSUME Inv, [Next]_vars, Collected
                 PROVE  LET rs == scan'.results
                        IN /\ \A i \in DOMAIN rs : rs[i].k \in Wanted
                           /\ \A i, j \in DOMAIN rs : i < j => rs[i].k # rs[j].k
                           /\ Uniform => \A i \in DOMAIN rs :
                                /\ rs[i].d \in {IF rs[i].exact THEN ExactVectorDistance(rs[i].k)
                                                ELSE ScoreNode(rs[i].k), Unscored}
                                /\ \A j \in 1..(i - 1) : Less(rs[j], rs[i])
      OBVIOUS
    <2>1. View /\ Collectable(scan'.results)
      BY StepCollects
    <2> DEFINE rs == scan'.results
    <2> HIDE DEF rs
    <2>2. Collectable(rs)
      BY <2>1 DEF rs
    <2>3. /\ DOMAIN rs = 1 .. Len(rs) /\ Len(rs) \in Nat /\ UniqueKeys(rs)
          /\ \A i \in DOMAIN rs : rs[i].k \in Wanted
      BY <2>1, <2>2, RowFacts DEF Collectable
    <2>4. \A i, j \in DOMAIN rs : i < j => rs[i].k # rs[j].k
      BY <2>3 DEF UniqueKeys
    <2>5. ASSUME Uniform, NEW i \in DOMAIN rs
          PROVE  /\ rs[i].d \in {IF rs[i].exact THEN ExactVectorDistance(rs[i].k)
                                 ELSE ScoreNode(rs[i].k), Unscored}
                 /\ \A j \in 1..(i - 1) : Less(rs[j], rs[i])
      <3>1. rs[i] \in ToSet(rs)
        BY DEF ToSet
      <3>2. \A j \in 1 .. (i - 1) : j \in DOMAIN rs /\ j < i
        BY <2>3
      <3> QED BY <2>2, <2>5, <3>1, <3>2 DEF Collectable, Rising
    <2> QED BY <2>3, <2>4, <2>5 DEF rs
  <1> QED BY <1>1, SearchInvHolds, PTL DEF Spec, CollectsSound

\* A scan with a selectivity estimate, and one that asks for the whole index, is
\* short only of nodes: what the search of the graph missed, the fill adds, and
\* no expansion, rerank or rescore step drops it again.
THEOREM ShortScansAreExhausted == Spec => ShortOnlyWhenExhausted
  <1>1. Inv /\ [Next]_vars =>
          ((/\ Collected /\ scan'.widening # "dimension"
            /\ \/ Selective
               \/ q.filter = NoFilter /\ scan'.target >= idx.n /\ scan.pass # "adaptive"
            /\ Len(scan'.results) < scan'.target)
             => Len(scan'.results) = Cardinality(Wanted))
    <2> SUFFICES ASSUME Inv, [Next]_vars, Collected, Filled, Len(scan'.results) < scan'.target
                 PROVE  Len(scan'.results) = Cardinality(Wanted)
      BY DEF Filled
    <2>1. /\ View /\ scan'.results \in RowLists
          /\ Len(scan'.results) >= Cardinality(Wanted)
      BY StepCollects DEF Collectable
    <2>2. /\ Len(scan'.results) \in Nat /\ Cardinality(Wanted) \in Nat
          /\ Len(scan'.results) <= Cardinality(Wanted)
      BY <2>1, RowFacts, RowCount
    <2> QED BY <2>1, <2>2
  <1> QED BY <1>1, SearchInvHolds, PTL DEF Spec, ShortOnlyWhenExhausted

=============================================================================

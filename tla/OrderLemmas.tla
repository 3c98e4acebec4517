---------------------------- MODULE OrderLemmas ----------------------------
(***************************************************************************)
(* What the proofs of several components need of numbers and orders: least *)
(* and greatest elements, the list of a set in an order, and values that   *)
(* are computed one from the other.                                        *)
(***************************************************************************)
EXTENDS Integers, FiniteSets, FiniteSetTheorems, FunctionTheorems, WellFoundedInduction, TLAPS

(***************************************************************************)
(* Least and greatest elements.                                            *)
(***************************************************************************)

\* Every set of natural numbers that is not empty has a least one.
LEMMA LeastExists ==
    ASSUME NEW S \in SUBSET Nat, S # {}
    PROVE  \E x \in S : \A y \in S : x <= y
  <1> DEFINE R == {ss \in Nat \X Nat : ss[1] < ss[2]}
  <1>1. IsWellFoundedOn(R, Nat)
    BY NatLessThanWellFounded DEF OpToRel
  <1>2. \E x \in S : \A y \in S : ~ (<<y, x>> \in R)
    <2> HIDE DEF R
    <2> QED BY <1>1, WFMin
  <1>3. PICK x \in S : \A y \in S : ~ (<<y, x>> \in R)
    BY <1>2
  <1>4. \A y \in S : ~ (y < x)
    BY <1>3
  <1> QED BY <1>4

\* One that is bounded has a greatest one.
LEMMA GreatestExists ==
    ASSUME NEW n \in Nat, NEW S \in SUBSET (1..n), S # {}
    PROVE  \E x \in S : \A y \in S : y <= x
  <1> DEFINE T == {z \in Nat : \A y \in S : y <= z}
  <1>1. T \in SUBSET Nat /\ n \in T
    OBVIOUS
  <1>2. PICK z \in T : \A y \in T : z <= y
    BY <1>1, LeastExists
  <1>3. CASE z \in S
    BY <1>2, <1>3
  <1>4. CASE z \notin S
    <2>1. PICK y \in S : TRUE
      OBVIOUS
    <2>2. z \in Nat /\ z # 0 /\ z - 1 \in Nat
      BY <1>2, <2>1
    <2>3. \A w \in S : w \in Nat /\ w <= z /\ w # z
      BY <1>2, <1>4
    <2>4. z - 1 \in T
      BY <2>2, <2>3
    <2> QED BY <1>2, <2>2, <2>4
  <1> QED BY <1>3, <1>4

(***************************************************************************)
(* Lists of a set in an order.                                             *)
(***************************************************************************)

RankList(S, L) ==
    [i \in 1 .. Cardinality(S) |->
        CHOOSE x \in S : Cardinality({y \in S : <<y, x>> \in L}) = i - 1]

\* Counting the elements before each element of a finite strict order numbers
\* them without gaps, so that picking the element of each number lists them.
LEMMA RanksList ==
    ASSUME NEW S, IsFiniteSet(S), NEW L,
           \A x \in S : <<x, x>> \notin L,
           \A x, y, z \in S : <<x, y>> \in L /\ <<y, z>> \in L => <<x, z>> \in L,
           \A x, y \in S : x = y \/ <<x, y>> \in L \/ <<y, x>> \in L
    PROVE  /\ RankList(S, L) \in [1 .. Cardinality(S) -> S]
           /\ \A i, j \in 1 .. Cardinality(S) : RankList(S, L)[i] = RankList(S, L)[j] => i = j
           /\ \A x \in S : \E i \in 1 .. Cardinality(S) : RankList(S, L)[i] = x
           /\ \A i, j \in 1 .. Cardinality(S) : i < j => <<RankList(S, L)[i], RankList(S, L)[j]>> \in L
           /\ \A i \in 1 .. Cardinality(S) : Cardinality({y \in S : <<y, RankList(S, L)[i]>> \in L}) = i - 1
  <1> DEFINE n == Cardinality(S)
             s == RankList(S, L)
             Below(x) == {y \in S : <<y, x>> \in L}
             rank == [x \in S |-> Cardinality(Below(x))]
  <1>1. n \in Nat
    BY FS_CardinalityType
  <1>2. \A x \in S : IsFiniteSet(Below(x)) /\ Cardinality(Below(x)) \in 0 .. n - 1
    <2> SUFFICES ASSUME NEW x \in S PROVE IsFiniteSet(Below(x)) /\ Cardinality(Below(x)) \in 0 .. n - 1
      OBVIOUS
    <2>1. Below(x) \in SUBSET S /\ x \notin Below(x)
      OBVIOUS
    <2>2. /\ IsFiniteSet(Below(x)) /\ Cardinality(Below(x)) <= n
          /\ n = Cardinality(Below(x)) => S = Below(x)
      BY <2>1, FS_Subset
    <2>3. Cardinality(Below(x)) \in Nat
      BY <2>2, FS_CardinalityType
    <2> HIDE DEF n, Below
    <2> QED BY <1>1, <2>1, <2>2, <2>3
  <1>3. \A x, y \in S : <<x, y>> \in L => Cardinality(Below(x)) < Cardinality(Below(y))
    <2> SUFFICES ASSUME NEW x \in S, NEW y \in S, <<x, y>> \in L
                 PROVE  Cardinality(Below(x)) < Cardinality(Below(y))
      OBVIOUS
    <2>1. Below(x) \in SUBSET Below(y) /\ x \in Below(y) /\ x \notin Below(x)
      OBVIOUS
    <2>2. /\ Cardinality(Below(x)) <= Cardinality(Below(y))
          /\ Cardinality(Below(y)) = Cardinality(Below(x)) => Below(y) = Below(x)
      BY <1>2, <2>1, FS_Subset
    <2> HIDE DEF Below, n
    <2>3. Cardinality(Below(x)) \in Int /\ Cardinality(Below(y)) \in Int
      BY <1>2, <1>1
    <2> QED BY <2>1, <2>2, <2>3
  <1>4. rank \in Injection(S, 0 .. n - 1)
    <2>1. rank \in [S -> 0 .. n - 1]
      BY <1>2
    <2>2. ASSUME NEW x \in S, NEW y \in S, rank[x] = rank[y]
          PROVE  x = y
      <3>1. rank[x] = Cardinality(Below(x)) /\ rank[y] = Cardinality(Below(y))
        OBVIOUS
      <3> HIDE DEF rank, Below, n
      <3>2. rank[x] \in Int /\ rank[y] \in Int
        BY <2>1, <1>1
      <3>3. /\ <<x, y>> \in L => Cardinality(Below(x)) < Cardinality(Below(y))
            /\ <<y, x>> \in L => Cardinality(Below(y)) < Cardinality(Below(x))
        BY <1>3
      <3>4. ~(Cardinality(Below(x)) < Cardinality(Below(y)))
            /\ ~(Cardinality(Below(y)) < Cardinality(Below(x)))
        BY <3>1, <3>2, <2>2
      <3> QED BY <3>3, <3>4, Zenon
    <2> HIDE DEF rank
    <2> QED BY <2>1, <2>2 DEF Injection, IsInjective
  <1>5. IsFiniteSet(0 .. n - 1) /\ Cardinality(0 .. n - 1) = n
    <2> DEFINE m == n - 1
    <2>1. m \in Int /\ 0 \in Int
      BY <1>1
    <2> HIDE DEF m
    <2>2. /\ IsFiniteSet(0 .. m)
          /\ Cardinality(0 .. m) = IF 0 > m THEN 0 ELSE m - 0 + 1
      BY <2>1, FS_Interval
    <2>3. Cardinality(0 .. m) = m + 1
      BY <2>2, <1>1 DEF m
    <2> HIDE DEF n
    <2> QED BY <2>2, <2>3, <1>1 DEF m
  <1>6. rank \in Surjection(S, 0 .. n - 1)
    <2> HIDE DEF rank
    <2> QED BY <1>4, <1>5, FS_Injection
  <1>7. \A i \in 1 .. n : \E x \in S : Cardinality(Below(x)) = i - 1
    <2> SUFFICES ASSUME NEW i \in 1 .. n PROVE \E x \in S : Cardinality(Below(x)) = i - 1
      OBVIOUS
    <2>1. i - 1 \in 0 .. n - 1
      BY <1>1
    <2>2. PICK x \in S : rank[x] = i - 1
      <3> HIDE DEF rank
      <3> QED BY <1>6, <2>1 DEF Surjection
    <2>3. rank[x] = Cardinality(Below(x))
      OBVIOUS
    <2> QED BY <2>2, <2>3
  <1>8. \A i \in 1 .. n : s[i] \in S /\ Cardinality(Below(s[i])) = i - 1
    <2> SUFFICES ASSUME NEW i \in 1 .. n PROVE s[i] \in S /\ Cardinality(Below(s[i])) = i - 1
      OBVIOUS
    <2>1. s[i] = CHOOSE x \in S : Cardinality(Below(x)) = i - 1
      BY DEF RankList
    <2> HIDE DEF Below
    <2> QED BY <2>1, <1>7
  <1>9. s \in [1 .. n -> S]
    BY <1>8 DEF RankList
  <1>10. \A i, j \in 1 .. n : s[i] = s[j] => i = j
    <2> SUFFICES ASSUME NEW i \in 1 .. n, NEW j \in 1 .. n, s[i] = s[j] PROVE i = j
      OBVIOUS
    <2> HIDE DEF n, Below
    <2>1. i - 1 = j - 1
      BY <1>8
    <2> QED BY <1>1, <2>1
  <1>11. \A x \in S : \E i \in 1 .. n : s[i] = x
    <2> SUFFICES ASSUME NEW x \in S PROVE \E i \in 1 .. n : s[i] = x
      OBVIOUS
    <2> DEFINE i == rank[x] + 1
    <2>1. rank[x] = Cardinality(Below(x)) /\ rank[x] \in 0 .. n - 1
      BY <1>2
    <2>2. i \in 1 .. n /\ i - 1 = rank[x]
      <3> HIDE DEF n, rank
      <3> QED BY <1>1, <2>1
    <2>3. s[i] \in S /\ Cardinality(Below(s[i])) = rank[x]
      <3> HIDE DEF i, rank
      <3> QED BY <1>8, <2>2
    <2>4. rank[s[i]] = rank[x]
      BY <2>3
    <2>5. s[i] = x
      <3> HIDE DEF rank, i
      <3> QED BY <2>3, <2>4, <1>4 DEF Injection, IsInjective
    <2> QED BY <2>2, <2>5
  <1>12. ASSUME NEW i \in 1 .. n, NEW j \in 1 .. n, i < j
         PROVE  <<s[i], s[j]>> \in L
    <2> HIDE DEF s, n
    <2>1. s[i] \in S /\ s[j] \in S
      BY <1>9
    <2>2. Cardinality(Below(s[i])) = i - 1 /\ Cardinality(Below(s[j])) = j - 1
      BY <1>8
    <2> HIDE DEF Below
    <2>3. s[i] # s[j] /\ ~ (<<s[j], s[i]>> \in L)
      BY <1>1, <1>3, <1>12, <2>1, <2>2
    <2> QED BY <2>1, <2>3
  <1> QED BY <1>8, <1>9, <1>10, <1>11, <1>12

StrictOrder(S, L) ==
    /\ \A x \in S : <<x, x>> \notin L
    /\ \A x, y, z \in S : <<x, y>> \in L /\ <<y, z>> \in L => <<x, z>> \in L
    /\ \A x, y \in S : x = y \/ <<x, y>> \in L \/ <<y, x>> \in L

LEMMA OrderedList ==
    ASSUME NEW S, IsFiniteSet(S), NEW L, StrictOrder(S, L)
    PROVE  /\ Cardinality(S) \in Nat /\ RankList(S, L) \in [1 .. Cardinality(S) -> S]
           /\ \A i, j \in 1 .. Cardinality(S) : RankList(S, L)[i] = RankList(S, L)[j] => i = j
           /\ \A x \in S : \E i \in 1 .. Cardinality(S) : RankList(S, L)[i] = x
           /\ \A i, j \in 1 .. Cardinality(S) : i < j => <<RankList(S, L)[i], RankList(S, L)[j]>> \in L
  <1>1. /\ \A x \in S : <<x, x>> \notin L
        /\ \A x, y, z \in S : <<x, y>> \in L /\ <<y, z>> \in L => <<x, z>> \in L
        /\ \A x, y \in S : x = y \/ <<x, y>> \in L \/ <<y, x>> \in L
    BY DEF StrictOrder
  <1> QED BY <1>1, RanksList, FS_CardinalityType

LEMMA RankListed ==
    ASSUME NEW S, IsFiniteSet(S), NEW L, StrictOrder(S, L), NEW i \in 1 .. Cardinality(S)
    PROVE  /\ RankList(S, L)[i] \in S
           /\ Cardinality({y \in S : <<y, RankList(S, L)[i]>> \in L}) = i - 1
  <1> DEFINE n == Cardinality(S)
             s == RankList(S, L)
             Below(z) == {y \in S : <<y, z>> \in L}
  <1>1. s \in [1 .. n -> S] /\ \A j \in 1 .. n : Cardinality(Below(s[j])) = j - 1
    BY RanksList DEF StrictOrder
  <1> HIDE DEF s, Below, n
  <1>2. s[i] \in S /\ Cardinality(Below(s[i])) = i - 1
    BY <1>1 DEF n
  <1> QED BY <1>2 DEF s, Below

\* An element that has i - 1 others before it is the i-th of the list.
LEMMA RankOf ==
    ASSUME NEW S, IsFiniteSet(S), NEW L, StrictOrder(S, L), NEW i \in 1 .. Cardinality(S),
           NEW x \in S, Cardinality({y \in S : <<y, x>> \in L}) = i - 1
    PROVE  RankList(S, L)[i] = x
  <1> DEFINE n == Cardinality(S)
             s == RankList(S, L)
             Below(z) == {y \in S : <<y, z>> \in L}
  <1>1. n \in Nat
    BY FS_CardinalityType
  <1>2. /\ \A z \in S : \E j \in 1 .. n : s[j] = z
        /\ \A j \in 1 .. n : Cardinality(Below(s[j])) = j - 1
    BY RanksList DEF StrictOrder
  <1>3. Cardinality(Below(x)) = i - 1
    OBVIOUS
  <1> HIDE DEF n, s, Below
  <1>4. PICK j \in 1 .. n : s[j] = x
    BY <1>2
  <1>5. i - 1 = j - 1 /\ i \in Int /\ j \in Int
    BY <1>1, <1>2, <1>3, <1>4 DEF n
  <1>6. i = j
    BY <1>5
  <1> QED BY <1>4, <1>6 DEF s

\* A one-to-one map that keeps the order maps one list to the other.
LEMMA SameRanks ==
    ASSUME NEW S, IsFiniteSet(S), NEW L, StrictOrder(S, L),
           NEW T, NEW M, StrictOrder(T, M), NEW f \in Bijection(S, T),
           \A x, y \in S : <<x, y>> \in L <=> <<f[x], f[y]>> \in M
    PROVE  /\ IsFiniteSet(T) /\ Cardinality(T) = Cardinality(S)
           /\ \A i \in 1 .. Cardinality(S) : RankList(T, M)[i] = f[RankList(S, L)[i]]
  <1>1. IsFiniteSet(T) /\ Cardinality(T) = Cardinality(S)
    BY FS_Bijection DEF ExistsBijection
  <1>2. /\ f \in [S -> T] /\ \A a, b \in S : f[a] = f[b] => a = b
        /\ \A t \in T : \E a \in S : f[a] = t
    BY Fun_BijectionProperties
  <1>3. SUFFICES ASSUME NEW i \in 1 .. Cardinality(S)
                 PROVE  RankList(T, M)[i] = f[RankList(S, L)[i]]
    BY <1>1
  <1> DEFINE x == RankList(S, L)[i]
             A == {y \in S : <<y, x>> \in L}
             B == {y \in T : <<y, f[x]>> \in M}
             g == [y \in A |-> f[y]]
  <1>4. x \in S /\ Cardinality(A) = i - 1
    BY RankListed
  <1> HIDE DEF x
  <1>5. g \in [A -> B] /\ \A a, b \in A : g[a] = g[b] => a = b
    BY <1>2, <1>4
  <1>6. ASSUME NEW t \in B PROVE \E a \in A : g[a] = t
    <2>1. PICK a \in S : f[a] = t
      BY <1>2
    <2>2. a \in A
      BY <1>4, <2>1
    <2> QED BY <2>1, <2>2
  <1>7. g \in Bijection(A, B)
    <2> HIDE DEF g, A, B
    <2> QED BY <1>5, <1>6, Fun_IsBij
  <1>8. Cardinality(B) = Cardinality(A)
    <2>1. IsFiniteSet(A)
      BY FS_Subset
    <2> HIDE DEF g, A, B
    <2> QED BY <1>7, <2>1, FS_Bijection DEF ExistsBijection
  <1>9. f[x] \in T /\ Cardinality(B) = i - 1 /\ i \in 1 .. Cardinality(T)
    BY <1>1, <1>2, <1>4, <1>8
  <1>10. RankList(T, M)[i] = f[x]
    BY <1>1, <1>9, RankOf
  <1> QED BY <1>10 DEF x

\* The list of the elements that come first is the front of the list.
LEMMA BestFirst ==
    ASSUME NEW S, IsFiniteSet(S), NEW L, StrictOrder(S, L), NEW H \in SUBSET S, NEW M,
           \A x, y \in H : <<x, y>> \in M <=> <<x, y>> \in L,
           \A x \in H, y \in S \ H : <<x, y>> \in L
    PROVE  /\ IsFiniteSet(H) /\ Cardinality(H) <= Cardinality(S)
           /\ \A i \in 1 .. Cardinality(H) : RankList(H, M)[i] = RankList(S, L)[i]
  <1>1. IsFiniteSet(H) /\ Cardinality(H) <= Cardinality(S)
    BY FS_Subset
  <1>2. Cardinality(H) \in Nat /\ Cardinality(S) \in Nat
    BY <1>1, FS_CardinalityType
  <1>3. StrictOrder(H, M)
    BY DEF StrictOrder
  <1>4. SUFFICES ASSUME NEW i \in 1 .. Cardinality(H)
                 PROVE  RankList(H, M)[i] = RankList(S, L)[i]
    BY <1>1
  <1> DEFINE x == RankList(H, M)[i]
             A == {y \in H : <<y, x>> \in M}
             B == {y \in S : <<y, x>> \in L}
  <1>5. x \in H /\ Cardinality(A) = i - 1
    BY <1>1, <1>3, RankListed
  <1> HIDE DEF x
  <1>6. A = B
    BY <1>5 DEF StrictOrder
  <1>7. i \in 1 .. Cardinality(S) /\ x \in S /\ Cardinality(B) = i - 1
    <2>1. Cardinality(B) = i - 1
      BY <1>5, <1>6, Zenon
    <2>2. i \in 1 .. Cardinality(S)
      <3> DEFINE m == Cardinality(H)
                 n == Cardinality(S)
      <3>1. m \in Nat /\ n \in Nat /\ m <= n /\ i \in 1 .. m
        BY <1>1, <1>2
      <3> HIDE DEF m, n
      <3>2. i \in 1 .. n
        BY <3>1
      <3> QED BY <3>2 DEF n
    <2> QED BY <1>5, <2>1, <2>2
  <1>8. RankList(S, L)[i] = x
    BY <1>7, RankOf
  <1> QED BY <1>8 DEF x

(***************************************************************************)
(* Values computed step by step.                                           *)
(***************************************************************************)

\* What is computed step by step, each from the one before, exists.
LEMMA StepByStep ==
    ASSUME NEW S, NEW first \in S, NEW n \in Nat, NEW F \in [1 .. n -> [S -> S]]
    PROVE  \E h \in [0 .. n -> S] : h[0] = first /\ \A i \in 1 .. n : h[i] = F[i][h[i - 1]]
  <1> DEFINE Upto(m) == \E h \in [0 .. m -> S] :
                          h[0] = first /\ \A i \in 1 .. m : h[i] = F[i][h[i - 1]]
             missing == {m \in 0 .. n : ~Upto(m)}
  <1>1. Upto(0)
    <2> DEFINE h == [i \in 0 .. 0 |-> first]
    <2>1. h \in [0 .. 0 -> S] /\ h[0] = first /\ 1 .. 0 = {}
      OBVIOUS
    <2> HIDE DEF h
    <2> QED BY <2>1
  <1>2. ASSUME NEW m \in 0 .. n, m # 0, Upto(m - 1)
        PROVE  Upto(m)
    <2>1. PICK h \in [0 .. m - 1 -> S] :
            h[0] = first /\ \A i \in 1 .. m - 1 : h[i] = F[i][h[i - 1]]
      BY <1>2
    <2> DEFINE g == [i \in 0 .. m |-> IF i = m THEN F[m][h[m - 1]] ELSE h[i]]
    <2>2. m \in 1 .. n /\ m - 1 \in 0 .. m - 1 /\ h[m - 1] \in S
      BY <1>2
    <2>3. F[m][h[m - 1]] \in S
      BY <2>2
    <2>4. g \in [0 .. m -> S]
      BY <2>3, <1>2
    <2>5. g[0] = first
      BY <2>1, <1>2
    <2>6. ASSUME NEW i \in 1 .. m
          PROVE  g[i] = F[i][g[i - 1]]
      <3>1. g[i - 1] = h[i - 1]
        BY <1>2
      <3>2. CASE i = m
        BY <3>1, <3>2
      <3>3. CASE i # m
        <4>1. i \in 1 .. m - 1
          BY <3>3, <1>2
        <4> QED BY <4>1, <3>1, <2>1
      <3> QED BY <3>2, <3>3
    <2> HIDE DEF g
    <2> QED BY <2>4, <2>5, <2>6
  <1>3. missing = {}
    <2> SUFFICES ASSUME missing # {} PROVE FALSE
      OBVIOUS
    <2>1. PICK m \in missing : \A k \in missing : m <= k
      <3>1. missing \in SUBSET Nat
        OBVIOUS
      <3> HIDE DEF missing
      <3> QED BY <3>1, LeastExists
    <2>2. m \in 0 .. n /\ ~Upto(m)
      BY <2>1
    <2> HIDE DEF Upto
    <2>3. m # 0
      BY <2>2, <1>1
    <2>4. m - 1 \in 0 .. n /\ ~(m <= m - 1)
      BY <2>2, <2>3
    <2>5. Upto(m - 1)
      BY <2>4, <2>1
    <2> QED BY <2>2, <2>3, <2>5, <1>2
  <1>4. n \in 0 .. n
    OBVIOUS
  <1>5. Upto(n)
    <2> HIDE DEF Upto
    <2> QED BY <1>3, <1>4
  <1> QED BY <1>5

\* A property that the first of a sequence of values has, and that goes from
\* each to the next, is a property of all of them; it may depend on the place.
LEMMA PlacesStay ==
    ASSUME NEW U, NEW n \in Nat, NEW f, f[0] \in U[0],
           \A i \in 1 .. n : f[i - 1] \in U[i - 1] => f[i] \in U[i]
    PROVE  \A i \in 0 .. n : f[i] \in U[i]
  <1> DEFINE bad == {i \in 0 .. n : f[i] \notin U[i]}
  <1> SUFFICES ASSUME bad # {} PROVE FALSE
    OBVIOUS
  <1>1. PICK i \in bad : \A j \in bad : i <= j
    <2>1. bad \in SUBSET Nat
      OBVIOUS
    <2> HIDE DEF bad
    <2> QED BY <2>1, LeastExists
  <1>2. i \in 0 .. n /\ f[i] \notin U[i]
    OBVIOUS
  <1>3. i \in 1 .. n /\ i - 1 \in 0 .. n /\ ~(i <= i - 1)
    BY <1>2
  <1>4. f[i - 1] \in U[i - 1]
    BY <1>1, <1>3
  <1> QED BY <1>2, <1>3, <1>4

LEMMA StepsStay ==
    ASSUME NEW S, NEW n \in Nat, NEW f, f[0] \in S,
           \A i \in 1 .. n : f[i - 1] \in S => f[i] \in S
    PROVE  \A i \in 0 .. n : f[i] \in S
  <1> DEFINE U == [i \in 0 .. n |-> S]
  <1>1. 0 \in 0 .. n /\ \A i \in 0 .. n : U[i] = S
    OBVIOUS
  <1>2. \A i \in 1 .. n : i \in 0 .. n /\ i - 1 \in 0 .. n
    OBVIOUS
  <1> HIDE DEF U
  <1>3. f[0] \in U[0] /\ \A i \in 1 .. n : f[i - 1] \in U[i - 1] => f[i] \in U[i]
    BY <1>1, <1>2
  <1>4. \A i \in 0 .. n : f[i] \in U[i]
    BY <1>3, PlacesStay
  <1> QED BY <1>1, <1>4

(***************************************************************************)
(* Images.                                                                 *)
(***************************************************************************)

LEMMA ImageIsFinite ==
    ASSUME NEW S, IsFiniteSet(S), NEW f
    PROVE  IsFiniteSet({f[x] : x \in S})
  <1> DEFINE T == {f[x] : x \in S}
             g == [x \in S |-> f[x]]
  <1>1. g \in Surjection(S, T)
    BY DEF Surjection
  <1> HIDE DEF g, T
  <1>2. IsFiniteSet(T)
    BY <1>1, FS_Surjection
  <1> QED BY <1>2 DEF T

\* StepByStep for values that change their set: the i-th is one of U[i], and G[i]
\* computes it from the one before.
Stages(S, n, U, first, G) ==
    /\ n \in Nat /\ U \in [0 .. n -> SUBSET S] /\ first \in U[0]
    /\ \A i \in 1 .. n : G[i] \in [U[i - 1] -> U[i]]

Staged(n, U, first, G, h) ==
    /\ DOMAIN h = 0 .. n /\ h = [i \in 0 .. n |-> h[i]] /\ h[0] = first
    /\ \A i \in 1 .. n : h[i] = G[i][h[i - 1]]
    /\ \A i \in 0 .. n : h[i] \in U[i]

LEMMA StagesExist ==
    ASSUME NEW S, NEW n, NEW U, NEW first, NEW G, Stages(S, n, U, first, G)
    PROVE  \E h : Staged(n, U, first, G, h)
  <1> DEFINE step(i) == [x \in S |-> IF x \in U[i - 1] THEN G[i][x] ELSE x]
             F == [i \in 1 .. n |-> step(i)]
  <1>1. n \in Nat /\ first \in S /\ \A i \in 0 .. n : U[i] \subseteq S
    BY DEF Stages
  <1>2. \A i \in 1 .. n : i \in 0 .. n /\ i - 1 \in 0 .. n /\ G[i] \in [U[i - 1] -> U[i]]
    BY DEF Stages
  <1>3. \A i \in 1 .. n : step(i) \in [S -> S]
    <2> QED BY <1>1, <1>2
  <1>4. F \in [1 .. n -> [S -> S]]
    <2> HIDE DEF step
    <2> QED BY <1>3
  <1>5. PICK h \in [0 .. n -> S] : h[0] = first /\ \A i \in 1 .. n : h[i] = F[i][h[i - 1]]
    <2> HIDE DEF F
    <2>1. PICK T : T = S
      OBVIOUS
    <2>2. PICK a \in T : a = first
      BY <1>1, <2>1
    <2>3. PICK m \in Nat : m = n
      BY <1>1
    <2>4. F \in [1 .. m -> [T -> T]]
      BY <1>4, <2>1, <2>3
    <2>5. \E h \in [0 .. m -> T] : h[0] = a /\ \A i \in 1 .. m : h[i] = F[i][h[i - 1]]
      BY ONLY <2>4, StepByStep
    <2> QED BY ONLY <2>1, <2>2, <2>3, <2>5
  <1>6. \A i \in 1 .. n : \A x \in U[i - 1] : F[i][x] = G[i][x] /\ F[i][x] \in U[i]
    <2> TAKE i \in 1 .. n
    <2> TAKE x \in U[i - 1]
    <2>1. x \in S
      BY <1>1, <1>2
    <2>2. F[i][x] = G[i][x]
      <3> QED BY <2>1
    <2> HIDE DEF F
    <2> QED BY <1>2, <2>2
  <1> HIDE DEF F
  <1>7. h[0] \in U[0] /\ \A i \in 1 .. n : h[i - 1] \in U[i - 1] => h[i] \in U[i]
    BY <1>5, <1>6 DEF Stages
  <1>8. \A i \in 0 .. n : h[i] \in U[i]
    BY <1>1, <1>7, PlacesStay
  <1>9. \A i \in 1 .. n : h[i] = G[i][h[i - 1]]
    BY <1>2, <1>5, <1>6, <1>8
  <1>10. Staged(n, U, first, G, h)
    BY <1>5, <1>8, <1>9 DEF Staged
  <1> QED BY <1>10

=============================================================================

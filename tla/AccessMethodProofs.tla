------------------------- MODULE AccessMethodProofs -------------------------
(***************************************************************************)
(* Proofs about fusion and the executor hooks.                             *)
(*                                                                         *)
(* Fusion: each of the three merges gives every document one item with     *)
(* its ranks in all branches, ScoreCompare orders the scored items         *)
(* strictly and totally, the top-N heap keeps the best of them, and so a   *)
(* scan answers what the definition of fusion (ReferenceFusion) answers.   *)
(*                                                                         *)
(* The hooks: the invariant Inv of AccessMethod is inductive, so that for  *)
(* every set of queries and plans, however deep they nest and wherever an  *)
(* error unwinds them, a scan sees the LIMIT of its own plan and the hooks *)
(* keep nothing of a query that is gone.  With Inv and the facts about     *)
(* fusion ScansInv is inductive, and every scan is isolated from the       *)
(* others.                                                                 *)
(***************************************************************************)
EXTENDS AccessMethod, OrderLemmas, SequenceTheorems

\* Sorting a finite set along a relation is ranking it (OrderLemmas).
LEMMA SortedIsRankList ==
    ASSUME NEW S, NEW L
    PROVE  Sorted(S, L) = RankList(S, L)
  BY DEF Sorted, RankList

\* Pick keeps the entries at the places kept, in their order.
LEMMA PickFacts ==
    ASSUME NEW S, NEW s \in Seq(S), NEW kept \in SUBSET DOMAIN s
    PROVE  LET n == Cardinality(kept)
           IN  /\ n \in Nat /\ n <= Len(s) /\ IsFiniteSet(kept)
               /\ Pick(s, kept) \in Seq(S) /\ Len(Pick(s, kept)) = n /\ DOMAIN Pick(s, kept) = 1 .. n
               /\ \E places \in [1 .. n -> kept] :
                     /\ \A i, j \in 1 .. n : places[i] = places[j] => i = j
                     /\ \A k \in kept : \E i \in 1 .. n : places[i] = k
                     /\ \A i \in 1 .. n : Pick(s, kept)[i] = s[places[i]]
  <1> DEFINE n == Cardinality(kept)
             L == {p \in kept \X kept : p[1] < p[2]}
             places == RankList(kept, L)
             m == Len(s)
  <1>1. m \in Nat /\ DOMAIN s = 1 .. m /\ IsFiniteSet(1 .. m) /\ Cardinality(1 .. m) = m
    <2>1. m \in Nat /\ DOMAIN s = 1 .. m
      OBVIOUS
    <2> HIDE DEF m
    <2>2. IsFiniteSet(1 .. m) /\ Cardinality(1 .. m) = IF 1 > m THEN 0 ELSE m - 1 + 1
      BY <2>1, FS_Interval
    <2> QED BY <2>1, <2>2
  <1>2. /\ IsFiniteSet(kept) /\ n <= m /\ n \in Nat
    <2>1. kept \in SUBSET (1 .. m)
      BY <1>1
    <2>2. IsFiniteSet(kept) /\ Cardinality(kept) <= Cardinality(1 .. m)
      BY <1>1, <2>1, FS_Subset
    <2> QED BY <1>1, <2>2, FS_CardinalityType
  <1>3. StrictOrder(kept, L)
    <2>1. kept \subseteq Int
      BY <1>1
    <2> HIDE DEF m
    <2> QED BY <2>1 DEF StrictOrder
  <1>4. /\ places \in [1 .. n -> kept]
        /\ \A i, j \in 1 .. n : places[i] = places[j] => i = j
        /\ \A k \in kept : \E i \in 1 .. n : places[i] = k
    <2> HIDE DEF L
    <2> QED BY <1>2, <1>3, OrderedList
  <1>5. Pick(s, kept) = [i \in 1 .. n |-> s[places[i]]]
    <2> HIDE DEF L
    <2> QED BY SortedIsRankList DEF Pick, L
  <1> HIDE DEF places, L, n
  <1>6. \A i \in 1 .. n : s[places[i]] \in S
    BY <1>1, <1>4
  <1>7. Pick(s, kept) \in Seq(S) /\ Len(Pick(s, kept)) = n /\ DOMAIN Pick(s, kept) = 1 .. n
    BY <1>2, <1>5, <1>6
  <1>8. \A i \in 1 .. n : Pick(s, kept)[i] = s[places[i]]
    BY <1>5
  <1> QED BY <1>2, <1>4, <1>7, <1>8 DEF n, m
(***************************************************************************)
(* Merged items.                                                           *)
(***************************************************************************)

CandidateSet == [branch : {"dense", "multi", "bm25"}, rank : Nat \ {0}, node : Nat, tid : Nat,
                 score : Int]

KeyAt(cands, byTid, i) == Key(cands[i], byTid)

\* Candidates as the branches return them: a key and a rank once in a branch,
\* one heap TID for a key.
GoodCandidates(cands, byTid) ==
    /\ cands \in Seq(CandidateSet)
    /\ \A i \in DOMAIN cands : cands[i].branch = "bm25" => cands[i].score \in Nat
    /\ \A i, j \in DOMAIN cands : cands[i].branch = cands[j].branch =>
          /\ KeyAt(cands, byTid, i) = KeyAt(cands, byTid, j) => i = j
          /\ cands[i].rank = cands[j].rank => i = j
    /\ \A i, j \in DOMAIN cands :
          KeyAt(cands, byTid, i) = KeyAt(cands, byTid, j) => cands[i].tid = cands[j].tid

\* The item holds what the candidates at the places C say about the key k.
Merged(item, cands, byTid, C, k) ==
    /\ item \in Items
    /\ \A i \in C : KeyAt(cands, byTid, i) = k =>
          /\ item.tid = cands[i].tid
          /\ cands[i].branch = "dense" => item.dense = cands[i].rank /\ item.denseSim = cands[i].score
          /\ cands[i].branch = "multi" => item.multi = cands[i].rank /\ item.multiSim = cands[i].score
          /\ cands[i].branch = "bm25" => item.bm25 = cands[i].rank /\ item.bm25Score = cands[i].score
    /\ (\A i \in C : KeyAt(cands, byTid, i) = k => cands[i].branch # "dense")
          => item.dense = 0 /\ item.denseSim = 0
    /\ (\A i \in C : KeyAt(cands, byTid, i) = k => cands[i].branch # "multi")
          => item.multi = 0 /\ item.multiSim = 0
    /\ (\A i \in C : KeyAt(cands, byTid, i) = k => cands[i].branch # "bm25")
          => item.bm25 = 0 /\ item.bm25Score = 0

\* A candidate set holds candidates of the three branches.
LEMMA CandidateFields ==
    ASSUME NEW cands, NEW byTid, GoodCandidates(cands, byTid), NEW i \in DOMAIN cands
    PROVE  /\ cands[i] \in CandidateSet /\ cands[i].branch \in {"dense", "multi", "bm25"}
           /\ cands[i].rank \in Nat \ {0} /\ cands[i].score \in Int
           /\ cands[i].node \in Nat /\ cands[i].tid \in Nat
           /\ cands[i].branch = "bm25" => cands[i].score \in Nat
           /\ KeyAt(cands, byTid, i) \in Nat
  <1>1. cands[i] \in CandidateSet
    BY DEF GoodCandidates
  <1>2. /\ cands[i].branch \in {"dense", "multi", "bm25"}
        /\ cands[i].rank \in Nat \ {0} /\ cands[i].score \in Int
        /\ cands[i].node \in Nat /\ cands[i].tid \in Nat
    BY <1>1 DEF CandidateSet
  <1>3. cands[i].branch = "bm25" => cands[i].score \in Nat
    BY DEF GoodCandidates
  <1>4. KeyAt(cands, byTid, i) \in Nat
    BY <1>2 DEF KeyAt, Key
  <1> QED BY <1>1, <1>2, <1>3, <1>4

\* An item nothing was added to is the item of no candidates.
LEMMA BlankMerged ==
    ASSUME NEW cands, NEW byTid, NEW C, NEW k, \A i \in C : KeyAt(cands, byTid, i) # k
    PROVE  Merged(Blank, cands, byTid, C, k)
  BY DEF Merged, Blank, Items

\* A candidate of another key leaves the item of this key as it was.
LEMMA OtherMerged ==
    ASSUME NEW cands, NEW byTid, NEW C, NEW k, NEW c, KeyAt(cands, byTid, c) # k, NEW item,
           Merged(item, cands, byTid, C, k)
    PROVE  Merged(item, cands, byTid, C \cup {c}, k)
  BY DEF Merged

\* What AddCandidate sets.
LEMMA AddedFields ==
    ASSUME NEW item \in Items, NEW c \in CandidateSet, c.branch = "bm25" => c.score \in Nat
    PROVE  LET a == AddCandidate(item, c)
           IN  /\ a \in Items
               /\ a.tid = IF c.branch = "bm25" /\ HasDenseLike(item) THEN item.tid ELSE c.tid
               /\ a.dense = IF c.branch = "dense" THEN c.rank ELSE item.dense
               /\ a.denseSim = IF c.branch = "dense" THEN c.score ELSE item.denseSim
               /\ a.multi = IF c.branch = "multi" THEN c.rank ELSE item.multi
               /\ a.multiSim = IF c.branch = "multi" THEN c.score ELSE item.multiSim
               /\ a.bm25 = IF c.branch = "bm25" THEN c.rank ELSE item.bm25
               /\ a.bm25Score = IF c.branch = "bm25" THEN c.score ELSE item.bm25Score
  <1>1. /\ c.branch \in {"dense", "multi", "bm25"} /\ c.rank \in Nat /\ c.node \in Nat
        /\ c.tid \in Nat /\ c.score \in Int
    BY DEF CandidateSet
  <1>2. CASE c.branch = "dense"
    <2>1. AddCandidate(item, c) = AddDenseCandidate(item, c)
      BY <1>2 DEF AddCandidate
    <2> QED BY <1>1, <1>2, <2>1 DEF AddDenseCandidate, Items
  <1>3. CASE c.branch = "multi"
    <2>1. AddCandidate(item, c) = AddMultiVectorCandidate(item, c)
      BY <1>3 DEF AddCandidate
    <2> QED BY <1>1, <1>3, <2>1 DEF AddMultiVectorCandidate, Items
  <1>4. CASE c.branch = "bm25"
    <2>1. AddCandidate(item, c) = MergeBm25Candidate(item, c)
      BY <1>4 DEF AddCandidate
    <2> QED BY <1>1, <1>4, <2>1 DEF MergeBm25Candidate, Items
  <1> QED BY <1>1, <1>2, <1>3, <1>4

\* AddCandidate extends the item by one more candidate of its key.
LEMMA AddMerged ==
    ASSUME NEW cands, NEW byTid, GoodCandidates(cands, byTid), NEW C \in SUBSET DOMAIN cands,
           NEW c \in (DOMAIN cands) \ C, NEW item,
           Merged(item, cands, byTid, C, KeyAt(cands, byTid, c)), NEW a \in Items,
           LET b == AddCandidate(item, cands[c])
           IN  /\ a.tid = b.tid /\ a.dense = b.dense /\ a.multi = b.multi /\ a.bm25 = b.bm25
               /\ a.denseSim = b.denseSim /\ a.multiSim = b.multiSim /\ a.bm25Score = b.bm25Score
    PROVE  Merged(a, cands, byTid, C \cup {c}, KeyAt(cands, byTid, c))
  <1> DEFINE k == KeyAt(cands, byTid, c)
             b == AddCandidate(item, cands[c])
             x == cands[c]
             D == C \cup {c}
  <1>1. /\ x \in CandidateSet /\ item \in Items /\ x.branch \in {"dense", "multi", "bm25"}
        /\ x.branch = "bm25" => x.score \in Nat
    BY CandidateFields DEF Merged
  <1>2. /\ b.tid = IF x.branch = "bm25" /\ HasDenseLike(item) THEN item.tid ELSE x.tid
        /\ b.dense = IF x.branch = "dense" THEN x.rank ELSE item.dense
        /\ b.denseSim = IF x.branch = "dense" THEN x.score ELSE item.denseSim
        /\ b.multi = IF x.branch = "multi" THEN x.rank ELSE item.multi
        /\ b.multiSim = IF x.branch = "multi" THEN x.score ELSE item.multiSim
        /\ b.bm25 = IF x.branch = "bm25" THEN x.rank ELSE item.bm25
        /\ b.bm25Score = IF x.branch = "bm25" THEN x.score ELSE item.bm25Score
    BY <1>1, AddedFields
  <1>3. \A i \in C : KeyAt(cands, byTid, i) = k =>
            /\ cands[i].tid = x.tid /\ cands[i].branch # x.branch /\ item.tid = cands[i].tid
    BY DEF GoodCandidates, Merged
  <1>4. a.tid = x.tid
    <2>1. CASE x.branch = "bm25" /\ HasDenseLike(item)
      <3>1. item.dense # 0 \/ item.multi # 0
        BY <1>1, <2>1 DEF HasDenseLike, Items
      <3>2. \E i \in C : KeyAt(cands, byTid, i) = k
        BY <3>1 DEF Merged
      <3> QED BY <1>2, <1>3, <2>1, <3>2
    <2> QED BY <1>2, <2>1
  <1> HIDE DEF b
  <1>5. ASSUME NEW i \in D, KeyAt(cands, byTid, i) = k
        PROVE  /\ a.tid = cands[i].tid
               /\ cands[i].branch = "dense" => a.dense = cands[i].rank /\ a.denseSim = cands[i].score
               /\ cands[i].branch = "multi" => a.multi = cands[i].rank /\ a.multiSim = cands[i].score
               /\ cands[i].branch = "bm25" => a.bm25 = cands[i].rank /\ a.bm25Score = cands[i].score
    <2>1. CASE i = c
      BY <1>2, <1>4, <2>1 DEF b
    <2>2. CASE i \in C
      <3>1. /\ cands[i].branch = "dense" => item.dense = cands[i].rank /\ item.denseSim = cands[i].score
            /\ cands[i].branch = "multi" => item.multi = cands[i].rank /\ item.multiSim = cands[i].score
            /\ cands[i].branch = "bm25" => item.bm25 = cands[i].rank /\ item.bm25Score = cands[i].score
        BY <1>5, <2>2 DEF Merged
      <3>2. cands[i].tid = x.tid /\ cands[i].branch # x.branch
        BY <1>3, <1>5, <2>2
      <3> QED BY <1>2, <1>4, <3>1, <3>2 DEF b
    <2> QED BY <2>1, <2>2
  <1>6. c \in D /\ C \subseteq D
    OBVIOUS
  <1>7. ASSUME \A i \in D : KeyAt(cands, byTid, i) = k => cands[i].branch # "dense"
        PROVE  a.dense = 0 /\ a.denseSim = 0
    <2>1. x.branch # "dense" /\ item.dense = 0 /\ item.denseSim = 0
      BY <1>6, <1>7 DEF Merged
    <2> QED BY <1>2, <2>1 DEF b
  <1>8. ASSUME \A i \in D : KeyAt(cands, byTid, i) = k => cands[i].branch # "multi"
        PROVE  a.multi = 0 /\ a.multiSim = 0
    <2>1. x.branch # "multi" /\ item.multi = 0 /\ item.multiSim = 0
      BY <1>6, <1>8 DEF Merged
    <2> QED BY <1>2, <2>1 DEF b
  <1>9. ASSUME \A i \in D : KeyAt(cands, byTid, i) = k => cands[i].branch # "bm25"
        PROVE  a.bm25 = 0 /\ a.bm25Score = 0
    <2>1. x.branch # "bm25" /\ item.bm25 = 0 /\ item.bm25Score = 0
      BY <1>6, <1>9 DEF Merged
    <2> QED BY <1>2, <2>1 DEF b
  <1> QED BY <1>5, <1>7, <1>8, <1>9 DEF Merged

\* The item of the definition of fusion is one.
LEMMA ReferenceMerged ==
    ASSUME NEW cands, NEW byTid, GoodCandidates(cands, byTid), NEW j \in DOMAIN cands
    PROVE  Merged(ReferenceItem(cands, KeyAt(cands, byTid, j), byTid), cands, byTid, DOMAIN cands,
                  KeyAt(cands, byTid, j))
  <1> DEFINE k == KeyAt(cands, byTid, j)
             r == ReferenceItem(cands, k, byTid)
             of == {i \in DOMAIN cands : Key(cands[i], byTid) = k}
             In(b) == {i \in of : cands[i].branch = b}
             first == CHOOSE i \in of : TRUE
  <1>1. first \in DOMAIN cands /\ KeyAt(cands, byTid, first) = k
    <2>1. j \in of
      BY DEF KeyAt
    <2>2. first \in of
      BY <2>1
    <2> QED BY <2>2 DEF KeyAt
  <1>2. /\ r.node = cands[first].node /\ r.tid = cands[first].tid
        /\ r.dense = (IF In("dense") = {} THEN 0 ELSE cands[CHOOSE i \in In("dense") : TRUE].rank)
        /\ r.denseSim = (IF In("dense") = {} THEN 0 ELSE cands[CHOOSE i \in In("dense") : TRUE].score)
        /\ r.multi = (IF In("multi") = {} THEN 0 ELSE cands[CHOOSE i \in In("multi") : TRUE].rank)
        /\ r.multiSim = (IF In("multi") = {} THEN 0 ELSE cands[CHOOSE i \in In("multi") : TRUE].score)
        /\ r.bm25 = (IF In("bm25") = {} THEN 0 ELSE cands[CHOOSE i \in In("bm25") : TRUE].rank)
        /\ r.bm25Score = (IF In("bm25") = {} THEN 0 ELSE cands[CHOOSE i \in In("bm25") : TRUE].score)
        /\ r = [node |-> r.node, tid |-> r.tid, dense |-> r.dense, multi |-> r.multi, bm25 |-> r.bm25,
                denseSim |-> r.denseSim, multiSim |-> r.multiSim, bm25Score |-> r.bm25Score]
    BY DEF ReferenceItem
  <1>3. ASSUME NEW b \in {"dense", "multi", "bm25"}, In(b) # {}
        PROVE  LET i == CHOOSE i \in In(b) : TRUE
               IN  i \in DOMAIN cands /\ KeyAt(cands, byTid, i) = k /\ cands[i].branch = b
    <2>1. (CHOOSE i \in In(b) : TRUE) \in In(b)
      BY <1>3
    <2> QED BY <2>1 DEF KeyAt
  <1>4. ASSUME NEW b \in {"dense", "multi", "bm25"}, NEW i \in DOMAIN cands,
               KeyAt(cands, byTid, i) = k, cands[i].branch = b
        PROVE  In(b) # {} /\ (CHOOSE x \in In(b) : TRUE) = i
    <2>1. i \in In(b)
      BY <1>4 DEF KeyAt
    <2> DEFINE x == CHOOSE x \in In(b) : TRUE
    <2>2. x \in DOMAIN cands /\ KeyAt(cands, byTid, x) = k /\ cands[x].branch = b
      BY <1>3, <2>1
    <2> HIDE DEF x
    <2>3. x = i
      BY <1>4, <2>2 DEF GoodCandidates
    <2> QED BY <2>1, <2>3 DEF x
  <1>5. ASSUME NEW b \in {"dense", "multi", "bm25"},
               \A i \in DOMAIN cands : KeyAt(cands, byTid, i) = k => cands[i].branch # b
        PROVE  In(b) = {}
    BY <1>3, <1>5
  <1>6. \A i \in DOMAIN cands : /\ cands[i].rank \in Nat /\ cands[i].score \in Int
                                /\ cands[i].node \in Nat /\ cands[i].tid \in Nat
                                /\ cands[i].branch = "bm25" => cands[i].score \in Nat
    BY CandidateFields
  <1>7. r \in Items
    <2>1. r.node \in Nat /\ r.tid \in Nat
      BY <1>1, <1>2, <1>6
    <2>2. r.dense \in Nat /\ r.denseSim \in Int
      <3> HIDE DEF In
      <3> QED BY <1>2, <1>3, <1>6
    <2>3. r.multi \in Nat /\ r.multiSim \in Int
      <3> HIDE DEF In
      <3> QED BY <1>2, <1>3, <1>6
    <2>4. r.bm25 \in Nat /\ r.bm25Score \in Nat
      <3> HIDE DEF In
      <3> QED BY <1>2, <1>3, <1>6
    <2> HIDE DEF r
    <2> QED BY <1>2, <2>1, <2>2, <2>3, <2>4 DEF Items
  <1> HIDE DEF r, In
  <1>8. \A i \in DOMAIN cands : KeyAt(cands, byTid, i) = k => r.tid = cands[i].tid
    BY <1>1, <1>2 DEF GoodCandidates
  <1>9. \A i \in DOMAIN cands : KeyAt(cands, byTid, i) = k =>
          /\ cands[i].branch = "dense" => r.dense = cands[i].rank /\ r.denseSim = cands[i].score
          /\ cands[i].branch = "multi" => r.multi = cands[i].rank /\ r.multiSim = cands[i].score
          /\ cands[i].branch = "bm25" => r.bm25 = cands[i].rank /\ r.bm25Score = cands[i].score
    BY <1>2, <1>4
  <1>10. /\ (\A i \in DOMAIN cands : KeyAt(cands, byTid, i) = k => cands[i].branch # "dense")
               => r.dense = 0 /\ r.denseSim = 0
         /\ (\A i \in DOMAIN cands : KeyAt(cands, byTid, i) = k => cands[i].branch # "multi")
               => r.multi = 0 /\ r.multiSim = 0
         /\ (\A i \in DOMAIN cands : KeyAt(cands, byTid, i) = k => cands[i].branch # "bm25")
               => r.bm25 = 0 /\ r.bm25Score = 0
    BY <1>2, <1>5
  <1>11. Merged(r, cands, byTid, DOMAIN cands, k)
    BY <1>7, <1>8, <1>9, <1>10 DEF Merged
  <1> QED BY <1>11 DEF r
(***************************************************************************)
(* The order of the results.                                               *)
(***************************************************************************)

Results == [item : Items, score : Int]

SameRanksOf(x, y) == x.dense = y.dense /\ x.multi = y.multi /\ x.bm25 = y.bm25

\* Equal but for the node.
Alike(x, y) ==
    /\ SameRanksOf(x, y) /\ x.tid = y.tid
    /\ x.denseSim = y.denseSim /\ x.multiSim = y.multiSim /\ x.bm25Score = y.bm25Score

\* The fields of a result and of the item in it.
LEMMA ResultFields ==
    ASSUME NEW x \in Results
    PROVE  /\ x.item \in Items /\ x.score \in Int /\ x.item.node \in Nat /\ x.item.tid \in Nat
           /\ x.item.dense \in Nat /\ x.item.multi \in Nat /\ x.item.bm25 \in Nat
           /\ x.item.denseSim \in Int /\ x.item.multiSim \in Int /\ x.item.bm25Score \in Nat
  <1>1. x.item \in Items /\ x.score \in Int
    BY DEF Results
  <1> QED BY <1>1 DEF Items

RankFirst(a, b) == a # 0 /\ (b = 0 \/ a < b)

TwoBranches(x) == HasDenseLike(x.item) /\ x.item.bm25 > 0

\* ScoreCompare: scores first, and between equal scores the ranks.
LEMMA ScoreBeforeIs ==
    ASSUME NEW x, NEW y
    PROVE  ScoreBefore(x, y) <=>
               \/ x.score > y.score
               \/ /\ x.score = y.score
                  /\ \/ TwoBranches(x) /\ ~TwoBranches(y)
                     \/ /\ TwoBranches(x) = TwoBranches(y)
                        /\ \/ RankFirst(x.item.dense, y.item.dense)
                           \/ /\ x.item.dense = y.item.dense
                              /\ \/ RankFirst(x.item.multi, y.item.multi)
                                 \/ /\ x.item.multi = y.item.multi
                                    /\ \/ RankFirst(x.item.bm25, y.item.bm25)
                                       \/ (x.item.bm25 = y.item.bm25 /\ x.item.node < y.item.node)
  BY Zenon DEF ScoreBefore, RankFirst, TwoBranches

\* The lexicographic comparison of ranks, spelled out.
LEMMA RankOrder ==
    ASSUME NEW a \in Nat, NEW b \in Nat, NEW c \in Nat
    PROVE  /\ ~RankFirst(a, a) /\ (a = b \/ RankFirst(a, b) \/ RankFirst(b, a))
           /\ RankFirst(a, b) /\ RankFirst(b, c) => RankFirst(a, c)
  BY DEF RankFirst

\* No result comes before itself.
LEMMA ScoreIrreflexive ==
    ASSUME NEW x \in Results
    PROVE  ~ScoreBefore(x, x)
  <1>1. /\ ~(x.score > x.score) /\ ~(x.item.node < x.item.node)
        /\ ~RankFirst(x.item.dense, x.item.dense) /\ ~RankFirst(x.item.multi, x.item.multi)
        /\ ~RankFirst(x.item.bm25, x.item.bm25)
    BY ResultFields, RankOrder
  <1> QED BY <1>1, ScoreBeforeIs

\* Of two results that differ in score or in a rank one comes first.
LEMMA ScoreTotal ==
    ASSUME NEW x \in Results, NEW y \in Results, ~SameRanksOf(x.item, y.item)
    PROVE  ScoreBefore(x, y) \/ ScoreBefore(y, x)
  <1>1. x.score > y.score \/ x.score = y.score \/ y.score > x.score
    BY ResultFields
  <1>2. /\ x.item.dense = y.item.dense \/ RankFirst(x.item.dense, y.item.dense)
            \/ RankFirst(y.item.dense, x.item.dense)
        /\ x.item.multi = y.item.multi \/ RankFirst(x.item.multi, y.item.multi)
            \/ RankFirst(y.item.multi, x.item.multi)
        /\ x.item.bm25 = y.item.bm25 \/ RankFirst(x.item.bm25, y.item.bm25)
            \/ RankFirst(y.item.bm25, x.item.bm25)
    BY ResultFields, RankOrder
  <1>3. TwoBranches(x) \in BOOLEAN /\ TwoBranches(y) \in BOOLEAN
    BY DEF TwoBranches, HasDenseLike
  <1> QED BY <1>1, <1>2, <1>3, ScoreBeforeIs, Zenon DEF SameRanksOf

\* ScoreCompare is transitive, ties included.
LEMMA ScoreTransitive ==
    ASSUME NEW x \in Results, NEW y \in Results, NEW z \in Results,
           ScoreBefore(x, y), ScoreBefore(y, z)
    PROVE  ScoreBefore(x, z)
  <1> DEFINE D(a, b) == RankFirst(a.item.dense, b.item.dense)
             M(a, b) == RankFirst(a.item.multi, b.item.multi)
             B(a, b) == RankFirst(a.item.bm25, b.item.bm25)
             ByRanks(a, b) ==
                 \/ D(a, b)
                 \/ /\ a.item.dense = b.item.dense
                    /\ \/ M(a, b)
                       \/ /\ a.item.multi = b.item.multi
                          /\ \/ B(a, b)
                             \/ a.item.bm25 = b.item.bm25 /\ a.item.node < b.item.node
             Within(a, b) ==
                 \/ TwoBranches(a) /\ ~TwoBranches(b)
                 \/ TwoBranches(a) = TwoBranches(b) /\ ByRanks(a, b)
  <1>1. \A a, b \in {x, y, z} : ScoreBefore(a, b) <=>
            a.score > b.score \/ (a.score = b.score /\ Within(a, b))
    BY ScoreBeforeIs, Zenon
  <1>2. /\ D(x, y) /\ D(y, z) => D(x, z)
        /\ M(x, y) /\ M(y, z) => M(x, z)
        /\ B(x, y) /\ B(y, z) => B(x, z)
        /\ x.item.node < y.item.node /\ y.item.node < z.item.node => x.item.node < z.item.node
    BY ResultFields, RankOrder
  <1>3. /\ x.item.dense = y.item.dense => (D(y, z) <=> D(x, z))
        /\ y.item.dense = z.item.dense => (D(x, y) <=> D(x, z))
        /\ x.item.multi = y.item.multi => (M(y, z) <=> M(x, z))
        /\ y.item.multi = z.item.multi => (M(x, y) <=> M(x, z))
        /\ x.item.bm25 = y.item.bm25 => (B(y, z) <=> B(x, z))
        /\ y.item.bm25 = z.item.bm25 => (B(x, y) <=> B(x, z))
    OBVIOUS
  <1>4. ByRanks(x, y) /\ ByRanks(y, z) => ByRanks(x, z)
    <2> HIDE DEF D, M, B
    <2> QED BY <1>2, <1>3
  <1>5. Within(x, y) /\ Within(y, z) => Within(x, z)
    <2>1. TwoBranches(x) \in BOOLEAN /\ TwoBranches(y) \in BOOLEAN /\ TwoBranches(z) \in BOOLEAN
      BY DEF TwoBranches, HasDenseLike
    <2> HIDE DEF ByRanks
    <2> QED BY <1>4, <2>1
  <1> HIDE DEF Within
  <1>6. x.score \in Int /\ y.score \in Int /\ z.score \in Int
    BY ResultFields
  <1>7. /\ x.score > y.score \/ (x.score = y.score /\ Within(x, y))
        /\ y.score > z.score \/ (y.score = z.score /\ Within(y, z))
    BY <1>1
  <1>8. x.score > z.score \/ (x.score = z.score /\ Within(x, z))
    BY <1>5, <1>6, <1>7
  <1> QED BY <1>1, <1>8

\* The order does not see the nodes of results that differ in a rank.
LEMMA SameOrder ==
    ASSUME NEW x \in Results, NEW y \in Results, NEW v \in Results, NEW w \in Results,
           x.score = v.score, y.score = w.score, Alike(x.item, v.item), Alike(y.item, w.item),
           ~SameRanksOf(x.item, y.item)
    PROVE  ScoreBefore(x, y) <=> ScoreBefore(v, w)
  <1>1. /\ x.item.dense = v.item.dense /\ x.item.multi = v.item.multi /\ x.item.bm25 = v.item.bm25
        /\ y.item.dense = w.item.dense /\ y.item.multi = w.item.multi /\ y.item.bm25 = w.item.bm25
    BY DEF Alike, SameRanksOf
  <1>2. (TwoBranches(x) <=> TwoBranches(v)) /\ (TwoBranches(y) <=> TwoBranches(w))
    BY <1>1 DEF TwoBranches, HasDenseLike
  <1>3. ~(x.item.dense = y.item.dense /\ x.item.multi = y.item.multi /\ x.item.bm25 = y.item.bm25)
    BY DEF SameRanksOf
  <1>4. /\ TwoBranches(x) \in BOOLEAN /\ TwoBranches(y) \in BOOLEAN
        /\ TwoBranches(v) \in BOOLEAN /\ TwoBranches(w) \in BOOLEAN
    BY DEF TwoBranches, HasDenseLike
  <1>5. TwoBranches(x) = TwoBranches(v) /\ TwoBranches(y) = TwoBranches(w)
    BY <1>2, <1>4
  <1>6. ScoreBefore(x, y) <=>
               \/ x.score > y.score
               \/ /\ x.score = y.score
                  /\ \/ TwoBranches(x) /\ ~TwoBranches(y)
                     \/ /\ TwoBranches(x) = TwoBranches(y)
                        /\ \/ RankFirst(x.item.dense, y.item.dense)
                           \/ /\ x.item.dense = y.item.dense
                              /\ \/ RankFirst(x.item.multi, y.item.multi)
                                 \/ /\ x.item.multi = y.item.multi
                                    /\ RankFirst(x.item.bm25, y.item.bm25)
    BY <1>3, ScoreBeforeIs
  <1>7. ScoreBefore(v, w) <=>
               \/ v.score > w.score
               \/ /\ v.score = w.score
                  /\ \/ TwoBranches(v) /\ ~TwoBranches(w)
                     \/ /\ TwoBranches(v) = TwoBranches(w)
                        /\ \/ RankFirst(v.item.dense, w.item.dense)
                           \/ /\ v.item.dense = w.item.dense
                              /\ \/ RankFirst(v.item.multi, w.item.multi)
                                 \/ /\ v.item.multi = w.item.multi
                                    /\ RankFirst(v.item.bm25, w.item.bm25)
    BY <1>1, <1>3, ScoreBeforeIs
  <1> QED BY <1>1, <1>5, <1>6, <1>7

(***************************************************************************)
(* Items by key.                                                           *)
(***************************************************************************)

Keys(cands, byTid) == {KeyAt(cands, byTid, i) : i \in DOMAIN cands}

\* A has, for every key of K, the item merged from all candidates.
Represents(A, K, cands, byTid) ==
    /\ K \subseteq Keys(cands, byTid) /\ A \in [K -> Items]
    /\ \A k \in K : Merged(A[k], cands, byTid, DOMAIN cands, k)

\* Two merges of the same candidates agree but for the node of an item.
LEMMA MergedAlike ==
    ASSUME NEW cands, NEW byTid, GoodCandidates(cands, byTid), NEW k \in Keys(cands, byTid),
           NEW x, Merged(x, cands, byTid, DOMAIN cands, k),
           NEW y, Merged(y, cands, byTid, DOMAIN cands, k)
    PROVE  Alike(x, y)
  <1>1. PICK i \in DOMAIN cands : KeyAt(cands, byTid, i) = k
    BY DEF Keys
  <1>2. x.tid = y.tid
    BY <1>1 DEF Merged
  <1>3. x.dense = y.dense /\ x.denseSim = y.denseSim
    BY DEF Merged
  <1>4. x.multi = y.multi /\ x.multiSim = y.multiSim
    BY DEF Merged
  <1>5. x.bm25 = y.bm25 /\ x.bm25Score = y.bm25Score
    BY DEF Merged
  <1> QED BY <1>2, <1>3, <1>4, <1>5 DEF Alike, SameRanksOf

\* Items of different keys differ in a rank, for a branch gives a rank once.
LEMMA KeysDiffer ==
    ASSUME NEW cands, NEW byTid, GoodCandidates(cands, byTid),
           NEW k \in Keys(cands, byTid), NEW l \in Keys(cands, byTid),
           NEW x, Merged(x, cands, byTid, DOMAIN cands, k),
           NEW y, Merged(y, cands, byTid, DOMAIN cands, l), SameRanksOf(x, y)
    PROVE  k = l
  <1>1. PICK i \in DOMAIN cands : KeyAt(cands, byTid, i) = k
    BY DEF Keys
  <1>2. /\ cands[i].branch \in {"dense", "multi", "bm25"} /\ cands[i].rank # 0
    BY CandidateFields
  <1>3. SUFFICES \E j \in DOMAIN cands : /\ KeyAt(cands, byTid, j) = l
                                         /\ cands[j].branch = cands[i].branch
                                         /\ cands[j].rank = cands[i].rank
    BY <1>1 DEF GoodCandidates
  <1>4. CASE cands[i].branch = "dense"
    <2>1. y.dense = cands[i].rank
      BY <1>1, <1>4 DEF Merged, SameRanksOf
    <2>2. PICK j \in DOMAIN cands : KeyAt(cands, byTid, j) = l /\ cands[j].branch = "dense"
      BY <1>2, <2>1 DEF Merged
    <2>3. y.dense = cands[j].rank
      BY <2>2 DEF Merged
    <2> QED BY <1>4, <2>1, <2>2, <2>3
  <1>5. CASE cands[i].branch = "multi"
    <2>1. y.multi = cands[i].rank
      BY <1>1, <1>5 DEF Merged, SameRanksOf
    <2>2. PICK j \in DOMAIN cands : KeyAt(cands, byTid, j) = l /\ cands[j].branch = "multi"
      BY <1>2, <2>1 DEF Merged
    <2>3. y.multi = cands[j].rank
      BY <2>2 DEF Merged
    <2> QED BY <1>5, <2>1, <2>2, <2>3
  <1>6. CASE cands[i].branch = "bm25"
    <2>1. y.bm25 = cands[i].rank
      BY <1>1, <1>6 DEF Merged, SameRanksOf
    <2>2. PICK j \in DOMAIN cands : KeyAt(cands, byTid, j) = l /\ cands[j].branch = "bm25"
      BY <1>2, <2>1 DEF Merged
    <2>3. y.bm25 = cands[j].rank
      BY <2>2 DEF Merged
    <2> QED BY <1>6, <2>1, <2>2, <2>3
  <1> QED BY <1>2, <1>4, <1>5, <1>6

\* Results scored by key are in a strict order.
ResultAt(A, score, k) == [item |-> A[k], score |-> score[k]]

ResultsOf(A, K, score) == {ResultAt(A, score, k) : k \in K}

ScoreOrderOn(S) == {p \in S \X S : ScoreBefore(p[1], p[2])}

\* The results of a scan are strictly and totally ordered by ScoreCompare.
LEMMA ResultsOrdered ==
    ASSUME NEW cands, NEW byTid, GoodCandidates(cands, byTid), NEW K, NEW A,
           Represents(A, K, cands, byTid), NEW score \in [K -> Int]
    PROVE  LET S == ResultsOf(A, K, score)
           IN  /\ S \subseteq Results
               /\ \A k \in K : ResultAt(A, score, k) \in S
               /\ \A k, l \in K : k # l => ~SameRanksOf(A[k], A[l])
               /\ \A k, l \in K : ResultAt(A, score, k) = ResultAt(A, score, l) => k = l
               /\ StrictOrder(S, ScoreOrderOn(S))
  <1> DEFINE S == ResultsOf(A, K, score)
  <1>1. A \in [K -> Items] /\ \A k \in K : A[k] \in Items /\ score[k] \in Int
    BY DEF Represents
  <1>2. S \subseteq Results /\ \A k \in K : ResultAt(A, score, k) \in S
    BY <1>1 DEF ResultsOf, ResultAt, Results
  <1>3. \A k, l \in K : k # l => ~SameRanksOf(A[k], A[l])
    BY KeysDiffer DEF Represents
  <1>4. \A k, l \in K : ResultAt(A, score, k) = ResultAt(A, score, l) => k = l
    <2> SUFFICES ASSUME NEW k \in K, NEW l \in K, ResultAt(A, score, k) = ResultAt(A, score, l)
                 PROVE  k = l
      OBVIOUS
    <2>1. A[k] = A[l]
      BY DEF ResultAt
    <2> QED BY <1>3, <2>1 DEF SameRanksOf
  <1>5. \A x, y \in S : x = y \/ ScoreBefore(x, y) \/ ScoreBefore(y, x)
    <2> SUFFICES ASSUME NEW x \in S, NEW y \in S, x # y PROVE ScoreBefore(x, y) \/ ScoreBefore(y, x)
      OBVIOUS
    <2>1. PICK k \in K : x = ResultAt(A, score, k)
      BY DEF ResultsOf
    <2>2. PICK l \in K : y = ResultAt(A, score, l)
      BY DEF ResultsOf
    <2>3. ~SameRanksOf(x.item, y.item)
      BY <1>3, <2>1, <2>2 DEF ResultAt
    <2> QED BY <1>2, <2>3, ScoreTotal
  <1> HIDE DEF S
  <1>6. \A x \in S : ~ScoreBefore(x, x)
    BY <1>2, ScoreIrreflexive
  <1>7. \A x, y, z \in S : ScoreBefore(x, y) /\ ScoreBefore(y, z) => ScoreBefore(x, z)
    BY <1>2, ScoreTransitive
  <1>8. \A x, y \in S : <<x, y>> \in ScoreOrderOn(S) <=> ScoreBefore(x, y)
    BY DEF ScoreOrderOn
  <1>9. StrictOrder(S, ScoreOrderOn(S))
    BY <1>5, <1>6, <1>7, <1>8 DEF StrictOrder
  <1> QED BY <1>2, <1>3, <1>4, <1>9 DEF S
(***************************************************************************)
(* Scores.                                                                 *)
(***************************************************************************)

ScoringQuery(query) ==
    /\ query.fusion \in {"rrf", "weighted", "fast_weighted", "calibrated"}
    /\ query.rrfK \in Nat /\ query.denseWeight \in Nat /\ query.multivectorWeight \in Nat
    /\ query.bm25Weight \in Nat

\* The least and the greatest score of the matching items exist.
LEMMA BoundsExist ==
    ASSUME NEW S, S \subseteq Int, IsFiniteSet(S), S # {}
    PROVE  LowOf(S) \in Int /\ HighOf(S) \in Int
  <1> DEFINE L == {p \in S \X S : p[1] < p[2]}
             n == Cardinality(S)
             s == RankList(S, L)
  <1>1. n \in Nat \ {0}
    BY FS_CardinalityType, FS_EmptySet
  <1>2. /\ s \in [1 .. n -> S] /\ \A x \in S : \E i \in 1 .. n : s[i] = x
        /\ \A i, j \in 1 .. n : i < j => <<s[i], s[j]>> \in L
    <2>1. StrictOrder(S, L)
      BY DEF StrictOrder
    <2> HIDE DEF L
    <2> QED BY <2>1, OrderedList
  <1>3. \A i, j \in 1 .. n : i < j => s[i] < s[j]
    BY <1>2
  <1> HIDE DEF s, n, L
  <1>4. 1 \in 1 .. n /\ n \in 1 .. n /\ s[1] \in S /\ s[n] \in S
    BY <1>1, <1>2
  <1>5. \A y \in S : s[1] <= y /\ y <= s[n]
    <2> SUFFICES ASSUME NEW y \in S PROVE s[1] <= y /\ y <= s[n]
      OBVIOUS
    <2>1. PICK i \in 1 .. n : s[i] = y
      BY <1>2
    <2>2. s[1] \in Int /\ s[n] \in Int /\ y \in Int
      BY <1>4
    <2>3. 1 = i \/ 1 < i
      BY <1>1
    <2>4. i = n \/ i < n
      BY <1>1
    <2> QED BY <1>3, <1>4, <2>1, <2>2, <2>3, <2>4
  <1>6. LowOf(S) \in S
    BY <1>4, <1>5 DEF LowOf
  <1>7. HighOf(S) \in S
    <2>1. \E x \in S : \A y \in S : x >= y
      BY <1>4, <1>5
    <2> QED BY <2>1 DEF HighOf
  <1> QED BY <1>6, <1>7

\* The scale of the fixed-point scores is a positive number.
LEMMA ScaleType ==
    Scale \in Nat \ {0}
  BY FusionAssumption

\* A normalised score is a natural number.
LEMMA NormalizeType ==
    ASSUME NEW v \in Int, NEW lo \in Int, NEW hi \in Int
    PROVE  Normalize(v, lo, hi) \in Int
  <1>1. CASE hi <= lo
    BY <1>1, ScaleType DEF Normalize
  <1>2. CASE ~(hi <= lo)
    <2> DEFINE d == hi - lo
               m == (v - lo) * Scale
    <2>1. d \in Nat \ {0} /\ m \in Int
      BY <1>2, ScaleType
    <2> HIDE DEF d, m
    <2>2. m \div d \in Int
      BY <2>1
    <2> QED BY <1>2, <2>2 DEF Normalize, d, m
  <1> QED BY <1>1, <1>2

\* The scores of an item are naturals, those of a branch without it 0.
LEMMA ItemScoresType ==
    ASSUME NEW item \in Items
    PROVE  /\ DenseLikeSimilarity(item) \in Int /\ item.bm25Score \in Nat
           /\ FastWeightedScore(item) \in Int /\ CalibratedScore(item) \in Int
  <1>1. DenseLikeSimilarity(item) \in Int /\ item.bm25Score \in Nat
    BY DEF DenseLikeSimilarity, Items
  <1>2. \A s \in Int : LogisticNorm(s) \in Int
    <2> SUFFICES ASSUME NEW s \in Int PROVE LogisticNorm(s) \in Int
      OBVIOUS
    <2>1. CASE s >= 0
      <3>1. s + 2 \in Nat \ {0}
        BY <2>1
      <3>2. Scale \div (s + 2) \in Int
        BY <3>1, ScaleType
      <3> QED BY <2>1, <3>2, ScaleType DEF LogisticNorm
    <2>2. CASE ~(s >= 0)
      <3>1. 2 - s \in Nat \ {0}
        BY <2>2
      <3>2. Scale \div (2 - s) \in Int
        BY <3>1, ScaleType
      <3> QED BY <2>2, <3>2, ScaleType DEF LogisticNorm
    <2> QED BY <2>1, <2>2
  <1>3. \A s \in Nat : SaturatingNorm(s) \in Int
    <2> SUFFICES ASSUME NEW s \in Nat PROVE SaturatingNorm(s) \in Int
      OBVIOUS
    <2>1. s + 1 \in Nat \ {0}
      OBVIOUS
    <2>2. Scale \div (s + 1) \in Int
      BY <2>1, ScaleType
    <2> QED BY <2>2, ScaleType DEF SaturatingNorm
  <1>4. FastWeightedScore(item) \in Int
    <2>1. LogisticNorm(DenseLikeSimilarity(item)) \in Int /\ SaturatingNorm(item.bm25Score) \in Int
      BY <1>1, <1>2, <1>3
    <2> QED BY <2>1 DEF FastWeightedScore
  <1>5. CalibratedScore(item) \in Int
    <2>1. (3 * Scale) \div 25 \in Int
      BY ScaleType
    <2> QED BY <1>4, <2>1 DEF CalibratedScore
  <1> QED BY <1>1, <1>4, <1>5

\* The score of reciprocal rank fusion is a natural number.
LEMMA RrfScoreType ==
    ASSUME NEW query, ScoringQuery(query), NEW item \in Items
    PROVE  RrfScore(query, item) \in Int
  <1>1. \A weight, rank, rrfK \in Nat : RrfShare(weight, rank, rrfK) \in Int
    <2> SUFFICES ASSUME NEW weight \in Nat, NEW rank \in Nat, NEW rrfK \in Nat
                 PROVE  RrfShare(weight, rank, rrfK) \in Int
      OBVIOUS
    <2>1. CASE rank = 0
      BY <2>1 DEF RrfShare
    <2>2. SUFFICES ASSUME rank # 0 PROVE RrfShare(weight, rank, rrfK) \in Int
      BY <2>1
    <2> DEFINE m == weight * Scale
               d == rrfK + rank
    <2>3. m \in Int /\ d \in Nat \ {0}
      BY <2>2, ScaleType
    <2> HIDE DEF m, d
    <2>4. m \div d \in Int
      BY <2>3
    <2> QED BY <2>2, <2>4 DEF RrfShare, m, d
  <1>2. item.dense \in Nat /\ item.multi \in Nat /\ item.bm25 \in Nat
    BY DEF Items
  <1>3. /\ RrfShare(query.denseWeight, item.dense, query.rrfK) \in Int
        /\ RrfShare(query.multivectorWeight, item.multi, query.rrfK) \in Int
        /\ RrfShare(query.bm25Weight, item.bm25, query.rrfK) \in Int
    BY <1>1, <1>2 DEF ScoringQuery
  <1> QED BY <1>3 DEF RrfScore

\* The weighted score is a natural number.
LEMMA WeightedScoreType ==
    ASSUME NEW items, items \subseteq Items, IsFiniteSet(items), NEW item \in items
    PROVE  WeightedScore(items, item) \in Int
  <1> DEFINE dense == {j \in items : HasDenseLike(j)}
             text == {j \in items : j.bm25 > 0}
             ds == {DenseLikeSimilarity(i) : i \in dense}
             bs == {i.bm25Score : i \in text}
             d == IF HasDenseLike(item)
                  THEN Normalize(DenseLikeSimilarity(item), LowOf(ds), HighOf(ds)) ELSE 0
             b == IF item.bm25 > 0 THEN Normalize(item.bm25Score, LowOf(bs), HighOf(bs)) ELSE 0
  <1>1. IsFiniteSet(dense) /\ IsFiniteSet(text)
    BY FS_Subset
  <1>2. ds \subseteq Int /\ bs \subseteq Int
    BY ItemScoresType
  <1>3. IsFiniteSet(ds) /\ IsFiniteSet(bs)
    <2> DEFINE f == [i \in dense |-> DenseLikeSimilarity(i)]
               g == [i \in text |-> i.bm25Score]
    <2>1. ds = {f[i] : i \in dense} /\ bs = {g[i] : i \in text}
      OBVIOUS
    <2> HIDE DEF f, g, ds, bs, dense, text
    <2> QED BY <1>1, <2>1, ImageIsFinite
  <1>4. d \in Int
    <2>1. CASE HasDenseLike(item)
      <3>1. ds # {}
        BY <2>1
      <3> HIDE DEF ds
      <3>2. LowOf(ds) \in Int /\ HighOf(ds) \in Int
        BY <1>2, <1>3, <3>1, BoundsExist
      <3> QED BY <2>1, <3>2, NormalizeType, ItemScoresType
    <2> QED BY <2>1
  <1>5. b \in Int
    <2>1. CASE item.bm25 > 0
      <3>1. bs # {}
        BY <2>1
      <3> HIDE DEF bs
      <3>2. LowOf(bs) \in Int /\ HighOf(bs) \in Int
        BY <1>2, <1>3, <3>1, BoundsExist
      <3>3. item.bm25Score \in Int
        BY ItemScoresType
      <3> QED BY <2>1, <3>2, <3>3, NormalizeType
    <2> QED BY <2>1
  <1>6. WeightedScore(items, item) = d + b
    BY DEF WeightedScore
  <1> HIDE DEF d, b
  <1> QED BY <1>4, <1>5, <1>6

\* So is the score of either fusion.
LEMMA ScoreType ==
    ASSUME NEW query, ScoringQuery(query), NEW items, items \subseteq Items, IsFiniteSet(items),
           NEW item \in items
    PROVE  FusedScore(query, items, item) \in Int
  <1>1. /\ RrfScore(query, item) \in Int /\ WeightedScore(items, item) \in Int
        /\ FastWeightedScore(item) \in Int /\ CalibratedScore(item) \in Int
    BY RrfScoreType, WeightedScoreType, ItemScoresType
  <1> QED BY <1>1 DEF FusedScore, ScoringQuery

AlikeSets(X, Y) ==
    /\ X \subseteq Items /\ Y \subseteq Items
    /\ \A i \in X : \E j \in Y : Alike(i, j)
    /\ \A j \in Y : \E i \in X : Alike(i, j)

\* The node has no part in the scores.
LEMMA ScoreAlike ==
    ASSUME NEW query, ScoringQuery(query), NEW X, NEW Y, AlikeSets(X, Y),
           NEW x \in X, NEW y \in Y, Alike(x, y)
    PROVE  FusedScore(query, X, x) = FusedScore(query, Y, y)
  <1>6. /\ X \subseteq Items /\ Y \subseteq Items
        /\ \A i \in X : \E j \in Y : Alike(i, j)
        /\ \A j \in Y : \E i \in X : Alike(i, j)
    BY DEF AlikeSets
  <1>1. ASSUME NEW a \in Items, NEW b \in Items, Alike(a, b)
        PROVE  /\ HasDenseLike(a) = HasDenseLike(b) /\ DenseLikeSimilarity(a) = DenseLikeSimilarity(b)
               /\ a.bm25 = b.bm25 /\ a.bm25Score = b.bm25Score /\ a.dense = b.dense /\ a.multi = b.multi
    <2>1. /\ a.bm25 = b.bm25 /\ a.bm25Score = b.bm25Score /\ a.dense = b.dense /\ a.multi = b.multi
          /\ a.denseSim = b.denseSim /\ a.multiSim = b.multiSim
      BY <1>1 DEF Alike, SameRanksOf
    <2> QED BY <2>1 DEF HasDenseLike, DenseLikeSimilarity
  <1>2. RrfScore(query, x) = RrfScore(query, y)
    BY <1>1, <1>6 DEF RrfScore
  <1>3. FastWeightedScore(x) = FastWeightedScore(y)
    BY <1>1, <1>6 DEF FastWeightedScore
  <1>4. CalibratedScore(x) = CalibratedScore(y)
    BY <1>1, <1>3, <1>6 DEF CalibratedScore
  <1>5. WeightedScore(X, x) = WeightedScore(Y, y)
    <2> DEFINE ds(Z) == {DenseLikeSimilarity(i) : i \in {j \in Z : HasDenseLike(j)}}
               bs(Z) == {i.bm25Score : i \in {j \in Z : j.bm25 > 0}}
    <2>1. ds(X) = ds(Y)
      <3>1. ASSUME NEW v \in ds(X) PROVE v \in ds(Y)
        <4>1. PICK i \in X : HasDenseLike(i) /\ v = DenseLikeSimilarity(i)
          OBVIOUS
        <4>2. PICK j \in Y : Alike(i, j)
          BY <1>6
        <4>3. HasDenseLike(j) /\ v = DenseLikeSimilarity(j)
          BY <1>1, <1>6, <4>1, <4>2
        <4> QED BY <4>3
      <3>2. ASSUME NEW v \in ds(Y) PROVE v \in ds(X)
        <4>1. PICK j \in Y : HasDenseLike(j) /\ v = DenseLikeSimilarity(j)
          OBVIOUS
        <4>2. PICK i \in X : Alike(i, j)
          BY <1>6
        <4>3. HasDenseLike(i) /\ v = DenseLikeSimilarity(i)
          BY <1>1, <1>6, <4>1, <4>2
        <4> QED BY <4>3
      <3> HIDE DEF ds
      <3> QED BY <3>1, <3>2
    <2>2. bs(X) = bs(Y)
      <3>1. ASSUME NEW v \in bs(X) PROVE v \in bs(Y)
        <4>1. PICK i \in X : i.bm25 > 0 /\ v = i.bm25Score
          OBVIOUS
        <4>2. PICK j \in Y : Alike(i, j)
          BY <1>6
        <4>3. j.bm25 > 0 /\ v = j.bm25Score
          BY <1>1, <1>6, <4>1, <4>2
        <4> QED BY <4>3
      <3>2. ASSUME NEW v \in bs(Y) PROVE v \in bs(X)
        <4>1. PICK j \in Y : j.bm25 > 0 /\ v = j.bm25Score
          OBVIOUS
        <4>2. PICK i \in X : Alike(i, j)
          BY <1>6
        <4>3. i.bm25 > 0 /\ v = i.bm25Score
          BY <1>1, <1>6, <4>1, <4>2
        <4> QED BY <4>3
      <3> HIDE DEF bs
      <3> QED BY <3>1, <3>2
    <2> HIDE DEF ds, bs
    <2>3. \A Z, z : WeightedScore(Z, z) =
             (IF HasDenseLike(z) THEN Normalize(DenseLikeSimilarity(z), LowOf(ds(Z)), HighOf(ds(Z))) ELSE 0)
             + (IF z.bm25 > 0 THEN Normalize(z.bm25Score, LowOf(bs(Z)), HighOf(bs(Z))) ELSE 0)
      BY DEF WeightedScore, ds, bs
    <2>4. /\ HasDenseLike(x) = HasDenseLike(y) /\ DenseLikeSimilarity(x) = DenseLikeSimilarity(y)
          /\ x.bm25 = y.bm25 /\ x.bm25Score = y.bm25Score
      BY <1>1, <1>6
    <2> QED BY <2>1, <2>2, <2>3, <2>4
  <1> QED BY <1>2, <1>3, <1>4, <1>5 DEF FusedScore, ScoringQuery
(***************************************************************************)
(* The top-N heap.                                                         *)
(***************************************************************************)

\* The results of S are in the strict order of ScoreBefore.
ScoreOrdered(S) ==
    /\ \A x \in S : ~ScoreBefore(x, x)
    /\ \A x, y, z \in S : ScoreBefore(x, y) /\ ScoreBefore(y, z) => ScoreBefore(x, z)
    /\ \A x, y \in S : x = y \/ ScoreBefore(x, y) \/ ScoreBefore(y, x)

OneToOne(h) == \A i, j \in DOMAIN h : h[i] = h[j] => i = j

\* h has the results of g, each once, in another order.
Permuted(h, g, S) ==
    h \in Seq(S) /\ Len(h) = Len(g) /\ OneToOne(h) /\ ToSet(h) = ToSet(g)

\* A result comes before the one above it.
Heaped(h) == \A i \in 2 .. Len(h) : ScoreBefore(h[i], h[i \div 2])

\* The parent of a place of the heap is a smaller place.
LEMMA Halves ==
    ASSUME NEW i \in Nat, i >= 2
    PROVE  i \div 2 \in 1 .. i - 1 /\ (i = 2 * (i \div 2) \/ i = 2 * (i \div 2) + 1)
  OBVIOUS

\* Swapping two places permutes the heap.
LEMMA SwapFacts ==
    ASSUME NEW S, NEW h \in Seq(S), OneToOne(h), NEW i \in 1 .. Len(h), NEW j \in 1 .. Len(h), i # j
    PROVE  LET w == SwapPlaces(h, i, j)
           IN  /\ Permuted(w, h, S) /\ w[i] = h[j] /\ w[j] = h[i]
               /\ \A k \in 1 .. Len(h) : k # i /\ k # j => w[k] = h[k]
  <1> DEFINE w == SwapPlaces(h, i, j)
             n == Len(h)
  <1>1. n \in Nat /\ DOMAIN h = 1 .. n /\ i \in 1 .. n /\ j \in 1 .. n
        /\ \A k \in 1 .. n : h[k] \in S
    OBVIOUS
  <1>2. w = [k \in 1 .. n |-> IF k = j THEN h[i] ELSE IF k = i THEN h[j] ELSE h[k]]
    BY <1>1 DEF SwapPlaces
  <1> HIDE DEF w, n
  <1>3. /\ DOMAIN w = 1 .. n /\ w[i] = h[j] /\ w[j] = h[i]
        /\ \A k \in 1 .. n : k # i /\ k # j => w[k] = h[k]
    BY <1>1, <1>2
  <1>4. w \in Seq(S) /\ Len(w) = n
    BY <1>1, <1>2
  <1>5. OneToOne(w)
    BY <1>1, <1>3 DEF OneToOne
  <1>6. ToSet(w) = ToSet(h)
    <2>1. ASSUME NEW x \in ToSet(w) PROVE x \in ToSet(h)
      <3>1. PICK k \in 1 .. n : x = w[k]
        BY <1>3 DEF ToSet
      <3> QED BY <1>1, <1>3, <3>1 DEF ToSet
    <2>2. ASSUME NEW x \in ToSet(h) PROVE x \in ToSet(w)
      <3>1. PICK k \in 1 .. n : x = h[k]
        BY <1>1 DEF ToSet
      <3> QED BY <1>1, <1>3, <3>1 DEF ToSet
    <2> QED BY <2>1, <2>2
  <1>7. Permuted(w, h, S)
    BY <1>4, <1>5, <1>6 DEF Permuted, n
  <1> QED BY <1>3, <1>7 DEF w, n

\* Permutations of a heap compose.
LEMMA PermutedTwice ==
    ASSUME NEW S, NEW h, NEW g, NEW f, Permuted(h, g, S), Permuted(g, f, S)
    PROVE  Permuted(h, f, S)
  BY DEF Permuted

\* While s.at rises, the heap is out of order only above it.
Rising(s, g, S) ==
    /\ s = [heap |-> s.heap, at |-> s.at]
    /\ Permuted(s.heap, g, S) /\ s.at \in 1 .. Len(g)
    /\ \A i \in 2 .. Len(g) : i # s.at => ScoreBefore(s.heap[i], s.heap[i \div 2])
    /\ \A i \in 2 .. Len(g) : i \div 2 = s.at /\ s.at > 1 =>
          ScoreBefore(s.heap[i], s.heap[s.at \div 2])

Risen(s) == s.at = 1 \/ ~ScoreBefore(s.heap[s.at \div 2], s.heap[s.at])

\* One turn of the loop of SiftUp restores the heap but for its new place.
LEMMA RiseStep ==
    ASSUME NEW S, ScoreOrdered(S), NEW g \in Seq(S), NEW s, Rising(s, g, S)
    PROVE  /\ Rising(RiseOnce(s), g, S)
           /\ Risen(s) => RiseOnce(s) = s
           /\ ~Risen(s) => RiseOnce(s).at < s.at
  <1> DEFINE h == s.heap
             at == s.at
             p == at \div 2
             w == SwapPlaces(h, at, p)
             n == Len(g)
             t == [heap |-> w, at |-> p]
  <1>1. /\ n \in Nat /\ Permuted(h, g, S) /\ h \in Seq(S) /\ OneToOne(h) /\ Len(h) = n
        /\ at \in 1 .. n /\ \A i \in 1 .. n : h[i] \in S
    BY DEF Rising, Permuted
  <1>2. CASE Risen(s)
    <2>1. RiseOnce(s) = s
      BY <1>1, <1>2 DEF RiseOnce, Risen
    <2> QED BY <1>2, <2>1
  <1>3. CASE ~Risen(s)
    <2>1. at > 1 /\ ScoreBefore(h[p], h[at])
      BY <1>1, <1>3 DEF Risen
    <2>2. RiseOnce(s) = t
      BY <2>1 DEF RiseOnce
    <2>3. p \in 1 .. n /\ p < at /\ p # at
      <3> HIDE DEF h, at, n
      <3>1. at \in Nat /\ at >= 2
        BY <1>1, <2>1
      <3>2. p \in 1 .. at - 1
        BY <3>1, Halves
      <3> HIDE DEF p
      <3> QED BY <1>1, <3>1, <3>2
    <2>4. /\ Permuted(w, h, S) /\ w[at] = h[p] /\ w[p] = h[at]
          /\ \A k \in 1 .. n : k # at /\ k # p => w[k] = h[k]
      <3> HIDE DEF h, at, p, w, n
      <3> QED BY <1>1, <2>3, SwapFacts DEF w
    <2>5. /\ \A i \in 2 .. n : i # at => ScoreBefore(h[i], h[i \div 2])
          /\ \A i \in 2 .. n : i \div 2 = at => ScoreBefore(h[i], h[p])
      BY <2>1 DEF Rising
    <2>6. \A i \in 2 .. n : i \in 1 .. n /\ i \div 2 \in 1 .. n /\ i \div 2 < i
      <3> SUFFICES ASSUME NEW i \in 2 .. n PROVE i \in 1 .. n /\ i \div 2 \in 1 .. n /\ i \div 2 < i
        OBVIOUS
      <3> HIDE DEF n
      <3>1. i \in Nat /\ i >= 2
        BY <1>1
      <3>2. i \div 2 \in 1 .. i - 1
        BY <3>1, Halves
      <3> QED BY <1>1, <3>1, <3>2
    <2> HIDE DEF w, h, n
    <2>7. \A x, y, z \in S : ScoreBefore(x, y) /\ ScoreBefore(y, z) => ScoreBefore(x, z)
      BY DEF ScoreOrdered
    <2>8. ASSUME NEW i \in 2 .. n, i # p PROVE ScoreBefore(w[i], w[i \div 2])
      <3>1. CASE i = at
        BY <2>1, <2>4, <3>1
      <3>2. CASE i # at /\ i \div 2 = at
        BY <2>4, <2>5, <2>6, <2>8, <3>2
      <3>3. CASE i # at /\ i \div 2 = p
        <4>1. ScoreBefore(h[i], h[p]) /\ w[i] = h[i] /\ w[i \div 2] = h[at]
          BY <2>4, <2>5, <2>6, <2>8, <3>3
        <4>2. h[i] \in S /\ h[p] \in S /\ h[at] \in S
          BY <1>1, <2>3, <2>6, <2>8
        <4> HIDE DEF p, at
        <4> QED BY <2>1, <2>7, <4>1, <4>2
      <3>4. CASE i # at /\ i \div 2 # at /\ i \div 2 # p
        BY <2>4, <2>5, <2>6, <2>8, <3>4
      <3> QED BY <3>1, <3>2, <3>3, <3>4
    <2>9. ASSUME NEW i \in 2 .. n, i \div 2 = p, p > 1
          PROVE  ScoreBefore(w[i], w[p \div 2])
      <3>1. p \in 2 .. n /\ p \div 2 \in 1 .. n /\ p \div 2 < p
        BY <1>1, <2>3, <2>6, <2>9
      <3>2. ScoreBefore(h[p], h[p \div 2]) /\ w[p \div 2] = h[p \div 2]
        <4> HIDE DEF p, at
        <4> QED BY <1>1, <2>3, <2>4, <2>5, <3>1
      <3>3. CASE i = at
        BY <2>4, <3>2, <3>3
      <3>4. CASE i # at
        <4>1. ScoreBefore(h[i], h[p]) /\ w[i] = h[i]
          BY <2>4, <2>5, <2>6, <2>9, <3>4
        <4>2. h[i] \in S /\ h[p] \in S /\ h[p \div 2] \in S
          BY <1>1, <2>3, <2>6, <2>9, <3>1
        <4> HIDE DEF p, at
        <4> QED BY <2>7, <3>2, <4>1, <4>2
      <3> QED BY <3>3, <3>4
    <2>10. Permuted(w, g, S)
      BY <1>1, <2>4, PermutedTwice DEF h
    <2>11. t = [heap |-> t.heap, at |-> t.at] /\ t.heap = w /\ t.at = p
      OBVIOUS
    <2> HIDE DEF t, p
    <2>12. Rising(t, g, S)
      BY <2>3, <2>8, <2>9, <2>10, <2>11 DEF Rising, n
    <2>13. RiseOnce(s).at < s.at
      BY <2>2, <2>3, <2>11
    <2> QED BY <1>3, <2>2, <2>12, <2>13
  <1> QED BY <1>2, <1>3

\* SiftUp: a heap with one more result at its end becomes a heap of the same.
LEMMA SiftUpFacts ==
    ASSUME NEW S, ScoreOrdered(S), NEW g \in Seq(S), NEW place,
           Rising([heap |-> g, at |-> place], g, S)
    PROVE  Permuted(SiftUp(g, place), g, S) /\ Heaped(SiftUp(g, place))
  <1> DEFINE first == [heap |-> g, at |-> place]
             Def(f) == [n \in 0 .. place |-> IF n = 0 THEN first ELSE RiseOnce(f[n - 1])]
             round == CHOOSE f : f = Def(f)
             Stage(n) == {s \in [heap : Seq(S), at : Nat] :
                              Rising(s, g, S) /\ (Risen(s) \/ s.at + n <= place)}
             U == [n \in 0 .. place |-> Stage(n)]
             G == [n \in 1 .. place |-> [s \in Stage(n - 1) |-> RiseOnce(s)]]
  <1>1. place \in Nat /\ place \in 1 .. Len(g)
    BY DEF Rising
  <1>2. \A n \in 0 .. place : U[n] = Stage(n)
    OBVIOUS
  <1>3. /\ \A n \in 1 .. place : n \in 0 .. place /\ n - 1 \in 0 .. place
        /\ \A n \in 1 .. place : G[n] = [s \in Stage(n - 1) |-> RiseOnce(s)]
    <2> HIDE DEF Stage
    <2> QED BY <1>1
  <1>4. first \in Stage(0)
    BY <1>1
  <1>5. ASSUME NEW n \in 1 .. place, NEW s \in Stage(n - 1) PROVE RiseOnce(s) \in Stage(n)
    <2>1. /\ Rising(s, g, S) /\ s.at \in Nat /\ n \in Nat
          /\ Risen(s) \/ s.at + (n - 1) <= place
      OBVIOUS
    <2> DEFINE t == RiseOnce(s)
    <2>2. /\ Rising(t, g, S) /\ (Risen(s) => t = s) /\ (~Risen(s) => t.at < s.at)
      BY <2>1, RiseStep
    <2> HIDE DEF t
    <2>3. t.heap \in Seq(S) /\ t.at \in Nat /\ t = [heap |-> t.heap, at |-> t.at]
      BY <2>2 DEF Rising, Permuted
    <2>4. t \in [heap : Seq(S), at : Nat]
      BY <2>3
    <2>5. Risen(t) \/ t.at + n <= place
      BY <1>1, <2>1, <2>2, <2>3
    <2>6. t \in Stage(n)
      BY <2>2, <2>4, <2>5
    <2> QED BY <2>6 DEF t
  <1> HIDE DEF Stage, first, U, G
  <1>6. first \in U[0] /\ \A n \in 1 .. place : G[n] \in [U[n - 1] -> U[n]]
    <2>1. first \in U[0]
      BY <1>1, <1>2, <1>4
    <2>2. \A n \in 1 .. place : [s \in Stage(n - 1) |-> RiseOnce(s)] \in [Stage(n - 1) -> Stage(n)]
      BY <1>5
    <2>3. \A n \in 1 .. place : U[n] = Stage(n) /\ U[n - 1] = Stage(n - 1)
      BY <1>2, <1>3
    <2> QED BY <1>3, <2>1, <2>2, <2>3
  <1>7. PICK h : Staged(place, U, first, G, h)
    <2>1. \A n \in 0 .. place : U[n] \subseteq [heap : Seq(S), at : Nat]
      BY <1>2 DEF Stage
    <2>2. U \in [0 .. place -> SUBSET [heap : Seq(S), at : Nat]]
      BY <2>1 DEF U
    <2>3. Stages([heap : Seq(S), at : Nat], place, U, first, G)
      BY <1>1, <1>6, <2>2 DEF Stages
    <2> QED BY ONLY <2>3, StagesExist
  <1>8. \A i \in 1 .. place : h[i] = RiseOnce(h[i - 1])
    <2> TAKE i \in 1 .. place
    <2>1. h[i - 1] \in Stage(i - 1)
      BY <1>2, <1>3, <1>7 DEF Staged
    <2>2. h[i] = G[i][h[i - 1]] /\ G[i] = [s \in Stage(i - 1) |-> RiseOnce(s)]
      BY <1>3, <1>7 DEF Staged
    <2>3. PICK x \in Stage(i - 1) : x = h[i - 1]
      BY <2>1
    <2>4. G[i][x] = RiseOnce(x)
      BY <2>2
    <2> QED BY <2>2, <2>3, <2>4
  <1>9. h = Def(h)
    <2>1. \A i \in 0 .. place : h[i] = IF i = 0 THEN first ELSE RiseOnce(h[i - 1])
      <3> TAKE i \in 0 .. place
      <3>1. i # 0 => i \in 1 .. place
        BY <1>1
      <3> QED BY <1>7, <1>8, <3>1 DEF Staged
    <2> QED BY <1>7, <2>1 DEF Staged
  <1>10. round = Def(round)
    <2> HIDE DEF Def
    <2> QED BY <1>9
  <1>11. round[0] = first /\ \A i \in 1 .. place : round[i] = RiseOnce(round[i - 1])
    <2> HIDE DEF round
    <2>1. \A i \in 0 .. place : round[i] = IF i = 0 THEN first ELSE RiseOnce(round[i - 1])
      BY <1>10
    <2> QED BY <1>1, <2>1
  <1>12. SiftUp(g, place) = round[place].heap
    BY DEF SiftUp, first
  <1> HIDE DEF round, Def
  <1>13. \A i \in 0 .. place : round[i] \in U[i]
    <2>1. \A i \in 1 .. place : round[i - 1] \in U[i - 1] => round[i] \in U[i]
      <3> SUFFICES ASSUME NEW i \in 1 .. place, round[i - 1] \in U[i - 1] PROVE round[i] \in U[i]
        OBVIOUS
      <3>1. round[i - 1] \in Stage(i - 1) /\ U[i] = Stage(i)
        BY <1>2, <1>3
      <3> QED BY <1>5, <1>11, <3>1
    <2> QED BY <1>1, <1>6, <1>11, <2>1, PlacesStay
  <1>14. round[place] \in Stage(place)
    BY <1>1, <1>2, <1>13
  <1> DEFINE s == round[place]
  <1> HIDE DEF s
  <1>15. Rising(s, g, S) /\ (Risen(s) \/ s.at + place <= place)
    BY <1>14 DEF Stage, s
  <1>16. Risen(s)
    BY <1>1, <1>15 DEF Rising
  <1>17. Permuted(s.heap, g, S) /\ Len(s.heap) = Len(g) /\ s.heap \in Seq(S) /\ s.at \in 1 .. Len(g)
    BY <1>15 DEF Rising, Permuted
  <1>18. Heaped(s.heap)
    <2> SUFFICES ASSUME NEW i \in 2 .. Len(g) PROVE ScoreBefore(s.heap[i], s.heap[i \div 2])
      BY <1>17 DEF Heaped
    <2>1. CASE i # s.at
      BY <1>15, <2>1 DEF Rising
    <2>2. CASE i = s.at
      <3> DEFINE p == i \div 2
      <3>1. Len(g) \in Nat
        OBVIOUS
      <3>2. p \in 1 .. i - 1
        BY <3>1, Halves
      <3> HIDE DEF p
      <3>3. p \in 1 .. Len(g) /\ i \in 1 .. Len(g) /\ p # i /\ i # 1
        BY <3>1, <3>2
      <3>4. /\ s.heap[p] # s.heap[i] /\ s.heap[p] \in S /\ s.heap[i] \in S
        BY <1>17, <3>3 DEF Permuted, OneToOne
      <3>5. ~ScoreBefore(s.heap[p], s.heap[i])
        BY <1>16, <2>2, <3>3 DEF Risen, p
      <3>6. ScoreBefore(s.heap[i], s.heap[p])
        BY <3>4, <3>5 DEF ScoreOrdered
      <3> QED BY <3>6 DEF p
    <2> QED BY <2>1, <2>2
  <1> QED BY <1>12, <1>17, <1>18 DEF s

\* The worst of a place and its children comes after the others.
LEMMA WorstFacts ==
    ASSUME NEW S, ScoreOrdered(S), NEW h \in Seq(S), OneToOne(h), NEW i \in 1 .. Len(h)
    PROVE  /\ Worst(h, i) \in {i, 2 * i, 2 * i + 1} /\ Worst(h, i) \in 1 .. Len(h)
           /\ \A c \in {i, 2 * i, 2 * i + 1} :
                 c \in 1 .. Len(h) /\ c # Worst(h, i) => ScoreBefore(h[c], h[Worst(h, i)])
  <1> DEFINE n == Len(h)
             l == 2 * i
             r == 2 * i + 1
             left == IF l <= n /\ ScoreBefore(h[i], h[l]) THEN l ELSE i
             w == IF r <= n /\ ScoreBefore(h[left], h[r]) THEN r ELSE left
  <1>1. /\ n \in Nat /\ DOMAIN h = 1 .. n /\ i \in 1 .. n /\ l \in Nat /\ r \in Nat
        /\ i < l /\ l < r /\ 1 <= l /\ 1 <= r
        /\ \A k \in 1 .. n : h[k] \in S
    OBVIOUS
  <1>2. Worst(h, i) = w
    BY DEF Worst
  <1> HIDE DEF n, l, r
  <1>3. \A j, k \in 1 .. n : j = k \/ ScoreBefore(h[j], h[k]) \/ ScoreBefore(h[k], h[j])
    BY <1>1 DEF ScoreOrdered, OneToOne
  <1>4. \A j, k, m \in 1 .. n : ScoreBefore(h[j], h[k]) /\ ScoreBefore(h[k], h[m]) => ScoreBefore(h[j], h[m])
    BY <1>1 DEF ScoreOrdered
  <1>5. /\ left \in {i, l} /\ left \in 1 .. n
        /\ \A c \in {i, l} : c \in 1 .. n /\ c # left => ScoreBefore(h[c], h[left])
    BY <1>1, <1>3
  <1> HIDE DEF left
  <1>6. /\ w \in {i, l, r} /\ w \in 1 .. n
    BY <1>1, <1>5
  <1>7. ASSUME NEW c \in {i, l, r}, c \in 1 .. n, c # w PROVE ScoreBefore(h[c], h[w])
    <2>1. CASE w = left
      <3>1. CASE c = r
        BY <1>1, <1>3, <1>5, <1>7, <2>1, <3>1
      <3>2. CASE c # r
        BY <1>5, <1>7, <2>1, <3>2
      <3> QED BY <3>1, <3>2
    <2>2. CASE w # left
      <3>1. w = r /\ ScoreBefore(h[left], h[r])
        BY <2>2
      <3>2. CASE c = left
        BY <3>1, <3>2
      <3>3. CASE c # left
        BY <1>4, <1>5, <1>6, <1>7, <3>1, <3>3
      <3> QED BY <3>2, <3>3
    <2> QED BY <2>1, <2>2
  <1> HIDE DEF w
  <1> QED BY <1>2, <1>6, <1>7 DEF n, l, r

\* While s.at sinks, the heap is out of order only below it.
Sinking(s, g, S) ==
    /\ s = [heap |-> s.heap, at |-> s.at]
    /\ Permuted(s.heap, g, S) /\ s.at \in 1 .. Len(g)
    /\ \A i \in 2 .. Len(g) : i \div 2 # s.at => ScoreBefore(s.heap[i], s.heap[i \div 2])
    /\ \A i \in 2 .. Len(g) : i \div 2 = s.at /\ s.at > 1 =>
          ScoreBefore(s.heap[i], s.heap[s.at \div 2])

Sunk(s) ==
    \A i \in 2 .. Len(s.heap) : i \div 2 = s.at => ScoreBefore(s.heap[i], s.heap[s.at])

\* One turn of the loop of SiftDown restores the heap but for its new place.
LEMMA SinkStep ==
    ASSUME NEW S, ScoreOrdered(S), NEW g \in Seq(S), NEW s, Sinking(s, g, S)
    PROVE  /\ Sinking(SinkOnce(s), g, S)
           /\ Sunk(s) => SinkOnce(s) = s
           /\ ~Sunk(s) => SinkOnce(s).at > s.at
  <1> DEFINE h == s.heap
             at == s.at
             c == Worst(h, at)
             w == SwapPlaces(h, at, c)
             n == Len(g)
             t == [heap |-> w, at |-> c]
  <1>1. /\ n \in Nat /\ Permuted(h, g, S) /\ h \in Seq(S) /\ OneToOne(h) /\ Len(h) = n
        /\ at \in 1 .. n /\ \A i \in 1 .. n : h[i] \in S
    BY DEF Sinking, Permuted
  <1> HIDE DEF h, at, n
  <1>2. /\ c \in {at, 2 * at, 2 * at + 1} /\ c \in 1 .. n
        /\ \A i \in {at, 2 * at, 2 * at + 1} : i \in 1 .. n /\ i # c => ScoreBefore(h[i], h[c])
    BY <1>1, WorstFacts
  <1> HIDE DEF c
  <1>3. ASSUME NEW i \in 2 .. n
        PROVE  /\ i \in 1 .. n /\ i \div 2 \in 1 .. n /\ i \div 2 < i /\ i \in Nat
               /\ i \div 2 = at => i \in {2 * at, 2 * at + 1}
    <2>1. i \in Nat /\ i >= 2
      BY <1>1
    <2>2. i \div 2 \in 1 .. i - 1 /\ (i = 2 * (i \div 2) \/ i = 2 * (i \div 2) + 1)
      BY <2>1, Halves
    <2> QED BY <1>1, <2>1, <2>2
  <1>4. at \in Nat /\ (2 * at) \div 2 = at /\ (2 * at + 1) \div 2 = at
    BY <1>1
  <1>5. CASE c = at
    <2>1. SinkOnce(s) = s
      BY <1>5 DEF SinkOnce, c, at, h
    <2>2. Sunk(s)
      <3> SUFFICES ASSUME NEW i \in 2 .. n, i \div 2 = at PROVE ScoreBefore(h[i], h[at])
        BY <1>1 DEF Sunk, h, at
      <3>1. i \in {2 * at, 2 * at + 1} /\ i \in 1 .. n /\ i # c
        BY <1>3, <1>4, <1>5
      <3> QED BY <1>2, <1>5, <3>1
    <2> QED BY <2>1, <2>2
  <1>6. CASE c # at
    <2>1. /\ c \in 2 .. n /\ c \div 2 = at /\ c > at
      BY <1>1, <1>2, <1>4, <1>6
    <2>2. SinkOnce(s) = t
      BY <1>6 DEF SinkOnce, c, at, h
    <2>3. ~Sunk(s)
      <3>1. ScoreBefore(h[at], h[c]) /\ h[at] \in S /\ h[c] \in S
        BY <1>1, <1>2, <1>6
      <3>2. ~ScoreBefore(h[c], h[at])
        BY <3>1 DEF ScoreOrdered
      <3> QED BY <1>1, <2>1, <3>2 DEF Sunk, h, at
    <2>4. /\ Permuted(w, h, S) /\ w[at] = h[c] /\ w[c] = h[at]
          /\ \A k \in 1 .. n : k # at /\ k # c => w[k] = h[k]
      <3> HIDE DEF w
      <3> QED BY <1>1, <1>2, <1>6, SwapFacts DEF w
    <2>5. /\ \A i \in 2 .. n : i \div 2 # at => ScoreBefore(h[i], h[i \div 2])
          /\ \A i \in 2 .. n : i \div 2 = at /\ at > 1 => ScoreBefore(h[i], h[at \div 2])
      BY DEF Sinking, h, at, n
    <2> HIDE DEF w
    <2>6. ASSUME NEW i \in 2 .. n, i \div 2 # c PROVE ScoreBefore(w[i], w[i \div 2])
      <3>1. CASE i = c
        BY <1>1, <1>2, <1>6, <2>1, <2>4, <3>1
      <3>2. CASE i = at
        <4>1. i > 1 /\ i \div 2 # at /\ i \div 2 \in 1 .. n /\ at > 1
          BY <1>3, <3>2, <2>6
        <4>2. w[i \div 2] = h[i \div 2]
          BY <2>4, <2>6, <4>1
        <4>3. ScoreBefore(h[c], h[at \div 2])
          BY <2>1, <2>5, <4>1
        <4> QED BY <2>4, <3>2, <4>2, <4>3
      <3>3. CASE i # c /\ i # at /\ i \div 2 = at
        <4>1. i \in {2 * at, 2 * at + 1} /\ i \in 1 .. n
          BY <1>3, <3>3
        <4> QED BY <1>2, <2>4, <3>3, <4>1
      <3>4. CASE i # c /\ i # at /\ i \div 2 # at
        BY <1>3, <2>4, <2>5, <2>6, <3>4
      <3> QED BY <3>1, <3>2, <3>3, <3>4
    <2>7. ASSUME NEW i \in 2 .. n, i \div 2 = c PROVE ScoreBefore(w[i], w[c \div 2])
      <3>1. i # c /\ i # at /\ i \in 1 .. n
        BY <1>3, <2>1, <2>7, <1>4
      <3> QED BY <1>6, <2>1, <2>4, <2>5, <2>7, <3>1
    <2>8. Permuted(w, g, S)
      BY <1>1, <2>4, PermutedTwice
    <2>9. t = [heap |-> t.heap, at |-> t.at] /\ t.heap = w /\ t.at = c
      OBVIOUS
    <2> HIDE DEF t
    <2>10. Sinking(t, g, S)
      BY <1>2, <2>6, <2>7, <2>8, <2>9 DEF Sinking, n
    <2>11. SinkOnce(s).at > s.at
      BY <2>1, <2>2, <2>9 DEF at
    <2> QED BY <2>2, <2>3, <2>10, <2>11
  <1> QED BY <1>5, <1>6

\* SiftDown: a heap with a new root becomes a heap of the same results.
LEMMA SiftDownFacts ==
    ASSUME NEW S, ScoreOrdered(S), NEW g \in Seq(S), Sinking([heap |-> g, at |-> 1], g, S)
    PROVE  Permuted(SiftDown(g), g, S) /\ Heaped(SiftDown(g))
  <1> DEFINE n == Len(g)
             first == [heap |-> g, at |-> 1]
             Step(i, s) == SinkOnce(s)
             Stage(i) == {s \in [heap : Seq(S), at : Nat] :
                              Sinking(s, g, S) /\ (Sunk(s) \/ s.at > i)}
             All == [heap : Seq(S), at : Nat]
             Def(f) == [i \in 0 .. n |-> IF i = 0 THEN first ELSE Step(i, f[i - 1])]
             round == CHOOSE f : f = Def(f)
             U == [i \in 0 .. n |-> Stage(i)]
             G == [i \in 1 .. n |-> [x \in Stage(i - 1) |-> Step(i, x)]]
  <1>1. n \in Nat
    OBVIOUS
  <1>2. SiftDown(g) = round[n].heap
    BY DEF SiftDown
  <1> HIDE DEF n
  <1>3. first \in Stage(0)
    OBVIOUS
  <1>4. \A i \in 0 .. n : Stage(i) \subseteq All
    OBVIOUS
  <1>5. ASSUME NEW i \in 1 .. n, NEW s \in Stage(i - 1) PROVE Step(i, s) \in Stage(i)
    <2>1. /\ Sinking(s, g, S) /\ s.at \in Nat /\ i \in Nat
          /\ Sunk(s) \/ s.at > i - 1
      BY <1>1
    <2> DEFINE t == SinkOnce(s)
    <2>2. /\ Sinking(t, g, S) /\ (Sunk(s) => t = s) /\ (~Sunk(s) => t.at > s.at)
      BY <2>1, SinkStep
    <2> HIDE DEF t
    <2>3. t.heap \in Seq(S) /\ t.at \in Nat /\ t = [heap |-> t.heap, at |-> t.at]
      BY <2>2 DEF Sinking, Permuted
    <2>4. t \in [heap : Seq(S), at : Nat]
      BY <2>3
    <2>5. Sunk(t) \/ t.at > i
      BY <1>1, <2>1, <2>2, <2>3
    <2>6. t \in Stage(i)
      BY <2>2, <2>4, <2>5
    <2> QED BY <2>6 DEF t
  <1>6. /\ \A i \in 0 .. n : U[i] = Stage(i)
        /\ \A i \in 1 .. n : i \in 0 .. n /\ i - 1 \in 0 .. n
        /\ \A i \in 1 .. n : G[i] = [x \in Stage(i - 1) |-> Step(i, x)]
    <2> HIDE DEF Stage, Step
    <2> QED BY <1>1
  <1> HIDE DEF Stage, Step, first, All, U, G
  <1>7. Stages(All, n, U, first, G)
    <2>1. \A i \in 1 .. n : [x \in Stage(i - 1) |-> Step(i, x)] \in [Stage(i - 1) -> Stage(i)]
      BY <1>5
    <2>2. \A i \in 1 .. n : G[i] \in [U[i - 1] -> U[i]]
      BY <1>6, <2>1
    <2>3. U \in [0 .. n -> SUBSET All]
      BY <1>4 DEF U
    <2>4. first \in U[0]
      BY <1>1, <1>3, <1>6
    <2> QED BY <1>1, <2>2, <2>3, <2>4 DEF Stages
  <1>8. PICK h : Staged(n, U, first, G, h)
    BY ONLY <1>7, StagesExist
  <1>9. \A i \in 1 .. n : h[i] = Step(i, h[i - 1])
    <2> TAKE i \in 1 .. n
    <2>1. h[i - 1] \in Stage(i - 1)
      BY <1>6, <1>8 DEF Staged
    <2>2. h[i] = G[i][h[i - 1]] /\ G[i] = [x \in Stage(i - 1) |-> Step(i, x)]
      BY <1>6, <1>8 DEF Staged
    <2>3. PICK x \in Stage(i - 1) : x = h[i - 1]
      BY <2>1
    <2>4. G[i][x] = Step(i, x)
      BY <2>2
    <2> QED BY <2>2, <2>3, <2>4
  <1>10. h = Def(h)
    <2>1. \A i \in 0 .. n : h[i] = IF i = 0 THEN first ELSE Step(i, h[i - 1])
      <3> TAKE i \in 0 .. n
      <3>1. i # 0 => i \in 1 .. n
        BY <1>1
      <3> QED BY <1>8, <1>9, <3>1 DEF Staged
    <2> QED BY <1>8, <2>1 DEF Staged
  <1>11. round = Def(round)
    <2> HIDE DEF Def
    <2> QED BY <1>10
  <1>12. round[0] = first /\ \A i \in 1 .. n : round[i] = Step(i, round[i - 1])
    <2> HIDE DEF round
    <2>1. \A i \in 0 .. n : round[i] = IF i = 0 THEN first ELSE Step(i, round[i - 1])
      BY <1>11
    <2> QED BY <1>1, <2>1
  <1>13. \A i \in 0 .. n : round[i] \in Stage(i)
    <2> HIDE DEF round, Def
    <2>1. \A i \in 1 .. n : round[i - 1] \in U[i - 1] => round[i] \in U[i]
      <3> SUFFICES ASSUME NEW i \in 1 .. n, round[i - 1] \in U[i - 1] PROVE round[i] \in U[i]
        OBVIOUS
      <3>1. round[i - 1] \in Stage(i - 1) /\ U[i] = Stage(i)
        BY <1>6
      <3> QED BY <1>5, <1>12, <3>1
    <2>2. round[0] \in U[0]
      BY <1>1, <1>3, <1>6, <1>12
    <2>3. \A i \in 0 .. n : round[i] \in U[i]
      BY <1>1, <2>1, <2>2, PlacesStay
    <2> QED BY <1>6, <2>3
  <1> DEFINE s == round[n]
  <1> HIDE DEF s, round, Def
  <1>14. Sinking(s, g, S) /\ (Sunk(s) \/ s.at > n)
    <2>1. s \in Stage(n)
      BY <1>1, <1>13 DEF s
    <2> QED BY <2>1 DEF Stage
  <1>15. Permuted(s.heap, g, S) /\ Len(s.heap) = n /\ s.at \in 1 .. n
    BY <1>14 DEF Sinking, Permuted, n
  <1>16. Sunk(s)
    BY <1>1, <1>14, <1>15
  <1>17. Heaped(s.heap)
    BY <1>14, <1>15, <1>16 DEF Heaped, Sinking, Sunk, n
  <1> QED BY <1>2, <1>15, <1>17 DEF s

\* The worst result is at the root.
LEMMA RootWorst ==
    ASSUME NEW S, ScoreOrdered(S), NEW h \in Seq(S), Heaped(h), NEW i \in 2 .. Len(h)
    PROVE  ScoreBefore(h[i], h[1])
  <1> DEFINE n == Len(h)
             bad == {j \in 2 .. n : ~ScoreBefore(h[j], h[1])}
  <1>1. n \in Nat /\ \A j \in 1 .. n : h[j] \in S
    OBVIOUS
  <1>2. \A j \in 2 .. n : ScoreBefore(h[j], h[j \div 2])
    BY DEF Heaped
  <1> HIDE DEF n
  <1>3. bad = {}
    <2> SUFFICES ASSUME bad # {} PROVE FALSE
      OBVIOUS
    <2>1. PICK j \in bad : \A k \in bad : j <= k
      <3>1. bad \in SUBSET Nat
        BY <1>1
      <3> HIDE DEF bad
      <3> QED BY <3>1, LeastExists
    <2>2. j \in 2 .. n /\ ~ScoreBefore(h[j], h[1])
      BY <2>1
    <2> DEFINE p == j \div 2
    <2>3. p \in 1 .. j - 1
      BY <1>1, <2>2, Halves
    <2>4. ScoreBefore(h[j], h[p])
      BY <1>2, <2>2
    <2> HIDE DEF p
    <2>5. p # 1 /\ p \in 2 .. n /\ ~(j <= p)
      BY <1>1, <2>2, <2>3, <2>4
    <2>6. ScoreBefore(h[p], h[1])
      BY <2>1, <2>5
    <2>7. h[j] \in S /\ h[p] \in S /\ h[1] \in S
      BY <1>1, <2>2, <2>3
    <2> QED BY <2>2, <2>4, <2>6, <2>7 DEF ScoreOrdered
  <1> QED BY <1>3 DEF n

\* h keeps the best of the m results of A that were offered, at most target.
KeepsBest(h, A, m, target, S) ==
    /\ h \in Seq(S) /\ OneToOne(h) /\ Heaped(h) /\ Len(h) = MinOf(m, target)
    /\ ToSet(h) \subseteq A /\ (m <= target => ToSet(h) = A)
    /\ \A x \in A \ ToSet(h), y \in ToSet(h) : ScoreBefore(y, x)

\* One turn of the loop of SelectTopN keeps the best of the results seen.
LEMMA OfferStep ==
    ASSUME NEW S, ScoreOrdered(S), NEW target \in Nat \ {0}, NEW m \in Nat, NEW A, A \subseteq S,
           NEW r \in S, r \notin A, NEW h, KeepsBest(h, A, m, target, S)
    PROVE  KeepsBest(Offer(h, r, target), A \cup {r}, m + 1, target, S)
  <1> DEFINE n == Len(h)
             o == Offer(h, r, target)
             B == A \cup {r}
  <1>1. /\ n \in Nat /\ h \in Seq(S) /\ DOMAIN h = 1 .. n /\ \A i \in 1 .. n : h[i] \in S
        /\ OneToOne(h) /\ Heaped(h) /\ n = MinOf(m, target) /\ ToSet(h) \subseteq A
        /\ m <= target => ToSet(h) = A
        /\ \A x \in A \ ToSet(h), y \in ToSet(h) : ScoreBefore(y, x)
    BY DEF KeepsBest
  <1>2. ToSet(h) = {h[i] : i \in 1 .. n}
    BY <1>1 DEF ToSet
  <1>3. \A i \in 2 .. n : ScoreBefore(h[i], h[i \div 2])
    BY <1>1 DEF Heaped
  <1>4. \A i \in 2 .. n + 1 : i \in 1 .. n + 1 /\ i \div 2 \in 1 .. n /\ i \div 2 < i
    <2> SUFFICES ASSUME NEW i \in 2 .. n + 1 PROVE i \in 1 .. n + 1 /\ i \div 2 \in 1 .. n /\ i \div 2 < i
      OBVIOUS
    <2> HIDE DEF n
    <2>1. i \in Nat /\ i >= 2
      BY <1>1
    <2>2. i \div 2 \in 1 .. i - 1
      BY <2>1, Halves
    <2> QED BY <1>1, <2>1, <2>2
  <1>5. CASE n < target
    <2> DEFINE g == Append(h, r)
    <2>1. m < target /\ n = m /\ ToSet(h) = A
      BY <1>1, <1>5 DEF MinOf
    <2>2. /\ g \in Seq(S) /\ Len(g) = n + 1 /\ DOMAIN g = 1 .. n + 1 /\ g[n + 1] = r
          /\ \A i \in 1 .. n : g[i] = h[i]
      BY <1>1
    <2>3. o = SiftUp(g, n + 1)
      BY <1>5 DEF Offer
    <2> HIDE DEF g, o, n
    <2>4. OneToOne(g)
      BY <1>1, <1>2, <2>1, <2>2 DEF OneToOne
    <2>5. ToSet(g) = B
      <3>1. \A x \in B : \E i \in 1 .. n + 1 : g[i] = x
        <4> SUFFICES ASSUME NEW x \in B PROVE \E i \in 1 .. n + 1 : g[i] = x
          OBVIOUS
        <4>1. CASE x = r
          BY <1>1, <2>2, <4>1
        <4>2. CASE x \in A
          BY <1>1, <1>2, <2>1, <2>2, <4>2
        <4> QED BY <4>1, <4>2
      <3>2. \A i \in 1 .. n + 1 : g[i] \in B
        <4> SUFFICES ASSUME NEW i \in 1 .. n + 1 PROVE g[i] \in B
          OBVIOUS
        <4>1. i = n + 1 \/ i \in 1 .. n
          BY <1>1
        <4> QED BY <1>2, <2>1, <2>2, <4>1
      <3> QED BY <2>2, <3>1, <3>2 DEF ToSet
    <2> DEFINE s == [heap |-> g, at |-> n + 1]
    <2>6. s.heap = g /\ s.at = n + 1 /\ s = [heap |-> s.heap, at |-> s.at]
      OBVIOUS
    <2> HIDE DEF s
    <2>7. Rising(s, g, S)
      <3>1. Permuted(g, g, S)
        BY <2>2, <2>4 DEF Permuted
      <3>2. \A i \in 2 .. n + 1 : i # n + 1 => ScoreBefore(g[i], g[i \div 2])
        <4> SUFFICES ASSUME NEW i \in 2 .. n + 1, i # n + 1 PROVE ScoreBefore(g[i], g[i \div 2])
          OBVIOUS
        <4>1. i \in 2 .. n /\ i \in 1 .. n
          BY <1>1
        <4>2. i \div 2 \in 1 .. n
          BY <1>4
        <4> QED BY <1>3, <2>2, <4>1, <4>2
      <3>3. \A i \in 2 .. n + 1 : i \div 2 # n + 1
        BY <1>1, <1>4
      <3>4. n + 1 \in 1 .. n + 1
        BY <1>1
      <3> QED BY <2>2, <2>6, <3>1, <3>2, <3>3, <3>4 DEF Rising
    <2>8. Permuted(o, g, S) /\ Heaped(o)
      BY <2>2, <2>3, <2>7, SiftUpFacts DEF s
    <2>9. o \in Seq(S) /\ OneToOne(o) /\ Len(o) = n + 1 /\ ToSet(o) = B
      BY <2>2, <2>5, <2>8 DEF Permuted
    <2>10. n + 1 = MinOf(m + 1, target)
      BY <1>5, <2>1 DEF MinOf
    <2> QED BY <2>8, <2>9, <2>10 DEF KeepsBest, o
  <1>6. CASE ~(n < target) /\ ScoreBefore(r, h[1])
    <2> DEFINE g == [h EXCEPT ![1] = r]
    <2>1. m >= target /\ n = target /\ 1 \in 1 .. n
      BY <1>1, <1>6 DEF MinOf
    <2>2. /\ g \in Seq(S) /\ Len(g) = n /\ DOMAIN g = 1 .. n /\ g[1] = r
          /\ \A i \in 1 .. n : i # 1 => g[i] = h[i]
      BY <1>1, <2>1
    <2>3. o = SiftDown(g)
      BY <1>6 DEF Offer
    <2>4. \A i \in 2 .. n : ScoreBefore(h[i], h[1])
      BY <1>1, RootWorst
    <2> HIDE DEF g, o, n
    <2>5. OneToOne(g)
      BY <1>1, <1>2, <2>1, <2>2 DEF OneToOne
    <2>6. ToSet(g) = {r} \cup {h[i] : i \in 2 .. n}
      <3>1. \A x \in {r} \cup {h[i] : i \in 2 .. n} : \E i \in 1 .. n : g[i] = x
        <4> SUFFICES ASSUME NEW x \in {r} \cup {h[i] : i \in 2 .. n} PROVE \E i \in 1 .. n : g[i] = x
          OBVIOUS
        <4>1. CASE x = r
          BY <2>1, <2>2, <4>1
        <4>2. CASE x # r
          <5>1. PICK i \in 2 .. n : x = h[i]
            BY <4>2
          <5>2. i \in 1 .. n /\ i # 1
            BY <1>1
          <5> QED BY <2>2, <5>1, <5>2
        <4> QED BY <4>1, <4>2
      <3>2. \A i \in 1 .. n : g[i] \in {r} \cup {h[j] : j \in 2 .. n}
        <4> SUFFICES ASSUME NEW i \in 1 .. n PROVE g[i] \in {r} \cup {h[j] : j \in 2 .. n}
          OBVIOUS
        <4>1. i = 1 \/ (i \in 2 .. n /\ i # 1)
          BY <1>1
        <4> QED BY <2>2, <4>1
      <3> QED BY <2>2, <3>1, <3>2 DEF ToSet
    <2> DEFINE s == [heap |-> g, at |-> 1]
    <2>7. s.heap = g /\ s.at = 1 /\ s = [heap |-> s.heap, at |-> s.at]
      OBVIOUS
    <2> HIDE DEF s
    <2>8. Sinking(s, g, S)
      <3>1. Permuted(g, g, S)
        BY <2>2, <2>5 DEF Permuted
      <3>2. \A i \in 2 .. n : i \div 2 # 1 => ScoreBefore(g[i], g[i \div 2])
        <4> SUFFICES ASSUME NEW i \in 2 .. n, i \div 2 # 1 PROVE ScoreBefore(g[i], g[i \div 2])
          OBVIOUS
        <4>1. i \in 1 .. n /\ i # 1 /\ i \div 2 \in 1 .. n
          BY <1>1, <1>4
        <4> QED BY <1>3, <2>2, <4>1
      <3> QED BY <2>1, <2>2, <2>7, <3>1, <3>2 DEF Sinking
    <2>9. Permuted(o, g, S) /\ Heaped(o)
      BY <2>2, <2>3, <2>8, SiftDownFacts DEF s
    <2>10. o \in Seq(S) /\ OneToOne(o) /\ Len(o) = n /\ ToSet(o) = ToSet(g)
      BY <2>2, <2>9 DEF Permuted
    <2>11. n = MinOf(m + 1, target) /\ ~(m + 1 <= target)
      BY <2>1 DEF MinOf
    <2>12. ToSet(o) \subseteq B
      <3>1. \A i \in 2 .. n : h[i] \in A
        <4> SUFFICES ASSUME NEW i \in 2 .. n PROVE h[i] \in A
          OBVIOUS
        <4>1. i \in 1 .. n
          BY <1>1
        <4> QED BY <1>1, <1>2, <4>1
      <3> QED BY <2>6, <2>10, <3>1
    <2>13. ASSUME NEW x \in B \ ToSet(o), NEW y \in ToSet(o) PROVE ScoreBefore(y, x)
      <3>1. x \in A /\ x # r /\ h[1] \in S /\ h[1] \in ToSet(h)
        BY <1>1, <1>2, <2>1, <2>6, <2>10
      <3>2. x = h[1] \/ x \notin ToSet(h)
        <4> SUFFICES ASSUME x \in ToSet(h) PROVE x = h[1]
          OBVIOUS
        <4>1. PICK i \in 1 .. n : x = h[i]
          BY <1>2
        <4>2. i = 1 \/ i \in 2 .. n
          BY <1>1
        <4> QED BY <2>6, <2>10, <4>1, <4>2
      <3>3. x = h[1] \/ ScoreBefore(h[1], x)
        BY <1>1, <3>1, <3>2
      <3>4. ScoreBefore(y, h[1])
        BY <1>6, <2>4, <2>6, <2>10
      <3>5. y \in S /\ x \in S
        BY <2>12, <3>1
      <3> QED BY <3>1, <3>3, <3>4, <3>5 DEF ScoreOrdered
    <2> QED BY <2>9, <2>10, <2>11, <2>12, <2>13 DEF KeepsBest, o
  <1>7. CASE ~(n < target) /\ ~ScoreBefore(r, h[1])
    <2>1. m >= target /\ n = target /\ 1 \in 1 .. n
      BY <1>1, <1>7 DEF MinOf
    <2>2. o = h
      BY <1>7 DEF Offer
    <2>3. n = MinOf(m + 1, target) /\ ~(m + 1 <= target)
      BY <2>1 DEF MinOf
    <2>4. \A i \in 2 .. n : ScoreBefore(h[i], h[1])
      BY <1>1, RootWorst
    <2> HIDE DEF n, o
    <2>5. h[1] \in S /\ h[1] \in A /\ ScoreBefore(h[1], r)
      <3>1. h[1] \in S /\ h[1] \in A
        BY <1>1, <1>2, <2>1
      <3> QED BY <1>7, <3>1 DEF ScoreOrdered
    <2>6. ASSUME NEW x \in B \ ToSet(h), NEW y \in ToSet(h) PROVE ScoreBefore(y, x)
      <3>1. CASE x # r
        BY <1>1, <3>1
      <3>2. CASE x = r
        <4>1. PICK i \in 1 .. n : y = h[i]
          BY <1>2
        <4>2. i = 1 \/ i \in 2 .. n
          BY <1>1
        <4>3. y = h[1] \/ ScoreBefore(y, h[1])
          BY <2>4, <4>1, <4>2
        <4> QED BY <1>1, <2>5, <3>2, <4>1, <4>3 DEF ScoreOrdered
      <3> QED BY <3>1, <3>2
    <2>7. KeepsBest(h, B, m + 1, target, S)
      BY <1>1, <2>3, <2>6 DEF KeepsBest, n
    <2> QED BY <2>2, <2>7 DEF o
  <1> QED BY <1>5, <1>6, <1>7

\* A list without repetition is as long as the set of its entries.
LEMMA OneToOneSet ==
    ASSUME NEW S, NEW s \in Seq(S), OneToOne(s)
    PROVE  IsFiniteSet(ToSet(s)) /\ Cardinality(ToSet(s)) = Len(s)
  <1> DEFINE n == Len(s)
             I == 1 .. n
  <1>1. n \in Nat /\ DOMAIN s = I
    OBVIOUS
  <1> HIDE DEF n
  <1>2. IsFiniteSet(I) /\ Cardinality(I) = n
    <2>1. IsFiniteSet(1 .. n) /\ Cardinality(1 .. n) = IF 1 > n THEN 0 ELSE n - 1 + 1
      BY <1>1, FS_Interval
    <2> QED BY <1>1, <2>1
  <1>3. s \in Bijection(I, ToSet(s))
    <2>1. s \in [I -> ToSet(s)] /\ \A t \in ToSet(s) : \E a \in I : s[a] = t
      <3>1. s = [i \in I |-> s[i]]
        BY <1>1
      <3> HIDE DEF I
      <3> QED BY <1>1, <3>1 DEF ToSet
    <2>2. \A a, b \in I : s[a] = s[b] => a = b
      BY <1>1 DEF OneToOne
    <2> HIDE DEF I
    <2> QED BY <2>1, <2>2, Fun_IsBij
  <1> HIDE DEF I
  <1>4. IsFiniteSet(ToSet(s)) /\ Cardinality(ToSet(s)) = Cardinality(I)
    BY <1>2, <1>3, FS_Bijection DEF ExistsBijection
  <1> QED BY <1>2, <1>4 DEF n

\* SortByScore ranks the results by ScoreCompare.
LEMMA SortByScoreIs ==
    ASSUME NEW S
    PROVE  SortByScore(S) = RankList(S, ScoreOrderOn(S))
  BY SortedIsRankList DEF SortByScore, ScoreOrderOn

\* Sorting keeps the number of the results.
LEMMA SortByScoreDomain ==
    ASSUME NEW S
    PROVE  SortByScore(S) = [i \in 1 .. Cardinality(S) |-> SortByScore(S)[i]]
  <1> DEFINE N == 1 .. Cardinality(S)
             e(i) == CHOOSE x \in S :
                        Cardinality({y \in S : <<y, x>> \in {p \in S \X S : ScoreBefore(p[1], p[2])}}) = i - 1
  <1>1. SortByScore(S) = [i \in N |-> e(i)]
    BY DEF SortByScore, Sorted
  <1> HIDE DEF e, N
  <1>2. \A i \in N : SortByScore(S)[i] = e(i)
    BY <1>1
  <1> QED BY <1>1, <1>2 DEF N

\* ScoreCompare orders the results of a set of keys strictly and totally.
LEMMA ScoreOrderIs ==
    ASSUME NEW S, StrictOrder(S, ScoreOrderOn(S))
    PROVE  ScoreOrdered(S)
  <1>1. \A x, y \in S : <<x, y>> \in ScoreOrderOn(S) <=> ScoreBefore(x, y)
    BY DEF ScoreOrderOn
  <1> QED BY <1>1 DEF StrictOrder, ScoreOrdered

\* PgturbohybridSelectTopN: the results its heap keeps, sorted, are the front of
\* all results sorted by PgturbohybridScoreCompare.
THEOREM SelectTopNFacts ==
    ASSUME NEW S, StrictOrder(S, ScoreOrderOn(S)), NEW scored \in Seq(S), OneToOne(scored),
           ToSet(scored) = S, NEW target \in Int, target < Len(scored)
    PROVE  /\ DOMAIN SelectTopN(scored, target) = 1 .. MaxOf(target, 0)
           /\ Len(SelectTopN(scored, target)) = MaxOf(target, 0)
           /\ \A i \in 1 .. MaxOf(target, 0) : SelectTopN(scored, target)[i] = SortByScore(S)[i]
  <1>1. CASE target <= 0
    <2>1. SelectTopN(scored, target) = <<>> /\ MaxOf(target, 0) = 0
      BY <1>1 DEF SelectTopN, MaxOf
    <2> QED BY <2>1
  <1>2. SUFFICES ASSUME target \in Nat \ {0}
                 PROVE  LET o == SelectTopN(scored, target)
                        IN  /\ DOMAIN o = 1 .. target /\ Len(o) = target
                            /\ \A i \in 1 .. target : o[i] = SortByScore(S)[i]
    <2>1. target <= 0 \/ (target \in Nat \ {0} /\ MaxOf(target, 0) = target)
      BY DEF MaxOf
    <2> QED BY <1>1, <2>1
  <1> DEFINE n == Len(scored)
             Seen(i) == {scored[j] : j \in 1 .. i}
             first == <<>>
             Step(i, h) == Offer(h, scored[i], target)
             Stage(i) == {h \in Seq(S) : KeepsBest(h, Seen(i), i, target, S)}
             All == Seq(S)
             Def(f) == [i \in 0 .. n |-> IF i = 0 THEN first ELSE Step(i, f[i - 1])]
             heap == CHOOSE f : f = Def(f)
             U == [i \in 0 .. n |-> Stage(i)]
             G == [i \in 1 .. n |-> [x \in Stage(i - 1) |-> Step(i, x)]]
  <1>3. /\ n \in Nat /\ DOMAIN scored = 1 .. n /\ \A i \in 1 .. n : scored[i] \in S
        /\ \A i, j \in 1 .. n : scored[i] = scored[j] => i = j
    BY DEF OneToOne
  <1>4. SelectTopN(scored, target) = SortByScore(ToSet(heap[n]))
    <2>1. ~(target <= 0)
      BY <1>2
    <2>2. SelectTopN(scored, target) = IF target <= 0 THEN <<>> ELSE SortByScore(ToSet(heap[n]))
      BY DEF SelectTopN
    <2> HIDE DEF heap, n
    <2> QED BY <2>1, <2>2
  <1> HIDE DEF n
  <1>5. first \in Stage(0)
    <2>1. /\ Seen(0) = {} /\ ToSet(<<>>) = {} /\ OneToOne(<<>>) /\ Heaped(<<>>)
          /\ Len(<<>>) = MinOf(0, target) /\ <<>> \in Seq(S)
      BY <1>2 DEF ToSet, OneToOne, Heaped, MinOf
    <2> QED BY <2>1 DEF KeepsBest
  <1>6. \A i \in 0 .. n : Stage(i) \subseteq All
    OBVIOUS
  <1>7. ASSUME NEW i \in 1 .. n, NEW h \in Stage(i - 1) PROVE Step(i, h) \in Stage(i)
    <2> DEFINE m == i - 1
               r == scored[i]
    <2>1. m \in Nat /\ m + 1 = i /\ i \in Nat /\ i <= n
      BY <1>3
    <2>2. KeepsBest(h, Seen(m), m, target, S)
      OBVIOUS
    <2>3. Seen(m) \subseteq S /\ r \in S /\ r \notin Seen(m)
      <3>1. \A j \in 1 .. m : j \in 1 .. n /\ j # i
        BY <1>3, <2>1
      <3> HIDE DEF m
      <3> QED BY <1>3, <3>1
    <2>4. Seen(m) \cup {r} = Seen(i)
      <3>1. 1 .. i = (1 .. m) \cup {i}
        BY <1>3, <2>1
      <3> HIDE DEF m
      <3> QED BY <3>1
    <2> HIDE DEF m, r, Seen
    <2>5. KeepsBest(Offer(h, r, target), Seen(m) \cup {r}, m + 1, target, S)
      BY <1>2, ScoreOrderIs, <2>1, <2>2, <2>3, OfferStep
    <2>6. KeepsBest(Offer(h, r, target), Seen(i), i, target, S)
      BY <2>1, <2>4, <2>5
    <2>7. Offer(h, r, target) \in Seq(S)
      BY <2>6 DEF KeepsBest
    <2> QED BY <2>6, <2>7 DEF r
  <1>8. /\ \A i \in 0 .. n : U[i] = Stage(i)
        /\ \A i \in 1 .. n : i \in 0 .. n /\ i - 1 \in 0 .. n
        /\ \A i \in 1 .. n : G[i] = [x \in Stage(i - 1) |-> Step(i, x)]
    <2> HIDE DEF Stage, Step
    <2> QED BY <1>3
  <1> HIDE DEF Stage, Step, first, All, U, G
  <1>9. Stages(All, n, U, first, G)
    <2>1. \A i \in 1 .. n : [x \in Stage(i - 1) |-> Step(i, x)] \in [Stage(i - 1) -> Stage(i)]
      BY <1>7
    <2>2. \A i \in 1 .. n : G[i] \in [U[i - 1] -> U[i]]
      BY <1>8, <2>1
    <2>3. U \in [0 .. n -> SUBSET All]
      BY <1>6 DEF U
    <2>4. first \in U[0]
      BY <1>3, <1>5, <1>8
    <2> QED BY <1>3, <2>2, <2>3, <2>4 DEF Stages
  <1>10. PICK h : Staged(n, U, first, G, h)
    BY ONLY <1>9, StagesExist
  <1>11. \A i \in 1 .. n : h[i] = Step(i, h[i - 1])
    <2> TAKE i \in 1 .. n
    <2>1. h[i - 1] \in Stage(i - 1)
      BY <1>8, <1>10 DEF Staged
    <2>2. h[i] = G[i][h[i - 1]] /\ G[i] = [x \in Stage(i - 1) |-> Step(i, x)]
      BY <1>8, <1>10 DEF Staged
    <2>3. PICK x \in Stage(i - 1) : x = h[i - 1]
      BY <2>1
    <2>4. G[i][x] = Step(i, x)
      BY <2>2
    <2> QED BY <2>2, <2>3, <2>4
  <1>12. h = Def(h)
    <2>1. \A i \in 0 .. n : h[i] = IF i = 0 THEN first ELSE Step(i, h[i - 1])
      <3> TAKE i \in 0 .. n
      <3>1. i # 0 => i \in 1 .. n
        BY <1>3
      <3> QED BY <1>10, <1>11, <3>1 DEF Staged
    <2> QED BY <1>10, <2>1 DEF Staged
  <1>13. heap = Def(heap)
    <2> HIDE DEF Def
    <2> QED BY <1>12
  <1>14. heap[0] = first /\ \A i \in 1 .. n : heap[i] = Step(i, heap[i - 1])
    <2> HIDE DEF heap
    <2>1. \A i \in 0 .. n : heap[i] = IF i = 0 THEN first ELSE Step(i, heap[i - 1])
      BY <1>13
    <2> QED BY <1>3, <2>1
  <1>15. \A i \in 0 .. n : heap[i] \in Stage(i)
    <2> HIDE DEF heap, Def
    <2>1. \A i \in 1 .. n : heap[i - 1] \in U[i - 1] => heap[i] \in U[i]
      <3> SUFFICES ASSUME NEW i \in 1 .. n, heap[i - 1] \in U[i - 1] PROVE heap[i] \in U[i]
        OBVIOUS
      <3>1. heap[i - 1] \in Stage(i - 1) /\ U[i] = Stage(i)
        BY <1>8
      <3> QED BY <1>7, <1>14, <3>1
    <2>2. heap[0] \in U[0]
      BY <1>3, <1>5, <1>8, <1>14
    <2>3. \A i \in 0 .. n : heap[i] \in U[i]
      BY <1>3, <2>1, <2>2, PlacesStay
    <2> QED BY <1>8, <2>3
  <1> DEFINE top == heap[n]
             H == ToSet(top)
  <1> HIDE DEF top, heap, Def
  <1>16. KeepsBest(top, Seen(n), n, target, S)
    <2>1. top \in Stage(n)
      BY <1>3, <1>15 DEF top
    <2> QED BY <2>1 DEF Stage
  <1>17. Seen(n) = S
    BY <1>3 DEF ToSet
  <1>18. /\ top \in Seq(S) /\ OneToOne(top) /\ Len(top) = target /\ H \subseteq S
         /\ \A x \in H, y \in S \ H : ScoreBefore(x, y)
    <2>1. MinOf(n, target) = target
      <3>1. target < n /\ n \in Nat /\ target \in Nat
        BY <1>2, <1>3 DEF n
      <3>2. ~(n < target)
        BY <3>1
      <3> QED BY <3>2 DEF MinOf
    <2> HIDE DEF Seen
    <2> QED BY <1>16, <1>17, <2>1 DEF KeepsBest
  <1>19. Cardinality(H) = target
    BY <1>18, OneToOneSet
  <1> HIDE DEF H
  <1> DEFINE L == ScoreOrderOn(S)
             M == ScoreOrderOn(H)
  <1>20. /\ \A x, y \in H : <<x, y>> \in M <=> <<x, y>> \in L
         /\ \A x \in H, y \in S \ H : <<x, y>> \in L
    BY <1>18 DEF ScoreOrderOn
  <1>21. IsFiniteSet(S)
    BY OneToOneSet
  <1> HIDE DEF L, M
  <1>22. \A i \in 1 .. Cardinality(H) : RankList(H, M)[i] = RankList(S, L)[i]
    BY <1>18, <1>20, <1>21, BestFirst DEF L
  <1>23. /\ SelectTopN(scored, target) = RankList(H, M)
         /\ SortByScore(S) = RankList(S, L)
    BY <1>4, SortByScoreIs DEF M, L, H, top
  <1>24. DOMAIN RankList(H, M) = 1 .. target /\ Len(RankList(H, M)) = target
    <2>1. RankList(H, M) = [i \in 1 .. target |->
                              CHOOSE x \in H : Cardinality({y \in H : <<y, x>> \in M}) = i - 1]
      BY <1>19 DEF RankList
    <2> QED BY <1>2, <2>1
  <1> QED BY <1>19, <1>22, <1>23, <1>24
(***************************************************************************)
(* A merge and the definition of fusion.                                   *)
(***************************************************************************)

\* items are those of the keys K, one for a key, each merged from all
\* candidates.
MergeOf(items, K, cands, byTid) ==
    /\ items \in Seq(Items) /\ K \subseteq Keys(cands, byTid)
    /\ \E order \in [DOMAIN items -> K] :
          /\ \A i, j \in DOMAIN items : order[i] = order[j] => i = j
          /\ \A k \in K : \E i \in DOMAIN items : order[i] = k
          /\ \A i \in DOMAIN items : Merged(items[i], cands, byTid, DOMAIN cands, order[i])

\* The keys of the documents that survive REQUIRE_BM25_MATCH.
KeptKeys(query, cands, byTid) ==
    {k \in Keys(cands, byTid) : query.requireBm25 => ReferenceItem(cands, k, byTid).bm25 > 0}

\* The item the definition of fusion gives a key.
LEMMA ReferenceOfKey ==
    ASSUME NEW cands, NEW byTid, GoodCandidates(cands, byTid), NEW k \in Keys(cands, byTid)
    PROVE  Merged(ReferenceItem(cands, k, byTid), cands, byTid, DOMAIN cands, k)
  <1>1. PICK j \in DOMAIN cands : KeyAt(cands, byTid, j) = k
    BY DEF Keys
  <1>2. Merged(ReferenceItem(cands, KeyAt(cands, byTid, j), byTid), cands, byTid, DOMAIN cands,
               KeyAt(cands, byTid, j))
    BY ReferenceMerged
  <1> QED BY <1>1, <1>2

\* The matching items of a merge are those of the matching keys.
LEMMA MatchingKept ==
    ASSUME NEW cands, NEW byTid, GoodCandidates(cands, byTid), NEW query, NEW items,
           MergeOf(items, Keys(cands, byTid), cands, byTid)
    PROVE  MergeOf(Matching(items, query), KeptKeys(query, cands, byTid), cands, byTid)
  <1> DEFINE D == DOMAIN items
             kept == {i \in D : query.requireBm25 => items[i].bm25 > 0}
             m == Pick(items, kept)
             K == KeptKeys(query, cands, byTid)
             n == Cardinality(kept)
  <1>1. items \in Seq(Items) /\ kept \in SUBSET DOMAIN items
    BY DEF MergeOf
  <1>2. Matching(items, query) = m
    BY DEF Matching
  <1>3. PICK order \in [D -> Keys(cands, byTid)] :
          /\ \A i, j \in D : order[i] = order[j] => i = j
          /\ \A k \in Keys(cands, byTid) : \E i \in D : order[i] = k
          /\ \A i \in D : Merged(items[i], cands, byTid, DOMAIN cands, order[i])
    BY DEF MergeOf
  <1>4. ASSUME NEW i \in D PROVE i \in kept <=> order[i] \in K
    <2>1. Merged(ReferenceItem(cands, order[i], byTid), cands, byTid, DOMAIN cands, order[i])
      BY <1>3, ReferenceOfKey
    <2>2. Alike(items[i], ReferenceItem(cands, order[i], byTid))
      BY <1>3, <2>1, MergedAlike
    <2>3. items[i].bm25 = ReferenceItem(cands, order[i], byTid).bm25
      BY <2>2 DEF Alike, SameRanksOf
    <2>4. order[i] \in Keys(cands, byTid)
      BY <1>3
    <2> QED BY <2>3, <2>4 DEF KeptKeys
  <1> HIDE DEF kept, n, m, K, D
  <1>5. /\ n \in Nat /\ m \in Seq(Items) /\ Len(m) = n /\ DOMAIN m = 1 .. n
        /\ \E places \in [1 .. n -> kept] :
              /\ \A i, j \in 1 .. n : places[i] = places[j] => i = j
              /\ \A k \in kept : \E i \in 1 .. n : places[i] = k
              /\ \A i \in 1 .. n : m[i] = items[places[i]]
    BY <1>1, PickFacts DEF n, m
  <1>6. PICK places \in [1 .. n -> kept] :
              /\ \A i, j \in 1 .. n : places[i] = places[j] => i = j
              /\ \A k \in kept : \E i \in 1 .. n : places[i] = k
              /\ \A i \in 1 .. n : m[i] = items[places[i]]
    BY <1>5
  <1>7. kept \subseteq D /\ K \subseteq Keys(cands, byTid)
    BY DEF kept, K, KeptKeys
  <1> DEFINE f == [i \in 1 .. n |-> order[places[i]]]
  <1>8. \A i \in 1 .. n : f[i] = order[places[i]]
    OBVIOUS
  <1>9. f \in [DOMAIN m -> K]
    <2>1. \A i \in 1 .. n : order[places[i]] \in K
      BY <1>4, <1>6, <1>7
    <2> QED BY <1>5, <2>1
  <1> HIDE DEF f
  <1>14. \A i \in DOMAIN m : /\ i \in 1 .. n /\ places[i] \in D /\ f[i] = order[places[i]]
                             /\ m[i] = items[places[i]]
    BY <1>5, <1>6, <1>7, <1>8
  <1>11. ASSUME NEW i \in DOMAIN m, NEW j \in DOMAIN m, f[i] = f[j] PROVE i = j
    <2>1. places[i] = places[j]
      BY <1>3, <1>11, <1>14
    <2> QED BY <1>6, <1>14, <2>1
  <1>12. ASSUME NEW i \in DOMAIN m PROVE Merged(m[i], cands, byTid, DOMAIN cands, f[i])
    <2>1. places[i] \in D /\ f[i] = order[places[i]] /\ m[i] = items[places[i]]
      BY <1>14
    <2> QED BY <1>3, <2>1
  <1>13. \A k \in K : \E i \in DOMAIN m : f[i] = k
    <2> TAKE k \in K
    <2>1. PICK d \in D : order[d] = k
      BY <1>3, <1>7
    <2>2. d \in kept
      BY <1>4, <2>1
    <2>3. PICK i \in 1 .. n : places[i] = d
      BY <1>6, <2>2
    <2> QED BY <1>5, <1>8, <2>1, <2>3
  <1>10. MergeOf(m, K, cands, byTid)
    BY <1>5, <1>7, <1>9, <1>11, <1>12, <1>13 DEF MergeOf
  <1> QED BY <1>2, <1>10 DEF K

\* The results of a merge.
LEMMA MergeItems ==
    ASSUME NEW cands, NEW byTid, GoodCandidates(cands, byTid), NEW K, NEW items,
           MergeOf(items, K, cands, byTid)
    PROVE  \E A \in [K -> Items], order \in Bijection(DOMAIN items, K) :
              /\ Represents(A, K, cands, byTid)
              /\ \A i \in DOMAIN items : items[i] = A[order[i]]
              /\ ToSet(items) = {A[k] : k \in K}
              /\ IsFiniteSet(ToSet(items)) /\ IsFiniteSet(K) /\ Cardinality(K) = Len(items)
  <1> DEFINE D == DOMAIN items
  <1>1. PICK order \in [D -> K] :
          /\ \A i, j \in D : order[i] = order[j] => i = j
          /\ \A k \in K : \E i \in D : order[i] = k
          /\ \A i \in D : Merged(items[i], cands, byTid, DOMAIN cands, order[i])
    BY DEF MergeOf
  <1> DEFINE place(k) == CHOOSE i \in D : order[i] = k
             A == [k \in K |-> items[place(k)]]
  <1>2. items \in Seq(Items) /\ K \subseteq Keys(cands, byTid)
    BY DEF MergeOf
  <1>3. /\ Len(items) \in Nat /\ D = 1 .. Len(items) /\ \A i \in D : items[i] \in Items
    BY <1>2
  <1> HIDE DEF D
  <1>4. \A k \in K : place(k) \in D /\ order[place(k)] = k
    BY <1>1
  <1>5. \A i \in D : place(order[i]) = i
    BY <1>1, <1>4
  <1> HIDE DEF place
  <1>6. A \in [K -> Items] /\ \A k \in K : Merged(A[k], cands, byTid, DOMAIN cands, k)
    BY <1>1, <1>3, <1>4
  <1>7. \A i \in D : items[i] = A[order[i]]
    BY <1>1, <1>5
  <1>8. \A k \in K : A[k] = items[place(k)]
    OBVIOUS
  <1> HIDE DEF A
  <1>9. Represents(A, K, cands, byTid)
    BY <1>2, <1>6 DEF Represents
  <1>10. ToSet(items) = {A[k] : k \in K}
    <2>1. ToSet(items) = {items[i] : i \in D}
      BY DEF ToSet, D
    <2> QED BY <1>1, <1>4, <1>7, <1>8, <2>1
  <1>11. order \in Bijection(D, K)
    BY <1>1, Fun_IsBij
  <1>12. IsFiniteSet(D) /\ Cardinality(D) = Len(items)
    <2> DEFINE n == Len(items)
    <2>1. n \in Nat /\ D = 1 .. n
      BY <1>3
    <2> HIDE DEF n
    <2>2. IsFiniteSet(1 .. n) /\ Cardinality(1 .. n) = IF 1 > n THEN 0 ELSE n - 1 + 1
      BY <2>1, FS_Interval
    <2>3. Cardinality(D) = n /\ IsFiniteSet(D)
      BY <2>1, <2>2
    <2> QED BY <2>3 DEF n
  <1>13. IsFiniteSet(K) /\ Cardinality(K) = Len(items)
    BY <1>11, <1>12, FS_Bijection DEF ExistsBijection
  <1>14. IsFiniteSet(ToSet(items))
    BY <1>10, <1>13, ImageIsFinite
  <1> QED BY <1>6, <1>7, <1>9, <1>10, <1>11, <1>13, <1>14 DEF D

\* The number of results wanted is a natural number.
LEMMA FinalTargetType ==
    ASSUME NEW query, NEW merged \in Nat, NEW limit \in Int, NEW tuples \in Int,
           EffectiveFinalK(query, limit) \in Int
    PROVE  FinalTarget(query, merged, limit, tuples) \in Int
           /\ FinalTarget(query, merged, limit, tuples) <= merged
  <1>1. MaxUnion \in Nat
    BY FusionAssumption
  <1> QED BY <1>1 DEF FinalTarget, MinOf

\* Two rankings show the same.
SameRanking(o, r) ==
    /\ DOMAIN o = DOMAIN r
    /\ \A i \in DOMAIN o : o[i].item.tid = r[i].item.tid /\ o[i].score = r[i].score

\* The scores of a set of items by key.
ScoresOf(query, A, K) == [k \in K |-> FusedScore(query, {A[l] : l \in K}, A[k])]

\* Every item of a set of keys has a score.
LEMMA ScoresOfType ==
    ASSUME NEW query, ScoringQuery(query), NEW K, IsFiniteSet(K), NEW A \in [K -> Items]
    PROVE  ScoresOf(query, A, K) \in [K -> Int]
  <1> DEFINE X == {A[l] : l \in K}
  <1>1. X \subseteq Items /\ \A k \in K : A[k] \in X
    OBVIOUS
  <1>2. IsFiniteSet(X)
    BY ImageIsFinite
  <1> HIDE DEF X
  <1>3. \A k \in K : FusedScore(query, X, A[k]) \in Int
    BY <1>1, <1>2, ScoreType
  <1> QED BY <1>3 DEF ScoresOf, X

\* Results of the same keys, by two merges: they are listed in one order.
LEMMA SameListing ==
    ASSUME NEW cands, NEW byTid, GoodCandidates(cands, byTid), NEW query, ScoringQuery(query),
           NEW K, IsFiniteSet(K), NEW A, Represents(A, K, cands, byTid),
           NEW R, Represents(R, K, cands, byTid)
    PROVE  LET S == ResultsOf(A, K, ScoresOf(query, A, K))
               T == ResultsOf(R, K, ScoresOf(query, R, K))
           IN  /\ StrictOrder(S, ScoreOrderOn(S)) /\ IsFiniteSet(S) /\ IsFiniteSet(T)
               /\ Cardinality(S) = Cardinality(K) /\ Cardinality(T) = Cardinality(K)
               /\ \A i \in 1 .. Cardinality(K) :
                     /\ SortByScore(S)[i].item.tid = SortByScore(T)[i].item.tid
                     /\ SortByScore(S)[i].score = SortByScore(T)[i].score
  <1> DEFINE a == ScoresOf(query, A, K)
             r == ScoresOf(query, R, K)
             S == ResultsOf(A, K, a)
             T == ResultsOf(R, K, r)
             X == {A[l] : l \in K}
             Y == {R[l] : l \in K}
             key(x) == CHOOSE k \in K : x = ResultAt(A, a, k)
             f == [x \in S |-> ResultAt(R, r, key(x))]
             g == [k \in K |-> ResultAt(A, a, k)]
  <1>1. /\ A \in [K -> Items] /\ R \in [K -> Items] /\ a \in [K -> Int] /\ r \in [K -> Int]
        /\ K \subseteq Keys(cands, byTid)
    BY ScoresOfType DEF Represents
  <1>2. \A k \in K : Alike(A[k], R[k])
    BY MergedAlike DEF Represents
  <1>3. ASSUME NEW k \in K PROVE a[k] = r[k]
    <2>1. /\ X \subseteq Items /\ Y \subseteq Items /\ A[k] \in X /\ R[k] \in Y
      BY <1>1
    <2>2. AlikeSets(X, Y)
      BY <1>2, <2>1 DEF AlikeSets
    <2>3. Alike(A[k], R[k])
      BY <1>2
    <2>4. a[k] = FusedScore(query, X, A[k]) /\ r[k] = FusedScore(query, Y, R[k])
      BY DEF ScoresOf
    <2> HIDE DEF X, Y, a, r
    <2>5. FusedScore(query, X, A[k]) = FusedScore(query, Y, R[k])
      BY <2>1, <2>2, <2>3, ScoreAlike
    <2> QED BY <2>4, <2>5
  <1> HIDE DEF a, r
  <1>4. /\ S \subseteq Results /\ \A k \in K : ResultAt(A, a, k) \in S
        /\ \A k, l \in K : k # l => ~SameRanksOf(A[k], A[l])
        /\ \A k, l \in K : ResultAt(A, a, k) = ResultAt(A, a, l) => k = l
        /\ StrictOrder(S, ScoreOrderOn(S))
    BY <1>1, ResultsOrdered
  <1>5. /\ T \subseteq Results /\ \A k \in K : ResultAt(R, r, k) \in T
        /\ \A k, l \in K : ResultAt(R, r, k) = ResultAt(R, r, l) => k = l
        /\ StrictOrder(T, ScoreOrderOn(T))
    BY <1>1, ResultsOrdered
  <1>6. /\ \A x \in S : \E k \in K : x = ResultAt(A, a, k)
        /\ \A x \in T : \E k \in K : x = ResultAt(R, r, k)
    BY DEF ResultsOf
  <1> HIDE DEF S, T
  <1>7. /\ \A x \in S : key(x) \in K /\ x = ResultAt(A, a, key(x))
        /\ \A k \in K : key(ResultAt(A, a, k)) = k
    <2>1. \A x \in S : key(x) \in K /\ x = ResultAt(A, a, key(x))
      BY <1>6
    <2>2. \A k \in K : key(ResultAt(A, a, k)) = k
      BY <1>4, <2>1
    <2> QED BY <2>1, <2>2
  <1> HIDE DEF key
  <1>8. \A x \in S : f[x] = ResultAt(R, r, key(x))
    OBVIOUS
  <1>9. f \in [S -> T]
    BY <1>5, <1>7
  <1> HIDE DEF f
  <1>10. /\ \A x, y \in S : f[x] = f[y] => x = y
         /\ \A t \in T : \E x \in S : f[x] = t
    <2>1. ASSUME NEW x \in S, NEW y \in S, f[x] = f[y] PROVE x = y
      <3>1. key(x) = key(y)
        BY <1>5, <1>7, <1>8, <2>1
      <3> QED BY <1>7, <3>1
    <2>2. ASSUME NEW t \in T PROVE \E x \in S : f[x] = t
      <3>1. PICK k \in K : t = ResultAt(R, r, k)
        BY <1>6
      <3>2. ResultAt(A, a, k) \in S /\ key(ResultAt(A, a, k)) = k
        BY <1>4, <1>7
      <3> QED BY <1>8, <3>1, <3>2
    <2> QED BY <2>1, <2>2
  <1>11. f \in Bijection(S, T)
    BY <1>9, <1>10, Fun_IsBij
  <1>12. ASSUME NEW x \in S
         PROVE  /\ x \in Results /\ f[x] \in Results /\ x.score = f[x].score
                /\ Alike(x.item, f[x].item)
    <2>1. x = ResultAt(A, a, key(x)) /\ f[x] = ResultAt(R, r, key(x)) /\ key(x) \in K
      BY <1>7, <1>8
    <2>2. x.score = a[key(x)] /\ f[x].score = r[key(x)] /\ x.item = A[key(x)] /\ f[x].item = R[key(x)]
      BY <2>1 DEF ResultAt
    <2> QED BY <1>2, <1>3, <1>4, <1>5, <1>9, <2>1, <2>2
  <1>13. ASSUME NEW x \in S, NEW y \in S, x # y PROVE ~SameRanksOf(x.item, y.item)
    <2>1. x = ResultAt(A, a, key(x)) /\ y = ResultAt(A, a, key(y)) /\ key(x) \in K /\ key(y) \in K
      BY <1>7
    <2>2. x.item = A[key(x)] /\ y.item = A[key(y)]
      BY <2>1 DEF ResultAt
    <2> QED BY <1>4, <1>13, <2>1, <2>2
  <1>14. \A x, y \in S : ScoreBefore(x, y) <=> ScoreBefore(f[x], f[y])
    <2> TAKE x, y \in S
    <2>1. CASE x = y
      BY <1>12, <2>1, ScoreIrreflexive
    <2>2. CASE x # y
      BY <1>12, <1>13, <2>2, SameOrder
    <2> QED BY <2>1, <2>2
  <1>15. \A x, y \in S : <<x, y>> \in ScoreOrderOn(S) <=> <<f[x], f[y]>> \in ScoreOrderOn(T)
    BY <1>9, <1>14 DEF ScoreOrderOn
  <1>16. IsFiniteSet(S) /\ Cardinality(S) = Cardinality(K)
    <2>1. g \in [K -> S]
      BY <1>4
    <2>2. \A k, l \in K : g[k] = g[l] => k = l
      BY <1>4
    <2>3. \A x \in S : \E k \in K : g[k] = x
      BY <1>6
    <2> HIDE DEF g
    <2>4. g \in Bijection(K, S)
      BY <2>1, <2>2, <2>3, Fun_IsBij
    <2> QED BY <2>4, FS_Bijection DEF ExistsBijection
  <1>17. /\ IsFiniteSet(T) /\ Cardinality(T) = Cardinality(S)
         /\ \A i \in 1 .. Cardinality(S) :
               RankList(T, ScoreOrderOn(T))[i] = f[RankList(S, ScoreOrderOn(S))[i]]
    BY <1>4, <1>5, <1>11, <1>15, <1>16, SameRanks
  <1>18. \A i \in 1 .. Cardinality(S) : RankList(S, ScoreOrderOn(S))[i] \in S
    BY <1>4, <1>16, RankListed
  <1>19. SortByScore(S) = RankList(S, ScoreOrderOn(S)) /\ SortByScore(T) = RankList(T, ScoreOrderOn(T))
    BY SortByScoreIs
  <1>20. ASSUME NEW i \in 1 .. Cardinality(K)
         PROVE  /\ SortByScore(S)[i].item.tid = SortByScore(T)[i].item.tid
                /\ SortByScore(S)[i].score = SortByScore(T)[i].score
    <2> DEFINE x == SortByScore(S)[i]
    <2>1. x \in S /\ SortByScore(T)[i] = f[x]
      BY <1>16, <1>17, <1>18, <1>19
    <2> HIDE DEF x
    <2>2. x.score = f[x].score /\ x.item.tid = f[x].item.tid
      BY <1>12, <2>1 DEF Alike
    <2> QED BY <2>1, <2>2 DEF x
  <1> QED BY <1>4, <1>16, <1>17, <1>20 DEF S, T, a, r

\* PgturbohybridFinalizeFusedResults, given the items any correct merge leaves,
\* answers what the definition of fusion answers: the same documents with the same
\* scores in the same order, as many as the target allows.
THEOREM FinalizeIsReference ==
    ASSUME NEW cands, NEW byTid, GoodCandidates(cands, byTid), NEW query, ScoringQuery(query),
           NEW limit \in Int, NEW tuples \in Int, EffectiveFinalK(query, limit) \in Int,
           NEW items, MergeOf(items, KeptKeys(query, cands, byTid), cands, byTid)
    PROVE  LET o == FinalizeFusedResults(query, items, limit, tuples)
               t == FinalTarget(query, Len(items), limit, tuples)
           IN  /\ SameRanking(o, ReferenceFusion(query, cands, byTid, limit, tuples))
               /\ Len(items) \in Nat /\ t \in Int /\ t <= Len(items)
               /\ Len(o) = MaxOf(t, 0) /\ DOMAIN o = 1 .. MaxOf(t, 0)
  <1> DEFINE K == KeptKeys(query, cands, byTid)
             n == Len(items)
             t == FinalTarget(query, n, limit, tuples)
             R == [k \in K |-> ReferenceItem(cands, k, byTid)]
             o == FinalizeFusedResults(query, items, limit, tuples)
             ref == ReferenceFusion(query, cands, byTid, limit, tuples)
             T == ResultsOf(R, K, ScoresOf(query, R, K))
             Y == {R[k] : k \in K}
  <1>1. \E A \in [K -> Items], order \in Bijection(DOMAIN items, K) :
              /\ Represents(A, K, cands, byTid)
              /\ \A i \in DOMAIN items : items[i] = A[order[i]]
              /\ ToSet(items) = {A[k] : k \in K}
              /\ IsFiniteSet(ToSet(items)) /\ IsFiniteSet(K) /\ Cardinality(K) = Len(items)
    <2> HIDE DEF K
    <2> QED BY MergeItems DEF K
  <1>2. PICK A \in [K -> Items], order \in Bijection(DOMAIN items, K) :
              /\ Represents(A, K, cands, byTid)
              /\ \A i \in DOMAIN items : items[i] = A[order[i]]
              /\ ToSet(items) = {A[k] : k \in K}
              /\ IsFiniteSet(ToSet(items)) /\ IsFiniteSet(K) /\ Cardinality(K) = Len(items)
    BY <1>1
  <1> DEFINE a == ScoresOf(query, A, K)
             S == ResultsOf(A, K, a)
             scored == ScoreResults(query, items)
  <1>3. K \subseteq Keys(cands, byTid) /\ items \in Seq(Items)
    BY DEF KeptKeys, MergeOf
  <1>4. n \in Nat /\ DOMAIN items = 1 .. n
    BY <1>3
  <1> HIDE DEF n
  <1>5. Represents(R, K, cands, byTid)
    <2>1. \A k \in K : Merged(ReferenceItem(cands, k, byTid), cands, byTid, DOMAIN cands, k)
      BY <1>3, ReferenceOfKey
    <2>2. \A k \in K : ReferenceItem(cands, k, byTid) \in Items
      BY <2>1 DEF Merged
    <2> HIDE DEF K
    <2> QED BY <1>3, <2>1, <2>2 DEF Represents
  <1>6. /\ StrictOrder(S, ScoreOrderOn(S)) /\ IsFiniteSet(S) /\ IsFiniteSet(T)
        /\ Cardinality(S) = n /\ Cardinality(T) = n
        /\ \A i \in 1 .. n : /\ SortByScore(S)[i].item.tid = SortByScore(T)[i].item.tid
                             /\ SortByScore(S)[i].score = SortByScore(T)[i].score
    <2> HIDE DEF K, R
    <2>1. Cardinality(K) = n
      BY <1>2 DEF n
    <2> QED BY <1>2, <1>5, <2>1, SameListing
  <1>7. t \in Int /\ t <= n
    BY <1>4, FinalTargetType
  <1> HIDE DEF t
  <1>8. /\ \A i \in 1 .. n : order[i] \in K /\ scored[i] = ResultAt(A, a, order[i])
        /\ DOMAIN scored = 1 .. n /\ scored \in Seq(S) /\ Len(scored) = n
        /\ OneToOne(scored) /\ ToSet(scored) = S
    <2>1. /\ order \in [1 .. n -> K] /\ \A i, j \in 1 .. n : order[i] = order[j] => i = j
          /\ \A k \in K : \E i \in 1 .. n : order[i] = k
      <3> HIDE DEF K
      <3> QED BY <1>4, Fun_BijectionProperties
    <2>2. ASSUME NEW i \in 1 .. n
          PROVE  order[i] \in K /\ scored[i] = ResultAt(A, a, order[i])
      <3>1. order[i] \in K /\ items[i] = A[order[i]]
        BY <1>2, <1>4, <2>1
      <3>2. scored[i] = ScoredItem(query, ToSet(items), items[i])
        BY <1>4 DEF ScoreResults
      <3>3. a[order[i]] = FusedScore(query, ToSet(items), A[order[i]])
        BY <1>2, <3>1 DEF ScoresOf
      <3> HIDE DEF a, scored
      <3> QED BY <3>1, <3>2, <3>3 DEF ScoredItem, ResultAt
    <2>3. scored = [i \in 1 .. n |-> scored[i]] /\ DOMAIN scored = 1 .. n
      BY <1>4 DEF ScoreResults
    <2>4. \A k \in K : ResultAt(A, a, k) \in S
      BY DEF ResultsOf
    <2>5. \A k, l \in K : ResultAt(A, a, k) = ResultAt(A, a, l) => k = l
      <3>1. a \in [K -> Int]
        <4> HIDE DEF K
        <4> QED BY <1>2, ScoresOfType
      <3> HIDE DEF K, a
      <3> QED BY <1>2, <3>1, ResultsOrdered
    <2>6. \A x \in S : \E k \in K : x = ResultAt(A, a, k)
      BY DEF ResultsOf
    <2> HIDE DEF S, a, scored, K
    <2>7. scored \in Seq(S) /\ Len(scored) = n
      BY <1>4, <2>2, <2>3, <2>4
    <2>8. OneToOne(scored)
      BY <2>1, <2>2, <2>3, <2>5 DEF OneToOne
    <2>9. ToSet(scored) = S
      <3>1. \A x \in S : \E i \in 1 .. n : scored[i] = x
        BY <2>1, <2>2, <2>6
      <3>2. \A i \in 1 .. n : scored[i] \in S
        BY <2>2, <2>4
      <3> QED BY <2>3, <3>1, <3>2 DEF ToSet
    <2> QED BY <2>2, <2>3, <2>7, <2>8, <2>9
  <1>9. o = IF t < n THEN SelectTopN(scored, t) ELSE SortByScore(ToSet(scored))
    BY DEF FinalizeFusedResults, t, n
  <1>10. {i \in {ReferenceItem(cands, k, byTid) : k \in {Key(cands[i], byTid) : i \in DOMAIN cands}} :
             query.requireBm25 => i.bm25 > 0} = Y
    <2>1. {Key(cands[i], byTid) : i \in DOMAIN cands} = Keys(cands, byTid)
      BY DEF Keys, KeyAt
    <2>2. {i \in {ReferenceItem(cands, k, byTid) : k \in Keys(cands, byTid)} :
             query.requireBm25 => i.bm25 > 0} = {ReferenceItem(cands, k, byTid) : k \in K}
      BY DEF KeptKeys
    <2>3. {ReferenceItem(cands, k, byTid) : k \in K} = Y
      <3> HIDE DEF K
      <3> QED OBVIOUS
    <2> QED BY <2>1, <2>2, <2>3
  <1> HIDE DEF scored, S, a, K
  <1>11. {ScoredItem(query, Y, i) : i \in Y} = T
    <2>1. \A k \in K : R[k] \in Y /\ ScoredItem(query, Y, R[k]) = ResultAt(R, ScoresOf(query, R, K), k)
      BY DEF ScoredItem, ResultAt, ScoresOf
    <2>2. \A i \in Y : \E k \in K : i = R[k]
      OBVIOUS
    <2> HIDE DEF Y, R
    <2> QED BY <2>1, <2>2 DEF ResultsOf
  <1>12. IsFiniteSet(Y) /\ Cardinality(Y) = n
    <2> DEFINE g == [k \in K |-> R[k]]
    <2>1. R \in [K -> Y] /\ \A y \in Y : \E k \in K : R[k] = y
      OBVIOUS
    <2> HIDE DEF R, Y
    <2>2. \A k, l \in K : R[k] = R[l] => k = l
      <3> SUFFICES ASSUME NEW k \in K, NEW l \in K, R[k] = R[l] PROVE k = l
        OBVIOUS
      <3>1. /\ k \in Keys(cands, byTid) /\ l \in Keys(cands, byTid)
            /\ Merged(R[k], cands, byTid, DOMAIN cands, k) /\ Merged(R[l], cands, byTid, DOMAIN cands, l)
        BY <1>5 DEF Represents
      <3>2. SameRanksOf(R[k], R[l])
        BY DEF SameRanksOf
      <3> QED BY <3>1, <3>2, KeysDiffer
    <2>3. R \in Bijection(K, Y)
      BY <2>1, <2>2, Fun_IsBij
    <2>4. IsFiniteSet(Y) /\ Cardinality(Y) = Cardinality(K)
      BY <1>2, <2>3, FS_Bijection DEF ExistsBijection
    <2> QED BY <1>2, <2>4 DEF n
  <1> HIDE DEF Y, T
  <1> DEFINE ranked == SortByScore(T)
  <1>13. ref = SubSeq(ranked, 1, MinOf(t, Len(ranked)))
    <2>1. ref = LET target == FinalTarget(query, Cardinality(Y), limit, tuples)
                IN  SubSeq(SortByScore({ScoredItem(query, Y, i) : i \in Y}), 1,
                           MinOf(target, Len(SortByScore({ScoredItem(query, Y, i) : i \in Y}))))
      BY <1>10, Zenon DEF ReferenceFusion
    <2>2. FinalTarget(query, Cardinality(Y), limit, tuples) = t
      BY <1>12 DEF t
    <2> QED BY <1>11, <2>1, <2>2
  <1>14. DOMAIN ranked = 1 .. n /\ Len(ranked) = n /\ ranked \in Seq({ranked[i] : i \in 1 .. n})
    <2>1. ranked = [i \in 1 .. n |-> ranked[i]]
      BY <1>6, SortByScoreDomain
    <2> HIDE DEF ranked
    <2> QED BY <1>4, <2>1
  <1> HIDE DEF ranked, ref, o
  <1>15. /\ DOMAIN o = 1 .. MaxOf(t, 0) /\ Len(o) = MaxOf(t, 0)
         /\ \A i \in 1 .. MaxOf(t, 0) : o[i] = SortByScore(S)[i]
    <2>1. CASE t < n
      <3>1. o = SelectTopN(scored, t)
        BY <1>9, <2>1
      <3> QED BY <1>6, <1>7, <1>8, <2>1, <3>1, SelectTopNFacts
    <2>2. CASE ~(t < n)
      <3>1. o = SortByScore(S) /\ t = n /\ MaxOf(t, 0) = n
        BY <1>4, <1>7, <1>8, <1>9, <2>2 DEF MaxOf
      <3>2. SortByScore(S) = [i \in 1 .. n |-> SortByScore(S)[i]]
        BY <1>6, SortByScoreDomain
      <3>3. DOMAIN o = 1 .. n /\ Len(o) = n
        BY <1>4, <3>1, <3>2
      <3> QED BY <3>1, <3>3
    <2> QED BY <2>1, <2>2
  <1>16. /\ DOMAIN ref = 1 .. MaxOf(t, 0)
         /\ \A i \in 1 .. MaxOf(t, 0) : ref[i] = ranked[i] /\ i \in 1 .. n
    <2>1. MinOf(t, Len(ranked)) = t
      BY <1>4, <1>7, <1>14 DEF MinOf
    <2>2. ref = SubSeq(ranked, 1, t)
      BY <1>13, <2>1
    <2>3. SubSeq(ranked, 1, t) = [i \in 1 .. t |-> ranked[1 + i - 1]]
      <3>1. CASE t < 0
        BY <1>7, <1>14, <3>1
      <3>2. CASE t >= 0
        BY <1>7, <1>14, <3>2
      <3> QED BY <1>7, <3>1, <3>2
    <2>4. 1 .. t = 1 .. MaxOf(t, 0)
      BY <1>7 DEF MaxOf
    <2>5. \A i \in 1 .. t : 1 + i - 1 = i /\ i \in 1 .. n
      BY <1>4, <1>7
    <2>6. ref = [i \in 1 .. t |-> ranked[i]]
      BY <2>2, <2>3, <2>5
    <2> QED BY <2>4, <2>5, <2>6
  <1>17. SameRanking(o, ref)
    <2>1. DOMAIN o = DOMAIN ref
      BY <1>15, <1>16
    <2>2. ASSUME NEW i \in DOMAIN o
          PROVE  o[i].item.tid = ref[i].item.tid /\ o[i].score = ref[i].score
      <3>1. i \in 1 .. n /\ o[i] = SortByScore(S)[i] /\ ref[i] = SortByScore(T)[i]
        BY <1>15, <1>16, <2>2 DEF ranked
      <3> QED BY <1>6, <3>1
    <2> QED BY <2>1, <2>2 DEF SameRanking
  <1> QED BY <1>4, <1>7, <1>15, <1>17 DEF o, ref, t, n
(***************************************************************************)
(* The merge by sorting.                                                   *)
(***************************************************************************)

\* Adding the candidates of a run one by one gives the item of their key.
LEMMA JoinMerged ==
    ASSUME NEW cands, NEW byTid, GoodCandidates(cands, byTid), NEW C \in SUBSET DOMAIN cands,
           NEW c \in (DOMAIN cands) \ C, NEW item,
           Merged(item, cands, byTid, C, KeyAt(cands, byTid, c))
    PROVE  Merged(AddCandidate(item, cands[c]), cands, byTid, C \cup {c}, KeyAt(cands, byTid, c))
  <1>1. item \in Items /\ cands[c] \in CandidateSet /\ (cands[c].branch = "bm25" => cands[c].score \in Nat)
    BY CandidateFields DEF Merged
  <1>2. AddCandidate(item, cands[c]) \in Items
    BY <1>1, AddedFields
  <1> QED BY <1>2, AddMerged

\* The comparison of FuseSort orders the candidates strictly and totally.
LEMMA SortsOrder ==
    ASSUME NEW cands, NEW byTid, GoodCandidates(cands, byTid)
    PROVE  StrictOrder(DOMAIN cands, SortsBefore(cands, byTid))
  <1> DEFINE D == DOMAIN cands
             k(i) == KeyAt(cands, byTid, i)
             v(i) == cands[i].node
             L == SortsBefore(cands, byTid)
  <1>1. \A i \in D : i \in Int /\ k(i) \in Nat /\ v(i) \in Nat
    BY CandidateFields DEF GoodCandidates
  <1>2. \A a, b \in D : <<a, b>> \in L <=>
            \/ k(a) < k(b)
            \/ k(a) = k(b) /\ (v(a) < v(b) \/ (v(a) = v(b) /\ a < b))
    BY DEF SortsBefore, KeyAt
  <1> HIDE DEF L, D, k, v
  <1>3. \A x \in D : <<x, x>> \notin L
    BY <1>1, <1>2
  <1>4. \A x, y \in D : x = y \/ <<x, y>> \in L \/ <<y, x>> \in L
    <2> TAKE x, y \in D
    <2>1. /\ x \in Int /\ y \in Int /\ k(x) \in Int /\ k(y) \in Int /\ v(x) \in Int /\ v(y) \in Int
      BY <1>1
    <2> QED BY <1>2, <2>1
  <1>5. \A x, y, z \in D : <<x, y>> \in L /\ <<y, z>> \in L => <<x, z>> \in L
    <2> TAKE x, y, z \in D
    <2>1. /\ x \in Int /\ y \in Int /\ z \in Int /\ k(x) \in Int /\ k(y) \in Int /\ k(z) \in Int
          /\ v(x) \in Int /\ v(y) \in Int /\ v(z) \in Int
      BY <1>1
    <2> QED BY <1>2, <2>1
  <1> QED BY <1>3, <1>4, <1>5 DEF StrictOrder, D, L

\* The runs after the candidates at the places C, whose keys ascend.
RunSet == [key : Nat, item : Items]

RunsOf(runs, cands, byTid, C) ==
    /\ runs \in Seq(RunSet)
    /\ \A a, b \in DOMAIN runs : a < b => runs[a].key < runs[b].key
    /\ \A a \in DOMAIN runs : /\ Merged(runs[a].item, cands, byTid, C, runs[a].key)
                              /\ \E j \in C : runs[a].key = KeyAt(cands, byTid, j)
    /\ \A j \in C : \E a \in DOMAIN runs : runs[a].key = KeyAt(cands, byTid, j)

\* One more sorted candidate extends the last run or opens one for its key.
LEMMA RunsStep ==
    ASSUME NEW cands, NEW byTid, GoodCandidates(cands, byTid), NEW C \in SUBSET DOMAIN cands,
           NEW c \in (DOMAIN cands) \ C,
           \A j \in C : KeyAt(cands, byTid, j) <= KeyAt(cands, byTid, c),
           NEW runs, RunsOf(runs, cands, byTid, C)
    PROVE  RunsOf(AddToRuns(runs, KeyAt(cands, byTid, c), cands[c]), cands, byTid, C \cup {c})
  <1> DEFINE k == KeyAt(cands, byTid, c)
             n == Len(runs)
             D == C \cup {c}
             o == AddToRuns(runs, k, cands[c])
             key(j) == KeyAt(cands, byTid, j)
  <1>1. /\ n \in Nat /\ runs \in Seq(RunSet) /\ DOMAIN runs = 1 .. n
        /\ \A a \in 1 .. n : runs[a] \in RunSet
    BY DEF RunsOf
  <1>2. /\ \A a, b \in 1 .. n : a < b => runs[a].key < runs[b].key
        /\ \A a \in 1 .. n : /\ Merged(runs[a].item, cands, byTid, C, runs[a].key)
                             /\ \E j \in C : runs[a].key = key(j)
        /\ \A j \in C : \E a \in 1 .. n : runs[a].key = key(j)
    BY <1>1 DEF RunsOf
  <1>3. \A j \in DOMAIN cands : key(j) \in Nat
    BY CandidateFields
  <1>4. /\ k = key(c) /\ k \in Nat /\ c \notin C /\ C \subseteq DOMAIN cands
        /\ \A j \in C : key(j) <= k
    BY <1>3
  <1> HIDE DEF n, k, key, D
  <1>5. \A a \in 1 .. n : runs[a].key \in Nat /\ runs[a].item \in Items /\ runs[a].key <= k
    BY <1>1, <1>2, <1>4 DEF RunSet
  <1>6. CASE n > 0 /\ runs[n].key = k
    <2> DEFINE m == AddCandidate(runs[n].item, cands[c])
               z == [m EXCEPT !.node = runs[n].item.node]
    <2>1. n \in 1 .. n
      BY <1>1, <1>6
    <2>2. Merged(runs[n].item, cands, byTid, C, k)
      BY <1>2, <1>6, <2>1
    <2>3. Merged(m, cands, byTid, C \cup {c}, k)
      BY <2>2, JoinMerged DEF k
    <2>4. m \in Items /\ runs[n].item.node \in Nat
      BY <1>5, <2>1, <2>3 DEF Merged, Items
    <2>5. /\ z \in Items
          /\ z.tid = m.tid /\ z.dense = m.dense /\ z.multi = m.multi /\ z.bm25 = m.bm25
          /\ z.denseSim = m.denseSim /\ z.multiSim = m.multiSim /\ z.bm25Score = m.bm25Score
      <3> HIDE DEF m
      <3> QED BY <2>4 DEF Items
    <2>6. Merged(z, cands, byTid, D, k)
      <3> HIDE DEF z
      <3> QED BY <2>2, <2>5, AddMerged DEF k, D
    <2>7. o = [runs EXCEPT ![n] = [key |-> k, item |-> z]]
      BY <1>6 DEF AddToRuns, n
    <2>8. z \in Items
      BY <2>5
    <2> HIDE DEF m, z
    <2> DEFINE y == [key |-> k, item |-> z]
    <2>9. y \in RunSet /\ y.key = k /\ y.item = z
      BY <1>4, <2>8 DEF RunSet
    <2> HIDE DEF y
    <2>10. /\ o \in Seq(RunSet) /\ DOMAIN o = 1 .. n /\ o[n] = y
           /\ \A a \in 1 .. n : a # n => o[a] = runs[a]
      BY <1>1, <2>1, <2>7, <2>9 DEF y
    <2> HIDE DEF o
    <2>11. \A a \in 1 .. n : o[a].key = runs[a].key
      BY <1>6, <2>9, <2>10
    <2>12. ASSUME NEW a \in 1 .. n PROVE Merged(o[a].item, cands, byTid, D, o[a].key)
      <3>1. CASE a = n
        BY <2>6, <2>9, <2>10, <3>1
      <3>2. CASE a # n
        <4>1. a < n /\ runs[a].key # k
          BY <1>1, <1>2, <1>4, <1>5, <1>6, <2>1, <3>2
        <4>2. Merged(runs[a].item, cands, byTid, C \cup {c}, runs[a].key)
          BY <1>2, <4>1, OtherMerged DEF k
        <4> QED BY <2>10, <3>2, <4>2 DEF D
      <3> QED BY <3>1, <3>2
    <2>13. \A a \in 1 .. n : \E j \in D : o[a].key = key(j)
      BY <1>2, <2>11 DEF D
    <2>14. \A j \in D : \E a \in 1 .. n : o[a].key = key(j)
      BY <1>2, <1>4, <1>6, <2>1, <2>11 DEF D
    <2>15. \A a, b \in 1 .. n : a < b => o[a].key < o[b].key
      BY <1>2, <2>11
    <2>16. RunsOf(o, cands, byTid, D)
      BY <2>10, <2>12, <2>13, <2>14, <2>15 DEF RunsOf, key
    <2> QED BY <2>16 DEF o, D, k
  <1>7. CASE ~(n > 0 /\ runs[n].key = k)
    <2> DEFINE z == AddCandidate(Blank, cands[c])
               y == [key |-> k, item |-> z]
    <2>1. \A a \in 1 .. n : runs[a].key < k
      <3> SUFFICES ASSUME NEW a \in 1 .. n PROVE runs[a].key < k
        OBVIOUS
      <3>1. n \in 1 .. n /\ n > 0
        BY <1>1
      <3>2. runs[n].key < k
        BY <1>4, <1>5, <1>7, <3>1
      <3>3. a = n \/ runs[a].key < runs[n].key
        BY <1>1, <1>2, <3>1
      <3> QED BY <1>4, <1>5, <3>1, <3>2, <3>3
    <2>2. \A j \in C : key(j) # k
      BY <1>2, <1>4, <1>5, <2>1
    <2>3. Merged(Blank, cands, byTid, C, k)
      BY <2>2, BlankMerged DEF key
    <2>4. Merged(z, cands, byTid, D, k)
      BY <2>3, JoinMerged DEF k, D
    <2>5. z \in Items
      BY <2>4 DEF Merged
    <2>6. o = Append(runs, y)
      BY <1>7 DEF AddToRuns, n
    <2> HIDE DEF z
    <2>7. y \in RunSet /\ y.key = k /\ y.item = z
      BY <1>4, <2>5 DEF RunSet
    <2> HIDE DEF y
    <2>8. /\ o \in Seq(RunSet) /\ DOMAIN o = 1 .. n + 1 /\ o[n + 1] = y
          /\ \A a \in 1 .. n : o[a] = runs[a]
      BY <1>1, <2>6, <2>7 DEF n
    <2> HIDE DEF o
    <2>9. \A a \in 1 .. n + 1 : a = n + 1 \/ a \in 1 .. n
      BY <1>1
    <2>10. ASSUME NEW a \in 1 .. n + 1 PROVE Merged(o[a].item, cands, byTid, D, o[a].key)
      <3>1. CASE a = n + 1
        BY <2>4, <2>7, <2>8, <3>1
      <3>2. CASE a \in 1 .. n
        <4>1. runs[a].key # k
          BY <1>4, <1>5, <2>1, <3>2
        <4>2. Merged(runs[a].item, cands, byTid, C \cup {c}, runs[a].key)
          BY <1>2, <3>2, <4>1, OtherMerged DEF k
        <4> QED BY <2>8, <3>2, <4>2 DEF D
      <3> QED BY <2>9, <3>1, <3>2
    <2>11. \A a \in 1 .. n + 1 : \E j \in D : o[a].key = key(j)
      <3> TAKE a \in 1 .. n + 1
      <3>1. CASE a = n + 1
        BY <1>4, <2>7, <2>8, <3>1 DEF D
      <3>2. CASE a \in 1 .. n
        BY <1>2, <2>8, <3>2 DEF D
      <3> QED BY <2>9, <3>1, <3>2
    <2>12. \A j \in D : \E a \in 1 .. n + 1 : o[a].key = key(j)
      <3> TAKE j \in D
      <3>1. CASE j = c
        <4>1. n + 1 \in 1 .. n + 1
          BY <1>1
        <4> QED BY <1>4, <2>7, <2>8, <3>1, <4>1
      <3>2. CASE j \in C
        <4>1. PICK a \in 1 .. n : runs[a].key = key(j)
          BY <1>2, <3>2
        <4>2. a \in 1 .. n + 1
          BY <1>1
        <4> QED BY <2>8, <4>1, <4>2
      <3> QED BY <3>1, <3>2 DEF D
    <2>13. \A a, b \in 1 .. n + 1 : a < b => o[a].key < o[b].key
      <3> TAKE a, b \in 1 .. n + 1
      <3>1. CASE a \in 1 .. n /\ b \in 1 .. n
        BY <1>2, <2>8, <3>1
      <3>2. CASE a \in 1 .. n /\ b = n + 1
        BY <2>1, <2>7, <2>8, <3>2
      <3>3. CASE a = n + 1
        BY <1>1, <3>3
      <3> QED BY <2>9, <3>1, <3>2, <3>3
    <2>14. RunsOf(o, cands, byTid, D)
      BY <2>8, <2>10, <2>11, <2>12, <2>13 DEF RunsOf, key
    <2> QED BY <2>14 DEF o, D, k
  <1> QED BY <1>6, <1>7

\* The merge by qsort and one pass over the runs of equal keys gives every
\* document one item, with the ranks of all branches that returned it.
THEOREM FuseSortMerges ==
    ASSUME NEW cands, NEW byTid, GoodCandidates(cands, byTid)
    PROVE  MergeOf(FuseSort(cands, byTid), Keys(cands, byTid), cands, byTid)
  <1> DEFINE n == Len(cands)
             I == DOMAIN cands
             L == SortsBefore(cands, byTid)
             order == Sorted(I, L)
             C(i) == {order[j] : j \in 1 .. i}
             first == <<>>
             Step(i, r) == AddToRuns(r, Key(cands[order[i]], byTid), cands[order[i]])
             Stage(i) == {r \in Seq(RunSet) : RunsOf(r, cands, byTid, C(i))}
             All == Seq(RunSet)
             Def(f) == [i \in 0 .. n |-> IF i = 0 THEN first ELSE Step(i, f[i - 1])]
             runs == CHOOSE f : f = Def(f)
             U == [i \in 0 .. n |-> Stage(i)]
             G == [i \in 1 .. n |-> [x \in Stage(i - 1) |-> Step(i, x)]]
             all == runs[n]
  <1>1. n \in Nat /\ I = 1 .. n
    BY DEF GoodCandidates
  <1>2. FuseSort(cands, byTid) = [i \in 1 .. Len(all) |-> all[i].item]
    BY DEF FuseSort
  <1> HIDE DEF n
  <1>3. IsFiniteSet(I) /\ Cardinality(I) = n
    <2>1. IsFiniteSet(1 .. n) /\ Cardinality(1 .. n) = IF 1 > n THEN 0 ELSE n - 1 + 1
      BY <1>1, FS_Interval
    <2> HIDE DEF I
    <2> QED BY <1>1, <2>1
  <1>4. /\ order \in [1 .. n -> I]
        /\ \A i, j \in 1 .. n : order[i] = order[j] => i = j
        /\ \A x \in I : \E i \in 1 .. n : order[i] = x
        /\ \A i, j \in 1 .. n : i < j => <<order[i], order[j]>> \in L
    <2>1. StrictOrder(I, L)
      BY SortsOrder
    <2> HIDE DEF I, L
    <2> QED BY <1>3, <2>1, OrderedList, SortedIsRankList
  <1> HIDE DEF order
  <1>5. \A i, j \in 1 .. n : i < j => KeyAt(cands, byTid, order[i]) <= KeyAt(cands, byTid, order[j])
    <2> SUFFICES ASSUME NEW i \in 1 .. n, NEW j \in 1 .. n, i < j
                 PROVE  KeyAt(cands, byTid, order[i]) <= KeyAt(cands, byTid, order[j])
      OBVIOUS
    <2>1. <<order[i], order[j]>> \in L /\ order[i] \in I /\ order[j] \in I
      BY <1>4
    <2>2. /\ KeyAt(cands, byTid, order[i]) \in Nat /\ KeyAt(cands, byTid, order[j]) \in Nat
      BY <2>1, CandidateFields
    <2>3. \/ KeyAt(cands, byTid, order[i]) < KeyAt(cands, byTid, order[j])
          \/ KeyAt(cands, byTid, order[i]) = KeyAt(cands, byTid, order[j])
      BY <2>1 DEF SortsBefore, KeyAt
    <2> QED BY <2>2, <2>3
  <1> HIDE DEF L
  <1>6. first \in Stage(0)
    <2>1. C(0) = {}
      OBVIOUS
    <2> HIDE DEF C
    <2> QED BY <2>1 DEF RunsOf
  <1>7. \A i \in 0 .. n : Stage(i) \subseteq All
    OBVIOUS
  <1>8. ASSUME NEW i \in 1 .. n, NEW r \in Stage(i - 1) PROVE Step(i, r) \in Stage(i)
    <2> DEFINE c == order[i]
    <2>1. RunsOf(r, cands, byTid, C(i - 1))
      OBVIOUS
    <2>2. \A j \in 1 .. i - 1 : j \in 1 .. n /\ j < i
      BY <1>1
    <2>3. /\ C(i - 1) \subseteq I /\ c \in I /\ c \notin C(i - 1)
      BY <1>4, <2>2
    <2>4. \A j \in C(i - 1) : KeyAt(cands, byTid, j) <= KeyAt(cands, byTid, c)
      BY <1>5, <2>2
    <2>5. C(i - 1) \cup {c} = C(i)
      <3>1. 1 .. i = (1 .. i - 1) \cup {i}
        BY <1>1
      <3> QED BY <3>1
    <2> HIDE DEF c, C
    <2>6. RunsOf(AddToRuns(r, KeyAt(cands, byTid, c), cands[c]), cands, byTid, C(i - 1) \cup {c})
      BY <2>1, <2>3, <2>4, RunsStep
    <2>7. AddToRuns(r, KeyAt(cands, byTid, c), cands[c]) = Step(i, r)
      BY DEF c, KeyAt
    <2> HIDE DEF Step
    <2>8. RunsOf(Step(i, r), cands, byTid, C(i))
      BY <2>5, <2>6, <2>7
    <2> QED BY <2>8 DEF RunsOf
  <1>9. /\ \A i \in 0 .. n : U[i] = Stage(i)
        /\ \A i \in 1 .. n : i \in 0 .. n /\ i - 1 \in 0 .. n
        /\ \A i \in 1 .. n : G[i] = [x \in Stage(i - 1) |-> Step(i, x)]
    <2> HIDE DEF Stage, Step
    <2> QED BY <1>1
  <1> HIDE DEF Stage, Step, first, All, U, G
  <1>10. Stages(All, n, U, first, G)
    <2>1. \A i \in 1 .. n : [x \in Stage(i - 1) |-> Step(i, x)] \in [Stage(i - 1) -> Stage(i)]
      BY <1>8
    <2>2. \A i \in 1 .. n : G[i] \in [U[i - 1] -> U[i]]
      BY <1>9, <2>1
    <2>3. U \in [0 .. n -> SUBSET All]
      BY <1>7 DEF U
    <2>4. first \in U[0]
      BY <1>1, <1>6, <1>9
    <2> QED BY <1>1, <2>2, <2>3, <2>4 DEF Stages
  <1>11. PICK h : Staged(n, U, first, G, h)
    BY ONLY <1>10, StagesExist
  <1>12. \A i \in 1 .. n : h[i] = Step(i, h[i - 1])
    <2> TAKE i \in 1 .. n
    <2>1. h[i - 1] \in Stage(i - 1)
      BY <1>9, <1>11 DEF Staged
    <2>2. h[i] = G[i][h[i - 1]] /\ G[i] = [x \in Stage(i - 1) |-> Step(i, x)]
      BY <1>9, <1>11 DEF Staged
    <2>3. PICK x \in Stage(i - 1) : x = h[i - 1]
      BY <2>1
    <2>4. G[i][x] = Step(i, x)
      BY <2>2
    <2> QED BY <2>2, <2>3, <2>4
  <1>13. h = Def(h)
    <2>1. \A i \in 0 .. n : h[i] = IF i = 0 THEN first ELSE Step(i, h[i - 1])
      <3> TAKE i \in 0 .. n
      <3>1. i # 0 => i \in 1 .. n
        BY <1>1
      <3> QED BY <1>11, <1>12, <3>1 DEF Staged
    <2> QED BY <1>11, <2>1 DEF Staged
  <1>14. runs = Def(runs)
    <2> HIDE DEF Def
    <2> QED BY <1>13
  <1>15. runs[0] = first /\ \A i \in 1 .. n : runs[i] = Step(i, runs[i - 1])
    <2> HIDE DEF runs
    <2>1. \A i \in 0 .. n : runs[i] = IF i = 0 THEN first ELSE Step(i, runs[i - 1])
      BY <1>14
    <2> QED BY <1>1, <2>1
  <1>16. \A i \in 0 .. n : runs[i] \in Stage(i)
    <2> HIDE DEF runs, Def
    <2>1. \A i \in 1 .. n : runs[i - 1] \in U[i - 1] => runs[i] \in U[i]
      <3> SUFFICES ASSUME NEW i \in 1 .. n, runs[i - 1] \in U[i - 1] PROVE runs[i] \in U[i]
        OBVIOUS
      <3>1. runs[i - 1] \in Stage(i - 1) /\ U[i] = Stage(i)
        BY <1>9
      <3> QED BY <1>8, <1>15, <3>1
    <2>2. runs[0] \in U[0]
      BY <1>1, <1>6, <1>9, <1>15
    <2>3. \A i \in 0 .. n : runs[i] \in U[i]
      BY <1>1, <2>1, <2>2, PlacesStay
    <2> QED BY <1>9, <2>3
  <1> HIDE DEF Def, runs
  <1> DEFINE a == runs[n]
             f == FuseSort(cands, byTid)
             d == [i \in 1 .. Len(a) |-> a[i].key]
  <1> HIDE DEF a
  <1>17. a \in Stage(n) /\ f = [i \in 1 .. Len(a) |-> a[i].item]
    BY <1>1, <1>2, <1>16 DEF a
  <1>18. C(n) = I
    <2>1. \A x \in C(n) : x \in I
      BY <1>4
    <2>2. \A x \in I : x \in C(n)
      BY <1>4
    <2> HIDE DEF C, I
    <2> QED BY <2>1, <2>2
  <1>19. RunsOf(a, cands, byTid, I) /\ a \in Seq(RunSet)
    BY <1>17, <1>18 DEF Stage
  <1> HIDE DEF f, C
  <1>20. /\ Len(a) \in Nat /\ DOMAIN a = 1 .. Len(a)
         /\ \A i \in 1 .. Len(a) : a[i].key \in Nat /\ a[i].item \in Items
    <2>1. \A i \in 1 .. Len(a) : a[i] \in RunSet
      BY <1>19
    <2> QED BY <1>19, <2>1 DEF RunSet
  <1>21. f \in Seq(Items) /\ DOMAIN f = 1 .. Len(a) /\ \A i \in 1 .. Len(a) : f[i] = a[i].item
    BY <1>17, <1>20
  <1>22. /\ \A i, j \in 1 .. Len(a) : i < j => a[i].key < a[j].key
         /\ \A i \in 1 .. Len(a) : /\ Merged(a[i].item, cands, byTid, I, a[i].key)
                                  /\ \E j \in I : a[i].key = KeyAt(cands, byTid, j)
         /\ \A j \in I : \E i \in 1 .. Len(a) : a[i].key = KeyAt(cands, byTid, j)
    BY <1>19, <1>20 DEF RunsOf
  <1>23. \A i \in 1 .. Len(a) : d[i] = a[i].key
    OBVIOUS
  <1>24. d \in [DOMAIN f -> Keys(cands, byTid)]
    BY <1>21, <1>22 DEF Keys
  <1> HIDE DEF d
  <1>25. \A i, j \in DOMAIN f : d[i] = d[j] => i = j
    <2> SUFFICES ASSUME NEW i \in 1 .. Len(a), NEW j \in 1 .. Len(a), d[i] = d[j], i # j PROVE FALSE
      BY <1>21
    <2>1. i < j \/ j < i
      BY <1>20
    <2> QED BY <1>20, <1>22, <1>23, <2>1
  <1>26. \A k \in Keys(cands, byTid) : \E i \in DOMAIN f : d[i] = k
    BY <1>21, <1>22, <1>23 DEF Keys
  <1>27. \A i \in DOMAIN f : Merged(f[i], cands, byTid, DOMAIN cands, d[i])
    BY <1>21, <1>22, <1>23
  <1>28. MergeOf(f, Keys(cands, byTid), cands, byTid)
    BY <1>21, <1>24, <1>25, <1>26, <1>27 DEF MergeOf
  <1> QED BY <1>28 DEF f
(***************************************************************************)
(* The merge by hashing.                                                   *)
(***************************************************************************)

\* NextPowerOfTwo is at least its argument.
LEMMA NextPowerOfTwoFacts ==
    ASSUME NEW n \in Nat
    PROVE  NextPowerOfTwo(n) \in Nat /\ NextPowerOfTwo(n) >= n /\ NextPowerOfTwo(n) >= 1
  <1> DEFINE first == 1
             Step(i, p) == IF p < n THEN 2 * p ELSE p
             Stage(i) == {p \in Nat \ {0} : p >= n \/ p > i}
             All == Nat
             Def(f) == [i \in 0 .. n |-> IF i = 0 THEN first ELSE Step(i, f[i - 1])]
             power == CHOOSE f : f = Def(f)
             U == [i \in 0 .. n |-> Stage(i)]
             G == [i \in 1 .. n |-> [x \in Stage(i - 1) |-> Step(i, x)]]
  <1>1. n \in Nat
    OBVIOUS
  <1>2. NextPowerOfTwo(n) = power[n]
    BY DEF NextPowerOfTwo
  <1>3. first \in Stage(0)
    OBVIOUS
  <1>4. \A i \in 0 .. n : Stage(i) \subseteq All
    OBVIOUS
  <1>5. ASSUME NEW i \in 1 .. n, NEW p \in Stage(i - 1) PROVE Step(i, p) \in Stage(i)
    <2>1. i \in Nat /\ p \in Nat \ {0} /\ (p >= n \/ p > i - 1)
      BY <1>5
    <2> QED BY <2>1
  <1>6. /\ \A i \in 0 .. n : U[i] = Stage(i)
        /\ \A i \in 1 .. n : i \in 0 .. n /\ i - 1 \in 0 .. n
        /\ \A i \in 1 .. n : G[i] = [x \in Stage(i - 1) |-> Step(i, x)]
    <2> HIDE DEF Stage, Step
    <2> QED BY <1>1
  <1> HIDE DEF Stage, Step, first, All, U, G
  <1>7. Stages(All, n, U, first, G)
    <2>1. \A i \in 1 .. n : [x \in Stage(i - 1) |-> Step(i, x)] \in [Stage(i - 1) -> Stage(i)]
      BY <1>5
    <2>2. \A i \in 1 .. n : G[i] \in [U[i - 1] -> U[i]]
      BY <1>6, <2>1
    <2>3. U \in [0 .. n -> SUBSET All]
      BY <1>4 DEF U
    <2>4. first \in U[0]
      BY <1>1, <1>3, <1>6
    <2> QED BY <1>1, <2>2, <2>3, <2>4 DEF Stages
  <1>8. PICK h : Staged(n, U, first, G, h)
    BY ONLY <1>7, StagesExist
  <1>9. \A i \in 1 .. n : h[i] = Step(i, h[i - 1])
    <2> TAKE i \in 1 .. n
    <2>1. h[i - 1] \in Stage(i - 1)
      BY <1>6, <1>8 DEF Staged
    <2>2. h[i] = G[i][h[i - 1]] /\ G[i] = [x \in Stage(i - 1) |-> Step(i, x)]
      BY <1>6, <1>8 DEF Staged
    <2>3. PICK x \in Stage(i - 1) : x = h[i - 1]
      BY <2>1
    <2>4. G[i][x] = Step(i, x)
      BY <2>2
    <2> QED BY <2>2, <2>3, <2>4
  <1>10. h = Def(h)
    <2>1. \A i \in 0 .. n : h[i] = IF i = 0 THEN first ELSE Step(i, h[i - 1])
      <3> TAKE i \in 0 .. n
      <3>1. i # 0 => i \in 1 .. n
        BY <1>1
      <3> QED BY <1>8, <1>9, <3>1 DEF Staged
    <2> QED BY <1>8, <2>1 DEF Staged
  <1>11. power = Def(power)
    <2> HIDE DEF Def
    <2> QED BY <1>10
  <1>12. power[0] = first /\ \A i \in 1 .. n : power[i] = Step(i, power[i - 1])
    <2> HIDE DEF power
    <2>1. \A i \in 0 .. n : power[i] = IF i = 0 THEN first ELSE Step(i, power[i - 1])
      BY <1>11
    <2> QED BY <1>1, <2>1
  <1>13. \A i \in 0 .. n : power[i] \in Stage(i)
    <2> HIDE DEF power, Def
    <2>1. \A i \in 1 .. n : power[i - 1] \in U[i - 1] => power[i] \in U[i]
      <3> SUFFICES ASSUME NEW i \in 1 .. n, power[i - 1] \in U[i - 1] PROVE power[i] \in U[i]
        OBVIOUS
      <3>1. power[i - 1] \in Stage(i - 1) /\ U[i] = Stage(i)
        BY <1>6
      <3> QED BY <1>5, <1>12, <3>1
    <2>2. power[0] \in U[0]
      BY <1>1, <1>3, <1>6, <1>12
    <2>3. \A i \in 0 .. n : power[i] \in U[i]
      BY <1>1, <2>1, <2>2, PlacesStay
    <2> QED BY <1>6, <2>3
  <1>14. power[n] \in Stage(n)
    BY <1>1, <1>13
  <1> HIDE DEF power
  <1> QED BY <1>2, <1>14 DEF Stage

\* The hash table has more slots than the scan has candidates.
LEMMA HashSlotCountFacts ==
    ASSUME NEW n \in Nat
    PROVE  HashSlotCount(n) \in Nat /\ HashSlotCount(n) > n
  <1> DEFINE a == n + n \div 4 + 1
             m == MaxOf(a, MinSlots)
  <1>1. MinSlots \in Nat
    BY FusionAssumption
  <1>2. n \div 4 \in Nat
    OBVIOUS
  <1>3. a \in Nat /\ a > n
    BY <1>2
  <1> HIDE DEF a
  <1>4. m \in Nat /\ m > n
    BY <1>1, <1>3 DEF MaxOf
  <1>5. HashSlotCount(n) = NextPowerOfTwo(m)
    BY DEF HashSlotCount, a
  <1> HIDE DEF m
  <1>6. NextPowerOfTwo(m) \in Nat /\ NextPowerOfTwo(m) >= m
    BY <1>4, NextPowerOfTwoFacts
  <1> QED BY <1>4, <1>5, <1>6

\* The probes of a key visit every slot.
LEMMA ProbeFacts ==
    ASSUME NEW k \in Nat, NEW slots \in Nat \ {0}
    PROVE  /\ \A d \in 0 .. slots - 1 : Probe(k, d, slots) \in 1 .. slots
           /\ \A s \in 1 .. slots : \E d \in 0 .. slots - 1 : Probe(k, d, slots) = s
  <1> DEFINE h == HashSlot(k, slots)
  <1>1. h \in 0 .. slots - 1
    <2> DEFINE m == k * 5
    <2>1. m \in Nat
      OBVIOUS
    <2> HIDE DEF m
    <2>2. m % slots \in 0 .. slots - 1
      BY <2>1
    <2> QED BY <2>2 DEF HashSlot, m
  <1>2. \A d \in 0 .. slots - 1 : Probe(k, d, slots) = 1 + IF h + d < slots THEN h + d ELSE h + d - slots
    BY <1>1 DEF Probe
  <1> HIDE DEF h
  <1>3. \A d \in 0 .. slots - 1 : Probe(k, d, slots) \in 1 .. slots
    BY <1>1, <1>2
  <1>4. ASSUME NEW s \in 1 .. slots PROVE \E d \in 0 .. slots - 1 : Probe(k, d, slots) = s
    <2>1. CASE s > h
      <3>1. s - 1 - h \in 0 .. slots - 1 /\ Probe(k, s - 1 - h, slots) = s
        BY <1>1, <1>2, <2>1
      <3> QED BY <3>1
    <2>2. CASE ~(s > h)
      <3>1. s - 1 - h + slots \in 0 .. slots - 1 /\ Probe(k, s - 1 - h + slots, slots) = s
        BY <1>1, <1>2, <2>2
      <3> QED BY <3>1
    <2> QED BY <2>1, <2>2
  <1> QED BY <1>3, <1>4

SlotSet == [used : BOOLEAN, key : Nat, result : Items]

\* FindMergeSlot ends at the slot of the key, or at a free one if it has none.
LEMMA FindSlotFacts ==
    ASSUME NEW N \in Nat \ {0}, NEW t \in [1 .. N -> SlotSet], NEW k \in Nat,
           NEW p \in 1 .. N, ~t[p].used
    PROVE  \E d \in 0 .. N - 1 :
              /\ FindMergeSlot(t, k) = Probe(k, d, N) /\ Probe(k, d, N) \in 1 .. N
              /\ ~t[Probe(k, d, N)].used \/ t[Probe(k, d, N)].key = k
              /\ \A b \in 0 .. d - 1 : t[Probe(k, b, N)].used /\ t[Probe(k, b, N)].key # k
  <1> DEFINE Ends(d) == ~t[Probe(k, d, N)].used \/ t[Probe(k, d, N)].key = k
             good == {d \in 0 .. N - 1 : Ends(d)}
             Least(d) == Ends(d) /\ \A b \in 0 .. d - 1 : ~Ends(b)
             e == CHOOSE d \in 0 .. N - 1 : Least(d)
  <1>1. Len(t) = N
    OBVIOUS
  <1>2. FindMergeSlot(t, k) = Probe(k, e, N)
    BY <1>1 DEF FindMergeSlot
  <1>3. good # {}
    <2>1. PICK s \in 1 .. N : ~t[s].used \/ t[s].key = k
      OBVIOUS
    <2>2. PICK d \in 0 .. N - 1 : Probe(k, d, N) = s
      BY ProbeFacts
    <2> QED BY <2>1, <2>2
  <1>4. PICK d \in good : \A b \in good : d <= b
    <2>1. good \in SUBSET Nat
      OBVIOUS
    <2> HIDE DEF good
    <2> QED BY <1>3, <2>1, LeastExists
  <1>5. d \in 0 .. N - 1 /\ Ends(d)
    OBVIOUS
  <1>6. \A b \in 0 .. d - 1 : ~Ends(b)
    <2> SUFFICES ASSUME NEW b \in 0 .. d - 1, Ends(b) PROVE FALSE
      OBVIOUS
    <2>1. b \in 0 .. N - 1 /\ ~(d <= b)
      BY <1>5
    <2>2. b \in good
      BY <2>1
    <2> QED BY <1>4, <2>1, <2>2
  <1> HIDE DEF Ends, good
  <1>7. Least(d)
    BY <1>5, <1>6
  <1> HIDE DEF Least
  <1>8. e \in 0 .. N - 1 /\ Least(e)
    BY <1>5, <1>7
  <1> HIDE DEF e
  <1>9. /\ Probe(k, e, N) \in 1 .. N /\ Ends(e) /\ \A b \in 0 .. e - 1 : ~Ends(b)
    BY <1>8, ProbeFacts DEF Least
  <1>10. /\ ~t[Probe(k, e, N)].used \/ t[Probe(k, e, N)].key = k
         /\ \A b \in 0 .. e - 1 : t[Probe(k, b, N)].used /\ t[Probe(k, b, N)].key # k
    BY <1>9 DEF Ends
  <1> QED BY <1>2, <1>8, <1>9, <1>10

\* The table of the candidates at the places C, m in number: a slot for a key, and
\* no free slot before it on the way of its probes.
TableOf(t, N, cands, byTid, C) ==
    /\ t \in [1 .. N -> SlotSet]
    /\ \A s \in 1 .. N : ~t[s].used => t[s].result = Blank
    /\ \A s \in 1 .. N : t[s].used =>
          /\ Merged(t[s].result, cands, byTid, C, t[s].key)
          /\ \E j \in C : t[s].key = KeyAt(cands, byTid, j)
          /\ \E d \in 0 .. N - 1 : /\ Probe(t[s].key, d, N) = s
                                  /\ \A b \in 0 .. d - 1 : t[Probe(t[s].key, b, N)].used
    /\ \A j \in C : \E s \in 1 .. N : t[s].used /\ t[s].key = KeyAt(cands, byTid, j)
    /\ \A r, s \in 1 .. N : t[r].used /\ t[s].used /\ t[r].key = t[s].key => r = s

\* The table has more slots than candidates, so that one is free.
LEMMA FreeSlotLeft ==
    ASSUME NEW N \in Nat \ {0}, NEW cands, NEW byTid, NEW C, IsFiniteSet(C), Cardinality(C) < N,
           NEW t, TableOf(t, N, cands, byTid, C)
    PROVE  \E s \in 1 .. N : ~t[s].used
  <1> SUFFICES ASSUME \A s \in 1 .. N : t[s].used PROVE FALSE
    OBVIOUS
  <1> DEFINE I == 1 .. N
             of(s) == CHOOSE j \in C : t[s].key = KeyAt(cands, byTid, j)
             f == [s \in I |-> of(s)]
  <1>1. \A s \in I : of(s) \in C /\ t[s].key = KeyAt(cands, byTid, of(s))
    BY DEF TableOf
  <1> HIDE DEF of
  <1>2. f \in [I -> C]
    BY <1>1
  <1>3. \A r, s \in I : f[r] = f[s] => r = s
    <2> SUFFICES ASSUME NEW r \in I, NEW s \in I, f[r] = f[s] PROVE r = s
      OBVIOUS
    <2>1. t[r].key = t[s].key
      BY <1>1
    <2> QED BY <2>1 DEF TableOf
  <1> HIDE DEF f
  <1>4. f \in Injection(I, C)
    BY <1>2, <1>3 DEF Injection, IsInjective
  <1>5. IsFiniteSet(I) /\ Cardinality(I) = N
    <2>1. IsFiniteSet(1 .. N) /\ Cardinality(1 .. N) = IF 1 > N THEN 0 ELSE N - 1 + 1
      BY FS_Interval
    <2> QED BY <2>1
  <1> HIDE DEF I
  <1>6. Cardinality(I) <= Cardinality(C)
    BY <1>4, FS_Injection
  <1>7. Cardinality(C) \in Nat
    BY FS_CardinalityType
  <1> QED BY <1>5, <1>6, <1>7

\* One more candidate: its key has one slot, the slots of the others stay.
LEMMA TableStep ==
    ASSUME NEW cands, NEW byTid, GoodCandidates(cands, byTid), NEW C \in SUBSET DOMAIN cands,
           NEW c \in (DOMAIN cands) \ C, NEW N \in Nat \ {0}, IsFiniteSet(C), Cardinality(C) < N,
           NEW t, TableOf(t, N, cands, byTid, C)
    PROVE  TableOf(AddToSlot(t, KeyAt(cands, byTid, c), cands[c]), N, cands, byTid, C \cup {c})
  <1> DEFINE k == KeyAt(cands, byTid, c)
             I == 1 .. N
             f == FindMergeSlot(t, k)
             z == AddCandidate(t[f].result, cands[c])
             y == [used |-> TRUE, key |-> k, result |-> z]
             o == AddToSlot(t, k, cands[c])
             D == C \cup {c}
             key(j) == KeyAt(cands, byTid, j)
  <1>1. k = key(c) /\ k \in Nat
    BY CandidateFields
  <1>2. o = [t EXCEPT ![f] = y]
    BY DEF AddToSlot
  <1> HIDE DEF k, o
  <1>3. /\ t \in [I -> SlotSet]
        /\ \A s \in I : ~t[s].used => t[s].result = Blank
        /\ \A s \in I : t[s].used =>
              /\ Merged(t[s].result, cands, byTid, C, t[s].key)
              /\ \E j \in C : t[s].key = key(j)
              /\ \E d \in 0 .. N - 1 : /\ Probe(t[s].key, d, N) = s
                                      /\ \A b \in 0 .. d - 1 : t[Probe(t[s].key, b, N)].used
        /\ \A j \in C : \E s \in I : t[s].used /\ t[s].key = key(j)
        /\ \A r, s \in I : t[r].used /\ t[s].used /\ t[r].key = t[s].key => r = s
    BY DEF TableOf
  <1>4. \A s \in I : t[s].used \in BOOLEAN /\ t[s].key \in Nat
    <2>1. \A s \in I : t[s] \in SlotSet
      BY <1>3
    <2> QED BY <2>1 DEF SlotSet
  <1>5. PICK d \in 0 .. N - 1 :
              /\ f = Probe(k, d, N) /\ f \in I
              /\ ~t[f].used \/ t[f].key = k
              /\ \A b \in 0 .. d - 1 : t[Probe(k, b, N)].used /\ t[Probe(k, b, N)].key # k
    <2>1. \E s \in 1 .. N : ~t[s].used
      BY FreeSlotLeft
    <2>2. PICK p \in 1 .. N : ~t[p].used
      BY <2>1
    <2>3. \E d \in 0 .. N - 1 :
              /\ FindMergeSlot(t, k) = Probe(k, d, N) /\ Probe(k, d, N) \in 1 .. N
              /\ ~t[Probe(k, d, N)].used \/ t[Probe(k, d, N)].key = k
              /\ \A b \in 0 .. d - 1 : t[Probe(k, b, N)].used /\ t[Probe(k, b, N)].key # k
      <3>1. t \in [1 .. N -> SlotSet] /\ k \in Nat /\ N \in Nat \ {0} /\ p \in 1 .. N /\ ~t[p].used
        BY <1>1, <1>3, <2>2
      <3> HIDE DEF f, I, key
      <3> QED BY ONLY <3>1, FindSlotFacts
    <2> QED BY <2>3
  <1> HIDE DEF f, I, key
  <1>6. ASSUME NEW s \in I, t[s].used, t[s].key = k PROVE s = f
    <2>1. CASE t[f].used
      BY <1>3, <1>5, <1>6, <2>1
    <2>2. CASE ~t[f].used
      <3>1. PICK e \in 0 .. N - 1 : /\ Probe(k, e, N) = s
                                    /\ \A b \in 0 .. e - 1 : t[Probe(k, b, N)].used
        BY <1>3, <1>6
      <3>2. ~(d < e)
        BY <1>5, <2>2, <3>1
      <3>3. ~(e < d)
        BY <1>5, <1>6, <3>1
      <3>4. d = e
        BY <3>2, <3>3
      <3> QED BY <1>5, <3>1, <3>4
    <2> QED BY <2>1, <2>2
  <1>7. Merged(t[f].result, cands, byTid, C, k)
    <2>1. CASE t[f].used
      BY <1>3, <1>5, <2>1
    <2>2. CASE ~t[f].used
      <3>1. t[f].result = Blank
        BY <1>3, <1>5, <2>2
      <3>2. \A j \in C : key(j) # k
        BY <1>3, <1>6, <2>2
      <3> QED BY <3>1, <3>2, BlankMerged DEF key
    <2> QED BY <2>1, <2>2
  <1>8. Merged(z, cands, byTid, D, k)
    BY <1>7, JoinMerged DEF k
  <1>9. z \in Items
    BY <1>8 DEF Merged
  <1> HIDE DEF z
  <1>10. y \in SlotSet /\ y.used /\ y.key = k /\ y.result = z
    BY <1>1, <1>9 DEF SlotSet
  <1> HIDE DEF y
  <1>11. /\ o \in [I -> SlotSet] /\ o[f] = y
         /\ \A s \in I : s # f => o[s] = t[s]
    BY <1>2, <1>3, <1>5, <1>10
  <1>12. \A s \in I : t[s].used => o[s].used /\ o[s].key = t[s].key
    BY <1>5, <1>10, <1>11
  <1>13. \A s \in I : s # f /\ o[s].used => t[s].used /\ t[s].key # k /\ o[s].key = t[s].key
    BY <1>6, <1>11
  <1>14. \A s \in I : ~o[s].used => o[s].result = Blank
    BY <1>3, <1>10, <1>11
  <1>15. ASSUME NEW s \in I, o[s].used
         PROVE  /\ Merged(o[s].result, cands, byTid, D, o[s].key)
                /\ \E j \in D : o[s].key = key(j)
                /\ \E e \in 0 .. N - 1 : /\ Probe(o[s].key, e, N) = s
                                        /\ \A b \in 0 .. e - 1 : o[Probe(o[s].key, b, N)].used
    <2>1. \A x \in Nat : \A b \in 0 .. N - 1 : Probe(x, b, N) \in I
      BY ProbeFacts DEF I
    <2>2. CASE s = f
      <3>1. o[s].key = k /\ o[s].result = z
        BY <1>10, <1>11, <2>2
      <3>2. \A b \in 0 .. d - 1 : o[Probe(k, b, N)].used
        <4> TAKE b \in 0 .. d - 1
        <4>1. b \in 0 .. N - 1
          OBVIOUS
        <4> QED BY <1>1, <1>5, <1>12, <2>1, <4>1
      <3> QED BY <1>1, <1>5, <1>8, <2>2, <3>1, <3>2
    <2>3. CASE s # f
      <3>1. t[s].used /\ t[s].key # k /\ o[s] = t[s] /\ t[s].key \in Nat
        BY <1>4, <1>11, <1>13, <1>15, <2>3
      <3>2. Merged(o[s].result, cands, byTid, D, o[s].key)
        <4>1. Merged(t[s].result, cands, byTid, C, t[s].key)
          BY <1>3, <3>1
        <4>2. KeyAt(cands, byTid, c) # t[s].key
          BY <3>1 DEF k
        <4>3. Merged(t[s].result, cands, byTid, C \cup {c}, t[s].key)
          BY <4>1, <4>2, OtherMerged
        <4> QED BY <3>1, <4>3
      <3>3. PICK e \in 0 .. N - 1 : /\ Probe(t[s].key, e, N) = s
                                    /\ \A b \in 0 .. e - 1 : t[Probe(t[s].key, b, N)].used
        BY <1>3, <3>1
      <3>4. \A b \in 0 .. e - 1 : o[Probe(t[s].key, b, N)].used
        <4> TAKE b \in 0 .. e - 1
        <4>1. b \in 0 .. N - 1
          OBVIOUS
        <4>2. Probe(t[s].key, b, N) \in I
          BY <2>1, <3>1, <4>1
        <4> QED BY <1>12, <3>3, <4>2
      <3>5. \E j \in D : o[s].key = key(j)
        BY <1>3, <3>1
      <3> QED BY <3>1, <3>2, <3>3, <3>4, <3>5
    <2> QED BY <2>2, <2>3
  <1>16. \A j \in D : \E s \in I : o[s].used /\ o[s].key = key(j)
    <2> TAKE j \in D
    <2>1. CASE j = c
      BY <1>1, <1>5, <1>10, <1>11, <2>1
    <2>2. CASE j \in C
      <3>1. PICK s \in I : t[s].used /\ t[s].key = key(j)
        BY <1>3, <2>2
      <3> QED BY <1>12, <3>1
    <2> QED BY <2>1, <2>2
  <1>17. \A r, s \in I : o[r].used /\ o[s].used /\ o[r].key = o[s].key => r = s
    <2> SUFFICES ASSUME NEW r \in I, NEW s \in I, o[r].used, o[s].used, o[r].key = o[s].key, r # s
                 PROVE  FALSE
      OBVIOUS
    <2>1. o[f].key = k
      BY <1>10, <1>11
    <2>2. CASE r = f
      BY <1>13, <2>1, <2>2
    <2>3. CASE s = f
      BY <1>13, <2>1, <2>3
    <2>4. CASE r # f /\ s # f
      BY <1>3, <1>13, <2>4
    <2> QED BY <2>2, <2>3, <2>4
  <1> HIDE DEF o, D
  <1>18. TableOf(o, N, cands, byTid, D)
    BY <1>11, <1>14, <1>15, <1>16, <1>17 DEF TableOf, I, key
  <1> QED BY <1>18 DEF o, D, k

\* The merge by the open-addressing table gives every document one item, with the
\* ranks of all branches that returned it, however the keys collide.
THEOREM FuseHashMerges ==
    ASSUME NEW cands, NEW byTid, GoodCandidates(cands, byTid)
    PROVE  MergeOf(FuseHash(cands, byTid), Keys(cands, byTid), cands, byTid)
  <1> DEFINE n == Len(cands)
             N == HashSlotCount(n)
             I == DOMAIN cands
             first == [s \in 1 .. N |-> FreeSlot]
             Step(i, t) == AddToSlot(t, Key(cands[i], byTid), cands[i])
             Stage(i) == {t \in [1 .. N -> SlotSet] : TableOf(t, N, cands, byTid, 1 .. i)}
             All == [1 .. N -> SlotSet]
             Def(f) == [i \in 0 .. n |-> IF i = 0 THEN first ELSE Step(i, f[i - 1])]
             table == CHOOSE f : f = Def(f)
             U == [i \in 0 .. n |-> Stage(i)]
             G == [i \in 1 .. n |-> [x \in Stage(i - 1) |-> Step(i, x)]]
             full == table[n]
             used == {s \in DOMAIN full : full[s].used}
             items == [s \in DOMAIN full |-> full[s].result]
  <1>1. n \in Nat /\ I = 1 .. n
    BY DEF GoodCandidates
  <1>2. FuseHash(cands, byTid) = Pick(items, used)
    BY DEF FuseHash
  <1> HIDE DEF n
  <1>3. N \in Nat \ {0} /\ n < N
    BY <1>1, HashSlotCountFacts
  <1> HIDE DEF N
  <1>4. first \in Stage(0)
    <2>1. FreeSlot \in SlotSet /\ FreeSlot.result = Blank /\ ~FreeSlot.used
      BY DEF FreeSlot, SlotSet, Blank, Items
    <2>2. first \in [1 .. N -> SlotSet] /\ \A s \in 1 .. N : first[s] = FreeSlot
      BY <2>1
    <2> HIDE DEF first
    <2> QED BY <2>1, <2>2 DEF TableOf
  <1>5. \A i \in 0 .. n : Stage(i) \subseteq All
    OBVIOUS
  <1>6. ASSUME NEW i \in 1 .. n, NEW t \in Stage(i - 1) PROVE Step(i, t) \in Stage(i)
    <2> DEFINE C == 1 .. i - 1
               m == i - 1
    <2>1. TableOf(t, N, cands, byTid, C)
      OBVIOUS
    <2>2. C \subseteq I /\ i \in I \ C /\ C \cup {i} = 1 .. i /\ m \in Nat /\ m < N /\ C = 1 .. m
      BY <1>1, <1>3
    <2> HIDE DEF C, m
    <2>3. IsFiniteSet(C) /\ Cardinality(C) < N
      <3>1. IsFiniteSet(1 .. m) /\ Cardinality(1 .. m) = IF 1 > m THEN 0 ELSE m - 1 + 1
        BY <2>2, FS_Interval
      <3> QED BY <1>3, <2>2, <3>1
    <2>4. TableOf(AddToSlot(t, KeyAt(cands, byTid, i), cands[i]), N, cands, byTid, C \cup {i})
      BY <1>3, <2>1, <2>2, <2>3, TableStep
    <2>5. AddToSlot(t, KeyAt(cands, byTid, i), cands[i]) = Step(i, t)
      BY DEF KeyAt
    <2> HIDE DEF Step
    <2>6. TableOf(Step(i, t), N, cands, byTid, 1 .. i)
      BY <2>2, <2>4, <2>5
    <2> QED BY <2>6 DEF TableOf
  <1>7. /\ \A i \in 0 .. n : U[i] = Stage(i)
        /\ \A i \in 1 .. n : i \in 0 .. n /\ i - 1 \in 0 .. n
        /\ \A i \in 1 .. n : G[i] = [x \in Stage(i - 1) |-> Step(i, x)]
    <2> HIDE DEF Stage, Step
    <2> QED BY <1>1
  <1> HIDE DEF Stage, Step, first, All, U, G
  <1>8. Stages(All, n, U, first, G)
    <2>1. \A i \in 1 .. n : [x \in Stage(i - 1) |-> Step(i, x)] \in [Stage(i - 1) -> Stage(i)]
      BY <1>6
    <2>2. \A i \in 1 .. n : G[i] \in [U[i - 1] -> U[i]]
      BY <1>7, <2>1
    <2>3. U \in [0 .. n -> SUBSET All]
      BY <1>5 DEF U
    <2>4. first \in U[0]
      BY <1>1, <1>4, <1>7
    <2> QED BY <1>1, <2>2, <2>3, <2>4 DEF Stages
  <1>9. PICK h : Staged(n, U, first, G, h)
    BY ONLY <1>8, StagesExist
  <1>10. \A i \in 1 .. n : h[i] = Step(i, h[i - 1])
    <2> TAKE i \in 1 .. n
    <2>1. h[i - 1] \in Stage(i - 1)
      BY <1>7, <1>9 DEF Staged
    <2>2. h[i] = G[i][h[i - 1]] /\ G[i] = [x \in Stage(i - 1) |-> Step(i, x)]
      BY <1>7, <1>9 DEF Staged
    <2>3. PICK x \in Stage(i - 1) : x = h[i - 1]
      BY <2>1
    <2>4. G[i][x] = Step(i, x)
      BY <2>2
    <2> QED BY <2>2, <2>3, <2>4
  <1>11. h = Def(h)
    <2>1. \A i \in 0 .. n : h[i] = IF i = 0 THEN first ELSE Step(i, h[i - 1])
      <3> TAKE i \in 0 .. n
      <3>1. i # 0 => i \in 1 .. n
        BY <1>1
      <3> QED BY <1>9, <1>10, <3>1 DEF Staged
    <2> QED BY <1>9, <2>1 DEF Staged
  <1>12. table = Def(table)
    <2> HIDE DEF Def
    <2> QED BY <1>11
  <1>13. table[0] = first /\ \A i \in 1 .. n : table[i] = Step(i, table[i - 1])
    <2> HIDE DEF table
    <2>1. \A i \in 0 .. n : table[i] = IF i = 0 THEN first ELSE Step(i, table[i - 1])
      BY <1>12
    <2> QED BY <1>1, <2>1
  <1>14. \A i \in 0 .. n : table[i] \in Stage(i)
    <2> HIDE DEF table, Def
    <2>1. \A i \in 1 .. n : table[i - 1] \in U[i - 1] => table[i] \in U[i]
      <3> SUFFICES ASSUME NEW i \in 1 .. n, table[i - 1] \in U[i - 1] PROVE table[i] \in U[i]
        OBVIOUS
      <3>1. table[i - 1] \in Stage(i - 1) /\ U[i] = Stage(i)
        BY <1>7
      <3> QED BY <1>6, <1>13, <3>1
    <2>2. table[0] \in U[0]
      BY <1>1, <1>4, <1>7, <1>13
    <2>3. \A i \in 0 .. n : table[i] \in U[i]
      BY <1>1, <2>1, <2>2, PlacesStay
    <2> QED BY <1>7, <2>3
  <1> HIDE DEF Def, table
  <1> DEFINE t == table[n]
             S == 1 .. N
             o == FuseHash(cands, byTid)
             r == [s \in S |-> t[s].result]
             U1 == {s \in S : t[s].used}
  <1> HIDE DEF t
  <1>15. TableOf(t, N, cands, byTid, I)
    <2>1. t \in Stage(n)
      BY <1>1, <1>14 DEF t
    <2> QED BY <1>1, <2>1 DEF Stage
  <1>16. /\ t \in [S -> SlotSet]
         /\ \A s \in S : t[s].used =>
              /\ Merged(t[s].result, cands, byTid, I, t[s].key)
              /\ \E j \in I : t[s].key = KeyAt(cands, byTid, j)
         /\ \A j \in I : \E s \in S : t[s].used /\ t[s].key = KeyAt(cands, byTid, j)
         /\ \A q, s \in S : t[q].used /\ t[s].used /\ t[q].key = t[s].key => q = s
    <2> HIDE DEF I
    <2> QED BY <1>15 DEF TableOf
  <1>17. \A s \in S : t[s].result \in Items
    <2>1. \A s \in S : t[s] \in SlotSet
      BY <1>16
    <2> QED BY <2>1 DEF SlotSet
  <1>18. o = Pick(r, U1) /\ r \in Seq(Items) /\ U1 \in SUBSET DOMAIN r
    <2>1. DOMAIN t = S
      BY <1>16
    <2>2. o = Pick(r, U1)
      BY <1>2, <2>1 DEF t
    <2>3. r \in Seq(Items)
      BY <1>3, <1>17
    <2> QED BY <2>2, <2>3
  <1>19. U1 \subseteq S /\ \A s \in S : r[s] = t[s].result /\ (s \in U1 <=> t[s].used)
    OBVIOUS
  <1> HIDE DEF o, r, U1, S, I
  <1> DEFINE m == Cardinality(U1)
  <1>20. /\ m \in Nat /\ o \in Seq(Items) /\ DOMAIN o = 1 .. m
         /\ \E places \in [1 .. m -> U1] :
               /\ \A i, j \in 1 .. m : places[i] = places[j] => i = j
               /\ \A k \in U1 : \E i \in 1 .. m : places[i] = k
               /\ \A i \in 1 .. m : o[i] = r[places[i]]
    <2>1. r \in Seq(Items) /\ U1 \in SUBSET DOMAIN r /\ o = Pick(r, U1)
      BY <1>18
    <2> HIDE DEF m
    <2>2. /\ m \in Nat /\ Pick(r, U1) \in Seq(Items) /\ DOMAIN Pick(r, U1) = 1 .. m
          /\ \E places \in [1 .. m -> U1] :
                /\ \A i, j \in 1 .. m : places[i] = places[j] => i = j
                /\ \A k \in U1 : \E i \in 1 .. m : places[i] = k
                /\ \A i \in 1 .. m : Pick(r, U1)[i] = r[places[i]]
      BY ONLY <2>1, PickFacts DEF m
    <2> QED BY <2>1, <2>2
  <1> HIDE DEF m
  <1>21. PICK places \in [1 .. m -> U1] :
               /\ \A i, j \in 1 .. m : places[i] = places[j] => i = j
               /\ \A k \in U1 : \E i \in 1 .. m : places[i] = k
               /\ \A i \in 1 .. m : o[i] = r[places[i]]
    BY <1>20
  <1> DEFINE d == [i \in 1 .. m |-> t[places[i]].key]
  <1>22. \A i \in 1 .. m : /\ places[i] \in S /\ t[places[i]].used /\ o[i] = t[places[i]].result
                           /\ d[i] = t[places[i]].key
    BY <1>19, <1>21
  <1>23. d \in [DOMAIN o -> Keys(cands, byTid)]
    <2>1. \A i \in 1 .. m : t[places[i]].key \in Keys(cands, byTid)
      BY <1>16, <1>22 DEF Keys, I
    <2> QED BY <1>20, <2>1
  <1> HIDE DEF d
  <1>24. \A i, j \in DOMAIN o : d[i] = d[j] => i = j
    <2> SUFFICES ASSUME NEW i \in 1 .. m, NEW j \in 1 .. m, d[i] = d[j] PROVE i = j
      BY <1>20
    <2>1. places[i] = places[j]
      BY <1>16, <1>22
    <2> QED BY <1>21, <2>1
  <1>25. \A k \in Keys(cands, byTid) : \E i \in DOMAIN o : d[i] = k
    <2> TAKE k \in Keys(cands, byTid)
    <2>1. PICK j \in I : k = KeyAt(cands, byTid, j)
      BY DEF Keys, I
    <2>2. PICK s \in S : t[s].used /\ t[s].key = k
      BY <1>16, <2>1
    <2>3. PICK i \in 1 .. m : places[i] = s
      BY <1>19, <1>21, <2>2
    <2> QED BY <1>20, <1>22, <2>2, <2>3
  <1>26. \A i \in DOMAIN o : Merged(o[i], cands, byTid, DOMAIN cands, d[i])
    BY <1>16, <1>20, <1>22 DEF I
  <1>27. MergeOf(o, Keys(cands, byTid), cands, byTid)
    BY <1>20, <1>23, <1>24, <1>25, <1>26 DEF MergeOf
  <1> QED BY <1>27 DEF o
(***************************************************************************)
(* The merge by the generation array.                                      *)
(***************************************************************************)

\* A new generation array carries no generation.
LEMMA FreshArrayIs ==
    ASSUME NEW size \in Nat
    PROVE  LET a == FreshArray(size)
           IN  /\ a \in ArraysOf(size, 1) /\ a.capacity = size /\ a.generation = 1
               /\ \A v \in 0 .. size - 1 : a.entries[v].generation = 0
  <1>1. Blank \in Items
    BY DEF Blank, Items
  <1>2. [generation |-> 0, result |-> Blank] \in [generation : 0 .. 1, result : Items]
    BY <1>1
  <1> QED BY <1>2 DEF FreshArray, ArraysOf

\* The generation a scan stamps with is in no entry of the array it gets.
LEMMA NextGenerationFacts ==
    ASSUME NEW capacity \in Nat, NEW g \in 0 .. MaxGeneration, NEW array \in ArraysOf(capacity, g),
           NEW count \in Nat
    PROVE  \E cap \in Nat, h \in 0 .. MaxGeneration :
              LET a == NextGeneration(array, count)
              IN  /\ a \in ArraysOf(cap, h) /\ a.generation = h /\ count <= cap
                  /\ \A v \in 0 .. cap - 1 : a.entries[v].generation # h
  <1>1. MaxGeneration \in Nat \ {0}
    BY FusionAssumption
  <1>2. array.capacity = capacity /\ array.generation = g
    BY DEF ArraysOf
  <1>3. CASE capacity < count
    <2>1. NextGeneration(array, count) = FreshArray(count)
      BY <1>2, <1>3 DEF NextGeneration
    <2>2. 1 \in 0 .. MaxGeneration
      BY <1>1
    <2> QED BY <2>1, <2>2, FreshArrayIs
  <1>4. CASE ~(capacity < count) /\ g = MaxGeneration
    <2>1. NextGeneration(array, count) = FreshArray(capacity)
      BY <1>2, <1>4 DEF NextGeneration
    <2>2. 1 \in 0 .. MaxGeneration /\ count <= capacity
      BY <1>1, <1>4
    <2> QED BY <2>1, <2>2, FreshArrayIs
  <1>5. CASE ~(capacity < count) /\ g # MaxGeneration
    <2> DEFINE a == [array EXCEPT !.generation = @ + 1]
               h == g + 1
    <2>1. NextGeneration(array, count) = a
      BY <1>2, <1>5 DEF NextGeneration
    <2>2. h \in 0 .. MaxGeneration /\ count <= capacity
      BY <1>1, <1>5
    <2>3. array.entries \in [0 .. capacity - 1 -> [generation : 0 .. g, result : Items]]
      BY DEF ArraysOf
    <2>4. /\ a = [entries |-> array.entries, capacity |-> capacity, generation |-> h]
      BY <1>2 DEF ArraysOf
    <2>5. \A v \in 0 .. capacity - 1 : /\ array.entries[v] \in [generation : 0 .. h, result : Items]
                                       /\ array.entries[v].generation # h
      BY <2>3
    <2>6. array.entries \in [0 .. capacity - 1 -> [generation : 0 .. h, result : Items]]
      BY <2>3, <2>5
    <2>7. a \in ArraysOf(capacity, h) /\ a.generation = h /\ a.entries = array.entries
      BY <2>4, <2>6 DEF ArraysOf
    <2> HIDE DEF a, h
    <2> QED BY <2>1, <2>2, <2>5, <2>7
  <1> QED BY <1>3, <1>4, <1>5

\* The array after the candidates at the places C: the nodes touched are those
\* of the candidates and the ones stamped, and hold what was merged.
TouchedBy(acc, cap, g, cands, C) ==
    /\ acc \in [array : ArraysOf(cap, g), touched : Seq(0 .. cap - 1)]
    /\ \A i, j \in DOMAIN acc.touched : acc.touched[i] = acc.touched[j] => i = j
    /\ \A i \in DOMAIN acc.touched : acc.array.entries[acc.touched[i]].generation = g
    /\ \A v \in 0 .. cap - 1 : acc.array.entries[v].generation = g =>
          /\ Merged(acc.array.entries[v].result, cands, FALSE, C, v)
          /\ \E i \in DOMAIN acc.touched : acc.touched[i] = v
          /\ \E c \in C : KeyAt(cands, FALSE, c) = v
    /\ \A c \in C : acc.array.entries[KeyAt(cands, FALSE, c)].generation = g

\* One more candidate: its entry carries the generation and the item of its key.
LEMMA TouchStep ==
    ASSUME NEW cands, GoodCandidates(cands, FALSE), NEW C \in SUBSET DOMAIN cands,
           NEW c \in (DOMAIN cands) \ C, NEW cap \in Nat, NEW g \in Nat,
           \A i \in DOMAIN cands : cands[i].node < cap,
           NEW acc, TouchedBy(acc, cap, g, cands, C)
    PROVE  TouchedBy(TouchEntry(acc, cands[c]), cap, g, cands, C \cup {c})
  <1> DEFINE E == acc.array.entries
             T == acc.touched
             V == 0 .. cap - 1
             v == cands[c].node
             new == E[v].generation # g
             before == IF new THEN Blank ELSE E[v].result
             z == AddCandidate(before, cands[c])
             y == [generation |-> g, result |-> z]
             o == TouchEntry(acc, cands[c])
             F == [E EXCEPT ![v] = y]
             W == IF new THEN Append(T, v) ELSE T
             D == C \cup {c}
             key(j) == KeyAt(cands, FALSE, j)
             Entries == [generation : 0 .. g, result : Items]
  <1>1. /\ acc.array \in ArraysOf(cap, g) /\ T \in Seq(V) /\ E \in [V -> Entries]
        /\ acc.array.capacity = cap /\ acc.array.generation = g
        /\ acc.array = [entries |-> E, capacity |-> cap, generation |-> g]
    <2>1. acc.array \in ArraysOf(cap, g) /\ T \in Seq(V)
      BY DEF TouchedBy
    <2> QED BY <2>1 DEF ArraysOf
  <1>2. /\ \A i, j \in DOMAIN T : T[i] = T[j] => i = j
        /\ \A i \in DOMAIN T : E[T[i]].generation = g
        /\ \A u \in V : E[u].generation = g =>
              /\ Merged(E[u].result, cands, FALSE, C, u)
              /\ \E i \in DOMAIN T : T[i] = u
              /\ \E j \in C : key(j) = u
        /\ \A j \in C : E[key(j)].generation = g
    BY DEF TouchedBy
  <1>3. v \in V /\ v = key(c) /\ \A j \in D : key(j) \in V
    <2>1. \A j \in DOMAIN cands : cands[j].node \in Nat /\ cands[j].node < cap
      BY CandidateFields
    <2>2. \A j \in DOMAIN cands : KeyAt(cands, FALSE, j) = cands[j].node
      BY DEF KeyAt, Key
    <2>3. \A j \in DOMAIN cands : cands[j].node \in V
      BY <2>1
    <2> HIDE DEF V
    <2> QED BY <2>2, <2>3
  <1>4. o = [array |-> [acc.array EXCEPT !.entries[v] = y], touched |-> W]
    BY <1>1 DEF TouchEntry
  <1> HIDE DEF v, key
  <1>5. [acc.array EXCEPT !.entries[v] = y] = [entries |-> F, capacity |-> cap, generation |-> g]
    <2> HIDE DEF y
    <2>1. \A A : [[entries |-> A, capacity |-> cap, generation |-> g] EXCEPT !.entries[v] = y]
                   = [entries |-> [A EXCEPT ![v] = y], capacity |-> cap, generation |-> g]
      OBVIOUS
    <2> QED BY <1>1, <2>1
  <1>6. Merged(before, cands, FALSE, C, v)
    <2>1. CASE new
      <3>1. \A j \in C : key(j) # v
        BY <1>2, <2>1
      <3>2. Merged(Blank, cands, FALSE, C, v)
        BY <3>1, BlankMerged DEF key
      <3> QED BY <2>1, <3>2
    <2>2. CASE ~new
      BY <1>2, <1>3, <2>2
    <2> QED BY <2>1, <2>2
  <1> HIDE DEF before
  <1>7. Merged(z, cands, FALSE, D, v)
    <2>1. Merged(before, cands, FALSE, C, KeyAt(cands, FALSE, c))
      BY <1>3, <1>6 DEF key
    <2>2. Merged(AddCandidate(before, cands[c]), cands, FALSE, C \cup {c}, KeyAt(cands, FALSE, c))
      BY <2>1, JoinMerged
    <2> QED BY <1>3, <2>2 DEF key
  <1> HIDE DEF z, o
  <1>8. y \in Entries /\ y.generation = g /\ y.result = z
    BY <1>7 DEF Merged
  <1> HIDE DEF y
  <1>9. F \in [V -> Entries] /\ F[v] = y /\ \A u \in V : u # v => F[u] = E[u]
    BY <1>1, <1>3, <1>8
  <1>10. /\ W \in Seq(V)
         /\ \A i \in DOMAIN T : i \in DOMAIN W /\ W[i] = T[i]
         /\ \A i \in DOMAIN W : i \in DOMAIN T \/ (new /\ i = Len(T) + 1 /\ W[i] = v)
         /\ new => Len(T) + 1 \in DOMAIN W /\ W[Len(T) + 1] = v
    <2> HIDE DEF new, V, T
    <2>1. T \in Seq(V) /\ v \in V /\ Len(T) \in Nat /\ DOMAIN T = 1 .. Len(T)
      BY <1>1, <1>3
    <2>2. /\ Append(T, v) \in Seq(V) /\ DOMAIN Append(T, v) = 1 .. Len(T) + 1
          /\ \A i \in 1 .. Len(T) : Append(T, v)[i] = T[i]
          /\ Append(T, v)[Len(T) + 1] = v
      BY <2>1
    <2>3. CASE new
      <3>1. W = Append(T, v)
        BY <2>3
      <3> HIDE DEF W
      <3>2. \A i \in 1 .. Len(T) + 1 : i \in 1 .. Len(T) \/ i = Len(T) + 1
        BY <2>1
      <3>3. Len(T) + 1 \in 1 .. Len(T) + 1 /\ \A i \in 1 .. Len(T) : i \in 1 .. Len(T) + 1
        BY <2>1
      <3> QED BY <2>1, <2>2, <2>3, <3>1, <3>2, <3>3
    <2>4. CASE ~new
      BY <2>1, <2>4
    <2> QED BY <2>3, <2>4
  <1> HIDE DEF F, W, V, new
  <1>11. o.array \in ArraysOf(cap, g) /\ o.array.entries = F /\ o.touched = W
         /\ o \in [array : ArraysOf(cap, g), touched : Seq(V)]
    BY <1>4, <1>5, <1>9, <1>10 DEF ArraysOf, V
  <1>12. \A u \in V : E[u].generation = g => F[u].generation = g
    BY <1>8, <1>9
  <1>13. \A u \in V : F[u].generation = g /\ u # v => E[u].generation = g /\ F[u] = E[u]
    BY <1>9
  <1>14. F[v].generation = g
    BY <1>8, <1>9
  <1>15. \A i \in DOMAIN W : F[W[i]].generation = g
    <2> TAKE i \in DOMAIN W
    <2>1. CASE i \in DOMAIN T
      <3>1. T[i] \in V
        BY <1>1, <2>1
      <3> QED BY <1>2, <1>10, <1>12, <2>1, <3>1
    <2>2. CASE i \notin DOMAIN T
      BY <1>10, <1>14, <2>2
    <2> QED BY <2>1, <2>2
  <1>16. \A i, j \in DOMAIN W : W[i] = W[j] => i = j
    <2> SUFFICES ASSUME NEW i \in DOMAIN W, NEW j \in DOMAIN W, W[i] = W[j] PROVE i = j
      OBVIOUS
    <2>1. new => \A k \in DOMAIN T : T[k] # v
      BY <1>2 DEF new
    <2>2. CASE i \in DOMAIN T /\ j \in DOMAIN T
      BY <1>2, <1>10, <2>2
    <2>3. CASE i \in DOMAIN T /\ j \notin DOMAIN T
      BY <1>10, <2>1, <2>3
    <2>4. CASE i \notin DOMAIN T /\ j \in DOMAIN T
      BY <1>10, <2>1, <2>4
    <2>5. CASE i \notin DOMAIN T /\ j \notin DOMAIN T
      BY <1>10, <2>5
    <2> QED BY <2>2, <2>3, <2>4, <2>5
  <1>17. ASSUME NEW u \in V, F[u].generation = g
         PROVE  /\ Merged(F[u].result, cands, FALSE, D, u)
                /\ \E i \in DOMAIN W : W[i] = u
                /\ \E j \in D : key(j) = u
    <2>1. CASE u = v
      <3>1. Merged(F[u].result, cands, FALSE, D, u)
        BY <1>7, <1>8, <1>9, <2>1
      <3>2. \E i \in DOMAIN W : W[i] = u
        <4>1. CASE new
          BY <1>10, <2>1, <4>1
        <4>2. CASE ~new
          <5>1. PICK i \in DOMAIN T : T[i] = v
            BY <1>2, <1>3, <4>2 DEF new
          <5> QED BY <1>10, <2>1, <5>1
        <4> QED BY <4>1, <4>2
      <3> QED BY <1>3, <2>1, <3>1, <3>2
    <2>2. CASE u # v
      <3>1. E[u].generation = g /\ F[u] = E[u]
        BY <1>13, <1>17, <2>2
      <3>2. Merged(E[u].result, cands, FALSE, C, u)
        BY <1>2, <3>1
      <3>3. KeyAt(cands, FALSE, c) # u
        BY <1>3, <2>2 DEF key
      <3>4. Merged(E[u].result, cands, FALSE, C \cup {c}, u)
        BY <3>2, <3>3, OtherMerged
      <3>5. PICK i \in DOMAIN T : T[i] = u
        BY <1>2, <3>1
      <3>6. PICK j \in C : key(j) = u
        BY <1>2, <3>1
      <3> QED BY <1>10, <3>1, <3>4, <3>5, <3>6
    <2> QED BY <2>1, <2>2
  <1>18. \A j \in D : F[key(j)].generation = g
    BY <1>2, <1>3, <1>12, <1>14
  <1> HIDE DEF D, E
  <1>19. TouchedBy(o, cap, g, cands, D)
    BY <1>11, <1>15, <1>16, <1>17, <1>18 DEF TouchedBy, V, key
  <1> QED BY <1>19 DEF o, D

\* The merge by the generation array (PgturbohybridFuseGenerationArray) gives every
\* document its item, whatever earlier scans left in the array, and leaves an array
\* behind that the next scan can use.
THEOREM FuseArrayMerges ==
    ASSUME NEW cands, GoodCandidates(cands, FALSE), NEW capacity \in Nat, NEW g \in 0 .. MaxGeneration,
           NEW array \in ArraysOf(capacity, g), NEW count \in Nat,
           \A i \in DOMAIN cands : cands[i].node < count
    PROVE  LET fused == FuseGenerationArray(array, count, cands)
           IN  /\ MergeOf(ArrayItems(fused), Keys(cands, FALSE), cands, FALSE)
               /\ \E cap \in Nat, h \in 0 .. MaxGeneration : fused.array \in ArraysOf(cap, h)
  <1>1. PICK cap \in Nat, e \in 0 .. MaxGeneration :
              LET a == NextGeneration(array, count)
              IN  /\ a \in ArraysOf(cap, e) /\ a.generation = e /\ count <= cap
                  /\ \A v \in 0 .. cap - 1 : a.entries[v].generation # e
    BY NextGenerationFacts
  <1> DEFINE n == Len(cands)
             I == DOMAIN cands
             first == [array |-> NextGeneration(array, count), touched |-> <<>>]
             Step(i, x) == TouchEntry(x, cands[i])
             All == [array : ArraysOf(cap, e), touched : Seq(0 .. cap - 1)]
             Stage(i) == {x \in All : TouchedBy(x, cap, e, cands, 1 .. i)}
             Def(f) == [i \in 0 .. n |-> IF i = 0 THEN first ELSE Step(i, f[i - 1])]
             after == CHOOSE f : f = Def(f)
             U == [i \in 0 .. n |-> Stage(i)]
             G == [i \in 1 .. n |-> [x \in Stage(i - 1) |-> Step(i, x)]]
  <1>2. n \in Nat /\ I = 1 .. n
    BY DEF GoodCandidates
  <1>3. FuseGenerationArray(array, count, cands) = after[n]
    BY DEF FuseGenerationArray
  <1> HIDE DEF n
  <1>4. e \in Nat /\ \A i \in I : cands[i].node < cap
    <2>1. MaxGeneration \in Nat
      BY FusionAssumption
    <2>2. \A i \in I : cands[i].node \in Nat
      BY CandidateFields
    <2> QED BY <1>1, <2>1, <2>2
  <1>5. first \in Stage(0)
    <2>1. /\ first.array = NextGeneration(array, count) /\ first.touched = <<>> /\ first \in All
      BY <1>1
    <2>2. DOMAIN first.touched = {} /\ 1 .. 0 = {}
      BY <2>1
    <2> HIDE DEF first
    <2>3. TouchedBy(first, cap, e, cands, 1 .. 0)
      BY <1>1, <2>1, <2>2 DEF TouchedBy
    <2> QED BY <2>1, <2>3
  <1>6. \A i \in 0 .. n : Stage(i) \subseteq All
    OBVIOUS
  <1>7. ASSUME NEW i \in 1 .. n, NEW x \in Stage(i - 1) PROVE Step(i, x) \in Stage(i)
    <2> DEFINE C == 1 .. i - 1
    <2>1. TouchedBy(x, cap, e, cands, C)
      OBVIOUS
    <2>2. C \subseteq I /\ i \in I \ C /\ C \cup {i} = 1 .. i
      BY <1>2
    <2> HIDE DEF C
    <2>3. C \in SUBSET DOMAIN cands /\ i \in (DOMAIN cands) \ C
      BY <2>2
    <2>4. TouchedBy(TouchEntry(x, cands[i]), cap, e, cands, C \cup {i})
      BY <1>4, <2>1, <2>3, TouchStep
    <2> HIDE DEF I
    <2>5. TouchedBy(Step(i, x), cap, e, cands, 1 .. i)
      BY <2>2, <2>4
    <2> HIDE DEF Step
    <2> QED BY <2>5 DEF TouchedBy
  <1>8. /\ \A i \in 0 .. n : U[i] = Stage(i)
        /\ \A i \in 1 .. n : i \in 0 .. n /\ i - 1 \in 0 .. n
        /\ \A i \in 1 .. n : G[i] = [x \in Stage(i - 1) |-> Step(i, x)]
    <2> HIDE DEF Stage, Step
    <2> QED BY <1>2
  <1> HIDE DEF Stage, Step, first, All, U, G
  <1>9. Stages(All, n, U, first, G)
    <2>1. \A i \in 1 .. n : [x \in Stage(i - 1) |-> Step(i, x)] \in [Stage(i - 1) -> Stage(i)]
      BY <1>7
    <2>2. \A i \in 1 .. n : G[i] \in [U[i - 1] -> U[i]]
      BY <1>8, <2>1
    <2>3. U \in [0 .. n -> SUBSET All]
      BY <1>6 DEF U
    <2>4. first \in U[0]
      BY <1>2, <1>5, <1>8
    <2> QED BY <1>2, <2>2, <2>3, <2>4 DEF Stages
  <1>10. PICK h : Staged(n, U, first, G, h)
    BY ONLY <1>9, StagesExist
  <1>11. \A i \in 1 .. n : h[i] = Step(i, h[i - 1])
    <2> TAKE i \in 1 .. n
    <2>1. h[i - 1] \in Stage(i - 1)
      BY <1>8, <1>10 DEF Staged
    <2>2. h[i] = G[i][h[i - 1]] /\ G[i] = [x \in Stage(i - 1) |-> Step(i, x)]
      BY <1>8, <1>10 DEF Staged
    <2>3. PICK x \in Stage(i - 1) : x = h[i - 1]
      BY <2>1
    <2>4. G[i][x] = Step(i, x)
      BY <2>2
    <2> QED BY <2>2, <2>3, <2>4
  <1>12. h = Def(h)
    <2>1. \A i \in 0 .. n : h[i] = IF i = 0 THEN first ELSE Step(i, h[i - 1])
      <3> TAKE i \in 0 .. n
      <3>1. i # 0 => i \in 1 .. n
        BY <1>2
      <3> QED BY <1>10, <1>11, <3>1 DEF Staged
    <2> QED BY <1>10, <2>1 DEF Staged
  <1>13. after = Def(after)
    <2> HIDE DEF Def
    <2> QED BY <1>12
  <1>14. after[0] = first /\ \A i \in 1 .. n : after[i] = Step(i, after[i - 1])
    <2> HIDE DEF after
    <2>1. \A i \in 0 .. n : after[i] = IF i = 0 THEN first ELSE Step(i, after[i - 1])
      BY <1>13
    <2> QED BY <1>2, <2>1
  <1>15. \A i \in 0 .. n : after[i] \in Stage(i)
    <2> HIDE DEF after, Def
    <2>1. \A i \in 1 .. n : after[i - 1] \in U[i - 1] => after[i] \in U[i]
      <3> SUFFICES ASSUME NEW i \in 1 .. n, after[i - 1] \in U[i - 1] PROVE after[i] \in U[i]
        OBVIOUS
      <3>1. after[i - 1] \in Stage(i - 1) /\ U[i] = Stage(i)
        BY <1>8
      <3> QED BY <1>7, <1>14, <3>1
    <2>2. after[0] \in U[0]
      BY <1>2, <1>5, <1>8, <1>14
    <2>3. \A i \in 0 .. n : after[i] \in U[i]
      BY <1>2, <2>1, <2>2, PlacesStay
    <2> QED BY <1>8, <2>3
  <1> HIDE DEF Def, after
  <1> DEFINE a == after[n]
             E == a.array.entries
             T == a.touched
             m == Len(T)
             o == ArrayItems(a)
             V == 0 .. cap - 1
  <1> HIDE DEF a
  <1>16. TouchedBy(a, cap, e, cands, I)
    <2>1. a \in Stage(n)
      BY <1>2, <1>15 DEF a
    <2> QED BY <1>2, <2>1 DEF Stage
  <1>17. /\ a.array \in ArraysOf(cap, e) /\ T \in Seq(V)
         /\ \A i, j \in DOMAIN T : T[i] = T[j] => i = j
         /\ \A i \in DOMAIN T : E[T[i]].generation = e
         /\ \A v \in V : E[v].generation = e =>
               /\ Merged(E[v].result, cands, FALSE, I, v)
               /\ \E i \in DOMAIN T : T[i] = v
               /\ \E c \in I : KeyAt(cands, FALSE, c) = v
         /\ \A c \in I : E[KeyAt(cands, FALSE, c)].generation = e
    <2> HIDE DEF I
    <2> QED BY <1>16 DEF TouchedBy
  <1>18. \A c \in I : KeyAt(cands, FALSE, c) \in V
    <2>1. \A c \in I : cands[c].node \in Nat /\ cands[c].node < cap
      BY <1>4, CandidateFields
    <2>2. \A c \in I : KeyAt(cands, FALSE, c) = cands[c].node
      BY DEF KeyAt, Key
    <2>3. \A c \in I : cands[c].node \in V
      BY <2>1
    <2> HIDE DEF V, I
    <2> QED BY <2>2, <2>3
  <1>19. m \in Nat /\ DOMAIN T = 1 .. m /\ DOMAIN o = 1 .. m /\ \A i \in 1 .. m : T[i] \in V
    BY <1>17 DEF ArrayItems
  <1>20. \A i \in 1 .. m : o[i] = E[T[i]].result
    BY DEF ArrayItems
  <1> HIDE DEF E, T, m, V, I
  <1>21. \A i \in 1 .. m : /\ Merged(o[i], cands, FALSE, I, T[i])
                           /\ \E c \in I : KeyAt(cands, FALSE, c) = T[i]
    BY <1>17, <1>19, <1>20
  <1>22. o \in Seq(Items)
    <2>1. \A i \in 1 .. m : o[i] \in Items
      BY <1>21 DEF Merged
    <2>2. o = [i \in 1 .. m |-> o[i]]
      BY <1>19 DEF ArrayItems, T, m
    <2> HIDE DEF o
    <2> QED BY <1>19, <2>1, <2>2
  <1> HIDE DEF o
  <1>23. T \in [DOMAIN o -> Keys(cands, FALSE)]
    <2>1. \A i \in 1 .. m : T[i] \in Keys(cands, FALSE)
      BY <1>21 DEF Keys, I
    <2>2. T = [i \in 1 .. m |-> T[i]]
      BY <1>17, <1>19
    <2> QED BY <1>19, <2>1, <2>2
  <1>24. \A k \in Keys(cands, FALSE) : \E i \in DOMAIN o : T[i] = k
    <2> TAKE k \in Keys(cands, FALSE)
    <2>1. PICK c \in I : KeyAt(cands, FALSE, c) = k
      BY DEF Keys, I
    <2>2. k \in V /\ E[k].generation = e
      BY <1>17, <1>18, <2>1
    <2> QED BY <1>17, <1>19, <2>2
  <1>25. MergeOf(o, Keys(cands, FALSE), cands, FALSE)
    BY <1>17, <1>19, <1>21, <1>22, <1>23, <1>24 DEF MergeOf, I
  <1> QED BY <1>3, <1>17, <1>25 DEF o, a

(***************************************************************************)
(* The merge that a scan chooses.                                          *)
(***************************************************************************)

\* Whichever merge PgturbohybridCollectScanResults takes, the items are those of
\* the documents that survive REQUIRE_BM25_MATCH.
THEOREM FuseFacts ==
    ASSUME NEW cands, NEW byTid \in BOOLEAN, GoodCandidates(cands, byTid), NEW query,
           NEW array, UsableArray(array), NEW count \in Nat
    PROVE  LET f == Fuse(query, array, cands, byTid, count)
           IN  /\ MergeOf(f.items, KeptKeys(query, cands, byTid), cands, byTid)
               /\ UsableArray(f.cache)
  <1> DEFINE f == Fuse(query, array, cands, byTid, count)
  <1>1. CASE UseGenerationArray(query, cands, byTid, count)
    <2> DEFINE fused == FuseGenerationArray(array, count, cands)
    <2>1. byTid = FALSE /\ \A i \in DOMAIN cands : cands[i].node < count
      BY <1>1 DEF UseGenerationArray
    <2>2. GoodCandidates(cands, FALSE)
      BY <2>1
    <2>3. /\ array.capacity \in Nat /\ array.generation \in 0 .. MaxGeneration
          /\ array \in ArraysOf(array.capacity, array.generation)
      BY DEF UsableArray
    <2>4. /\ MergeOf(ArrayItems(fused), Keys(cands, FALSE), cands, FALSE)
          /\ \E cap \in Nat, h \in 0 .. MaxGeneration : fused.array \in ArraysOf(cap, h)
      BY <2>1, <2>2, <2>3, FuseArrayMerges
    <2>5. f = [items |-> Matching(ArrayItems(fused), query), cache |-> fused.array]
      BY <1>1 DEF Fuse
    <2> HIDE DEF fused, f
    <2>6. MergeOf(Matching(ArrayItems(fused), query), KeptKeys(query, cands, FALSE), cands, FALSE)
      BY <2>2, <2>4, MatchingKept
    <2>7. UsableArray(fused.array)
      <3>1. PICK cap \in Nat, h \in 0 .. MaxGeneration : fused.array \in ArraysOf(cap, h)
        BY <2>4
      <3>2. fused.array.capacity = cap /\ fused.array.generation = h
        BY <3>1 DEF ArraysOf
      <3> QED BY <3>1, <3>2 DEF UsableArray
    <2>8. f.items = Matching(ArrayItems(fused), query) /\ f.cache = fused.array
      BY <2>5
    <2> QED BY <2>1, <2>6, <2>7, <2>8 DEF f
  <1>2. CASE ~UseGenerationArray(query, cands, byTid, count)
    <2> DEFINE merged == IF Len(cands) >= HashThreshold THEN FuseHash(cands, byTid)
                         ELSE FuseSort(cands, byTid)
    <2>1. f = [items |-> Matching(merged, query), cache |-> array]
      BY <1>2 DEF Fuse
    <2>2. MergeOf(merged, Keys(cands, byTid), cands, byTid)
      BY FuseHashMerges, FuseSortMerges
    <2> HIDE DEF merged, f
    <2>3. MergeOf(Matching(merged, query), KeptKeys(query, cands, byTid), cands, byTid)
      BY <2>2, MatchingKept
    <2>4. f.items = Matching(merged, query) /\ f.cache = array
      BY <2>1
    <2> QED BY <2>3, <2>4 DEF f
  <1> QED BY <1>1, <1>2

(***************************************************************************)
(* Sequences.                                                              *)
(***************************************************************************)

LEMMA Prefix ==
    ASSUME NEW S, NEW s \in Seq(S), NEW d \in 0 .. Len(s)
    PROVE  /\ SubSeq(s, 1, d) \in Seq(S) /\ Len(SubSeq(s, 1, d)) = d
           /\ DOMAIN SubSeq(s, 1, d) = 1 .. d
           /\ \A i \in 1 .. d : SubSeq(s, 1, d)[i] = s[i]
  <1>1. Len(s) \in Nat /\ d \in Nat /\ \A i \in 1 .. d : s[i] \in S
    OBVIOUS
  <1> DEFINE t == SubSeq(s, 1, d)
  <1>2. /\ t \in Seq(S) /\ Len(t) = IF 1 <= d THEN d - 1 + 1 ELSE 0
        /\ \A i \in 1 .. d - 1 + 1 : t[i] = s[1 + i - 1]
    BY ONLY <1>1, SubSeqProperties
  <1> HIDE DEF t
  <1>3. Len(t) = d
    BY <1>1, <1>2
  <1>4. \A i \in 1 .. d : t[i] = s[i]
    BY <1>1, <1>2
  <1> QED BY <1>2, <1>3, <1>4 DEF t

LEMMA Suffix ==
    ASSUME NEW S, NEW s \in Seq(S), NEW d \in 0 .. Len(s)
    PROVE  LET t == SubSeq(s, d + 1, Len(s))
           IN  /\ t \in Seq(S) /\ Len(t) = Len(s) - d /\ DOMAIN t = 1 .. Len(s) - d
               /\ \A i \in 1 .. Len(s) - d : t[i] = s[d + i]
  <1> DEFINE n == Len(s)
             t == SubSeq(s, d + 1, n)
  <1>1. n \in Nat /\ d \in 0 .. n /\ d + 1 \in Int /\ \A i \in d + 1 .. n : s[i] \in S
    OBVIOUS
  <1>2. /\ t \in Seq(S) /\ Len(t) = IF d + 1 <= n THEN n - (d + 1) + 1 ELSE 0
        /\ \A i \in 1 .. n - (d + 1) + 1 : t[i] = s[d + 1 + i - 1]
    BY ONLY <1>1, SubSeqProperties
  <1> HIDE DEF t, n
  <1>3. Len(t) = n - d
    <2>1. CASE d + 1 <= n
      BY <1>1, <1>2, <2>1
    <2>2. CASE ~ (d + 1 <= n)
      BY <1>1, <1>2, <2>2
    <2> QED BY <2>1, <2>2
  <1>4. \A i \in 1 .. n - d : i \in 1 .. n - (d + 1) + 1 /\ d + 1 + i - 1 = d + i
    BY <1>1
  <1>5. \A i \in 1 .. n - d : t[i] = s[d + i]
    BY <1>2, <1>4
  <1> QED BY <1>2, <1>3, <1>5 DEF t, n

LEMMA SamePrefix ==
    ASSUME NEW S, NEW s \in Seq(S), NEW t \in Seq(S), NEW d \in 0 .. Len(s), d <= Len(t),
           \A i \in 1 .. d : s[i] = t[i]
    PROVE  SubSeq(s, 1, d) = SubSeq(t, 1, d)
  <1>1. d \in 0 .. Len(t)
    OBVIOUS
  <1> DEFINE a == SubSeq(s, 1, d)
             b == SubSeq(t, 1, d)
  <1>2. a \in Seq(S) /\ Len(a) = d /\ \A i \in 1 .. d : a[i] = s[i]
    BY Prefix
  <1>3. b \in Seq(S) /\ Len(b) = d /\ \A i \in 1 .. d : b[i] = t[i]
    BY <1>1, Prefix
  <1> HIDE DEF a, b
  <1>4. a = b
    BY <1>2, <1>3, SeqEqual
  <1> QED BY <1>4 DEF a, b

LEMMA WholePrefix ==
    ASSUME NEW S, NEW s \in Seq(S)
    PROVE  SubSeq(s, 1, Len(s)) = s
  <1> DEFINE a == SubSeq(s, 1, Len(s))
  <1>1. Len(s) \in 0 .. Len(s)
    OBVIOUS
  <1>2. a \in Seq(S) /\ Len(a) = Len(s) /\ \A i \in 1 .. Len(s) : a[i] = s[i]
    BY <1>1, Prefix
  <1> HIDE DEF a
  <1>3. a = s
    BY <1>2, SeqEqual
  <1> QED BY <1>3 DEF a

LEMMA FrontFacts ==
    ASSUME NEW S, NEW s \in Seq(S), s # <<>>
    PROVE  /\ Len(s) \in Nat \ {0} /\ Front(s) = SubSeq(s, 1, Len(s) - 1)
           /\ Front(s) \in Seq(S) /\ Len(Front(s)) = Len(s) - 1
           /\ DOMAIN Front(s) = 1 .. Len(s) - 1
           /\ \A i \in 1 .. Len(s) - 1 : Front(s)[i] = s[i]
  <1>1. Len(s) \in Nat \ {0}
    BY EmptySeq
  <1>2. Len(s) - 1 \in 0 .. Len(s)
    BY <1>1
  <1> DEFINE f == SubSeq(s, 1, Len(s) - 1)
  <1>3. f \in Seq(S) /\ Len(f) = Len(s) - 1 /\ DOMAIN f = 1 .. Len(s) - 1
        /\ \A i \in 1 .. Len(s) - 1 : f[i] = s[i]
    BY <1>2, Prefix
  <1>4. Front(s) = f
    BY DEF Front
  <1> HIDE DEF f
  <1>5. Front(s) \in Seq(S) /\ Len(Front(s)) = Len(s) - 1 /\ DOMAIN Front(s) = 1 .. Len(s) - 1
        /\ \A i \in 1 .. Len(s) - 1 : Front(s)[i] = s[i]
    BY <1>3, <1>4
  <1> QED BY <1>1, <1>4, <1>5 DEF f

\* Removing the last element leaves the front.
LEMMA RemoveLast ==
    ASSUME NEW S, NEW s \in Seq(S), s # <<>>
    PROVE  RemoveAt(s, Len(s)) = Front(s)
  <1> DEFINE n == Len(s)
             e == SubSeq(s, n + 1, n)
  <1>1. n \in Nat \ {0} /\ n \in 0 .. Len(s) /\ Front(s) \in Seq(S)
        /\ Front(s) = SubSeq(s, 1, n - 1)
    BY FrontFacts
  <1>2. e \in Seq(S) /\ Len(e) = n - n
    BY <1>1, Suffix
  <1> HIDE DEF e
  <1>3. Len(e) = 0
    BY <1>1, <1>2
  <1>4. e = <<>>
    BY <1>2, <1>3, EmptySeq
  <1>5. RemoveAt(s, n) = Front(s) \o e
    BY <1>1 DEF RemoveAt, e
  <1>6. Front(s) \o <<>> = Front(s)
    BY <1>1, ConcatEmptySeq
  <1> QED BY <1>4, <1>5, <1>6

(***************************************************************************)
(* What the hooks' operations do to their state.                           *)
(***************************************************************************)

HookTypes(h) ==
    /\ DOMAIN h = {"current", "stack", "frames", "wrappers"}
    /\ h.current \in Statements /\ h.stack \in Seq(Statements)
    /\ h.frames \in Seq(Queries) /\ h.wrappers \subseteq Queries

LEMMA PushFacts ==
    ASSUME NEW h, HookTypes(h), NEW q \in Queries
    PROVE  LET p == PushPlannedStmt(h, q)
           IN  /\ HookTypes(p) /\ p.frames = h.frames /\ p.wrappers = h.wrappers
               /\ Statement(p, 1) = <<q>>
               /\ \A i \in Nat \ {0} : Statement(p, i + 1) = Statement(h, i)
  <1> DEFINE p == PushPlannedStmt(h, q)
             s == <<h.current>> \o h.stack
  <1>1. h.current \in Statements /\ h.stack \in Seq(Statements) /\ Len(h.stack) \in Nat
    BY DEF HookTypes
  <1>2. <<h.current>> \in Seq(Statements) /\ Len(<<h.current>>) = 1
        /\ <<h.current>>[1] = h.current
    BY <1>1
  <1>3. /\ s \in Seq(Statements) /\ Len(s) = 1 + Len(h.stack)
        /\ \A i \in 1 .. 1 + Len(h.stack) :
              s[i] = IF i <= 1 THEN <<h.current>>[i] ELSE h.stack[i - 1]
    <2> HIDE DEF s
    <2> DEFINE u == <<h.current>>
    <2> HIDE DEF u
    <2>1. u \in Seq(Statements) /\ Len(u) = 1
      BY <1>2 DEF u
    <2>2. /\ u \o h.stack \in Seq(Statements) /\ Len(u \o h.stack) = Len(u) + Len(h.stack)
          /\ \A i \in 1 .. Len(u) + Len(h.stack) :
                (u \o h.stack)[i] = IF i <= Len(u) THEN u[i] ELSE h.stack[i - Len(u)]
      BY <1>1, <2>1, ConcatProperties
    <2>3. s = u \o h.stack
      BY DEF s, u
    <2> QED BY <2>1, <2>2, <2>3 DEF u
  <1>4. s[1] = h.current /\ \A i \in 1 .. Len(h.stack) : s[i + 1] = h.stack[i]
    BY <1>1, <1>2, <1>3
  <1>5. DOMAIN s = 1 .. Len(h.stack) + 1 /\ DOMAIN h.stack = 1 .. Len(h.stack)
    BY <1>1, <1>3
  <1> HIDE DEF s
  <1>6. <<q>> \in Statements
    BY DEF Statements
  <1>7. /\ p.current = <<q>> /\ p.stack = s /\ p.frames = h.frames /\ p.wrappers = h.wrappers
        /\ DOMAIN p = DOMAIN h
    BY DEF PushPlannedStmt, HookTypes, s
  <1> HIDE DEF p
  <1>8. HookTypes(p)
    BY <1>3, <1>6, <1>7 DEF HookTypes
  <1>9. Statement(p, 1) = <<q>>
    BY <1>7 DEF Statement
  <1>10. ASSUME NEW i \in Nat \ {0} PROVE Statement(p, i + 1) = Statement(h, i)
    <2>1. Statement(p, i + 1) = IF i \in 1 .. Len(h.stack) + 1 THEN s[i] ELSE NoStatement
      BY <1>5, <1>7 DEF Statement
    <2>2. CASE i = 1
      BY <1>1, <1>4, <2>1, <2>2 DEF Statement
    <2>3. CASE i # 1
      <3>1. i - 1 \in Nat \ {0} /\ (i \in 1 .. Len(h.stack) + 1) = (i - 1 \in 1 .. Len(h.stack))
        BY <1>1, <2>3
      <3>2. i - 1 \in 1 .. Len(h.stack) => s[i] = h.stack[i - 1]
        BY <1>4, <3>1
      <3> QED BY <1>5, <2>1, <2>3, <3>1, <3>2 DEF Statement
    <2> QED BY <2>2, <2>3
  <1> QED BY <1>7, <1>8, <1>9, <1>10 DEF p

LEMMA PopFacts ==
    ASSUME NEW h, HookTypes(h)
    PROVE  LET p == PopPlannedStmt(h)
           IN  /\ HookTypes(p) /\ p.frames = h.frames /\ p.wrappers = h.wrappers
               /\ \A i \in Nat \ {0} : Statement(p, i) = Statement(h, i + 1)
  <1> DEFINE p == PopPlannedStmt(h)
  <1>1. /\ h.stack \in Seq(Statements) /\ Len(h.stack) \in Nat
        /\ DOMAIN h.stack = 1 .. Len(h.stack)
    BY DEF HookTypes
  <1>2. CASE h.stack = <<>>
    <2>1. /\ p.current = NoStatement /\ p.stack = h.stack /\ p.frames = h.frames
          /\ p.wrappers = h.wrappers /\ DOMAIN p = DOMAIN h
      BY <1>2 DEF PopPlannedStmt, HookTypes
    <2> HIDE DEF p
    <2>2. HookTypes(p)
      BY <2>1 DEF HookTypes, Statements
    <2>3. ASSUME NEW i \in Nat \ {0} PROVE Statement(p, i) = Statement(h, i + 1)
      <3>1. DOMAIN h.stack = {}
        BY <1>2
      <3>2. i + 1 # 1
        OBVIOUS
      <3> QED BY <2>1, <3>1, <3>2 DEF Statement
    <2> QED BY <2>1, <2>2, <2>3 DEF p
  <1>3. CASE h.stack # <<>>
    <2> DEFINE t == Tail(h.stack)
    <2>1. /\ Len(h.stack) \in Nat \ {0} /\ t \in Seq(Statements) /\ Len(t) = Len(h.stack) - 1
          /\ \A i \in 1 .. Len(h.stack) - 1 : t[i] = h.stack[i + 1]
          /\ Head(h.stack) = h.stack[1] /\ h.stack[1] \in Statements
      BY <1>1, <1>3
    <2>2. DOMAIN t = 1 .. Len(h.stack) - 1
      BY <2>1
    <2>3. /\ p.current = h.stack[1] /\ p.stack = t /\ p.frames = h.frames
          /\ p.wrappers = h.wrappers /\ DOMAIN p = DOMAIN h
      BY <1>3, <2>1 DEF PopPlannedStmt, HookTypes
    <2> HIDE DEF p, t
    <2>4. HookTypes(p)
      BY <2>1, <2>3 DEF HookTypes
    <2>5. ASSUME NEW i \in Nat \ {0} PROVE Statement(p, i) = Statement(h, i + 1)
      <3>1. Statement(h, i + 1) = IF i \in 1 .. Len(h.stack) THEN h.stack[i] ELSE NoStatement
        BY <1>1 DEF Statement
      <3>2. CASE i = 1
        BY <2>1, <2>3, <3>1, <3>2 DEF Statement
      <3>3. CASE i # 1
        <4>1. i - 1 \in Nat \ {0} /\ (i \in 1 .. Len(h.stack)) = (i - 1 \in 1 .. Len(h.stack) - 1)
          BY <2>1, <3>3
        <4>2. i - 1 \in 1 .. Len(h.stack) - 1 => t[i - 1] = h.stack[i]
          BY <2>1, <4>1
        <4>3. Statement(p, i) = IF i - 1 \in 1 .. Len(h.stack) - 1 THEN t[i - 1] ELSE NoStatement
          BY <2>2, <2>3, <3>3 DEF Statement
        <4> QED BY <3>1, <4>1, <4>2, <4>3
      <3> QED BY <3>2, <3>3
    <2> QED BY <2>3, <2>4, <2>5 DEF p
  <1> QED BY <1>2, <1>3

LEMMA StartFacts ==
    ASSUME NEW h, HookTypes(h), NEW q \in Queries
    PROVE  LET s == GraphExecutorStart(h, q)
           IN  /\ HookTypes(s)
               /\ s.frames = (IF controller THEN Append(h.frames, q) ELSE h.frames)
               /\ s.wrappers = (IF controller THEN h.wrappers \cup {q} ELSE h.wrappers)
               /\ \A i \in Nat \ {0} : Statement(s, i) = Statement(h, i)
  <1> DEFINE s == GraphExecutorStart(h, q)
  <1>1. Append(h.frames, q) \in Seq(Queries)
    BY AppendProperties DEF HookTypes
  <1>2. /\ DOMAIN s = DOMAIN h /\ s.current = h.current /\ s.stack = h.stack
        /\ s.frames = (IF controller THEN Append(h.frames, q) ELSE h.frames)
        /\ s.wrappers = (IF controller THEN h.wrappers \cup {q} ELSE h.wrappers)
    BY DEF GraphExecutorStart, HookTypes
  <1> HIDE DEF s
  <1>3. HookTypes(s)
    BY <1>1, <1>2 DEF HookTypes
  <1>4. \A i \in Nat \ {0} : Statement(s, i) = Statement(h, i)
    BY <1>2 DEF Statement
  <1> QED BY <1>2, <1>3, <1>4 DEF s

LEMMA RestoreFacts ==
    ASSUME NEW h, HookTypes(h), NEW n \in Nat
    PROVE  LET r == RestorePrevious(h, n)
           IN  /\ HookTypes(r)
               /\ n <= Len(h.frames) =>
                     /\ r.frames = SubSeq(h.frames, 1, Len(h.frames) - n)
                     /\ r.wrappers = h.wrappers
                           \ ToSet(SubSeq(h.frames, Len(h.frames) - n + 1, Len(h.frames)))
               /\ n > Len(h.frames) => r.frames = <<>> /\ r.wrappers = {}
               /\ \A i \in Nat \ {0} : Statement(r, i) = Statement(h, i)
  <1> DEFINE r == RestorePrevious(h, n)
             left == MaxOf(Len(h.frames) - n, 0)
             f == SubSeq(h.frames, 1, left)
             gone == ToSet(SubSeq(h.frames, left + 1, Len(h.frames)))
  <1>1. h.frames \in Seq(Queries) /\ Len(h.frames) \in Nat
    BY DEF HookTypes
  <1>2. /\ left \in 0 .. Len(h.frames)
        /\ n <= Len(h.frames) => left = Len(h.frames) - n
        /\ n > Len(h.frames) => left = 0
    BY <1>1 DEF MaxOf
  <1> HIDE DEF left
  <1>3. f \in Seq(Queries) /\ Len(f) = left
    BY <1>1, <1>2, Prefix
  <1>4. n > Len(h.frames) => f = <<>>
    BY <1>2, <1>3, EmptySeq
  <1>5. /\ DOMAIN r = DOMAIN h /\ r.current = h.current /\ r.stack = h.stack /\ r.frames = f
        /\ r.wrappers = IF n > Len(h.frames) THEN {} ELSE h.wrappers \ gone
    BY DEF RestorePrevious, HookTypes, left
  <1> HIDE DEF r, f, gone
  <1>6. HookTypes(r)
    BY <1>3, <1>5 DEF HookTypes
  <1>7. \A i \in Nat \ {0} : Statement(r, i) = Statement(h, i)
    BY <1>5 DEF Statement
  <1>8. n <= Len(h.frames) =>
           /\ r.frames = SubSeq(h.frames, 1, Len(h.frames) - n)
           /\ r.wrappers = h.wrappers
                 \ ToSet(SubSeq(h.frames, Len(h.frames) - n + 1, Len(h.frames)))
    BY <1>1, <1>2, <1>5 DEF f, gone
  <1>9. n > Len(h.frames) => r.frames = <<>> /\ r.wrappers = {}
    BY <1>4, <1>5
  <1> QED BY <1>6, <1>7, <1>8, <1>9 DEF r

LEMMA ClearFacts ==
    ASSUME NEW h, HookTypes(h)
    PROVE  LET c == ClearPlannedStmtStack(h)
           IN  /\ HookTypes(c) /\ c.frames = h.frames /\ c.wrappers = h.wrappers
               /\ \A i \in Nat \ {0} : Statement(c, i) = NoStatement
  <1> DEFINE c == ClearPlannedStmtStack(h)
  <1>1. /\ DOMAIN c = DOMAIN h /\ c.current = NoStatement /\ c.stack = <<>>
        /\ c.frames = h.frames /\ c.wrappers = h.wrappers
    BY DEF ClearPlannedStmtStack, HookTypes
  <1> HIDE DEF c
  <1>2. NoStatement \in Statements /\ <<>> \in Seq(Statements) /\ DOMAIN <<>> = {}
    BY DEF Statements
  <1>3. HookTypes(c)
    BY <1>1, <1>2 DEF HookTypes
  <1>4. \A i \in Nat \ {0} : Statement(c, i) = NoStatement
    BY <1>1, <1>2 DEF Statement
  <1> QED BY <1>1, <1>3, <1>4 DEF c

\* A set of naturals has a least element, which LowOf picks.
LEMMA LowFacts ==
    ASSUME NEW S, S \subseteq Nat, S # {}
    PROVE  LowOf(S) \in S /\ \A y \in S : LowOf(S) <= y
  <1>1. \E x \in S : \A y \in S : x <= y
    BY LeastExists
  <1> QED BY <1>1 DEF LowOf

(***************************************************************************)
(* The unwinding of an error.                                              *)
(***************************************************************************)

Kept == IF subs = <<>> THEN <<>> ELSE Last(subs).opened
Depth == IF subs = <<>> THEN 0 ELSE Last(subs).depth

\* Where an error stops, and what is below it.
LEMMA UnwindFacts ==
    ASSUME Inv, NEW h, Unwind(h, run)
    PROVE  /\ Depth \in 0 .. Len(run) /\ Len(run) \in Nat /\ Kept \in Seq(Queries)
           /\ hooks' = RunsAbort(h, Len(run) - Depth)
           /\ run' \in Seq(Calls) /\ Len(run') = Depth /\ \A i \in 1 .. Depth : run'[i] = run[i]
           /\ opened' = Kept /\ dropped' = ToSet(Kept)
           /\ subs' \in Seq(Blocks)
           /\ DOMAIN subs' \subseteq DOMAIN subs
           /\ \A i \in DOMAIN subs' : subs'[i] = subs[i] /\ subs[i].depth <= Depth
           /\ controller' = controller /\ nodeCount' = nodeCount
  <1>1. /\ run \in Seq(Calls) /\ Len(run) \in Nat /\ subs \in Seq(Blocks) /\ Len(subs) \in Nat
        /\ DOMAIN subs = 1 .. Len(subs) /\ BlocksInv
    BY DEF Inv, TypeOK
  <1>2. subs # <<>> => /\ Len(subs) \in DOMAIN subs /\ subs[Len(subs)] \in Blocks
                       /\ Last(subs) = subs[Len(subs)]
    <2>1. Last(subs) = subs[Len(subs)]
      BY DEF Last
    <2>2. subs # <<>> => Len(subs) \in Nat \ {0}
      BY <1>1
    <2>3. \A i \in 1 .. Len(subs) : subs[i] \in Blocks
      BY <1>1
    <2> QED BY <1>1, <2>1, <2>2, <2>3
  <1>3. Depth \in 0 .. Len(run) /\ Kept \in Seq(Queries)
    <2>1. CASE subs = <<>>
      BY <1>1, <2>1 DEF Depth, Kept
    <2>2. CASE subs # <<>>
      <3>1. subs[Len(subs)].depth \in Nat /\ subs[Len(subs)].depth <= Len(run)
            /\ subs[Len(subs)].opened \in Seq(Queries)
        BY <1>1, <1>2, <2>2 DEF BlocksInv, Blocks
      <3> QED BY <1>1, <1>2, <2>2, <3>1 DEF Depth, Kept
    <2> QED BY <2>1, <2>2
  <1>4. Len(SubSeq(run, Depth + 1, Len(run))) = Len(run) - Depth
    BY <1>1, <1>3, Suffix
  <1>5. /\ hooks' = RunsAbort(h, Len(run) - Depth)
        /\ run' = SubSeq(run, 1, Depth) /\ opened' = Kept /\ dropped' = ToSet(Kept)
        /\ subs' = (IF subs = <<>> THEN <<>> ELSE Front(subs))
        /\ controller' = controller /\ nodeCount' = nodeCount
    BY <1>4 DEF Unwind, Depth, Kept
  <1>6. run' \in Seq(Calls) /\ Len(run') = Depth /\ \A i \in 1 .. Depth : run'[i] = run[i]
    BY <1>1, <1>3, <1>5, Prefix
  <1>7. /\ subs' \in Seq(Blocks) /\ DOMAIN subs' \subseteq DOMAIN subs
        /\ \A i \in DOMAIN subs' : subs'[i] = subs[i] /\ subs[i].depth <= Depth
    <2>1. CASE subs = <<>>
      BY <1>5, <2>1
    <2>2. CASE subs # <<>>
      <3>1. /\ subs' \in Seq(Blocks) /\ DOMAIN subs' = 1 .. Len(subs) - 1
            /\ \A i \in 1 .. Len(subs) - 1 : subs'[i] = subs[i]
        BY <1>1, <1>5, <2>2, FrontFacts
      <3>2. \A i \in 1 .. Len(subs) - 1 : i \in 1 .. Len(subs) /\ i \in DOMAIN subs
        BY <1>1
      <3>3. \A i \in 1 .. Len(subs) : subs[i].depth <= subs[Len(subs)].depth
        BY <1>1, <1>2, <2>2 DEF BlocksInv, Blocks
      <3> QED BY <1>2, <2>2, <3>1, <3>2, <3>3 DEF Depth
    <2> QED BY <2>1, <2>2
  <1> QED BY <1>1, <1>3, <1>5, <1>6, <1>7

\* The tuple target put back is the one that was active at the block.
LEMMA UnwindTarget ==
    ASSUME Inv, NEW h, Unwind(h, run)
    PROVE  active' \in Targets /\ IsTarget(run, active', Depth)
  <1> DEFINE left == SubSeq(run, Depth + 1, Len(run))
             scans == {i \in DOMAIN left : left[i].inScan}
  <1>1. /\ run \in Seq(Calls) /\ Len(run) \in Nat /\ DOMAIN run = 1 .. Len(run)
        /\ active \in Targets /\ TargetInv /\ Depth \in 0 .. Len(run)
    BY UnwindFacts DEF Inv, TypeOK
  <1>2. /\ left \in Seq(Calls) /\ DOMAIN left = 1 .. Len(run) - Depth
        /\ \A i \in 1 .. Len(run) - Depth : left[i] = run[Depth + i]
    BY <1>1, Suffix
  <1>3. active' = IF scans = {} THEN active ELSE left[LowOf(scans)].prev
    BY DEF Unwind, Depth
  <1> HIDE DEF left
  <1>4. CASE scans = {}
    <2>1. \A j \in Depth + 1 .. Len(run) : ~run[j].inScan
      <3> SUFFICES ASSUME NEW j \in Depth + 1 .. Len(run) PROVE ~run[j].inScan
        OBVIOUS
      <3>1. j - Depth \in 1 .. Len(run) - Depth /\ Depth + (j - Depth) = j
        BY <1>1
      <3> QED BY <1>2, <1>4, <3>1
    <2>2. IsTarget(run, active, Depth)
      BY <1>1, <2>1 DEF TargetInv, IsTarget
    <2> QED BY <1>1, <1>3, <1>4, <2>2
  <1>5. CASE scans # {}
    <2> DEFINE m == LowOf(scans)
    <2>1. scans \subseteq Nat /\ scans \subseteq DOMAIN left
      BY <1>1, <1>2
    <2>2. m \in scans /\ \A y \in scans : m <= y
      BY <1>5, <2>1, LowFacts
    <2> HIDE DEF m
    <2>3. m \in 1 .. Len(run) - Depth /\ run[Depth + m].inScan /\ left[m] = run[Depth + m]
      BY <1>2, <2>2
    <2>4. Depth + m \in DOMAIN run /\ run[Depth + m] \in Calls
      BY <1>1, <2>3
    <2>5. IsTarget(run, run[Depth + m].prev, Depth + m - 1)
      BY <1>1, <2>3, <2>4 DEF TargetInv
    <2>6. \A j \in Depth + 1 .. Depth + m - 1 : ~run[j].inScan
      <3> SUFFICES ASSUME NEW j \in Depth + 1 .. Depth + m - 1, run[j].inScan PROVE FALSE
        OBVIOUS
      <3>1. j - Depth \in 1 .. Len(run) - Depth /\ Depth + (j - Depth) = j /\ j - Depth < m
        BY <1>1, <2>3
      <3>2. j - Depth \in scans
        BY <1>2, <3>1
      <3> QED BY <1>1, <2>2, <2>3, <3>1, <3>2
    <2>7. IsTarget(run, run[Depth + m].prev, Depth)
      BY <1>1, <2>3, <2>5, <2>6 DEF IsTarget
    <2>8. active' = run[Depth + m].prev /\ run[Depth + m].prev \in Targets
      BY <1>3, <1>5, <2>3, <2>4 DEF m, Calls
    <2> QED BY <2>7, <2>8
  <1> QED BY <1>4, <1>5

\* An error leaves the queries, statements and frames of the block it stops at.
LEMMA UnwindInv ==
    ASSUME Inv, NEW h, HookTypes(h), h.frames = hooks.frames, h.wrappers = hooks.wrappers,
           ~OpenPortals => Len(opened) = Len(run), Unwind(h, run)
    PROVE  Inv'
  <1> DEFINE d == Depth
             n == Len(run) - d
             a == RestorePrevious(h, n)
  <1>1. /\ d \in 0 .. Len(run) /\ Len(run) \in Nat /\ Kept \in Seq(Queries)
        /\ hooks' = RunsAbort(h, n)
        /\ run' \in Seq(Calls) /\ Len(run') = d /\ \A i \in 1 .. d : run'[i] = run[i]
        /\ opened' = Kept /\ dropped' = ToSet(Kept)
        /\ subs' \in Seq(Blocks)
        /\ DOMAIN subs' \subseteq DOMAIN subs
        /\ \A i \in DOMAIN subs' : subs'[i] = subs[i] /\ subs[i].depth <= d
        /\ controller' = controller /\ nodeCount' = nodeCount
    BY UnwindFacts
  <1>2. active' \in Targets /\ IsTarget(run, active', d)
    BY UnwindTarget
  <1>3. n \in Nat
    BY <1>1
  <1>4. /\ HookTypes(hooks') /\ hooks'.frames = a.frames /\ hooks'.wrappers = a.wrappers
        /\ \A i \in Nat \ {0} : Statement(hooks', i) = NoStatement
    <2>1. HookTypes(a)
      BY <1>3, RestoreFacts
    <2>2. hooks' = ClearPlannedStmtStack(a)
      BY <1>1 DEF RunsAbort
    <2> HIDE DEF a
    <2> QED BY <2>1, <2>2, ClearFacts
  <1>5. TypeOK'
    <2>1. ToSet(Kept) \subseteq Queries
      BY <1>1 DEF ToSet
    <2> QED BY <1>1, <1>2, <1>4, <2>1 DEF Inv, TypeOK, HookTypes
  <1>6. BlocksInv'
    <2>1. \A i \in DOMAIN subs' : \A j \in 1 .. i : j \in DOMAIN subs' /\ j \in DOMAIN subs
      BY <1>1
    <2> QED BY <1>1, <2>1 DEF Inv, BlocksInv
  <1>7. TargetInv'
    <2>1. /\ DOMAIN run' = 1 .. d /\ DOMAIN run = 1 .. Len(run) /\ TargetInv
          /\ \A i \in 1 .. d : i \in DOMAIN run
      BY <1>1 DEF Inv, TypeOK
    <2>2. IsTarget(run', active', d)
      <3>1. d \in Nat /\ IsTarget(run, active', d) /\ \A i \in 1 .. d : run'[i] = run[i]
        BY <1>1, <1>2
      <3> DEFINE t == active'
      <3> HIDE DEF d, t
      <3>2. IsTarget(run, t, d)
        BY <3>1 DEF t
      <3>3. IsTarget(run', t, d)
        BY <3>1, <3>2 DEF IsTarget
      <3> QED BY <3>3 DEF t
    <2>3. ASSUME NEW i \in 1 .. d, run'[i].inScan PROVE IsTarget(run', run'[i].prev, i - 1)
      <3>1. run'[i] = run[i] /\ \A j \in 1 .. i - 1 : run'[j] = run[j]
        BY <1>1
      <3>2. IsTarget(run, run[i].prev, i - 1)
        BY <2>1, <2>3, <3>1 DEF TargetInv
      <3> QED BY <3>1, <3>2 DEF IsTarget
    <2>4. controller' = controller /\ Len(run') = d
      BY <1>1
    <2> HIDE DEF d
    <2> QED BY <2>1, <2>2, <2>3, <2>4 DEF TargetInv, IsTarget
  <1>8. ~OpenPortals => (NestingInv /\ FramesInv /\ StatementsInv)'
    <2> SUFFICES ASSUME ~OpenPortals PROVE (NestingInv /\ FramesInv /\ StatementsInv)'
      OBVIOUS
    <2>1. /\ NestingInv /\ FramesInv /\ StatementsInv /\ Len(opened) = Len(run)
          /\ opened \in Seq(Queries) /\ subs \in Seq(Blocks)
      BY DEF Inv, TypeOK
    <2>2. Kept = SubSeq(opened, 1, d)
      <3>1. CASE subs = <<>>
        <4>1. d = 0 /\ Kept = <<>>
          BY <3>1 DEF Depth, Kept
        <4>2. SubSeq(opened, 1, 0) \in Seq(Queries) /\ Len(SubSeq(opened, 1, 0)) = 0
          BY <1>1, <2>1, <4>1, Prefix
        <4> QED BY <4>1, <4>2, EmptySeq
      <3>2. CASE subs # <<>>
        <4>1. Len(subs) \in DOMAIN subs
          BY <2>1, <3>2
        <4>2. d = subs[Len(subs)].depth /\ Kept = subs[Len(subs)].opened
          BY <3>2 DEF Depth, Kept, Last
        <4> QED BY <2>1, <4>1, <4>2 DEF NestingInv
      <3> QED BY <3>1, <3>2
    <2>3. /\ opened' \in Seq(Queries) /\ Len(opened') = d /\ DOMAIN opened' = 1 .. d
          /\ \A i \in 1 .. d : opened'[i] = opened[i]
      BY <1>1, <2>1, <2>2, Prefix
    <2>4. DOMAIN opened = 1 .. Len(opened)
      BY <2>1
    <2>5. NestingInv'
      <3>1. ASSUME NEW i \in 1 .. d, NEW j \in 1 .. d, opened'[i] = opened'[j] PROVE i = j
        <4>1. i \in DOMAIN opened /\ j \in DOMAIN opened /\ opened[i] = opened[j]
          BY <1>1, <2>1, <2>3, <2>4, <3>1
        <4> QED BY <2>1, <4>1 DEF NestingInv
      <3>2. ASSUME NEW i \in DOMAIN run' PROVE run'[i].query = opened'[i]
        <4>1. DOMAIN run' = 1 .. d /\ DOMAIN run = 1 .. Len(run)
          BY <1>1 DEF Inv, TypeOK
        <4>2. i \in 1 .. d /\ i \in DOMAIN run
          BY <1>1, <3>2, <4>1
        <4>3. run[i].query = opened[i]
          BY <2>1, <4>2 DEF NestingInv
        <4> QED BY <1>1, <2>3, <4>2, <4>3
      <3>3. ASSUME NEW i \in DOMAIN subs'
            PROVE  subs'[i].opened = SubSeq(opened', 1, subs'[i].depth)
        <4>0. subs'[i] = subs[i] /\ i \in DOMAIN subs /\ subs[i].depth <= d
          BY <1>1, <3>3
        <4>1. subs'[i] = subs[i] /\ i \in DOMAIN subs /\ subs[i].depth <= d /\ subs[i].depth \in Nat
          <5>1. subs[i] \in Blocks
            BY <2>1, <4>0
          <5> QED BY <4>0, <5>1 DEF Blocks
        <4>2. subs[i].opened = SubSeq(opened, 1, subs[i].depth)
          BY <2>1, <4>1 DEF NestingInv
        <4> DEFINE k == subs[i].depth
        <4>3. k \in 0 .. Len(opened') /\ k <= Len(opened)
          BY <1>1, <2>1, <2>3, <4>1
        <4>4. \A j \in 1 .. k : opened'[j] = opened[j]
          BY <1>1, <2>3, <4>1
        <4> HIDE DEF k
        <4>5. SubSeq(opened', 1, k) = SubSeq(opened, 1, k)
          BY <2>1, <2>3, <4>3, <4>4, SamePrefix
        <4> QED BY <4>1, <4>2, <4>5 DEF k
      <3> QED BY <1>1, <2>3, <3>1, <3>2, <3>3 DEF NestingInv
    <2>6. FramesInv'
      <3>1. CASE controller
        <4>1. h.frames = opened /\ h.wrappers = ToSet(opened)
          BY <2>1, <3>1 DEF FramesInv
        <4>2. n <= Len(h.frames) /\ Len(h.frames) - n = d
          <5>1. Len(h.frames) = Len(run)
            BY <2>1, <4>1
          <5> QED BY <1>1, <5>1
        <4>3. /\ a.frames = SubSeq(opened, 1, d)
              /\ a.wrappers = ToSet(opened) \ ToSet(SubSeq(opened, d + 1, Len(opened)))
          <5>1. /\ a.frames = SubSeq(h.frames, 1, Len(h.frames) - n)
                /\ a.wrappers = h.wrappers
                      \ ToSet(SubSeq(h.frames, Len(h.frames) - n + 1, Len(h.frames)))
            BY <1>3, <4>2, RestoreFacts
          <5> HIDE DEF a, d, n
          <5> QED BY <4>1, <4>2, <5>1
        <4> DEFINE e == SubSeq(opened, d + 1, Len(opened))
        <4>4. /\ DOMAIN e = 1 .. Len(opened) - d
              /\ \A i \in 1 .. Len(opened) - d : e[i] = opened[d + i]
          BY <1>1, <2>1, Suffix
        <4> HIDE DEF e
        <4>5. ToSet(opened) \ ToSet(e) = ToSet(opened')
          <5>1. ASSUME NEW x \in ToSet(opened'), x \in ToSet(e) PROVE FALSE
            <6>1. PICK i \in 1 .. d : x = opened[i]
              BY <2>3, <5>1 DEF ToSet
            <6>2. PICK j \in 1 .. Len(opened) - d : x = opened[d + j]
              BY <4>4, <5>1 DEF ToSet
            <6>3. i \in DOMAIN opened /\ d + j \in DOMAIN opened /\ i # d + j
              BY <1>1, <2>1, <2>4
            <6> QED BY <2>1, <6>1, <6>2, <6>3 DEF NestingInv
          <5>2. ToSet(opened') \subseteq ToSet(opened)
            BY <1>1, <2>1, <2>3, <2>4 DEF ToSet
          <5>3. ASSUME NEW x \in ToSet(opened), x \notin ToSet(e) PROVE x \in ToSet(opened')
            <6>1. PICK i \in 1 .. Len(opened) : x = opened[i]
              BY <2>4, <5>3 DEF ToSet
            <6>2. CASE i <= d
              <7>1. i \in DOMAIN opened' /\ opened'[i] = x
                BY <1>1, <2>3, <6>1, <6>2
              <7> QED BY <7>1 DEF ToSet
            <6>3. CASE ~ (i <= d)
              <7>1. i - d \in DOMAIN e /\ e[i - d] = x
                BY <1>1, <2>1, <4>4, <6>1, <6>3
              <7> QED BY <5>3, <7>1 DEF ToSet
            <6> QED BY <6>2, <6>3
          <5> QED BY <5>1, <5>2, <5>3
        <4>6. hooks'.frames = opened' /\ hooks'.wrappers = ToSet(opened')
          BY <1>1, <1>4, <2>2, <4>3, <4>5 DEF e
        <4> QED BY <1>1, <3>1, <4>6 DEF FramesInv
      <3>2. CASE ~controller
        <4>1. h.frames = <<>> /\ h.wrappers = {} /\ Len(h.frames) = 0
          BY <2>1, <3>2 DEF FramesInv, ToSet
        <4>2. a.frames = <<>> /\ a.wrappers = {}
          <5>1. CASE n = 0
            <6>1. a.frames = SubSeq(h.frames, 1, 0 - 0)
                  /\ a.wrappers \subseteq h.wrappers
              <7>1. /\ a.frames = SubSeq(h.frames, 1, Len(h.frames) - n)
                    /\ a.wrappers \subseteq h.wrappers
                <8>1. n <= Len(h.frames)
                  BY <4>1, <5>1
                <8>2. a.wrappers = h.wrappers
                         \ ToSet(SubSeq(h.frames, Len(h.frames) - n + 1, Len(h.frames)))
                  BY <1>3, <8>1, RestoreFacts
                <8>3. a.frames = SubSeq(h.frames, 1, Len(h.frames) - n)
                  BY <1>3, <8>1, RestoreFacts
                <8> HIDE DEF a, n
                <8> QED BY <8>2, <8>3
              <7> HIDE DEF a, n
              <7> QED BY <4>1, <5>1, <7>1
            <6>2. SubSeq(<<>>, 1, 0) = <<>>
              BY SubSeqEmpty
            <6> HIDE DEF a
            <6> QED BY <4>1, <6>1, <6>2
          <5>2. CASE n # 0
            <6>1. n > Len(h.frames)
              BY <1>3, <4>1, <5>2
            <6> QED BY <1>3, <6>1, RestoreFacts
          <5> QED BY <5>1, <5>2
        <4> HIDE DEF a
        <4>3. ToSet(<<>>) = {}
          BY DEF ToSet
        <4> QED BY <1>1, <1>4, <3>2, <4>2, <4>3 DEF FramesInv
      <3> QED BY <3>1, <3>2
    <2>7. StatementsInv'
      <3> SUFFICES ASSUME NEW i \in Nat \ {0}
                   PROVE  /\ Statement(hooks', i) = NoStatement
                          /\ i <= Len(opened') => opened'[Len(opened') + 1 - i] \in dropped'
        BY DEF StatementsInv, Statement
      <3>1. i <= Len(opened') => Len(opened') + 1 - i \in DOMAIN opened'
        BY <1>1, <2>3
      <3> QED BY <1>1, <1>4, <3>1 DEF ToSet
    <2> QED BY <2>5, <2>6, <2>7
  <1> QED BY <1>1, <1>5, <1>6, <1>7, <1>8 DEF Inv

(***************************************************************************)
(* Where the queries stand.                                                *)
(***************************************************************************)

LEMMA Places ==
    ASSUME Inv
    PROVE  /\ opened \in Seq(Queries) /\ Len(opened) \in Nat /\ DOMAIN opened = 1 .. Len(opened)
           /\ run \in Seq(Calls) /\ Len(run) \in Nat /\ DOMAIN run = 1 .. Len(run)
           /\ \A i \in DOMAIN run : /\ run[i].query \in Queries /\ run[i].inScan \in BOOLEAN
                                    /\ run[i].prev \in Targets
                                    /\ DOMAIN run[i] = {"query", "inScan", "prev"}
           /\ Open = {opened[i] : i \in DOMAIN opened} /\ Open \subseteq Queries
           /\ Last(opened) = opened[Len(opened)] /\ Top = run[Len(run)]
           /\ HookTypes(hooks)
  <1>1. run \in Seq(Calls) /\ opened \in Seq(Queries) /\ HookTypes(hooks)
    BY DEF Inv, TypeOK, HookTypes
  <1>2. \A i \in DOMAIN run : run[i] \in Calls
    BY <1>1
  <1>3. \A c \in Calls : /\ c.query \in Queries /\ c.inScan \in BOOLEAN /\ c.prev \in Targets
                         /\ DOMAIN c = {"query", "inScan", "prev"}
    BY DEF Calls
  <1> QED BY <1>1, <1>2, <1>3 DEF Open, ToSet, Last, Top

\* The running query at the top of a statement is the newest open one.
LEMMA IdleIsNewest ==
    ASSUME Inv, ~OpenPortals, Idle
    PROVE  Len(opened) = Len(run)
  <1>1. /\ run # <<>> /\ Len(run) \in Nat \ {0} /\ NestingInv
        /\ opened[Len(opened)] = run[Len(run)].query
    BY Places, EmptySeq DEF Idle, Inv
  <1>2. Len(run) \in DOMAIN run /\ Len(run) \in DOMAIN opened /\ Len(opened) \in DOMAIN opened
    BY <1>1, Places DEF NestingInv
  <1>3. run[Len(run)].query = opened[Len(run)]
    BY <1>1, <1>2 DEF NestingInv
  <1> QED BY <1>1, <1>2, <1>3 DEF NestingInv

LEMMA AllRunning ==
    ASSUME Inv, ~OpenPortals, Open = Running
    PROVE  Len(opened) = Len(run)
  <1>1. /\ Len(opened) \in Nat /\ DOMAIN opened = 1 .. Len(opened)
        /\ Len(run) \in Nat /\ DOMAIN run = 1 .. Len(run)
        /\ Open = {opened[i] : i \in DOMAIN opened}
    BY Places
  <1>2. /\ \A i, j \in DOMAIN opened : opened[i] = opened[j] => i = j
        /\ Len(run) <= Len(opened) /\ Len(opened) <= Len(run) + 1
        /\ \A i \in DOMAIN run : run[i].query = opened[i]
    BY DEF Inv, NestingInv
  <1>3. ASSUME Len(opened) = Len(run) + 1 PROVE FALSE
    <2>1. Len(opened) \in DOMAIN opened
      BY <1>1, <1>3
    <2>2. opened[Len(opened)] \in Running
      BY <1>1, <2>1
    <2>3. PICK i \in DOMAIN run : run[i].query = opened[Len(opened)]
      BY <2>2 DEF Running
    <2>4. i \in DOMAIN opened /\ i # Len(opened)
      BY <1>1, <1>3, <2>3
    <2>5. opened[i] = opened[Len(opened)]
      BY <1>2, <2>3
    <2> QED BY <1>2, <2>1, <2>4, <2>5
  <1>4. \A m, n \in Nat : m <= n /\ n <= m + 1 => n = m \/ n = m + 1
    OBVIOUS
  <1>5. Len(opened) = Len(run) \/ Len(opened) = Len(run) + 1
    BY <1>1, <1>2, <1>4
  <1> QED BY <1>3, <1>5

LEMMA NewestNotRunning ==
    ASSUME Inv, ~OpenPortals, NEW q \in Open \ Running
    PROVE  Len(opened) = Len(run) + 1 /\ opened[Len(opened)] = q
  <1>1. NestingInv /\ Len(opened) \in Nat /\ Len(run) \in Nat
    BY Places DEF Inv
  <1>2. PICK i \in DOMAIN opened : opened[i] = q
    BY Places
  <1>3. i > Len(run)
    <2> SUFFICES ASSUME ~ (i > Len(run)) PROVE FALSE
      OBVIOUS
    <2>1. i \in DOMAIN run
      BY <1>1, <1>2, Places
    <2>2. run[i].query = q
      BY <1>1, <1>2, <2>1 DEF NestingInv
    <2> QED BY <2>1, <2>2 DEF Running
  <1>4. Len(opened) <= Len(run) + 1 /\ i \in 1 .. Len(opened)
    BY <1>1, <1>2, Places DEF NestingInv
  <1> QED BY <1>1, <1>2, <1>3, <1>4

(***************************************************************************)
(* The actions.                                                            *)
(***************************************************************************)

\* What concerns neither the hooks nor the calls keeps the invariant.
LEMMA Elsewhere ==
    ASSUME Inv, UNCHANGED <<hooks, active, opened, run, subs, controller, dropped>>,
           nodeCount' \in FirstNodes .. MaxNodes
    PROVE  Inv'
  <1>1. TypeOK' /\ BlocksInv' /\ TargetInv'
    BY DEF Inv, TypeOK, BlocksInv, TargetInv, IsTarget
  <1>2. ~OpenPortals => (NestingInv /\ FramesInv /\ StatementsInv)'
    BY DEF Inv, NestingInv, FramesInv, StatementsInv
  <1> QED BY <1>1, <1>2 DEF Inv

LEMMA StartQueryInv ==
    ASSUME Inv, NEW q \in Queries, StartQuery(q)
    PROVE  Inv'
  <1> DEFINE p == PushPlannedStmt(hooks, q)
  <1>1. /\ CanStart(q) /\ hooks' = GraphExecutorStart(p, q) /\ opened' = Append(opened, q)
        /\ dropped' = dropped \ {q} /\ UNCHANGED <<active, run, subs, cache, nodeCount, controller>>
    BY DEF StartQuery
  <1>2. /\ HookTypes(p) /\ p.frames = hooks.frames /\ p.wrappers = hooks.wrappers
        /\ Statement(p, 1) = <<q>>
        /\ \A i \in Nat \ {0} : Statement(p, i + 1) = Statement(hooks, i)
    BY Places, PushFacts
  <1> HIDE DEF p
  <1>3. /\ HookTypes(hooks')
        /\ hooks'.frames = (IF controller THEN Append(p.frames, q) ELSE p.frames)
        /\ hooks'.wrappers = (IF controller THEN p.wrappers \cup {q} ELSE p.wrappers)
        /\ \A i \in Nat \ {0} : Statement(hooks', i) = Statement(p, i)
    BY <1>1, <1>2, StartFacts
  <1>4. /\ opened' \in Seq(Queries) /\ Len(opened') = Len(opened) + 1
        /\ \A i \in 1 .. Len(opened) : opened'[i] = opened[i]
        /\ opened'[Len(opened) + 1] = q /\ DOMAIN opened' = 1 .. Len(opened) + 1
        /\ Len(opened) \in Nat
    BY <1>1, Places, AppendProperties
  <1>5. TypeOK'
    BY <1>1, <1>3, <1>4 DEF Inv, TypeOK, HookTypes
  <1>6. BlocksInv' /\ TargetInv'
    BY <1>1 DEF Inv, BlocksInv, TargetInv, IsTarget
  <1>7. ~OpenPortals => (NestingInv /\ FramesInv /\ StatementsInv)'
    <2> SUFFICES ASSUME ~OpenPortals PROVE (NestingInv /\ FramesInv /\ StatementsInv)'
      OBVIOUS
    <2>1. NestingInv /\ FramesInv /\ StatementsInv /\ Len(opened) = Len(run) /\ q \notin Open
      BY <1>1, AllRunning DEF Inv, CanStart, Open
    <2>2. \A i \in 1 .. Len(opened) : i \in DOMAIN opened /\ opened[i] # q
      BY <2>1, Places
    <2>3. NestingInv'
      <3>1. ASSUME NEW i \in DOMAIN opened', NEW j \in DOMAIN opened', opened'[i] = opened'[j]
            PROVE  i = j
        BY <1>4, <2>1, <2>2, <3>1 DEF NestingInv
      <3>2. \A i \in DOMAIN run : run[i].query = opened'[i]
        BY <1>4, <2>1, Places DEF NestingInv
      <3>3. ASSUME NEW i \in DOMAIN subs
            PROVE  subs[i].opened = SubSeq(opened', 1, subs[i].depth)
        <4> DEFINE k == subs[i].depth
        <4>1. k \in Nat /\ k <= Len(run) /\ subs[i].opened = SubSeq(opened, 1, k)
          <5>1. subs[i] \in Blocks
            BY <3>3 DEF Inv, TypeOK
          <5> QED BY <2>1, <3>3, <5>1 DEF Inv, BlocksInv, NestingInv, Blocks
        <4> HIDE DEF k
        <4>2. SubSeq(opened, 1, k) = SubSeq(opened', 1, k)
          BY <1>4, <2>1, <4>1, Places, SamePrefix
        <4> QED BY <4>1, <4>2 DEF k
      <3>4. Len(run') <= Len(opened') /\ Len(opened') <= Len(run') + 1
        BY <1>1, <1>4, <2>1
      <3> QED BY <1>1, <3>1, <3>2, <3>3, <3>4 DEF NestingInv
    <2>4. FramesInv'
      <3>1. ToSet(opened') = ToSet(opened) \cup {q}
        BY <1>4, Places DEF ToSet
      <3>2. CASE controller
        <4>1. hooks.frames = opened /\ hooks.wrappers = ToSet(opened)
          BY <2>1, <3>2 DEF FramesInv
        <4>2. hooks'.frames = opened' /\ hooks'.wrappers = ToSet(opened')
          BY <1>1, <1>2, <1>3, <3>1, <3>2, <4>1
        <4> QED BY <1>1, <3>2, <4>2 DEF FramesInv
      <3>3. CASE ~controller
        BY <1>1, <1>2, <1>3, <2>1, <3>3 DEF FramesInv
      <3> QED BY <3>2, <3>3
    <2>5. StatementsInv'
      <3> SUFFICES ASSUME NEW i \in Nat \ {0}
                   PROVE  Statement(hooks', i) =
                             IF i <= Len(opened') /\ opened'[Len(opened') + 1 - i] \notin dropped'
                             THEN <<opened'[Len(opened') + 1 - i]>> ELSE NoStatement
        BY DEF StatementsInv, Statement
      <3>1. CASE i = 1
        <4>1. opened'[Len(opened') + 1 - i] = q /\ i <= Len(opened')
          BY <1>4, <3>1
        <4> QED BY <1>1, <1>2, <1>3, <3>1, <4>1
      <3>2. CASE i # 1
        <4> DEFINE k == i - 1
        <4>1. k \in Nat \ {0} /\ Statement(hooks', i) = Statement(hooks, k)
          BY <1>2, <1>3, <3>2
        <4>2. Statement(hooks, k) = IF k <= Len(opened) /\ opened[Len(opened) + 1 - k] \notin dropped
                                    THEN <<opened[Len(opened) + 1 - k]>> ELSE NoStatement
          BY <2>1, <4>1 DEF StatementsInv
        <4>3. (i <= Len(opened')) = (k <= Len(opened))
          BY <1>4
        <4>4. k <= Len(opened) => opened'[Len(opened') + 1 - i] = opened[Len(opened) + 1 - k]
              /\ opened[Len(opened) + 1 - k] # q
          <5> SUFFICES ASSUME k <= Len(opened)
                       PROVE  opened'[Len(opened') + 1 - i] = opened[Len(opened) + 1 - k]
                              /\ opened[Len(opened) + 1 - k] # q
            OBVIOUS
          <5>1. Len(opened') + 1 - i = Len(opened) + 1 - k /\ Len(opened) + 1 - k \in 1 .. Len(opened)
            BY <1>4, <4>1
          <5> QED BY <1>4, <2>2, <5>1
        <4> QED BY <1>1, <4>1, <4>2, <4>3, <4>4
      <3> QED BY <3>1, <3>2
    <2> QED BY <2>3, <2>4, <2>5
  <1> QED BY <1>1, <1>5, <1>6, <1>7 DEF Inv

LEMMA StartFailsInv ==
    ASSUME Inv, NEW q \in Queries, StartFails(q)
    PROVE  Inv'
  <1> DEFINE p == PushPlannedStmt(hooks, q)
             h == PopPlannedStmt(p)
  <1>1. CanStart(q) /\ Unwind(h, run)
    BY DEF StartFails
  <1>2. HookTypes(p) /\ p.frames = hooks.frames /\ p.wrappers = hooks.wrappers
    BY Places, PushFacts
  <1>3. HookTypes(h) /\ h.frames = hooks.frames /\ h.wrappers = hooks.wrappers
    <2> HIDE DEF p
    <2> QED BY <1>2, PopFacts
  <1>4. ~OpenPortals => Len(opened) = Len(run)
    BY <1>1, AllRunning DEF CanStart, Open
  <1> HIDE DEF h
  <1> QED BY <1>1, <1>3, <1>4, UnwindInv

\* Calls that agree on the first k have the same tuple target there.
LEMMA SameTarget ==
    ASSUME NEW r, NEW s, NEW t, NEW k \in Nat, IsTarget(r, t, k),
           \A i \in 1 .. k : s[i].inScan = r[i].inScan /\ s[i].query = r[i].query
    PROVE  IsTarget(s, t, k)
  <1>1. CASE t = NoLimit /\ (controller => \A i \in 1 .. k : ~r[i].inScan)
    BY <1>1 DEF IsTarget
  <1>2. CASE /\ controller
             /\ \E i \in 1 .. k : /\ r[i].inScan /\ t = ControlledTarget(Plan[r[i].query])
                                  /\ \A j \in i + 1 .. k : ~r[j].inScan
    <2>1. PICK i \in 1 .. k : /\ r[i].inScan /\ t = ControlledTarget(Plan[r[i].query])
                              /\ \A j \in i + 1 .. k : ~r[j].inScan
      BY <1>2
    <2>2. \A j \in i + 1 .. k : j \in 1 .. k
      BY <2>1
    <2>3. s[i].inScan /\ t = ControlledTarget(Plan[s[i].query]) /\ \A j \in i + 1 .. k : ~s[j].inScan
      BY <2>1, <2>2
    <2> QED BY <1>2, <2>3 DEF IsTarget
  <1> QED BY <1>1, <1>2 DEF IsTarget

\* A call outside of its scan does not change the tuple target in effect.
LEMMA IdleTarget ==
    ASSUME NEW r, NEW t, NEW k \in Nat, ~r[k + 1].inScan
    PROVE  IsTarget(r, t, k + 1) <=> IsTarget(r, t, k)
  <1>1. 1 .. k + 1 = 1 .. k \cup {k + 1} /\ \A i \in 1 .. k : i + 1 .. k + 1 = i + 1 .. k \cup {k + 1}
    OBVIOUS
  <1> QED BY <1>1 DEF IsTarget

LEMMA RunQueryInv ==
    ASSUME Inv, NEW q \in Queries, RunQuery(q)
    PROVE  Inv'
  <1> DEFINE c == [query |-> q, inScan |-> FALSE, prev |-> NoLimit]
             n == Len(run)
  <1>1. /\ q \in Open \ Running /\ run' = Append(run, c)
        /\ UNCHANGED <<hooks, active, opened, subs, scan, cache, nodeCount, controller, dropped>>
    BY DEF RunQuery
  <1>2. c \in Calls
    BY DEF Calls, Targets
  <1>3. /\ run' \in Seq(Calls) /\ Len(run') = n + 1 /\ DOMAIN run' = 1 .. n + 1
        /\ \A i \in 1 .. n : run'[i] = run[i]
        /\ run'[n + 1] = c /\ n \in Nat
    <2> HIDE DEF c
    <2>1. run \in Seq(Calls) /\ Len(run) \in Nat
      BY Places
    <2> QED BY <1>1, <1>2, <2>1, AppendProperties
  <1>4. c.query = q /\ ~c.inScan
    OBVIOUS
  <1> HIDE DEF c, n
  <1>5. TypeOK'
    BY <1>1, <1>3 DEF Inv, TypeOK
  <1>6. BlocksInv'
    <2>1. \A i \in DOMAIN subs : subs[i].depth \in Nat
      <3>1. \A i \in DOMAIN subs : subs[i] \in Blocks
        BY DEF Inv, TypeOK
      <3> QED BY <3>1 DEF Blocks
    <2>2. Len(run) \in Nat /\ Len(run') = Len(run) + 1
      BY <1>3 DEF n
    <2> QED BY <1>1, <2>1, <2>2 DEF Inv, BlocksInv
  <1>7. TargetInv'
    <2>1. IsTarget(run, active, n) /\ \A i \in DOMAIN run : run[i].inScan => IsTarget(run, run[i].prev, i - 1)
      BY DEF Inv, TargetInv, n
    <2>2. IsTarget(run', active, n)
      BY <1>3, <2>1, SameTarget
    <2>3. IsTarget(run', active, n + 1)
      BY <1>3, <1>4, <2>2, IdleTarget
    <2>4. ASSUME NEW i \in DOMAIN run', run'[i].inScan PROVE IsTarget(run', run'[i].prev, i - 1)
      <3>1. i \in 1 .. n /\ i \in DOMAIN run /\ i - 1 \in Nat /\ run'[i] = run[i]
            /\ \A j \in 1 .. i - 1 : run'[j] = run[j]
        BY <1>3, <1>4, <2>4, Places DEF n
      <3>2. IsTarget(run, run[i].prev, i - 1)
        BY <2>1, <2>4, <3>1
      <3> QED BY <3>1, <3>2, SameTarget
    <2>5. controller' = controller /\ active' = active /\ Len(run') = n + 1
      BY <1>1, <1>3
    <2> QED BY <2>3, <2>4, <2>5 DEF TargetInv, IsTarget
  <1>8. ~OpenPortals => (NestingInv /\ FramesInv /\ StatementsInv)'
    <2> SUFFICES ASSUME ~OpenPortals PROVE (NestingInv /\ FramesInv /\ StatementsInv)'
      OBVIOUS
    <2>1. NestingInv /\ FramesInv /\ StatementsInv
      BY DEF Inv
    <2>2. Len(opened) = n + 1 /\ opened[n + 1] = q
      BY <1>1, NewestNotRunning DEF n
    <2>3. \A i \in DOMAIN run' : run'[i].query = opened[i]
      BY <1>3, <1>4, <2>1, <2>2, Places DEF NestingInv, n
    <2>4. Len(run') <= Len(opened) /\ Len(opened) <= Len(run') + 1
      BY <1>3, <2>2
    <2>5. NestingInv'
      BY <1>1, <2>1, <2>3, <2>4 DEF NestingInv
    <2> QED BY <1>1, <2>1, <2>5 DEF FramesInv, StatementsInv, Statement
  <1> QED BY <1>5, <1>6, <1>7, <1>8 DEF Inv

LEMMA RejectScanInv ==
    ASSUME Inv, RejectScan
    PROVE  Inv'
  <1>1. Unwind(hooks, run) /\ (~OpenPortals => Len(opened) = Len(run))
    BY IdleIsNewest DEF RejectScan
  <1> QED BY <1>1, Places, UnwindInv

LEMMA RaiseInv ==
    ASSUME Inv, Raise
    PROVE  Inv'
  <1>1. Unwind(hooks, run) /\ (~OpenPortals => Len(opened) = Len(run))
    BY AllRunning DEF Raise
  <1> QED BY <1>1, Places, UnwindInv

LEMMA InsertNodeInv ==
    ASSUME Inv, InsertNode
    PROVE  Inv'
  <1>1. nodeCount \in Nat /\ nodeCount \in FirstNodes .. MaxNodes /\ FirstNodes \in Nat /\ MaxNodes \in Nat
    BY AccessAssumption DEF Inv, TypeOK
  <1>2. nodeCount < MaxNodes /\ nodeCount' = nodeCount + 1
        /\ UNCHANGED <<hooks, active, opened, run, subs, controller, dropped>>
    BY DEF InsertNode
  <1>3. nodeCount' \in FirstNodes .. MaxNodes
    BY <1>1, <1>2
  <1> QED BY <1>2, <1>3, Elsewhere

LEMMA CollectScanResultsInv ==
    ASSUME Inv, CollectScanResults
    PROVE  Inv'
  <1>1. UNCHANGED <<hooks, active, opened, run, subs, nodeCount, controller, dropped>>
    BY DEF CollectScanResults
  <1> QED BY <1>1, Elsewhere DEF Inv, TypeOK

LEMMA RescanInv ==
    ASSUME Inv, Rescan
    PROVE  Inv'
  <1>1. UNCHANGED <<hooks, active, opened, run, subs, nodeCount, controller, dropped>>
    BY DEF Rescan
  <1> QED BY <1>1, Elsewhere DEF Inv, TypeOK

(***************************************************************************)
(* Steps of the innermost call.                                            *)
(***************************************************************************)

\* The calls after the innermost one has changed to c.
LEMMA ChangedCall ==
    ASSUME Inv, run # <<>>, NEW c \in Calls, run' = [run EXCEPT ![Len(run)] = c]
    PROVE  /\ Len(run) \in Nat \ {0} /\ run' \in Seq(Calls) /\ Len(run') = Len(run)
           /\ DOMAIN run' = 1 .. Len(run) /\ run'[Len(run)] = c
           /\ \A i \in 1 .. Len(run) - 1 : run'[i] = run[i]
  <1>1. run \in Seq(Calls) /\ Len(run) \in Nat \ {0} /\ DOMAIN run = 1 .. Len(run)
    BY Places, EmptySeq
  <1>2. Len(run) \in 1 .. Len(run)
    BY <1>1
  <1>3. /\ run' \in Seq(Calls) /\ Len(run') = Len(run)
        /\ \A i \in 1 .. Len(run) : run'[i] = IF i = Len(run) THEN c ELSE run[i]
    BY <1>1, <1>2, ExceptSeq
  <1>4. \A i \in 1 .. Len(run) - 1 : i \in 1 .. Len(run) /\ i # Len(run)
    <2>1. \A m \in Nat : \A i \in 1 .. m - 1 : i \in 1 .. m /\ i # m
      OBVIOUS
    <2> QED BY <1>1, <2>1
  <1>5. DOMAIN run' = 1 .. Len(run)
    BY <1>3
  <1> QED BY <1>1, <1>2, <1>3, <1>4, <1>5

\* What keeps the queries of the calls keeps blocks, nesting, frames and
\* statements.
LEMMA SameQueries ==
    ASSUME Inv, UNCHANGED <<hooks, opened, subs, controller, dropped>>,
           Len(run') = Len(run), DOMAIN run' = DOMAIN run,
           \A i \in DOMAIN run : run'[i].query = run[i].query
    PROVE  BlocksInv' /\ (~OpenPortals => (NestingInv /\ FramesInv /\ StatementsInv)')
  <1>1. BlocksInv'
    BY DEF Inv, BlocksInv
  <1>2. ~OpenPortals => NestingInv'
    BY DEF Inv, NestingInv
  <1>3. ~OpenPortals => (FramesInv /\ StatementsInv)'
    BY DEF Inv, FramesInv, StatementsInv, Statement
  <1> QED BY <1>1, <1>2, <1>3

LEMMA EnterScanInv ==
    ASSUME Inv, EnterScan
    PROVE  Inv'
  <1> DEFINE q == Top.query
             n == Len(run)
             c == [Top EXCEPT !.inScan = TRUE, !.prev = active]
             t == IF controller THEN ControlledTarget(Plan[q]) ELSE active
  <1>1. CASE Unwind(hooks, run)
    <2>1. ~OpenPortals => Len(opened) = Len(run)
      BY IdleIsNewest DEF EnterScan
    <2> QED BY <1>1, <2>1, Places, UnwindInv
  <1>2. CASE ~Unwind(hooks, run)
    <2>1. /\ Idle /\ ~Top.inScan /\ run # <<>>
          /\ run' = [run EXCEPT ![n] = c] /\ active' = t
          /\ UNCHANGED <<hooks, opened, subs, cache, nodeCount, controller, dropped>>
      BY <1>2 DEF EnterScan, Idle, Top
    <2>2. n \in Nat \ {0} /\ n \in DOMAIN run /\ Top = run[n]
      BY <2>1, Places, EmptySeq
    <2>3. Top \in Calls /\ active \in Targets /\ TargetInv
      BY <2>2, Places DEF Inv, TypeOK
    <2>4. c \in Calls /\ c.inScan /\ c.prev = active /\ c.query = q /\ q \in Queries
      BY <2>3 DEF Calls
    <2> HIDE DEF c
    <2>5. /\ run' \in Seq(Calls) /\ Len(run') = n /\ DOMAIN run' = 1 .. n
          /\ run'[n] = c /\ \A i \in 1 .. n - 1 : run'[i] = run[i]
      BY <2>1, <2>4, ChangedCall
    <2>6. \A i \in DOMAIN run : run'[i].query = run[i].query
      BY <2>2, <2>4, <2>5, Places
    <2>7. BlocksInv' /\ (~OpenPortals => (NestingInv /\ FramesInv /\ StatementsInv)')
      BY <2>1, <2>5, <2>6, Places, SameQueries
    <2>8. TypeOK'
      <3>1. t \in Targets
        BY <2>3, <2>4 DEF Targets
      <3> QED BY <2>1, <2>5, <3>1 DEF Inv, TypeOK
    <2>9. TargetInv'
      <3>1. IsTarget(run, active, n) /\ \A i \in DOMAIN run : run[i].inScan => IsTarget(run, run[i].prev, i - 1)
        BY <2>3 DEF TargetInv
      <3>2. IsTarget(run', t, n)
        <4>1. CASE controller
          <5>1. /\ n \in 1 .. n /\ run'[n].inScan /\ t = ControlledTarget(Plan[run'[n].query])
                /\ n + 1 .. n = {}
            BY <2>2, <2>4, <2>5, <4>1
          <5> HIDE DEF t, n
          <5> QED BY <4>1, <5>1 DEF IsTarget
        <4>2. CASE ~controller
          BY <3>1, <4>2 DEF IsTarget
        <4> QED BY <4>1, <4>2
      <3>3. IsTarget(run', run'[n].prev, n - 1)
        <4>1. IsTarget(run, active, n - 1)
          <5>1. n - 1 \in Nat /\ n - 1 + 1 = n
            BY <2>2
          <5> HIDE DEF n
          <5> QED BY <2>1, <2>2, <3>1, <5>1, IdleTarget
        <4> QED BY <2>2, <2>4, <2>5, <4>1, SameTarget
      <3>4. ASSUME NEW i \in 1 .. n - 1, run'[i].inScan PROVE IsTarget(run', run'[i].prev, i - 1)
        <4>1. i \in DOMAIN run /\ i - 1 \in Nat /\ run'[i] = run[i]
              /\ \A j \in 1 .. i - 1 : run'[j] = run[j]
          BY <2>2, <2>5, Places
        <4>2. IsTarget(run, run[i].prev, i - 1)
          BY <3>1, <3>4, <4>1
        <4> QED BY <4>1, <4>2, SameTarget
      <3>5. \A i \in 1 .. n : i = n \/ i \in 1 .. n - 1
        BY <2>2
      <3>6. controller' = controller /\ active' = t /\ Len(run') = n /\ DOMAIN run' = 1 .. n
        BY <2>1, <2>5
      <3> HIDE DEF t, n
      <3> QED BY <3>2, <3>3, <3>4, <3>5, <3>6 DEF TargetInv, IsTarget
    <2> QED BY <2>7, <2>8, <2>9 DEF Inv
  <1> QED BY <1>1, <1>2

LEMMA LeaveScanInv ==
    ASSUME Inv, LeaveScan
    PROVE  Inv'
  <1> DEFINE n == Len(run)
             c == [Top EXCEPT !.inScan = FALSE, !.prev = NoLimit]
             t == Top.prev
  <1>1. /\ Top.inScan /\ run # <<>> /\ run' = [run EXCEPT ![n] = c] /\ active' = t
        /\ UNCHANGED <<hooks, opened, subs, cache, nodeCount, controller, dropped>>
    BY DEF LeaveScan, Idle, Top
  <1>2. n \in Nat \ {0} /\ n \in DOMAIN run /\ Top = run[n]
    BY <1>1, Places, EmptySeq
  <1>3. Top \in Calls /\ TargetInv
    BY <1>2, Places DEF Inv, TypeOK
  <1>4. c \in Calls /\ ~c.inScan /\ c.query = Top.query
    BY <1>3 DEF Calls, Targets
  <1> HIDE DEF c
  <1>5. /\ run' \in Seq(Calls) /\ Len(run') = n /\ DOMAIN run' = 1 .. n
        /\ run'[n] = c /\ \A i \in 1 .. n - 1 : run'[i] = run[i]
    BY <1>1, <1>4, ChangedCall
  <1>6. \A i \in DOMAIN run : run'[i].query = run[i].query
    BY <1>2, <1>4, <1>5, Places
  <1>7. BlocksInv' /\ (~OpenPortals => (NestingInv /\ FramesInv /\ StatementsInv)')
    BY <1>1, <1>5, <1>6, Places, SameQueries
  <1>8. TypeOK'
    <2>1. t \in Targets
      BY <1>3 DEF Calls
    <2> QED BY <1>1, <1>5, <2>1 DEF Inv, TypeOK
  <1>9. TargetInv'
    <2>1. \A i \in DOMAIN run : run[i].inScan => IsTarget(run, run[i].prev, i - 1)
      BY <1>3 DEF TargetInv
    <2>2. IsTarget(run', t, n)
      <3>1. n - 1 \in Nat /\ n - 1 + 1 = n
        BY <1>2
      <3>2. IsTarget(run, t, n - 1)
        BY <1>1, <1>2, <2>1
      <3>3. IsTarget(run', t, n - 1)
        BY <1>5, <3>1, <3>2, SameTarget
      <3> HIDE DEF n, t
      <3> QED BY <1>4, <1>5, <3>1, <3>3, IdleTarget
    <2>3. ASSUME NEW i \in 1 .. n, run'[i].inScan PROVE IsTarget(run', run'[i].prev, i - 1)
      <3>1. i # n
        BY <1>4, <1>5, <2>3
      <3>2. i \in 1 .. n - 1
        BY <1>2, <3>1
      <3>3. i \in DOMAIN run /\ i - 1 \in Nat /\ run'[i] = run[i]
            /\ \A j \in 1 .. i - 1 : run'[j] = run[j]
        BY <1>2, <1>5, <3>2, Places
      <3>4. IsTarget(run, run[i].prev, i - 1)
        BY <2>1, <2>3, <3>3
      <3> QED BY <3>3, <3>4, SameTarget
    <2>4. controller' = controller /\ active' = t /\ Len(run') = n /\ DOMAIN run' = 1 .. n
      BY <1>1, <1>5
    <2> HIDE DEF t, n
    <2> QED BY <2>2, <2>3, <2>4 DEF TargetInv, IsTarget
  <1> QED BY <1>7, <1>8, <1>9 DEF Inv

LEMMA LeaveRunInv ==
    ASSUME Inv, LeaveRun
    PROVE  Inv'
  <1> DEFINE n == Len(run)
  <1>1. /\ Idle /\ run # <<>> /\ ~Top.inScan /\ run' = Front(run)
        /\ subs # <<>> => Last(subs).depth < n
        /\ UNCHANGED <<hooks, active, opened, subs, scan, cache, nodeCount, controller, dropped>>
    BY DEF LeaveRun, Idle
  <1>2. /\ n \in Nat \ {0} /\ run' \in Seq(Calls) /\ Len(run') = n - 1 /\ DOMAIN run' = 1 .. n - 1
        /\ \A i \in 1 .. n - 1 : run'[i] = run[i]
    BY <1>1, Places, FrontFacts
  <1>3. \A i \in 1 .. n - 1 : i \in DOMAIN run /\ i - 1 \in Nat
    BY <1>2, Places
  <1>4. TypeOK'
    BY <1>1, <1>2 DEF Inv, TypeOK
  <1>5. BlocksInv'
    <2>1. /\ subs \in Seq(Blocks) /\ Len(subs) \in Nat /\ DOMAIN subs = 1 .. Len(subs)
          /\ \A i \in DOMAIN subs : subs[i] \in Blocks
      BY DEF Inv, TypeOK
    <2>2. \A i \in DOMAIN subs : subs[i].depth \in Nat
      BY <2>1 DEF Blocks
    <2>3. ASSUME NEW i \in DOMAIN subs PROVE subs[i].depth <= n - 1
      <3>1. i \in 1 .. Len(subs) /\ Len(subs) \in DOMAIN subs
        BY <2>1, <2>3
      <3>2. subs[i].depth <= subs[Len(subs)].depth
        BY <3>1 DEF Inv, BlocksInv
      <3>3. subs # <<>>
        BY <2>1, <3>1
      <3>4. subs[Len(subs)].depth < n
        BY <1>1, <3>3 DEF Last
      <3>5. subs[i].depth \in Nat /\ subs[Len(subs)].depth \in Nat
        BY <2>2, <3>1
      <3>6. \A a, b, m \in Nat : a <= b /\ b < m => a <= m - 1
        OBVIOUS
      <3> QED BY <1>2, <3>2, <3>4, <3>5, <3>6
    <2> QED BY <1>1, <1>2, <2>3 DEF Inv, BlocksInv
  <1>6. TargetInv'
    <2>1. IsTarget(run, active, n) /\ \A i \in DOMAIN run : run[i].inScan => IsTarget(run, run[i].prev, i - 1)
      BY DEF Inv, TargetInv
    <2>2. IsTarget(run', active, n - 1)
      <3>1. n - 1 \in Nat /\ n - 1 + 1 = n /\ ~run[n].inScan
        BY <1>1, <1>2 DEF Top
      <3>2. IsTarget(run, active, n - 1)
        <4> HIDE DEF n
        <4> QED BY <2>1, <3>1, IdleTarget
      <3> QED BY <1>2, <3>1, <3>2, SameTarget
    <2>3. ASSUME NEW i \in 1 .. n - 1, run'[i].inScan PROVE IsTarget(run', run'[i].prev, i - 1)
      <3>1. run'[i] = run[i] /\ \A j \in 1 .. i - 1 : run'[j] = run[j]
        BY <1>2
      <3>2. IsTarget(run, run[i].prev, i - 1)
        BY <1>3, <2>1, <2>3, <3>1
      <3> QED BY <1>3, <3>1, <3>2, SameTarget
    <2>4. controller' = controller /\ active' = active /\ Len(run') = n - 1 /\ DOMAIN run' = 1 .. n - 1
      BY <1>1, <1>2
    <2> HIDE DEF n
    <2> QED BY <2>2, <2>3, <2>4 DEF TargetInv, IsTarget
  <1>7. ~OpenPortals => (NestingInv /\ FramesInv /\ StatementsInv)'
    <2> SUFFICES ASSUME ~OpenPortals PROVE (NestingInv /\ FramesInv /\ StatementsInv)'
      OBVIOUS
    <2>1. NestingInv /\ FramesInv /\ StatementsInv /\ Len(opened) = n
      BY <1>1, IdleIsNewest DEF Inv
    <2>2. \A i \in DOMAIN run' : run'[i].query = opened[i]
      BY <1>2, <1>3, <2>1 DEF NestingInv
    <2>3. Len(run') <= Len(opened) /\ Len(opened) <= Len(run') + 1
      BY <1>2, <2>1
    <2>4. NestingInv'
      BY <1>1, <2>1, <2>2, <2>3 DEF NestingInv
    <2> QED BY <1>1, <2>1, <2>4 DEF FramesInv, StatementsInv, Statement
  <1> QED BY <1>4, <1>5, <1>6, <1>7 DEF Inv

LEMMA BeginSubInv ==
    ASSUME Inv, BeginSub
    PROVE  Inv'
  <1> DEFINE b == [depth |-> Len(run), opened |-> opened]
             n == Len(subs)
  <1>1. /\ Idle /\ subs' = Append(subs, b)
        /\ UNCHANGED <<hooks, active, opened, run, scan, cache, nodeCount, controller, dropped>>
    BY DEF BeginSub
  <1>2. /\ subs \in Seq(Blocks) /\ n \in Nat /\ DOMAIN subs = 1 .. n
        /\ \A i \in DOMAIN subs : subs[i] \in Blocks
    BY DEF Inv, TypeOK
  <1>3. b \in Blocks /\ b.depth = Len(run) /\ b.opened = opened /\ Len(run) \in Nat
    BY Places DEF Blocks
  <1> HIDE DEF b
  <1>4. /\ subs' \in Seq(Blocks) /\ DOMAIN subs' = 1 .. n + 1 /\ subs'[n + 1] = b
        /\ \A i \in 1 .. n : subs'[i] = subs[i]
    BY <1>1, <1>2, <1>3, AppendProperties
  <1> HIDE DEF n
  <1>5. TypeOK'
    BY <1>1, <1>4 DEF Inv, TypeOK
  <1>6. BlocksInv'
    <2>1. ASSUME NEW i \in 1 .. n + 1 PROVE subs'[i].depth <= Len(run)
      <3>1. CASE i = n + 1
        BY <1>3, <1>4, <3>1
      <3>2. CASE i # n + 1
        BY <1>2, <1>4, <3>2 DEF Inv, BlocksInv
      <3> QED BY <3>1, <3>2
    <2>2. ASSUME NEW i \in 1 .. n + 1, NEW j \in 1 .. i PROVE subs'[j].depth <= subs'[i].depth
      <3>1. CASE i = n + 1
        BY <1>2, <1>3, <1>4, <2>1, <3>1
      <3>2. CASE i # n + 1
        <4>1. i \in 1 .. n /\ j \in 1 .. n
          BY <1>2, <3>2
        <4> QED BY <1>2, <1>4, <4>1 DEF Inv, BlocksInv
      <3> QED BY <3>1, <3>2
    <2> QED BY <1>1, <1>4, <2>1, <2>2 DEF BlocksInv
  <1>7. TargetInv'
    BY <1>1 DEF Inv, TargetInv, IsTarget
  <1>8. ~OpenPortals => (NestingInv /\ FramesInv /\ StatementsInv)'
    <2> SUFFICES ASSUME ~OpenPortals PROVE (NestingInv /\ FramesInv /\ StatementsInv)'
      OBVIOUS
    <2>1. NestingInv /\ FramesInv /\ StatementsInv /\ Len(opened) = Len(run)
      BY <1>1, IdleIsNewest DEF Inv
    <2>2. opened = SubSeq(opened, 1, Len(run))
      BY <2>1, Places, WholePrefix
    <2>3. ASSUME NEW i \in 1 .. n + 1 PROVE subs'[i].opened = SubSeq(opened, 1, subs'[i].depth)
      <3>1. CASE i = n + 1
        BY <1>3, <1>4, <2>2, <3>1
      <3>2. CASE i # n + 1
        BY <1>2, <1>4, <2>1, <3>2 DEF NestingInv
      <3> QED BY <3>1, <3>2
    <2>4. NestingInv'
      BY <1>1, <1>4, <2>1, <2>3 DEF NestingInv
    <2> QED BY <1>1, <2>1, <2>4 DEF FramesInv, StatementsInv, Statement
  <1> QED BY <1>5, <1>6, <1>7, <1>8 DEF Inv

LEMMA EndSubInv ==
    ASSUME Inv, EndSub
    PROVE  Inv'
  <1>1. /\ subs # <<>> /\ subs' = Front(subs) /\ subs \in Seq(Blocks)
        /\ UNCHANGED <<hooks, active, opened, run, scan, cache, nodeCount, controller, dropped>>
    BY DEF EndSub, Inv, TypeOK
  <1>2. /\ Len(subs) \in Nat \ {0} /\ subs' \in Seq(Blocks) /\ DOMAIN subs' = 1 .. Len(subs) - 1
        /\ \A i \in 1 .. Len(subs) - 1 : subs'[i] = subs[i]
    BY <1>1, FrontFacts
  <1>3. \A i \in DOMAIN subs' : i \in DOMAIN subs /\ \A j \in 1 .. i : j \in DOMAIN subs'
    BY <1>1, <1>2
  <1>4. TypeOK'
    BY <1>1, <1>2 DEF Inv, TypeOK
  <1>5. BlocksInv'
    BY <1>1, <1>2, <1>3 DEF Inv, BlocksInv
  <1>6. TargetInv'
    BY <1>1 DEF Inv, TargetInv, IsTarget
  <1>7. ~OpenPortals => (NestingInv /\ FramesInv /\ StatementsInv)'
    <2>1. ~OpenPortals => NestingInv'
      BY <1>1, <1>2, <1>3 DEF Inv, NestingInv
    <2> QED BY <1>1, <2>1 DEF Inv, FramesInv, StatementsInv, Statement
  <1> QED BY <1>4, <1>5, <1>6, <1>7 DEF Inv

LEMMA EndQueryInv ==
    ASSUME Inv, NEW q \in Queries, EndQuery(q)
    PROVE  Inv'
  <1> DEFINE r == RestorePrevious(hooks, 1)
             n == Len(opened)
  <1>1. /\ q \in Open \ Running /\ hooks' = PopPlannedStmt(r) /\ dropped' = dropped \ {q}
        /\ UNCHANGED <<active, run, subs, cache, nodeCount, controller>>
    BY DEF EndQuery
  <1>2. PICK m \in DOMAIN opened : opened[m] = q /\ opened' = RemoveAt(opened, m)
    BY DEF EndQuery
  <1>3. opened \in Seq(Queries) /\ n \in Nat /\ DOMAIN opened = 1 .. n /\ HookTypes(hooks)
    BY Places
  <1>4. HookTypes(r) /\ \A i \in Nat \ {0} : Statement(r, i) = Statement(hooks, i)
    BY <1>3, RestoreFacts
  <1>5. /\ HookTypes(hooks') /\ hooks'.frames = r.frames /\ hooks'.wrappers = r.wrappers
        /\ \A i \in Nat \ {0} : Statement(hooks', i) = Statement(hooks, i + 1)
    <2> HIDE DEF r
    <2>1. /\ HookTypes(hooks') /\ hooks'.frames = r.frames /\ hooks'.wrappers = r.wrappers
          /\ \A i \in Nat \ {0} : Statement(hooks', i) = Statement(r, i + 1)
      BY <1>1, <1>4, PopFacts
    <2>2. \A i \in Nat \ {0} : i + 1 \in Nat \ {0}
      OBVIOUS
    <2> QED BY <1>4, <2>1, <2>2
  <1>6. opened' \in Seq(Queries)
    <2> DEFINE a == SubSeq(opened, 1, m - 1)
               b == SubSeq(opened, m + 1, Len(opened))
    <2>1. m - 1 \in 0 .. Len(opened) /\ m \in 0 .. Len(opened)
      BY <1>2, <1>3
    <2>2. a \in Seq(Queries) /\ b \in Seq(Queries)
      BY <1>3, <2>1, Prefix, Suffix
    <2>3. opened' = a \o b
      BY <1>2 DEF RemoveAt
    <2> HIDE DEF a, b
    <2> QED BY <2>2, <2>3, ConcatProperties
  <1>7. TypeOK'
    BY <1>1, <1>5, <1>6 DEF Inv, TypeOK, HookTypes
  <1>8. BlocksInv' /\ TargetInv'
    BY <1>1 DEF Inv, BlocksInv, TargetInv, IsTarget
  <1>9. ~OpenPortals => (NestingInv /\ FramesInv /\ StatementsInv)'
    <2> SUFFICES ASSUME ~OpenPortals PROVE (NestingInv /\ FramesInv /\ StatementsInv)'
      OBVIOUS
    <2>1. /\ NestingInv /\ FramesInv /\ StatementsInv
          /\ n = Len(run) + 1 /\ opened[n] = q /\ Len(run) \in Nat /\ DOMAIN run = 1 .. Len(run)
      BY <1>1, Places, NewestNotRunning DEF Inv
    <2>2. m = n
      BY <1>2, <1>3, <2>1 DEF NestingInv
    <2>3. opened # <<>>
      BY <1>3, <2>1
    <2>4. /\ n \in Nat \ {0} /\ opened' = Front(opened) /\ Front(opened) = SubSeq(opened, 1, n - 1)
          /\ Len(opened') = n - 1 /\ DOMAIN opened' = 1 .. n - 1
          /\ \A i \in 1 .. n - 1 : opened'[i] = opened[i]
      <3>1. opened' = Front(opened)
        BY <1>2, <1>3, <2>2, <2>3, RemoveLast
      <3>2. /\ n \in Nat \ {0} /\ Front(opened) = SubSeq(opened, 1, n - 1)
            /\ Len(Front(opened)) = n - 1 /\ DOMAIN Front(opened) = 1 .. n - 1
            /\ \A i \in 1 .. n - 1 : Front(opened)[i] = opened[i]
        BY <1>3, <2>3, FrontFacts
      <3> QED BY <3>1, <3>2
    <2>5. \A i \in 1 .. n - 1 : i \in DOMAIN opened /\ opened[i] # q
      BY <1>3, <2>1, <2>4 DEF NestingInv
    <2>6. NestingInv'
      <3>1. ASSUME NEW i \in DOMAIN opened', NEW j \in DOMAIN opened', opened'[i] = opened'[j]
            PROVE  i = j
        BY <2>1, <2>4, <2>5, <3>1 DEF NestingInv
      <3>2. \A i \in DOMAIN run : run[i].query = opened'[i]
        BY <2>1, <2>4 DEF NestingInv
      <3>3. ASSUME NEW i \in DOMAIN subs PROVE subs[i].opened = SubSeq(opened', 1, subs[i].depth)
        <4> DEFINE k == subs[i].depth
        <4>1. k \in Nat /\ k <= Len(run) /\ subs[i].opened = SubSeq(opened, 1, k)
          <5>1. subs[i] \in Blocks
            BY <3>3 DEF Inv, TypeOK
          <5> QED BY <2>1, <3>3, <5>1 DEF Inv, BlocksInv, NestingInv, Blocks
        <4> HIDE DEF k
        <4>2. k \in 0 .. Len(opened') /\ k <= Len(opened) /\ \A j \in 1 .. k : opened'[j] = opened[j]
          BY <2>1, <2>4, <4>1
        <4>3. SubSeq(opened', 1, k) = SubSeq(opened, 1, k)
          BY <1>3, <1>6, <4>2, SamePrefix
        <4> QED BY <4>1, <4>3 DEF k
      <3>4. Len(run) <= Len(opened') /\ Len(opened') <= Len(run) + 1
        BY <2>1, <2>4
      <3> QED BY <1>1, <3>1, <3>2, <3>3, <3>4 DEF NestingInv
    <2>7. FramesInv'
      <3>1. CASE controller
        <4>1. hooks.frames = opened /\ hooks.wrappers = ToSet(opened)
          BY <2>1, <3>1 DEF FramesInv
        <4>2. /\ r.frames = SubSeq(opened, 1, n - 1)
              /\ r.wrappers = ToSet(opened) \ ToSet(SubSeq(opened, n - 1 + 1, Len(opened)))
          <5>1. 1 <= Len(hooks.frames)
            BY <2>4, <4>1
          <5>2. /\ r.frames = SubSeq(hooks.frames, 1, Len(hooks.frames) - 1)
                /\ r.wrappers = hooks.wrappers
                      \ ToSet(SubSeq(hooks.frames, Len(hooks.frames) - 1 + 1, Len(hooks.frames)))
            BY <1>3, <5>1, RestoreFacts
          <5> HIDE DEF r
          <5> QED BY <4>1, <5>2
        <4> DEFINE e == SubSeq(opened, n - 1 + 1, Len(opened))
        <4>3. n - 1 \in 0 .. Len(opened) /\ Len(opened) - (n - 1) = 1 /\ n - 1 + 1 = n
          BY <2>4
        <4>4. DOMAIN e = 1 .. 1 /\ e[1] = q
          <5>1. DOMAIN e = 1 .. Len(opened) - (n - 1)
                /\ \A i \in 1 .. Len(opened) - (n - 1) : e[i] = opened[n - 1 + i]
            BY <1>3, <4>3, Suffix
          <5> HIDE DEF e
          <5> QED BY <2>1, <4>3, <5>1
        <4> HIDE DEF e
        <4>5. ToSet(e) = {q}
          BY <4>4 DEF ToSet
        <4>6. ToSet(opened') = ToSet(opened) \ {q}
          <5>1. ToSet(opened') = {opened[i] : i \in 1 .. n - 1}
            BY <2>4 DEF ToSet
          <5>2. ToSet(opened) = {opened[i] : i \in 1 .. n}
            BY <1>3 DEF ToSet
          <5>3. 1 .. n = 1 .. n - 1 \cup {n}
            BY <2>4
          <5> QED BY <2>1, <2>5, <5>1, <5>2, <5>3
        <4>7. hooks'.frames = opened' /\ hooks'.wrappers = ToSet(opened')
          BY <1>5, <2>4, <4>2, <4>5, <4>6 DEF e
        <4> QED BY <1>1, <3>1, <4>7 DEF FramesInv
      <3>2. CASE ~controller
        <4>1. hooks.frames = <<>> /\ 1 > Len(hooks.frames) /\ ToSet(<<>>) = {}
          BY <2>1, <3>2 DEF FramesInv, ToSet
        <4>2. r.frames = <<>> /\ r.wrappers = {}
          BY <1>3, <4>1, RestoreFacts
        <4> HIDE DEF r
        <4> QED BY <1>1, <1>5, <3>2, <4>1, <4>2 DEF FramesInv
      <3> QED BY <3>1, <3>2
    <2>8. StatementsInv'
      <3> SUFFICES ASSUME NEW i \in Nat \ {0}
                   PROVE  Statement(hooks', i) =
                             IF i <= Len(opened') /\ opened'[Len(opened') + 1 - i] \notin dropped'
                             THEN <<opened'[Len(opened') + 1 - i]>> ELSE NoStatement
        BY DEF StatementsInv, Statement
      <3>1. i + 1 \in Nat \ {0} /\ Statement(hooks', i) = Statement(hooks, i + 1)
        BY <1>5
      <3>2. Statement(hooks, i + 1) = IF i + 1 <= n /\ opened[n + 1 - (i + 1)] \notin dropped
                                      THEN <<opened[n + 1 - (i + 1)]>> ELSE NoStatement
        BY <2>1, <3>1 DEF StatementsInv
      <3>3. (i <= Len(opened')) = (i + 1 <= n)
        BY <2>4
      <3>4. i + 1 <= n => /\ opened'[Len(opened') + 1 - i] = opened[n + 1 - (i + 1)]
                          /\ opened[n + 1 - (i + 1)] # q
        <4> SUFFICES ASSUME i + 1 <= n
                     PROVE  opened'[Len(opened') + 1 - i] = opened[n + 1 - (i + 1)]
                            /\ opened[n + 1 - (i + 1)] # q
          OBVIOUS
        <4>1. Len(opened') + 1 - i = n + 1 - (i + 1) /\ n + 1 - (i + 1) \in 1 .. n - 1
          BY <2>4
        <4> QED BY <2>4, <2>5, <4>1
      <3> QED BY <1>1, <3>1, <3>2, <3>3, <3>4
    <2> QED BY <2>6, <2>7, <2>8
  <1> QED BY <1>7, <1>8, <1>9 DEF Inv

(***************************************************************************)
(* The invariant.                                                          *)
(***************************************************************************)

LEMMA InitInv == Init => Inv
  <1> SUFFICES ASSUME Init PROVE Inv
    OBVIOUS
  <1>1. /\ hooks = [current |-> NoStatement, stack |-> <<>>, frames |-> <<>>, wrappers |-> {}]
        /\ active = NoLimit /\ opened = <<>> /\ run = <<>> /\ subs = <<>>
        /\ nodeCount = FirstNodes /\ controller \in BOOLEAN /\ dropped = {}
    BY DEF Init
  <1>2. FirstNodes \in FirstNodes .. MaxNodes
    BY AccessAssumption
  <1>3. TypeOK
    BY <1>1, <1>2 DEF TypeOK, Statements, Targets
  <1>4. BlocksInv /\ TargetInv
    BY <1>1 DEF BlocksInv, TargetInv, IsTarget
  <1>5. NestingInv /\ FramesInv
    BY <1>1 DEF NestingInv, FramesInv, ToSet
  <1>6. StatementsInv
    <2>1. \A i \in Nat \ {0} : Statement(hooks, i) = NoStatement /\ ~ (i <= Len(opened))
      BY <1>1 DEF Statement
    <2> QED BY <2>1 DEF StatementsInv
  <1> QED BY <1>3, <1>4, <1>5, <1>6 DEF Inv

LEMMA NextInv == Inv /\ [Next]_vars => Inv'
  <1> SUFFICES ASSUME Inv, [Next]_vars PROVE Inv'
    OBVIOUS
  <1>1. CASE \E q \in Queries : StartQuery(q) \/ StartFails(q) \/ RunQuery(q) \/ EndQuery(q)
    BY <1>1, StartQueryInv, StartFailsInv, RunQueryInv, EndQueryInv
  <1>2. CASE EnterScan \/ RejectScan \/ CollectScanResults \/ LeaveScan \/ Rescan \/ LeaveRun
    BY <1>2, EnterScanInv, RejectScanInv, CollectScanResultsInv, LeaveScanInv, RescanInv, LeaveRunInv
  <1>3. CASE Raise \/ BeginSub \/ EndSub \/ InsertNode
    BY <1>3, RaiseInv, BeginSubInv, EndSubInv, InsertNodeInv
  <1>4. CASE UNCHANGED vars
    BY <1>4, Elsewhere DEF vars, Inv, TypeOK
  <1> QED BY <1>1, <1>2, <1>3, <1>4 DEF Next

\* The tuple targets of the nested scans form a chain, and without open portals
\* the planned statements and the wrapper frames are those of the open queries:
\* PgturbohybridExecutorStartHook, RunHook and EndHook and the unwinding of an
\* error keep the whole state of the hooks together.
THEOREM AccessInvHolds == Spec => []Inv
  <1> QED BY InitInv, NextInv, PTL DEF Spec

\* A scan collects under the tuple target of its own plan, however queries nest
\* and errors unwind, and also where portals stay open: ExecutorRun calls and
\* their scans are nested even when the open queries are not.
THEOREM ScansUseOwnTarget == Spec => []ScanTargetOwn
  <1>1. Inv => ScanTargetOwn
    <2> SUFFICES ASSUME Inv, run # <<>>, Top.inScan
                 PROVE  active = IF controller THEN ControlledTarget(Plan[Top.query]) ELSE NoLimit
      BY DEF ScanTargetOwn
    <2> DEFINE n == Len(run)
    <2>1. n \in Nat \ {0} /\ Top = run[n] /\ run[n].inScan
      BY Places, EmptySeq
    <2>2. IsTarget(run, active, n)
      BY DEF Inv, TargetInv
    <2>3. CASE controller
      <3>1. PICK i \in 1 .. n : /\ run[i].inScan /\ active = ControlledTarget(Plan[run[i].query])
                                /\ \A j \in i + 1 .. n : ~run[j].inScan
        BY <2>1, <2>2, <2>3 DEF IsTarget
      <3>2. i = n
        BY <2>1, <3>1
      <3> QED BY <2>1, <2>3, <3>1, <3>2
    <2>4. CASE ~controller
      BY <2>2, <2>4 DEF IsTarget
    <2> QED BY <2>3, <2>4
  <1> QED BY <1>1, AccessInvHolds, PTL

\* The result count of a scan directly under a LIMIT is the number of fused
\* candidates, never final_k, whatever the planned statement shows, also when
\* an abort dropped it (PgturbohybridFinalTarget).
LimitReachesFusion ==
    run # <<>> /\ Top.inScan /\ controller /\ ControlledTarget(Plan[Top.query]) \in Nat \ {0} =>
        \A query, limit, merged :
            FinalTarget(query, merged, limit, active) =
                IF MaxUnion > 0 THEN MinOf(merged, MaxUnion) ELSE merged

THEOREM LimitIsSeen == Spec => []LimitReachesFusion
  <1>1. ScanTargetOwn => LimitReachesFusion
    <2> SUFFICES ASSUME active \in Nat \ {0}, NEW query, NEW limit, NEW merged
                 PROVE  FinalTarget(query, merged, limit, active) =
                            IF MaxUnion > 0 THEN MinOf(merged, MaxUnion) ELSE merged
      BY DEF ScanTargetOwn, LimitReachesFusion
    <2>1. ~ (active < 0) /\ ~ (active <= 0)
      OBVIOUS
    <2> QED BY <2>1 DEF FinalTarget
  <1> QED BY <1>1, ScansUseOwnTarget, PTL

\* Without open portals every statement and every wrapper frame the hooks keep
\* is that of an open query, and every open query has its frame: nothing is left
\* behind by a failed start, an error in a nested query or an aborted block.
THEOREM HooksAreClean ==
    ASSUME ~OpenPortals
    PROVE  Spec => []HooksOwnOpenQueries
  <1>1. Inv => HooksOwnOpenQueries
    <2> SUFFICES ASSUME Inv PROVE HooksOwnOpenQueries
      OBVIOUS
    <2>1. FramesInv /\ StatementsInv
      BY DEF Inv
    <2>2. /\ Len(opened) \in Nat /\ DOMAIN opened = 1 .. Len(opened)
          /\ Open = {opened[i] : i \in DOMAIN opened} /\ HookTypes(hooks)
      BY Places
    <2>3. ASSUME NEW i \in Nat \ {0} PROVE ToSet(Statement(hooks, i)) \subseteq Open
      <3>1. CASE Statement(hooks, i) = NoStatement
        BY <3>1 DEF ToSet, NoStatement
      <3>2. CASE Statement(hooks, i) # NoStatement
        <4>1. i <= Len(opened) /\ Statement(hooks, i) = <<opened[Len(opened) + 1 - i]>>
          BY <2>1, <3>2 DEF StatementsInv
        <4>2. Len(opened) + 1 - i \in DOMAIN opened
          BY <2>2, <4>1
        <4>3. \A x : ToSet(<<x>>) = {x}
          BY DEF ToSet
        <4> QED BY <2>2, <4>1, <4>2, <4>3
      <3> QED BY <3>1, <3>2
    <2>4. ToSet(hooks.current) \subseteq Open
      BY <2>3 DEF Statement
    <2>5. ASSUME NEW i \in DOMAIN hooks.stack PROVE ToSet(hooks.stack[i]) \subseteq Open
      <3> DEFINE k == i + 1
      <3>0. i \in Nat \ {0}
        BY <2>2, <2>5 DEF HookTypes
      <3>1. k \in Nat \ {0} /\ k # 1 /\ k - 1 = i
        BY <3>0
      <3> HIDE DEF k
      <3>2. Statement(hooks, k) = hooks.stack[i]
        BY <2>5, <3>1 DEF Statement
      <3> QED BY <2>3, <3>1, <3>2
    <2> QED BY <2>1, <2>4, <2>5 DEF HooksOwnOpenQueries, FramesInv
  <1> QED BY <1>1, AccessInvHolds, PTL

\* The statement current at a scan, from which its final_k and budgets come, is
\* that of its own query, unless an abort dropped it.
THEOREM ScansSeeOwnStatement == Spec => []ScanStatementOwn
  <1>1. Inv => ScanStatementOwn
    <2> SUFFICES ASSUME Inv, ~OpenPortals, run # <<>>, Idle, Top.query \notin dropped
                 PROVE  hooks.current = <<Top.query>>
      BY DEF ScanStatementOwn
    <2>1. StatementsInv /\ Len(opened) = Len(run) /\ Len(run) \in Nat \ {0}
          /\ opened[Len(opened)] = Top.query
      BY Places, EmptySeq, IdleIsNewest DEF Inv, Idle
    <2>2. 1 <= Len(opened) /\ Len(opened) + 1 - 1 = Len(opened)
      BY <2>1
    <2>3. Statement(hooks, 1) = <<opened[Len(opened)]>>
      BY <2>1, <2>2 DEF StatementsInv
    <2> QED BY <2>1, <2>3 DEF Statement
  <1> QED BY <1>1, AccessInvHolds, PTL

(***************************************************************************)
(* What a scan asks of its query.                                          *)
(***************************************************************************)

\* The LIMIT found in a plan is a number.
LEMMA PlanLimitType ==
    ASSUME NEW p \in Seq(PlanNodes)
    PROVE  FindLimitInPlan(p) \in Int
  <1> DEFINE seen == {i \in DOMAIN p : \A j \in 1 .. i - 1 : p[j].kind \notin {"Append", "Subquery"}}
             limits == {i \in seen : p[i].kind = "Limit" /\ p[i].const /\ p[i].count > 0}
  <1>1. \A i \in DOMAIN p : i \in Nat /\ p[i].count \in Int
    <2>1. \A i \in DOMAIN p : i \in Nat /\ p[i] \in PlanNodes
      OBVIOUS
    <2> QED BY <2>1 DEF PlanNodes
  <1>2. limits \subseteq DOMAIN p
    OBVIOUS
  <1>3. FindLimitInPlan(p) = IF limits = {} THEN 0 ELSE p[LowOf(limits)].count
    BY DEF FindLimitInPlan
  <1> HIDE DEF limits
  <1>4. limits # {} => LowOf(limits) \in limits
    BY <1>1, <1>2, LowFacts
  <1> QED BY <1>1, <1>2, <1>3, <1>4

\* So is the tuple target the controller gives its scan.
LEMMA ControlledTargetType ==
    ASSUME NEW p \in Seq(PlanNodes)
    PROVE  ControlledTarget(p) \in Int
  <1> DEFINE n == Len(p)
             first == NoLimit
             Step(i, x) == TargetBelow(p[i], x)
             All == Int
             Stage(i) == Int
             Def(f) == [i \in 0 .. n |-> IF i = 0 THEN first ELSE Step(i, f[i - 1])]
             below == CHOOSE f : f = Def(f)
             U == [i \in 0 .. n |-> Stage(i)]
             G == [i \in 1 .. n |-> [x \in Stage(i - 1) |-> Step(i, x)]]
  <1>1. n \in Nat /\ \A i \in 1 .. n : p[i] \in PlanNodes
    OBVIOUS
  <1>2. ControlledTarget(p) = below[n]
    BY DEF ControlledTarget
  <1> HIDE DEF n
  <1>3. first \in Stage(0)
    BY DEF NoLimit
  <1>4. \A i \in 0 .. n : Stage(i) \subseteq All
    OBVIOUS
  <1>5. ASSUME NEW i \in 1 .. n, NEW x \in Stage(i - 1) PROVE Step(i, x) \in Stage(i)
    <2>1. p[i].count \in Int /\ p[i].offset \in Nat
      BY <1>1 DEF PlanNodes
    <2>2. LimitTupleTarget(p[i]) \in Int /\ NoLimit \in Int /\ x \in Int
      BY <2>1 DEF LimitTupleTarget, NoLimit
    <2> QED BY <2>2 DEF TargetBelow
  <1>6. /\ \A i \in 0 .. n : U[i] = Stage(i)
        /\ \A i \in 1 .. n : i \in 0 .. n /\ i - 1 \in 0 .. n
        /\ \A i \in 1 .. n : G[i] = [x \in Stage(i - 1) |-> Step(i, x)]
    <2> HIDE DEF Stage, Step
    <2> QED BY <1>1
  <1> HIDE DEF Stage, Step, first, All, U, G
  <1>7. Stages(All, n, U, first, G)
    <2>1. \A i \in 1 .. n : [x \in Stage(i - 1) |-> Step(i, x)] \in [Stage(i - 1) -> Stage(i)]
      BY <1>5
    <2>2. \A i \in 1 .. n : G[i] \in [U[i - 1] -> U[i]]
      BY <1>6, <2>1
    <2>3. U \in [0 .. n -> SUBSET All]
      BY <1>4 DEF U
    <2>4. first \in U[0]
      BY <1>1, <1>3, <1>6
    <2> QED BY <1>1, <2>2, <2>3, <2>4 DEF Stages
  <1>8. PICK h : Staged(n, U, first, G, h)
    BY ONLY <1>7, StagesExist
  <1>9. \A i \in 1 .. n : h[i] = Step(i, h[i - 1])
    <2> TAKE i \in 1 .. n
    <2>1. h[i - 1] \in Stage(i - 1)
      BY <1>6, <1>8 DEF Staged
    <2>2. h[i] = G[i][h[i - 1]] /\ G[i] = [x \in Stage(i - 1) |-> Step(i, x)]
      BY <1>6, <1>8 DEF Staged
    <2>3. PICK x \in Stage(i - 1) : x = h[i - 1]
      BY <2>1
    <2>4. G[i][x] = Step(i, x)
      BY <2>2
    <2> QED BY <2>2, <2>3, <2>4
  <1>10. h = Def(h)
    <2>1. \A i \in 0 .. n : h[i] = IF i = 0 THEN first ELSE Step(i, h[i - 1])
      <3> TAKE i \in 0 .. n
      <3>1. i # 0 => i \in 1 .. n
        BY <1>1
      <3> QED BY <1>8, <1>9, <3>1 DEF Staged
    <2> QED BY <1>8, <2>1 DEF Staged
  <1>11. below = Def(below)
    <2> HIDE DEF Def
    <2> QED BY <1>10
  <1>12. below[0] = first /\ \A i \in 1 .. n : below[i] = Step(i, below[i - 1])
    <2> HIDE DEF below
    <2>1. \A i \in 0 .. n : below[i] = IF i = 0 THEN first ELSE Step(i, below[i - 1])
      BY <1>11
    <2> QED BY <1>1, <2>1
  <1>13. \A i \in 0 .. n : below[i] \in Stage(i)
    <2> HIDE DEF below, Def
    <2>1. \A i \in 1 .. n : below[i - 1] \in U[i - 1] => below[i] \in U[i]
      <3> SUFFICES ASSUME NEW i \in 1 .. n, below[i - 1] \in U[i - 1] PROVE below[i] \in U[i]
        OBVIOUS
      <3>1. below[i - 1] \in Stage(i - 1) /\ U[i] = Stage(i)
        BY <1>6
      <3> QED BY <1>5, <1>12, <3>1
    <2>2. below[0] \in U[0]
      BY <1>1, <1>3, <1>6, <1>12
    <2>3. \A i \in 0 .. n : below[i] \in U[i]
      BY <1>1, <2>1, <2>2, PlacesStay
    <2> QED BY <1>6, <2>3
  <1> HIDE DEF below, Def
  <1>14. n \in 0 .. n
    BY <1>1
  <1> QED BY <1>2, <1>13, <1>14 DEF Stage

\* A branch is asked for a natural number of candidates.
LEMMA BudgetType ==
    ASSUME NEW requested \in Nat, NEW limit \in Int, NEW defaulted, NEW present
    PROVE  ApplyAutoBudget(requested, limit, defaulted, present) \in Nat
  <1> DEFINE x == limit * LimitMultiplier
             target == MaxOf(x, MinBudget)
  <1>1. LimitMultiplier \in Int /\ MinBudget \in Nat /\ QualityCap \in Nat
    BY FusionAssumption
  <1>2. x \in Int
    BY <1>1
  <1> HIDE DEF x
  <1>3. target \in Nat
    BY <1>1, <1>2 DEF MaxOf
  <1> HIDE DEF target
  <1>4. MinOf(requested, IF QualityCap > 0 THEN MinOf(target, QualityCap) ELSE target) \in Nat
    BY <1>1, <1>3 DEF MinOf
  <1>5. \/ ApplyAutoBudget(requested, limit, defaulted, present) = requested
        \/ ApplyAutoBudget(requested, limit, defaulted, present)
             = MinOf(requested, IF QualityCap > 0 THEN MinOf(target, QualityCap) ELSE target)
    BY DEF ApplyAutoBudget, target, x
  <1> QED BY <1>4, <1>5

\* The query a scan works with keeps its branches and its weights, and always
\* shows an explicit final_k.
LEMMA EffectiveQueryFacts ==
    ASSUME NEW a \in Arguments, NEW limit \in Int
    PROVE  LET e == EffectiveQuery(a, limit)
           IN  /\ e.vector = a.vector /\ e.multivector = a.multivector /\ e.text = a.text
               /\ e.denseK \in Nat /\ e.multivectorK \in Nat /\ e.bm25K \in Nat
               /\ ScoringQuery(e) /\ EffectiveFinalK(e, limit) \in Int
  <1> DEFINE dk == ApplyAutoBudget(a.denseK, limit, a.denseDefaulted, a.vector)
             mk == ApplyAutoBudget(a.multivectorK, limit, a.denseDefaulted, a.multivector)
             bk == ApplyAutoBudget(a.bm25K, limit, a.bm25Defaulted, a.text)
             b == [a EXCEPT !.denseK = dk, !.multivectorK = mk, !.bm25K = bk]
             k == EffectiveFinalK(b, limit)
             e == EffectiveQuery(a, limit)
  <1>1. /\ a.denseK \in Nat /\ a.multivectorK \in Nat /\ a.bm25K \in Nat
        /\ a.finalK \in Nat /\ a.rrfK \in Nat /\ a.denseWeight \in Nat
        /\ a.multivectorWeight \in Nat /\ a.bm25Weight \in Nat
        /\ a.fusion \in {"rrf", "weighted", "fast_weighted", "calibrated"}
    BY DEF Arguments
  <1>2. dk \in Nat /\ mk \in Nat /\ bk \in Nat
    BY <1>1, BudgetType
  <1>3. e = [b EXCEPT !.finalK = k, !.finalSet = TRUE, !.denseDefaulted = FALSE, !.bm25Defaulted = FALSE]
    BY DEF EffectiveQuery, CanonicalizeLatencyQuery
  <1> HIDE DEF e, dk, mk, bk, k
  <1>4. b \in Arguments
    BY <1>2 DEF Arguments
  <1>5. /\ b.vector = a.vector /\ b.multivector = a.multivector /\ b.text = a.text
        /\ b.denseK = dk /\ b.multivectorK = mk /\ b.bm25K = bk
        /\ b.finalK \in Nat /\ b.rrfK \in Nat /\ b.denseWeight \in Nat
        /\ b.multivectorWeight \in Nat /\ b.bm25Weight \in Nat
        /\ b.fusion \in {"rrf", "weighted", "fast_weighted", "calibrated"}
    BY <1>1 DEF Arguments
  <1> HIDE DEF b
  <1>6. /\ e.vector = b.vector /\ e.multivector = b.multivector /\ e.text = b.text
        /\ e.denseK = b.denseK /\ e.multivectorK = b.multivectorK /\ e.bm25K = b.bm25K
        /\ e.finalK = k /\ e.finalSet = TRUE /\ e.rrfK = b.rrfK /\ e.denseWeight = b.denseWeight
        /\ e.multivectorWeight = b.multivectorWeight /\ e.bm25Weight = b.bm25Weight
        /\ e.fusion = b.fusion
    BY <1>3, <1>4 DEF Arguments
  <1>7. k \in Int
    <2>1. DefaultFinalK \in Nat
      BY FusionAssumption
    <2> QED BY <1>5, <2>1 DEF k, EffectiveFinalK
  <1>8. ScoringQuery(e)
    BY <1>5, <1>6 DEF ScoringQuery
  <1>9. EffectiveFinalK(e, limit) \in Int
    BY <1>6, <1>7 DEF EffectiveFinalK
  <1> QED BY <1>2, <1>5, <1>6, <1>8, <1>9 DEF e

(***************************************************************************)
(* The candidates of a scan.                                               *)
(***************************************************************************)

\* s lists candidates of the branch b of q, by rank, a node once, and a document
\* once where the index keeps multivectors.
OfBranch(s, q, b) ==
    /\ s \in Seq(CandidateSet)
    /\ \A i \in DOMAIN s :
          /\ s[i].branch = b /\ s[i].rank = i /\ (b = "bm25" => s[i].score \in Nat)
          /\ \E p \in DOMAIN Ranking[q][b] : /\ s[i].node = Ranking[q][b][p].node
                                             /\ s[i].tid = Ranking[q][b][p].tid
    /\ \A i, j \in DOMAIN s :
          s[i].node = s[j].node \/ (Index[q].multivector /\ s[i].tid = s[j].tid) => i = j

\* A branch that is not searched gives no candidates.
LEMMA EmptyBranch ==
    ASSUME NEW q, NEW b
    PROVE  OfBranch(<<>>, q, b)
  <1>1. <<>> \in Seq(CandidateSet) /\ DOMAIN <<>> = {}
    OBVIOUS
  <1> QED BY <1>1 DEF OfBranch

\* The candidates of one branch: one for a document, ranked in their order.
LEMMA BranchFacts ==
    ASSUME NEW q \in Queries, NEW b \in Branches, NEW k \in Nat
    PROVE  OfBranch(Branch(q, b, k), q, b)
  <1> DEFINE R == Ranking[q][b]
             Rows == [node : Nat, tid : Nat, score : Int]
             visible == {i \in DOMAIN R : R[i].node < nodeCount}
             here == Pick(R, visible)
             m == Cardinality(visible)
             d == MinOf(k, Len(here))
             first == SubSeq(here, 1, d)
             s == Branch(q, b, k)
  <1>1. /\ R \in Seq(Rows)
        /\ \A i, j \in DOMAIN R :
              R[i].node = R[j].node \/ (Index[q].multivector /\ R[i].tid = R[j].tid) => i = j
        /\ b = "bm25" => \A i \in DOMAIN R : R[i].score >= 0
    BY QueriesAssumption DEF RankingAssumption
  <1>2. s = [i \in DOMAIN first |-> [branch |-> b, rank |-> i, node |-> first[i].node,
                                     tid |-> first[i].tid, score |-> first[i].score]]
    BY DEF Branch
  <1> HIDE DEF R, s
  <1>3. visible \in SUBSET DOMAIN R
    OBVIOUS
  <1> HIDE DEF visible
  <1>4. /\ m \in Nat /\ here \in Seq(Rows) /\ Len(here) = m /\ DOMAIN here = 1 .. m
        /\ \E places \in [1 .. m -> visible] :
              /\ \A i, j \in 1 .. m : places[i] = places[j] => i = j
              /\ \A i \in 1 .. m : here[i] = R[places[i]]
    <2> HIDE DEF Rows, here, m
    <2>1. R \in Seq(Rows) /\ visible \in SUBSET DOMAIN R
      BY <1>1, <1>3
    <2>2. /\ m \in Nat /\ Pick(R, visible) \in Seq(Rows) /\ Len(Pick(R, visible)) = m
          /\ DOMAIN Pick(R, visible) = 1 .. m
          /\ \E places \in [1 .. m -> visible] :
                /\ \A i, j \in 1 .. m : places[i] = places[j] => i = j
                /\ \A p \in visible : \E i \in 1 .. m : places[i] = p
                /\ \A i \in 1 .. m : Pick(R, visible)[i] = R[places[i]]
      BY ONLY <2>1, PickFacts, SMTT(20) DEF m
    <2> QED BY <2>2 DEF here
  <1> HIDE DEF here, m
  <1>5. PICK places \in [1 .. m -> visible] :
              /\ \A i, j \in 1 .. m : places[i] = places[j] => i = j
              /\ \A i \in 1 .. m : here[i] = R[places[i]]
    BY <1>4
  <1>6. d \in 0 .. Len(here)
    BY <1>4 DEF MinOf
  <1> HIDE DEF d
  <1>7. DOMAIN first = 1 .. d /\ \A i \in 1 .. d : first[i] = here[i]
    <2> HIDE DEF Rows
    <2> QED BY ONLY <1>4, <1>6, Prefix
  <1> HIDE DEF first
  <1>8. \A i \in 1 .. d : i \in 1 .. m /\ i \in Nat \ {0}
    BY <1>4, <1>6
  <1>9. \A i \in 1 .. d : /\ places[i] \in DOMAIN R /\ first[i] = R[places[i]]
                          /\ R[places[i]] \in Rows
    <2> TAKE i \in 1 .. d
    <2>1. places[i] \in DOMAIN R /\ first[i] = R[places[i]]
      BY <1>3, <1>5, <1>7, <1>8
    <2> HIDE DEF Rows
    <2>2. R[places[i]] \in Rows
      BY <1>1, <2>1
    <2> QED BY <2>1, <2>2
  <1>10. /\ DOMAIN s = 1 .. d
         /\ \A i \in 1 .. d : s[i] = [branch |-> b, rank |-> i, node |-> R[places[i]].node,
                                      tid |-> R[places[i]].tid, score |-> R[places[i]].score]
    <2>1. \A i \in 1 .. d : s[i] = [branch |-> b, rank |-> i, node |-> first[i].node,
                                    tid |-> first[i].tid, score |-> first[i].score]
      BY <1>2, <1>7
    <2> QED BY <1>2, <1>7, <1>9, <2>1
  <1>11. \A i \in 1 .. d : /\ R[places[i]].node \in Nat /\ R[places[i]].tid \in Nat
                           /\ R[places[i]].score \in Int
                           /\ b = "bm25" => R[places[i]].score \in Nat
    <2>1. \A r \in Rows : r.node \in Nat /\ r.tid \in Nat /\ r.score \in Int
      OBVIOUS
    <2>2. b = "bm25" => \A i \in 1 .. d : R[places[i]].score >= 0
      BY <1>1, <1>9
    <2> HIDE DEF Rows
    <2>3. \A i \in 1 .. d : /\ R[places[i]].node \in Nat /\ R[places[i]].tid \in Nat
                            /\ R[places[i]].score \in Int
      BY <1>9, <2>1
    <2> QED BY <2>2, <2>3
  <1>12. \A i \in 1 .. d : s[i] \in CandidateSet
    BY <1>8, <1>10, <1>11 DEF CandidateSet, Branches
  <1>13. s \in Seq(CandidateSet)
    <2>1. s = [i \in 1 .. d |-> s[i]]
      BY <1>2, <1>7
    <2>2. d \in Nat
      BY <1>4, <1>6
    <2> QED BY <1>12, <2>1, <2>2
  <1>14. \A i \in 1 .. d : /\ s[i].branch = b /\ s[i].rank = i /\ s[i].node = R[places[i]].node
                           /\ s[i].tid = R[places[i]].tid /\ s[i].score = R[places[i]].score
    BY <1>10
  <1>15. \A i, j \in 1 .. d :
            s[i].node = s[j].node \/ (Index[q].multivector /\ s[i].tid = s[j].tid) => i = j
    <2> TAKE i, j \in 1 .. d
    <2> HAVE s[i].node = s[j].node \/ (Index[q].multivector /\ s[i].tid = s[j].tid)
    <2>1. /\ places[i] \in DOMAIN R /\ s[i].node = R[places[i]].node /\ s[i].tid = R[places[i]].tid
          /\ places[j] \in DOMAIN R /\ s[j].node = R[places[j]].node /\ s[j].tid = R[places[j]].tid
      BY <1>9, <1>14
    <2>2. places[i] = places[j]
      BY <1>1, <2>1
    <2> QED BY <1>5, <1>8, <2>2
  <1>16. \A i \in 1 .. d :
            /\ s[i].branch = b /\ s[i].rank = i /\ (b = "bm25" => s[i].score \in Nat)
            /\ \E p \in DOMAIN R : s[i].node = R[p].node /\ s[i].tid = R[p].tid
    BY <1>9, <1>11, <1>14
  <1>17. OfBranch(s, q, b)
    BY <1>10, <1>13, <1>15, <1>16 DEF OfBranch, R
  <1> QED BY <1>17 DEF s

\* The candidates of the three branches together.
LEMMA BranchesJoined ==
    ASSUME NEW q \in Queries, NEW byTid \in BOOLEAN, byTid => Index[q].multivector,
           NEW D, OfBranch(D, q, "dense"), NEW M, OfBranch(M, q, "multi"),
           NEW B, OfBranch(B, q, "bm25")
    PROVE  GoodCandidates(D \o M \o B, byTid)
  <1> DEFINE c == D \o M \o B
             d == Len(D)
             m == Len(M)
             n == Len(B)
             Row(i, b) == \E p \in DOMAIN Ranking[q][b] : /\ c[i].node = Ranking[q][b][p].node
                                                         /\ c[i].tid = Ranking[q][b][p].tid
  <1>1. /\ D \in Seq(CandidateSet) /\ d \in Nat /\ DOMAIN D = 1 .. d
        /\ M \in Seq(CandidateSet) /\ m \in Nat /\ DOMAIN M = 1 .. m
        /\ B \in Seq(CandidateSet) /\ n \in Nat /\ DOMAIN B = 1 .. n
    BY DEF OfBranch
  <1>2. /\ D \o M \in Seq(CandidateSet) /\ Len(D \o M) = d + m
        /\ \A i \in 1 .. d + m : (D \o M)[i] = IF i <= d THEN D[i] ELSE M[i - d]
    BY <1>1
  <1>3. /\ c \in Seq(CandidateSet) /\ DOMAIN c = 1 .. d + m + n
        /\ \A i \in 1 .. d + m + n : c[i] = IF i <= d + m THEN (D \o M)[i] ELSE B[i - (d + m)]
    <2> DEFINE DM == D \o M
    <2>1. DM \in Seq(CandidateSet) /\ Len(DM) = d + m /\ c = DM \o B
      BY <1>2
    <2> HIDE DEF DM, c
    <2>2. /\ DM \o B \in Seq(CandidateSet) /\ Len(DM \o B) = d + m + n
          /\ \A i \in 1 .. d + m + n : (DM \o B)[i] = IF i <= d + m THEN DM[i] ELSE B[i - (d + m)]
      <3>1. DM \in Seq(CandidateSet) /\ B \in Seq(CandidateSet)
        BY <1>1, <2>1
      <3>2. /\ DM \o B \in Seq(CandidateSet) /\ Len(DM \o B) = Len(DM) + Len(B)
            /\ \A i \in 1 .. Len(DM) + Len(B) :
                  (DM \o B)[i] = IF i <= Len(DM) THEN DM[i] ELSE B[i - Len(DM)]
        BY ONLY <3>1
      <3> QED BY <2>1, <3>2
    <2>3. DOMAIN c = 1 .. d + m + n
      BY <2>1, <2>2
    <2> QED BY <2>1, <2>2, <2>3 DEF DM
  <1> HIDE DEF c, d, m, n
  <1>4. ASSUME NEW i \in DOMAIN c
        PROVE  \/ i \in DOMAIN D /\ c[i] = D[i] /\ c[i].branch = "dense"
               \/ i - d \in DOMAIN M /\ c[i] = M[i - d] /\ c[i].branch = "multi"
               \/ i - (d + m) \in DOMAIN B /\ c[i] = B[i - (d + m)] /\ c[i].branch = "bm25"
    <2>1. CASE i <= d
      <3>1. i \in DOMAIN D /\ c[i] = D[i]
        BY <1>1, <1>2, <1>3, <2>1
      <3> QED BY <3>1 DEF OfBranch
    <2>2. CASE i > d /\ i <= d + m
      <3>1. i - d \in DOMAIN M /\ c[i] = M[i - d]
        BY <1>1, <1>2, <1>3, <2>2
      <3> QED BY <3>1 DEF OfBranch
    <2>3. CASE i > d + m
      <3>1. i - (d + m) \in DOMAIN B /\ c[i] = B[i - (d + m)]
        BY <1>1, <1>2, <1>3, <2>3
      <3> QED BY <3>1 DEF OfBranch
    <2> QED BY <1>1, <1>3, <2>1, <2>2, <2>3
  <1>5. \A i \in DOMAIN c : c[i].branch = "bm25" => c[i].score \in Nat
    BY <1>4 DEF OfBranch
  <1>6. ASSUME NEW i \in DOMAIN c PROVE \E b \in Branches : Row(i, b)
    <2>1. ASSUME NEW j \in DOMAIN D, c[i] = D[j] PROVE Row(i, "dense")
      <3>1. PICK p \in DOMAIN Ranking[q]["dense"] : /\ D[j].node = Ranking[q]["dense"][p].node
                                               /\ D[j].tid = Ranking[q]["dense"][p].tid
        BY <2>1 DEF OfBranch
      <3> QED BY <2>1, <3>1
    <2>2. ASSUME NEW j \in DOMAIN M, c[i] = M[j] PROVE Row(i, "multi")
      <3>1. PICK p \in DOMAIN Ranking[q]["multi"] : /\ M[j].node = Ranking[q]["multi"][p].node
                                               /\ M[j].tid = Ranking[q]["multi"][p].tid
        BY <2>2 DEF OfBranch
      <3> QED BY <2>2, <3>1
    <2>3. ASSUME NEW j \in DOMAIN B, c[i] = B[j] PROVE Row(i, "bm25")
      <3>1. PICK p \in DOMAIN Ranking[q]["bm25"] : /\ B[j].node = Ranking[q]["bm25"][p].node
                                               /\ B[j].tid = Ranking[q]["bm25"][p].tid
        BY <2>3 DEF OfBranch
      <3> QED BY <2>3, <3>1
    <2> HIDE DEF Row
    <2>4. Row(i, "dense") \/ Row(i, "multi") \/ Row(i, "bm25")
      BY <1>4, <2>1, <2>2, <2>3
    <2> QED BY <2>4 DEF Branches
  <1>7. \A i \in DOMAIN c : KeyAt(c, byTid, i) = IF byTid THEN c[i].tid ELSE c[i].node
    BY DEF KeyAt, Key
  <1>8. \A i, j \in DOMAIN c : KeyAt(c, byTid, i) = KeyAt(c, byTid, j) => c[i].tid = c[j].tid
    <2> TAKE i, j \in DOMAIN c
    <2> HAVE KeyAt(c, byTid, i) = KeyAt(c, byTid, j)
    <2>1. CASE byTid
      BY <1>7, <2>1
    <2>2. CASE ~byTid
      <3>1. c[i].node = c[j].node
        BY <1>7, <2>2
      <3>2. PICK b1 \in Branches : Row(i, b1)
        BY <1>6
      <3>3. PICK b2 \in Branches : Row(j, b2)
        BY <1>6
      <3>4. PICK p \in DOMAIN Ranking[q][b1] : /\ c[i].node = Ranking[q][b1][p].node
                                               /\ c[i].tid = Ranking[q][b1][p].tid
        BY <3>2
      <3>5. PICK r \in DOMAIN Ranking[q][b2] : /\ c[j].node = Ranking[q][b2][r].node
                                               /\ c[j].tid = Ranking[q][b2][r].tid
        BY <3>3
      <3>6. Ranking[q][b1][p].node = Ranking[q][b2][r].node =>
                Ranking[q][b1][p].tid = Ranking[q][b2][r].tid
        BY QueriesAssumption DEF RankingAssumption
      <3> QED BY <3>1, <3>4, <3>5, <3>6
    <2> QED BY <2>1, <2>2
  <1>9. \A i, j \in DOMAIN c : c[i].branch = c[j].branch =>
          /\ KeyAt(c, byTid, i) = KeyAt(c, byTid, j) => i = j
          /\ c[i].rank = c[j].rank => i = j
    <2> TAKE i, j \in DOMAIN c
    <2> HAVE c[i].branch = c[j].branch
    <2>1. /\ i \in Int /\ j \in Int /\ d \in Int /\ m \in Int
          /\ KeyAt(c, byTid, i) = KeyAt(c, byTid, j) =>
                c[i].node = c[j].node \/ (Index[q].multivector /\ c[i].tid = c[j].tid)
      BY <1>1, <1>3, <1>7
    <2>2. CASE /\ i \in DOMAIN D /\ c[i] = D[i]
               /\ j \in DOMAIN D /\ c[j] = D[j]
      BY <2>1, <2>2 DEF OfBranch
    <2>3. CASE /\ i - d \in DOMAIN M /\ c[i] = M[i - d]
               /\ j - d \in DOMAIN M /\ c[j] = M[j - d]
      <3>1. /\ KeyAt(c, byTid, i) = KeyAt(c, byTid, j) => i - d = j - d
            /\ c[i].rank = c[j].rank => i - d = j - d
        BY <2>1, <2>3 DEF OfBranch
      <3> QED BY <2>1, <3>1
    <2>4. CASE /\ i - (d + m) \in DOMAIN B /\ c[i] = B[i - (d + m)]
               /\ j - (d + m) \in DOMAIN B /\ c[j] = B[j - (d + m)]
      <3>1. /\ KeyAt(c, byTid, i) = KeyAt(c, byTid, j) => i - (d + m) = j - (d + m)
            /\ c[i].rank = c[j].rank => i - (d + m) = j - (d + m)
        BY <2>1, <2>4 DEF OfBranch
      <3> QED BY <2>1, <3>1
    <2> QED BY <1>4, <2>2, <2>3, <2>4
  <1>10. GoodCandidates(c, byTid)
    BY <1>3, <1>5, <1>8, <1>9 DEF GoodCandidates
  <1> QED BY <1>10 DEF c

\* What the branches of a query collect can be merged, by node or by tid.
LEMMA CandidatesGood ==
    ASSUME NEW q \in Queries, ~ArgumentRejected(q), NEW query,
           query.vector = Args[q].vector, query.multivector = Args[q].multivector,
           query.text = Args[q].text,
           query.denseK \in Nat, query.multivectorK \in Nat, query.bm25K \in Nat
    PROVE  GoodCandidates(Candidates(q, query), query.multivector)
  <1> DEFINE D == IF query.vector /\ ~Index[q].multivector THEN Branch(q, "dense", query.denseK) ELSE <<>>
             M == IF query.multivector THEN Branch(q, "multi", query.multivectorK) ELSE <<>>
             B == IF query.text /\ Index[q].lexical THEN Branch(q, "bm25", query.bm25K) ELSE <<>>
  <1>1. OfBranch(D, q, "dense") /\ OfBranch(M, q, "multi") /\ OfBranch(B, q, "bm25")
    <2>1. {"dense", "multi", "bm25"} \subseteq Branches
      BY DEF Branches
    <2> QED BY <2>1, BranchFacts, EmptyBranch
  <1>2. query.multivector \in BOOLEAN
    BY QueriesAssumption DEF Arguments
  <1>3. query.multivector => Index[q].multivector
    BY DEF ArgumentRejected
  <1>4. Candidates(q, query) = D \o M \o B
    BY DEF Candidates
  <1> HIDE DEF D, M, B
  <1> QED BY <1>1, <1>2, <1>3, <1>4, BranchesJoined

\* What PgturbohybridCollectScanResults collects for the query q under a LIMIT
\* and a tuple target: the fused ranking of its candidates.
LEMMA CollectedIsReference ==
    ASSUME NEW q \in Queries, ~ArgumentRejected(q), UsableArray(cache), nodeCount \in Nat,
           NEW limit \in Int, NEW tuples \in Int
    PROVE  LET query == EffectiveQuery(Args[q], limit)
               cands == Candidates(q, query)
               fused == Fuse(query, cache, cands, query.multivector, nodeCount)
               results == FinalizeFusedResults(query, fused.items, limit, tuples)
           IN  /\ SameRanking(results,
                              ReferenceFusion(query, cands, query.multivector, limit, tuples))
               /\ UsableArray(fused.cache)
               /\ tuples > 0 => Len(results) = IF MaxUnion > 0 THEN MinOf(Len(fused.items), MaxUnion)
                                               ELSE Len(fused.items)
  <1> DEFINE query == EffectiveQuery(Args[q], limit)
             byTid == query.multivector
             cands == Candidates(q, query)
             fused == Fuse(query, cache, cands, byTid, nodeCount)
             n == Len(fused.items)
             t == FinalTarget(query, n, limit, tuples)
             results == FinalizeFusedResults(query, fused.items, limit, tuples)
  <1>1. Args[q] \in Arguments
    BY QueriesAssumption
  <1>2. /\ query.vector = Args[q].vector /\ byTid = Args[q].multivector /\ query.text = Args[q].text
        /\ query.denseK \in Nat /\ query.multivectorK \in Nat /\ query.bm25K \in Nat
        /\ ScoringQuery(query) /\ EffectiveFinalK(query, limit) \in Int
    BY <1>1, EffectiveQueryFacts
  <1>3. byTid \in BOOLEAN
    BY <1>1, <1>2 DEF Arguments
  <1> HIDE DEF query
  <1>4. GoodCandidates(cands, byTid)
    BY <1>2, CandidatesGood
  <1> HIDE DEF cands
  <1>5. MergeOf(fused.items, KeptKeys(query, cands, byTid), cands, byTid) /\ UsableArray(fused.cache)
    BY <1>3, <1>4, FuseFacts
  <1> HIDE DEF fused, byTid
  <1>6. /\ SameRanking(results, ReferenceFusion(query, cands, byTid, limit, tuples))
        /\ n \in Nat /\ Len(results) = MaxOf(t, 0)
    <2> DEFINE items == fused.items
    <2>1. /\ MergeOf(items, KeptKeys(query, cands, byTid), cands, byTid)
          /\ GoodCandidates(cands, byTid) /\ ScoringQuery(query) /\ limit \in Int /\ tuples \in Int
          /\ EffectiveFinalK(query, limit) \in Int
      BY <1>2, <1>4, <1>5
    <2> HIDE DEF items
    <2>2. LET o == FinalizeFusedResults(query, items, limit, tuples)
              f == FinalTarget(query, Len(items), limit, tuples)
          IN  /\ SameRanking(o, ReferenceFusion(query, cands, byTid, limit, tuples))
              /\ Len(items) \in Nat /\ Len(o) = MaxOf(f, 0)
      BY ONLY <2>1, FinalizeIsReference, SMTT(20)
    <2> QED BY <2>2 DEF items
  <1>7. tuples > 0 => t = IF MaxUnion > 0 THEN MinOf(n, MaxUnion) ELSE n
    BY DEF FinalTarget
  <1>8. tuples > 0 => t \in Nat
    BY <1>6, <1>7, FusionAssumption DEF MinOf
  <1> HIDE DEF t, n, results
  <1>9. tuples > 0 => MaxOf(t, 0) = t
    BY <1>8 DEF MaxOf
  <1>10. tuples > 0 => Len(results) = IF MaxUnion > 0 THEN MinOf(n, MaxUnion) ELSE n
    BY <1>6, <1>7, <1>9
  <1> QED BY <1>5, <1>6, <1>10 DEF query, byTid, cands, fused, n, results

(***************************************************************************)
(* The results of the scans.                                               *)
(***************************************************************************)

\* What ScansInv says of the state s of the scan of q; on tells whether the
\* controller is, gone whether an abort dropped the statement of q.
ScanOK(s, q, on, gone) ==
    /\ DOMAIN s = DOMAIN FreshScan
    /\ s.done /\ on /\ ControlledTarget(Plan[q]) > 0 =>
          Len(s.results) = IF MaxUnion > 0 THEN MinOf(s.merged, MaxUnion) ELSE s.merged
    /\ s.done /\ ~OpenPortals /\ ~gone => Ranked(s.results) = Ranked(s.expected)

ScansAre(scans, array, on, gone) ==
    /\ UsableArray(array) /\ DOMAIN scans = Queries
    /\ \A q \in Queries : ScanOK(scans[q], q, on, q \in gone)

\* The results of every scan are good.
LEMMA ScansOK ==
    /\ ScansInv <=> ScansAre(scan, cache, controller, dropped)
    /\ ScansInv' <=> ScansAre(scan', cache', controller', dropped')
  <1>1. ScansInv <=> ScansAre(scan, cache, controller, dropped)
    BY DEF ScansInv, ScansAre, ScanOK
  <1>2. ScansInv' <=> ScansAre(scan', cache', controller', dropped')
    BY DEF ScansInv, ScansAre, ScanOK
  <1> QED BY <1>1, <1>2

\* A scan that has collected nothing.
LEMMA FreshOK ==
    ASSUME NEW q, NEW on, NEW gone
    PROVE  /\ ScanOK(FreshScan, q, on, gone)
           /\ ScanOK([FreshScan EXCEPT !.started = TRUE], q, on, gone)
  BY DEF ScanOK, FreshScan

\* A scan that has collected the same.
LEMMA SameOK ==
    ASSUME NEW s, NEW r, NEW q, NEW on, NEW gone, ScanOK(s, q, on, gone),
           DOMAIN r = DOMAIN s, r.done = s.done, r.results = s.results, r.merged = s.merged,
           r.expected = s.expected
    PROVE  ScanOK(r, q, on, gone)
  BY DEF ScanOK

\* A backend starts with no scan and an empty generation array.
LEMMA InitScans == Init => ScansInv
  <1> SUFFICES ASSUME Init PROVE ScansInv
    OBVIOUS
  <1>1. UsableArray(cache)
    <2>1. cache = [entries |-> <<>>, capacity |-> 0, generation |-> 0]
      BY DEF Init
    <2>2. MaxGeneration \in Nat
      BY FusionAssumption
    <2>3. <<>> \in [0 .. 0 - 1 -> [generation : 0 .. 0, result : Items]]
      <3>1. DOMAIN <<>> = {} /\ 0 .. 0 - 1 = {} /\ <<>> = [x \in {} |-> 0]
        OBVIOUS
      <3> QED BY <3>1
    <2> QED BY <2>1, <2>2, <2>3 DEF UsableArray, ArraysOf
  <1>2. scan = [q \in Queries |-> FreshScan]
    BY DEF Init
  <1>3. ScansAre(scan, cache, controller, dropped)
    BY <1>1, <1>2, FreshOK DEF ScansAre
  <1> QED BY <1>3, ScansOK

\* An error drops the scans of the queries it unwinds.
LEMMA UnwindScans ==
    ASSUME ScansInv, NEW h, NEW r, Unwind(h, r)
    PROVE  ScansInv'
  <1> DEFINE kept == ToSet(IF subs = <<>> THEN <<>> ELSE Last(subs).opened)
  <1>1. /\ scan' = [q \in Queries |-> IF q \in kept THEN scan[q] ELSE FreshScan]
        /\ dropped' = kept /\ cache' = cache /\ controller' = controller
    BY DEF Unwind
  <1> HIDE DEF kept
  <1>2. ScansAre(scan, cache, controller, dropped)
    BY ScansOK
  <1>3. ASSUME NEW q \in Queries PROVE ScanOK(scan'[q], q, controller', q \in dropped')
    <2>1. CASE q \in kept
      <3>1. scan'[q] = scan[q] /\ q \in dropped'
        BY <1>1, <2>1
      <3>2. ScanOK(scan[q], q, controller, q \in dropped)
        BY <1>2 DEF ScansAre
      <3> QED BY <1>1, <3>1, <3>2 DEF ScanOK
    <2>2. CASE q \notin kept
      <3>1. scan'[q] = FreshScan
        BY <1>1, <2>2
      <3> QED BY <3>1, FreshOK
    <2> QED BY <2>1, <2>2
  <1>4. ScansAre(scan', cache', controller', dropped')
    BY <1>1, <1>2, <1>3 DEF ScansAre
  <1> QED BY <1>4, ScansOK

\* A step that changes only the scan of q, and no more about who was dropped.
LEMMA OneScan ==
    ASSUME ScansInv, UsableArray(cache'), NEW q \in Queries, NEW s,
           ScanOK(s, q, controller', q \in dropped'), scan' = [scan EXCEPT ![q] = s],
           dropped' = dropped \/ dropped' = dropped \ {q}, controller' = controller
    PROVE  ScansInv'
  <1>1. ScansAre(scan, cache, controller, dropped)
    BY ScansOK
  <1>2. DOMAIN scan' = Queries /\ scan'[q] = s /\ \A p \in Queries \ {q} : scan'[p] = scan[p]
    BY <1>1 DEF ScansAre
  <1>3. ASSUME NEW p \in Queries PROVE ScanOK(scan'[p], p, controller', p \in dropped')
    <2>1. CASE p = q
      BY <1>2, <2>1
    <2>2. CASE p # q
      <3>1. scan'[p] = scan[p] /\ (p \in dropped <=> p \in dropped')
        BY <1>2, <2>2
      <3>2. ScanOK(scan[p], p, controller, p \in dropped)
        BY <1>1 DEF ScansAre
      <3> QED BY <3>1, <3>2 DEF ScanOK
    <2> QED BY <2>1, <2>2
  <1>4. ScansAre(scan', cache', controller', dropped')
    BY <1>2, <1>3 DEF ScansAre
  <1> QED BY <1>4, ScansOK

\* A step that leaves the scans alone.
LEMMA NoScan ==
    ASSUME ScansInv, UNCHANGED <<scan, cache, controller, dropped>>
    PROVE  ScansInv'
  BY ScansOK

\* The query whose scan runs.
LEMMA TopQuery ==
    ASSUME Inv, Idle
    PROVE  Top.query \in Queries /\ run # <<>>
  <1>1. run # <<>> /\ Len(run) \in DOMAIN run
    BY Places, EmptySeq DEF Idle
  <1> QED BY <1>1, Places

\* A scan that goes on has collected what it had.
LEMMA ScanMoves ==
    ASSUME Inv, ScansInv, Idle, EnterScan \/ LeaveScan
    PROVE  ScansInv'
  <1> DEFINE q == Top.query
  <1>1. q \in Queries
    BY TopQuery
  <1>2. ScansAre(scan, cache, controller, dropped)
    BY ScansOK
  <1>3. ScanOK(scan[q], q, controller, q \in dropped) /\ DOMAIN scan = Queries
    BY <1>1, <1>2 DEF ScansAre
  <1>4. DOMAIN scan[q] = {"started", "done", "results", "index", "merged", "expected"}
    BY <1>3 DEF ScanOK, FreshScan
  <1>5. CASE EnterScan
    <2>1. CASE controller /\ q \notin hooks.wrappers
      <3>1. Unwind(hooks, run)
        BY <1>5, <2>1 DEF EnterScan
      <3> QED BY <3>1, UnwindScans
    <2>2. CASE ~ (controller /\ q \notin hooks.wrappers)
      <3> DEFINE s == [scan[q] EXCEPT !.started = TRUE]
      <3>1. scan' = [scan EXCEPT ![q].started = TRUE] /\ UNCHANGED <<cache, controller, dropped>>
        BY <1>5, <2>2 DEF EnterScan
      <3> HIDE DEF q
      <3>2. scan' = [scan EXCEPT ![q] = s]
        BY <3>1
      <3>3. /\ DOMAIN s = DOMAIN scan[q] /\ s.done = scan[q].done /\ s.results = scan[q].results
            /\ s.merged = scan[q].merged /\ s.expected = scan[q].expected
        BY <1>4
      <3> HIDE DEF s
      <3>4. ScanOK(s, q, controller, q \in dropped)
        BY <1>3, <3>3, SameOK
      <3> QED BY <1>1, <1>2, <3>1, <3>2, <3>4, OneScan DEF ScansAre
    <2> QED BY <2>1, <2>2
  <1>6. CASE LeaveScan
    <2> DEFINE i == MinOf(scan[q].index + 1, Len(scan[q].results))
               s == [scan[q] EXCEPT !.index = i]
    <2>1. /\ scan' = [scan EXCEPT ![q].index = MinOf(@ + 1, Len(scan[q].results))]
          /\ UNCHANGED <<cache, controller, dropped>>
      BY <1>6 DEF LeaveScan
    <2> HIDE DEF q
    <2>2. scan' = [scan EXCEPT ![q] = s]
      BY <2>1
    <2> HIDE DEF i
    <2>3. /\ DOMAIN s = DOMAIN scan[q] /\ s.done = scan[q].done /\ s.results = scan[q].results
          /\ s.merged = scan[q].merged /\ s.expected = scan[q].expected
      BY <1>4
    <2> HIDE DEF s
    <2>4. ScanOK(s, q, controller, q \in dropped)
      BY <1>3, <2>3, SameOK
    <2> QED BY <1>1, <1>2, <2>1, <2>2, <2>4, OneScan DEF ScansAre
  <1> QED BY <1>5, <1>6

\* A scan that starts, ends or starts over has collected nothing.
LEMMA ScanResets ==
    ASSUME Inv, ScansInv,
           (\E q \in Queries : StartQuery(q) \/ EndQuery(q)) \/ Rescan
    PROVE  ScansInv'
  <1>1. UsableArray(cache)
    BY DEF ScansInv
  <1>2. CASE \E q \in Queries : StartQuery(q) \/ EndQuery(q)
    <2>1. PICK q \in Queries : StartQuery(q) \/ EndQuery(q)
      BY <1>2
    <2>2. /\ scan' = [scan EXCEPT ![q] = FreshScan] /\ dropped' = dropped \ {q}
          /\ UNCHANGED <<cache, controller>>
      BY <2>1 DEF StartQuery, EndQuery
    <2>3. ScanOK(FreshScan, q, controller', q \in dropped')
      BY FreshOK
    <2> QED BY <1>1, <2>2, <2>3, OneScan
  <1>3. CASE Rescan
    <2> DEFINE q == Top.query
               s == [FreshScan EXCEPT !.started = TRUE]
    <2>1. q \in Queries
      BY <1>3, TopQuery DEF Rescan
    <2>2. scan' = [scan EXCEPT ![q] = s] /\ UNCHANGED <<cache, controller, dropped>>
      BY <1>3 DEF Rescan
    <2> HIDE DEF q
    <2>3. ScanOK(s, q, controller', q \in dropped')
      BY FreshOK
    <2> HIDE DEF s
    <2> QED BY <1>1, <2>1, <2>2, <2>3, OneScan
  <1> QED BY <1>2, <1>3

\* A scan collects what its query would alone, from the LIMIT of the current
\* statement and the tuple target of the innermost scan.
LEMMA ScanCollects ==
    ASSUME Inv, ScansInv, ScanTargetOwn, ScanStatementOwn, CollectScanResults
    PROVE  ScansInv'
  <1> DEFINE q == Top.query
             limit == CurrentLimit(hooks)
             query == EffectiveQuery(Args[q], limit)
             cands == Candidates(q, query)
             fused == Fuse(query, cache, cands, query.multivector, nodeCount)
             results == FinalizeFusedResults(query, fused.items, limit, active)
             s == [scan[q] EXCEPT !.done = TRUE, !.results = results, !.index = 0,
                                  !.merged = Len(fused.items), !.expected = Solo(q)]
  <1>1. /\ Idle /\ Top.inScan /\ ~ArgumentRejected(q)
        /\ cache' = fused.cache /\ scan' = [scan EXCEPT ![q] = s]
        /\ UNCHANGED <<controller, dropped>>
    BY DEF CollectScanResults
  <1>2. q \in Queries /\ run # <<>>
    BY <1>1, TopQuery
  <1>3. active = IF controller THEN ControlledTarget(Plan[q]) ELSE NoLimit
    BY <1>1, <1>2 DEF ScanTargetOwn
  <1>4. ~OpenPortals /\ q \notin dropped => hooks.current = <<q>>
    BY <1>1, <1>2 DEF ScanStatementOwn
  <1>5. /\ ScansAre(scan, cache, controller, dropped) /\ ScanOK(scan[q], q, controller, q \in dropped)
    BY <1>2, ScansOK DEF ScansAre
  <1>6. active \in Int
    BY <1>2, <1>3, QueriesAssumption, ControlledTargetType DEF NoLimit
  <1>7. limit \in Int
    <2>1. hooks.current \in Statements
      BY DEF Inv, TypeOK
    <2>2. CASE hooks.current = <<>>
      BY <2>2 DEF CurrentLimit
    <2>3. CASE hooks.current # <<>>
      <3>1. PICK p \in Queries : hooks.current = <<p>>
        BY <2>1, <2>3 DEF Statements, NoStatement
      <3>2. limit = FindLimitInPlan(Plan[p])
        BY <2>3, <3>1 DEF CurrentLimit
      <3> QED BY <3>1, <3>2, QueriesAssumption, PlanLimitType
    <2> QED BY <2>2, <2>3
  <1>8. nodeCount \in Nat
    BY AccessAssumption DEF Inv, TypeOK
  <1>9. ~OpenPortals /\ q \notin dropped => limit = FindLimitInPlan(Plan[q])
    <2>1. hooks.current = <<q>> => limit = FindLimitInPlan(Plan[q])
      BY DEF CurrentLimit
    <2> QED BY <1>4, <2>1
  <1> HIDE DEF q, limit
  <1>10. /\ SameRanking(results, ReferenceFusion(query, cands, query.multivector, limit, active))
         /\ UsableArray(fused.cache)
         /\ active > 0 => Len(results) = IF MaxUnion > 0 THEN MinOf(Len(fused.items), MaxUnion)
                                         ELSE Len(fused.items)
    BY <1>1, <1>2, <1>5, <1>6, <1>7, <1>8, CollectedIsReference DEF ScansAre
  <1>11. limit = FindLimitInPlan(Plan[q]) =>
            Solo(q) = ReferenceFusion(query, cands, query.multivector, limit, active)
    BY <1>3 DEF Solo
  <1> HIDE DEF results, fused
  <1>12. limit = FindLimitInPlan(Plan[q]) => Ranked(results) = Ranked(Solo(q))
    <2> DEFINE ref == ReferenceFusion(query, cands, query.multivector, limit, active)
    <2> HIDE DEF ref, query, cands
    <2>1. SameRanking(results, ref)
      BY <1>10 DEF ref
    <2>2. Ranked(results) = Ranked(ref)
      BY <2>1 DEF SameRanking, Ranked
    <2> QED BY <1>11, <2>2 DEF ref
  <1> HIDE DEF query, cands
  <1>13. /\ DOMAIN s = DOMAIN FreshScan /\ s.results = results /\ s.merged = Len(fused.items)
         /\ s.expected = Solo(q)
    <2>1. DOMAIN scan[q] = {"started", "done", "results", "index", "merged", "expected"}
      BY <1>5 DEF ScanOK, FreshScan
    <2> QED BY <2>1 DEF FreshScan
  <1> HIDE DEF s
  <1>14. ScanOK(s, q, controller, q \in dropped)
    BY <1>3, <1>9, <1>10, <1>12, <1>13 DEF ScanOK
  <1>15. UsableArray(cache')
    BY <1>1, <1>10
  <1> QED BY <1>1, <1>2, <1>14, <1>15, OneScan

\* Every step keeps ScansInv.
LEMMA NextScans ==
    ASSUME Inv, ScansInv, ScanTargetOwn, ScanStatementOwn, [Next]_vars
    PROVE  ScansInv'
  <1>1. CASE \E q \in Queries : StartQuery(q) \/ StartFails(q) \/ RunQuery(q) \/ EndQuery(q)
    <2>1. PICK q \in Queries : StartQuery(q) \/ StartFails(q) \/ RunQuery(q) \/ EndQuery(q)
      BY <1>1
    <2>2. CASE StartQuery(q) \/ EndQuery(q)
      BY <2>2, ScanResets
    <2>3. CASE StartFails(q)
      BY <2>3, UnwindScans DEF StartFails
    <2>4. CASE RunQuery(q)
      BY <2>4, NoScan DEF RunQuery
    <2> QED BY <2>1, <2>2, <2>3, <2>4
  <1>2. CASE EnterScan \/ LeaveScan
    <2>1. Idle
      BY <1>2 DEF EnterScan, LeaveScan
    <2> QED BY <1>2, <2>1, ScanMoves
  <1>3. CASE CollectScanResults
    BY <1>3, ScanCollects
  <1>4. CASE Rescan
    BY <1>4, ScanResets
  <1>5. CASE RejectScan \/ Raise
    BY <1>5, UnwindScans DEF RejectScan, Raise
  <1>6. CASE LeaveRun \/ BeginSub \/ EndSub \/ InsertNode
    BY <1>6, NoScan DEF LeaveRun, BeginSub, EndSub, InsertNode
  <1>7. CASE UNCHANGED vars
    BY <1>7, NoScan DEF vars
  <1> QED BY <1>1, <1>2, <1>3, <1>4, <1>5, <1>6, <1>7 DEF Next

\* The fusion array can always serve the next scan, and every scan has collected
\* the fused ranking of its own query, cut at its own target, whichever of the
\* three merges PgturbohybridCollectScanResults chose.
THEOREM ScansInvHolds == Spec => []ScansInv
  <1> QED BY InitScans, NextScans, AccessInvHolds, ScansUseOwnTarget, ScansSeeOwnStatement, PTL
          DEF Spec

\* A scan directly under a LIMIT keeps all fused candidates, up to
\* max_union_candidates, for any queries, plans, rankings and nesting, also
\* where portals stay open and after an abort (PgturbohybridFinalTarget).
THEOREM LimitedScansComplete == Spec => []LimitedScanNotCapped
  <1>1. Inv /\ ScansInv => LimitedScanNotCapped
    <2> SUFFICES ASSUME Inv, ScansInv PROVE LimitedScanNotCapped
      OBVIOUS
    <2>1. Open \subseteq Queries
      BY Places
    <2> QED BY <2>1 DEF LimitedScanNotCapped, ScansInv
  <1> QED BY <1>1, ScansInvHolds, AccessInvHolds, PTL

\* Without open portals a scan returns what its query returns alone in a new
\* session: the generation array another scan left behind, the merge that was
\* chosen, the top-N heap and the queries nested around it make no difference.
THEOREM ScansAreIsolated ==
    ASSUME ~OpenPortals
    PROVE  Spec => []ScanIsolated
  <1>1. Inv /\ ScansInv => ScanIsolated
    <2> SUFFICES ASSUME Inv, ScansInv PROVE ScanIsolated
      OBVIOUS
    <2>1. Open \subseteq Queries
      BY Places
    <2> QED BY <2>1 DEF ScanIsolated, ScansInv
  <1> QED BY <1>1, ScansInvHolds, AccessInvHolds, PTL
=============================================================================

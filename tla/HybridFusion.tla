---------------------------- MODULE HybridFusion ----------------------------
(***************************************************************************)
(* How the access method fuses the candidates of its branches into one     *)
(* ranking (pgturbohybrid_am.c): the budgets taken from the query and the  *)
(* LIMIT, three implementations of the merge (a generation-stamped array   *)
(* indexed by node, an open-addressing hash table, a sort), the scores,    *)
(* and the top-N heap.  A rank is the candidate's place in its branch and  *)
(* 0 when the branch did not return it; similarities and scores are        *)
(* integers, fractions are multiples of 1/Scale.                           *)
(***************************************************************************)
EXTENDS Integers, Sequences, FiniteSets, SequencesExt

CONSTANTS HashThreshold,     \* candidates from which a table replaces the sort
          MinSlots,          \* smallest hash table, a power of two
          MinBudget,         \* pgturbohybrid_auto_budget_min_dense_k, _min_bm25_k
          LimitMultiplier,   \* pgturbohybrid_auto_budget_limit_multiplier
          QualityCap,        \* pgturbohybrid_auto_budget_quality_cap
          DefaultFinalK,     \* PGTURBOHYBRID_DEFAULT_FINAL_K
          MaxUnion,          \* max_union_candidates, 0 for no cap
          Scale,             \* fixed-point unit of a fused score
          MaxGeneration      \* the largest value of the generation counter

ASSUME FusionAssumption ==
    /\ {HashThreshold, MinBudget, QualityCap, MaxUnion} \subseteq Nat
    /\ {MinSlots, LimitMultiplier, DefaultFinalK, Scale, MaxGeneration} \subseteq Nat \ {0}

NoLimit == -1

MinOf(a, b) == IF a < b THEN a ELSE b
MaxOf(a, b) == IF a > b THEN a ELSE b

\* The members of S in the strict order L, a set of pairs (the qsort calls).
Sorted(S, L) ==
    [i \in 1 .. Cardinality(S) |->
        CHOOSE x \in S : Cardinality({y \in S : <<y, x>> \in L}) = i - 1]

\* The entries of the sequence s at the places in kept, in their order.
Pick(s, kept) ==
    LET places == Sorted(kept, {p \in kept \X kept : p[1] < p[2]})
    IN  [n \in 1 .. Cardinality(kept) |-> s[places[n]]]

-----------------------------------------------------------------------------
(* Budgets: what the query asks for and what the LIMIT above it allows.    *)

EffectiveFinalK(query, limit) ==
    IF query.finalSet THEN query.finalK
    ELSE IF limit > 0 THEN limit ELSE DefaultFinalK

ApplyAutoBudget(requested, limit, defaulted, present) ==
    IF ~defaulted \/ ~present \/ requested <= 0 \/ limit <= 0 THEN requested
    ELSE LET target == MaxOf(limit * LimitMultiplier, MinBudget)
         IN  MinOf(requested, IF QualityCap > 0 THEN MinOf(target, QualityCap) ELSE target)

\* PgturbohybridCanonicalizeLatencyQuery: the latency profile is the fixed one,
\* so the copy that runs always looks like a call with an explicit final_k.
CanonicalizeLatencyQuery(query, limit) ==
    [query EXCEPT !.finalK = EffectiveFinalK(query, limit), !.finalSet = TRUE,
                  !.denseDefaulted = FALSE, !.bm25Defaulted = FALSE]

EffectiveQuery(query, limit) ==
    CanonicalizeLatencyQuery(
        [query EXCEPT
           !.denseK = ApplyAutoBudget(query.denseK, limit, query.denseDefaulted, query.vector),
           !.multivectorK =
              ApplyAutoBudget(query.multivectorK, limit, query.denseDefaulted, query.multivector),
           !.bm25K = ApplyAutoBudget(query.bm25K, limit, query.bm25Defaulted, query.text)],
        limit)

\* PgturbohybridFinalTarget: final_k cuts the results only when neither the
\* executor's tuple target nor the planned statement shows a LIMIT.
FinalTargetByPlan(query, merged, limit, active) ==
    LET cap == IF MaxUnion > 0 THEN MinOf(merged, MaxUnion) ELSE merged
    IN  IF limit <= 0 THEN MinOf(cap, EffectiveFinalK(query, limit)) ELSE cap

FinalTarget(query, merged, limit, active) ==
    LET tuples == IF active < 0 /\ limit > 0 THEN limit ELSE active
        cap == IF MaxUnion > 0 THEN MinOf(merged, MaxUnion) ELSE merged
    IN  IF tuples <= 0 THEN MinOf(cap, EffectiveFinalK(query, limit)) ELSE cap

-----------------------------------------------------------------------------
(* Candidates and merged items.                                            *)

Items == [node : Nat, tid : Nat, dense : Nat, multi : Nat, bm25 : Nat,
          denseSim : Int, multiSim : Int, bm25Score : Nat]

Blank == [node |-> 0, tid |-> 0, dense |-> 0, multi |-> 0, bm25 |-> 0,
          denseSim |-> 0, multiSim |-> 0, bm25Score |-> 0]

AddDenseCandidate(item, c) ==
    [item EXCEPT !.node = c.node, !.tid = c.tid, !.dense = c.rank, !.denseSim = c.score]

AddMultiVectorCandidate(item, c) ==
    [item EXCEPT !.node = c.node, !.tid = c.tid, !.multi = c.rank, !.multiSim = c.score]

HasDenseLike(item) == item.dense > 0 \/ item.multi > 0

MergeBm25Candidate(item, c) ==
    [item EXCEPT !.tid = IF HasDenseLike(item) THEN @ ELSE c.tid,
                 !.node = c.node, !.bm25 = c.rank, !.bm25Score = c.score]

\* One branch's candidate added to an item.
AddCandidate(item, c) ==
    CASE c.branch = "dense" -> AddDenseCandidate(item, c)
      [] c.branch = "multi" -> AddMultiVectorCandidate(item, c)
      [] c.branch = "bm25"  -> MergeBm25Candidate(item, c)

\* Documents are merged by heap TID when the query has a multivector, whose
\* branch returns documents; otherwise by graph node.
Key(c, byTid) == IF byTid THEN c.tid ELSE c.node

\* Merged items that survive REQUIRE_BM25_MATCH.
Matching(items, query) ==
    Pick(items, {i \in DOMAIN items : query.requireBm25 => items[i].bm25 > 0})

-----------------------------------------------------------------------------
(* The three merges.  Each takes the candidates dense, multivector, BM25   *)
(* in that order.                                                          *)

\* An array of the given capacity whose entries were stamped up to generation g.
ArraysOf(capacity, g) ==
    [entries : [0 .. capacity - 1 -> [generation : 0 .. g, result : Items]],
     capacity : {capacity}, generation : {g}]

UsableArray(a) ==
    /\ a.capacity \in Nat /\ a.generation \in 0 .. MaxGeneration
    /\ a \in ArraysOf(a.capacity, a.generation)

\* PgturbohybridGetFusionGenerationArray: a larger array starts afresh; at the
\* largest generation the stamps are cleared before they would repeat.
FreshArray(size) == [entries |-> [n \in 0 .. size - 1 |-> [generation |-> 0, result |-> Blank]],
                     capacity |-> size, generation |-> 1]

NextGenerationUncleared(cache, nodeCount) ==
    IF cache.capacity < nodeCount THEN FreshArray(nodeCount)
    ELSE [cache EXCEPT !.generation = IF @ = MaxGeneration THEN 1 ELSE @ + 1]

NextGeneration(cache, nodeCount) ==
    IF cache.capacity < nodeCount THEN FreshArray(nodeCount)
    ELSE IF cache.generation = MaxGeneration THEN FreshArray(cache.capacity)
    ELSE [cache EXCEPT !.generation = @ + 1]

\* PgturbohybridFuseGenerationArray, up to the merged items: the array after
\* the merge and the nodes touched, in order.
TouchEntry(acc, c) ==
    LET e == acc.array.entries[c.node]
        g == acc.array.generation
        new == e.generation # g
        item == AddCandidate(IF new THEN Blank ELSE e.result, c)
    IN  [array |-> [acc.array EXCEPT !.entries[c.node] = [generation |-> g, result |-> item]],
         touched |-> IF new THEN Append(acc.touched, c.node) ELSE acc.touched]

FuseGenerationArray(cache, nodeCount, cands) ==
    LET after[i \in 0 .. Len(cands)] ==
            IF i = 0 THEN [array |-> NextGeneration(cache, nodeCount), touched |-> <<>>]
            ELSE TouchEntry(after[i - 1], cands[i])
    IN  after[Len(cands)]

ArrayItems(fused) ==
    [i \in 1 .. Len(fused.touched) |-> fused.array.entries[fused.touched[i]].result]

NextPowerOfTwo(n) ==
    LET power[i \in 0 .. n] == IF i = 0 THEN 1
                               ELSE IF power[i - 1] < n THEN 2 * power[i - 1] ELSE power[i - 1]
    IN  power[n]

HashSlotCount(n) == NextPowerOfTwo(MaxOf(n + n \div 4 + 1, MinSlots))

\* Fibonacci hashing, with the multiplier of a table of this size.
HashSlot(key, slots) == (key * 5) % slots

\* The slot looked at after d others.
Probe(key, d, slots) ==
    LET s == HashSlot(key, slots) + d IN 1 + IF s < slots THEN s ELSE s - slots

\* PgturbohybridFindMergeSlot, PgturbohybridFindMergeSlotByHeapTid: linear
\* probing up to the key's slot or the first free one.
FindMergeSlot(table, key) ==
    LET n == Len(table)
        Ends(d) == ~table[Probe(key, d, n)].used \/ table[Probe(key, d, n)].key = key
    IN  Probe(key, CHOOSE d \in 0 .. n - 1 : Ends(d) /\ \A b \in 0 .. d - 1 : ~Ends(b), n)

FreeSlot == [used |-> FALSE, key |-> 0, result |-> Blank]

AddToSlot(table, k, c) ==
    LET s == FindMergeSlot(table, k)
    IN  [table EXCEPT ![s] = [used |-> TRUE, key |-> k,
                              result |-> AddCandidate(table[s].result, c)]]

FuseHash(cands, byTid) ==
    LET table[i \in 0 .. Len(cands)] ==
            IF i = 0 THEN [s \in 1 .. HashSlotCount(Len(cands)) |-> FreeSlot]
            ELSE AddToSlot(table[i - 1], Key(cands[i], byTid), cands[i])
        full == table[Len(cands)]
    IN  Pick([s \in DOMAIN full |-> full[s].result], {s \in DOMAIN full : full[s].used})

\* The order of the sort, by key.  qsort may leave items of one key in any
\* order: by heap TID the node decides, by node the branches can differ.
SortsBefore(cands, byTid) ==
    {p \in (DOMAIN cands) \X (DOMAIN cands) :
        LET a == p[1]  x == cands[a]  kx == Key(x, byTid)
            b == p[2]  y == cands[b]  ky == Key(y, byTid)
        IN  \/ kx < ky
            \/ kx = ky /\ (x.node < y.node \/ (x.node = y.node /\ a < b))}

\* One item of the pass over the sorted items: it joins the last of the runs or
\* begins the next.  The node stays that of the first item
\* (PgturbohybridMergeBm25ResultItem and the two branches before it).
AddToRuns(runs, k, c) ==
    LET n == Len(runs)
    IN  IF n > 0 /\ runs[n].key = k
        THEN [runs EXCEPT ![n] = [key |-> k, item |-> [AddCandidate(runs[n].item, c)
                                                           EXCEPT !.node = runs[n].item.node]]]
        ELSE Append(runs, [key |-> k, item |-> AddCandidate(Blank, c)])

FuseSort(cands, byTid) ==
    LET order == Sorted(DOMAIN cands, SortsBefore(cands, byTid))
        runs[i \in 0 .. Len(cands)] ==
            IF i = 0 THEN <<>>
            ELSE AddToRuns(runs[i - 1], Key(cands[order[i]], byTid), cands[order[i]])
        all == runs[Len(cands)]
    IN  [i \in 1 .. Len(all) |-> all[i].item]

-----------------------------------------------------------------------------
(* Scores.                                                                 *)

RrfShare(weight, rank, rrfK) == IF rank = 0 THEN 0 ELSE (weight * Scale) \div (rrfK + rank)

RrfScore(query, item) ==
    RrfShare(query.denseWeight, item.dense, query.rrfK)
      + RrfShare(query.multivectorWeight, item.multi, query.rrfK)
      + RrfShare(query.bm25Weight, item.bm25, query.rrfK)

DenseLikeSimilarity(item) == IF item.dense > 0 THEN item.denseSim ELSE item.multiSim

Normalize(v, lo, hi) ==
    IF hi <= lo THEN (IF v > 0 THEN Scale ELSE 0) ELSE ((v - lo) * Scale) \div (hi - lo)

LowOf(S) == CHOOSE x \in S : \A y \in S : x <= y
HighOf(S) == CHOOSE x \in S : \A y \in S : x >= y

\* Among the set items.  The weights alpha and 1 - alpha are halves, the default
\* of both modes.
WeightedScore(items, item) ==
    LET ds == {DenseLikeSimilarity(i) : i \in {j \in items : HasDenseLike(j)}}
        bs == {i.bm25Score : i \in {j \in items : j.bm25 > 0}}
        d == IF HasDenseLike(item)
             THEN Normalize(DenseLikeSimilarity(item), LowOf(ds), HighOf(ds)) ELSE 0
        b == IF item.bm25 > 0 THEN Normalize(item.bm25Score, LowOf(bs), HighOf(bs)) ELSE 0
    IN  d + b

\* The logistic of a similarity and x/(x+1) of a BM25 score, as rational
\* functions with the same order and the same limits.
LogisticNorm(s) == IF s >= 0 THEN Scale - Scale \div (s + 2) ELSE Scale \div (2 - s)
SaturatingNorm(s) == Scale - Scale \div (s + 1)

FastWeightedScore(item) ==
    (IF HasDenseLike(item) THEN LogisticNorm(DenseLikeSimilarity(item)) ELSE 0)
      + (IF item.bm25 > 0 THEN SaturatingNorm(item.bm25Score) ELSE 0)

CalibratedScore(item) ==
    FastWeightedScore(item) + IF HasDenseLike(item) /\ item.bm25 > 0 THEN (3 * Scale) \div 25 ELSE 0

FusedScore(query, items, item) ==
    CASE query.fusion = "rrf"           -> RrfScore(query, item)
      [] query.fusion = "weighted"      -> WeightedScore(items, item)
      [] query.fusion = "fast_weighted" -> FastWeightedScore(item)
      [] query.fusion = "calibrated"    -> CalibratedScore(item)

ScoredItem(query, items, item) == [item |-> item, score |-> FusedScore(query, items, item)]

ScoreResults(query, items) ==
    [i \in DOMAIN items |-> ScoredItem(query, ToSet(items), items[i])]

\* PgturbohybridScoreCompare < 0.
ScoreBefore(x, y) ==
    LET Both(r) == HasDenseLike(r.item) /\ r.item.bm25 > 0
        RankBefore(a, b) == a # 0 /\ (b = 0 \/ a < b)
    IN  \/ x.score > y.score
        \/ /\ x.score = y.score
           /\ \/ Both(x) /\ ~Both(y)
              \/ /\ Both(x) = Both(y)
                 /\ \/ RankBefore(x.item.dense, y.item.dense)
                    \/ /\ x.item.dense = y.item.dense
                       /\ \/ RankBefore(x.item.multi, y.item.multi)
                          \/ /\ x.item.multi = y.item.multi
                             /\ \/ RankBefore(x.item.bm25, y.item.bm25)
                                \/ (x.item.bm25 = y.item.bm25 /\ x.item.node < y.item.node)

\* qsort by PgturbohybridScoreCompare.
SortByScore(S) == Sorted(S, {p \in S \X S : ScoreBefore(p[1], p[2])})

-----------------------------------------------------------------------------
(* The top-N heap: the worst of the kept results is at the root.           *)

SwapPlaces(h, i, j) == [h EXCEPT ![i] = h[j], ![j] = h[i]]

\* One round of PgturbohybridTopNHeapSiftUp: the result at place s.at changes
\* places with its parent if it comes after it.
RiseOnce(s) ==
    LET parent == s.at \div 2
    IN  IF s.at > 1 /\ ScoreBefore(s.heap[parent], s.heap[s.at])
        THEN [heap |-> SwapPlaces(s.heap, s.at, parent), at |-> parent]
        ELSE s

SiftUp(h, place) ==
    LET round[n \in 0 .. place] == IF n = 0 THEN [heap |-> h, at |-> place]
                                   ELSE RiseOnce(round[n - 1])
    IN  round[place].heap

\* The worst of place i and its children.
Worst(h, i) ==
    LET left == IF 2 * i <= Len(h) /\ ScoreBefore(h[i], h[2 * i]) THEN 2 * i ELSE i
    IN  IF 2 * i + 1 <= Len(h) /\ ScoreBefore(h[left], h[2 * i + 1]) THEN 2 * i + 1 ELSE left

\* One round of PgturbohybridTopNHeapSiftDown.
SinkOnce(s) ==
    LET worst == Worst(s.heap, s.at)
    IN  IF worst = s.at THEN s ELSE [heap |-> SwapPlaces(s.heap, s.at, worst), at |-> worst]

SiftDown(h) ==
    LET round[n \in 0 .. Len(h)] == IF n = 0 THEN [heap |-> h, at |-> 1] ELSE SinkOnce(round[n - 1])
    IN  round[Len(h)].heap

\* One result of PgturbohybridSelectTopN.
Offer(h, r, target) ==
    IF Len(h) < target THEN SiftUp(Append(h, r), Len(h) + 1)
    ELSE IF ScoreBefore(r, h[1]) THEN SiftDown([h EXCEPT ![1] = r])
    ELSE h

SelectTopN(scored, target) ==
    LET heap[i \in 0 .. Len(scored)] == IF i = 0 THEN <<>> ELSE Offer(heap[i - 1], scored[i], target)
    IN  IF target <= 0 THEN <<>> ELSE SortByScore(ToSet(heap[Len(scored)]))

\* PgturbohybridFinalizeFusedResults; diversity and the rescoring of BM25-only
\* candidates are off in the fixed policy.
FinalizeFusedResults(query, items, limit, active) ==
    LET scored == ScoreResults(query, items)
        target == FinalTarget(query, Len(items), limit, active)
    IN  IF target < Len(items) THEN SelectTopN(scored, target)
        ELSE SortByScore(ToSet(scored))

\* PgturbohybridShouldUseGenerationArray.
UseGenerationArray(query, cands, byTid, nodeCount) ==
    /\ ~byTid /\ query.fusion = "rrf"
    /\ Len(cands) > 0 /\ Len(cands) >= HashThreshold
    /\ nodeCount > 0 /\ \A i \in DOMAIN cands : cands[i].node < nodeCount

\* The merge part of PgturbohybridCollectScanResults: the items, and the
\* generation array left behind for the next scan.
Fuse(query, cache, cands, byTid, nodeCount) ==
    IF UseGenerationArray(query, cands, byTid, nodeCount)
    THEN LET fused == FuseGenerationArray(cache, nodeCount, cands)
         IN  [items |-> Matching(ArrayItems(fused), query), cache |-> fused.array]
    ELSE [items |-> Matching(IF Len(cands) >= HashThreshold THEN FuseHash(cands, byTid)
                             ELSE FuseSort(cands, byTid), query),
          cache |-> cache]

-----------------------------------------------------------------------------
(* What a fusion is: one item per document with the branches that returned *)
(* it, ranked by score, cut at the target.                                 *)
ReferenceItem(cands, key, byTid) ==
    LET of == {i \in DOMAIN cands : Key(cands[i], byTid) = key}
        In(b) == {i \in of : cands[i].branch = b}
        Rank(b) == IF In(b) = {} THEN 0 ELSE cands[CHOOSE i \in In(b) : TRUE].rank
        Score(b) == IF In(b) = {} THEN 0 ELSE cands[CHOOSE i \in In(b) : TRUE].score
    IN  [node |-> cands[CHOOSE i \in of : TRUE].node, tid |-> cands[CHOOSE i \in of : TRUE].tid,
         dense |-> Rank("dense"), multi |-> Rank("multi"), bm25 |-> Rank("bm25"),
         denseSim |-> Score("dense"), multiSim |-> Score("multi"), bm25Score |-> Score("bm25")]

ReferenceFusion(query, cands, byTid, limit, active) ==
    LET keys == {Key(cands[i], byTid) : i \in DOMAIN cands}
        items == {i \in {ReferenceItem(cands, k, byTid) : k \in keys} :
                     query.requireBm25 => i.bm25 > 0}
        ranked == SortByScore({ScoredItem(query, items, i) : i \in items})
        target == FinalTarget(query, Cardinality(items), limit, active)
    IN  SubSeq(ranked, 1, MinOf(target, Len(ranked)))
=============================================================================

----------------------------- MODULE Bm25Query -----------------------------
(***************************************************************************)
(* PgturbohybridBm25TopK: one BM25 query over the cached lexicon, the      *)
(* postings chunks, the stored impact heads and the delta postings, under  *)
(* the fixed policy of pgturbohybrid_guc.c (strategy auto, impact OR       *)
(* exact_only, no lazy impact build, hot postings cache off).  Each        *)
(* iteration of a scoring loop is a step.                                  *)
(*                                                                         *)
(* Pages are those Bm25Build writes and the snapshot is one Bm25Store      *)
(* hands out.  A posting carries its score, a positive integer in place of *)
(* idf * tf / (tf + norm); the saturating normalisation of a fused score   *)
(* is a monotone function and is left out.                                 *)
(***************************************************************************)
EXTENDS Integers, Sequences, FiniteSets, SequencesExt

CONSTANTS
    Cases,       \* queries to run: [base, dead, delta, query, k, wand, fused, stale, slack]
    Nodes,       \* 0 .. tqNodeCount - 1
    Terms,       \* lexemes
    MaxTerms,    \* 64, the bits of a match mask
    MaxPerChunk, \* postings in one chunk
    MinDf, HeadK,\* bm25_impact_min_df, bm25_impact_head_k
    Tiers,       \* tierCumulativeLimits
    DenseThreshold, DfPercent, \* when the dense accumulator is chosen
    GenMod       \* 2^32, the values of a generation

ASSUME SizeAssumption ==
    /\ {MaxPerChunk, HeadK, MinDf, GenMod, MaxTerms} \subseteq Nat \ {0}
    /\ Nodes = 0..Cardinality(Nodes) - 1
    /\ Tiers \in Seq(Nat) /\ \A i \in 1..Len(Tiers) - 1 : Tiers[i] < Tiers[i + 1]

VARIABLES
    case,    \* index contents and query, fixed
    dense,   \* pgturbohybrid_bm25_dense_accumulator, kept between queries
    pc,
    terms,   \* the query's distinct positive terms, in order
    acc,     \* PgturbohybridBm25Accumulator
    it,      \* term -> position in its postings
    active,  \* iterators of the WAND loop, in order
    info,    \* stats of the query: strategy, seeded, stopped
    results

vars == <<case, dense, pc, terms, acc, it, active, info, results>>

MinOf(S) == CHOOSE x \in S : \A y \in S : x <= y
MaxOf(S) == CHOOSE x \in S : \A y \in S : y <= x
K == case.k

\* The members of S in the order of Before, a strict total order on S (qsort).
Sorted(S, Before(_, _)) == [i \in 1..Cardinality(S) |->
    CHOOSE x \in S : Cardinality({y \in S : Before(y, x)}) = i - 1]

(***************************************************************************)
(* The tsquery: items in prefix order, the right operand of an operator    *)
(* next to it and the left one at offset left.                             *)
(***************************************************************************)

\* PgturbohybridBm25CollectPositiveTerms from item 1: operands under an even
\* number of NOTs, first occurrences only.
CollectPositiveTerms(q) ==
    LET walk[p \in (1..Len(q) + 1) \X BOOLEAN] ==
          LET i == p[1]
              neg == p[2]
          IN IF i > Len(q) THEN [next |-> i, out |-> <<>>]
             ELSE CASE q[i].oper = "val" ->
                         [next |-> i + 1, out |-> IF neg THEN <<>> ELSE <<q[i].term>>]
                    [] q[i].oper = "not" -> walk[<<i + 1, ~neg>>]
                    [] OTHER -> LET r == walk[<<i + 1, neg>>]
                                    l == walk[<<r.next, neg>>]
                                IN [next |-> l.next, out |-> r.out \o l.out]
        out == walk[<<1, FALSE>>].out
    IN SelectSeq([i \in 1..Len(out) |-> IF \E j \in 1..i - 1 : out[j] = out[i] THEN 0 ELSE out[i]],
                 LAMBDA t : t # 0)

QueryHasOperator(q, oper) == \E i \in 1..Len(q) : q[i].oper = oper

\* Prefix operands and a 65th term raise an error.
Unsupported(q) ==
    \/ \E i \in 1..Len(q) : q[i].oper = "val" /\ q[i].prefix
    \/ Len(CollectPositiveTerms(q)) > MaxTerms

\* PgturbohybridBm25EvalTsQueryItem: phrase like AND, NOT does not constrain.
EvalTsQueryItem(q, matched) ==
    LET eval[i \in 1..Len(q)] ==
          CASE q[i].oper = "val" -> q[i].term \in matched
            [] q[i].oper = "not" -> TRUE
            [] q[i].oper = "or" -> eval[i + q[i].left] \/ eval[i + 1]
            [] OTHER -> eval[i + q[i].left] /\ eval[i + 1]
    IN eval[1]

CompileQueryEval(q) ==
    LET hasOr == QueryHasOperator(q, "or")
        hasAnd == QueryHasOperator(q, "and")
    IN CASE Len(CollectPositiveTerms(q)) = 1 /\ ~hasOr /\ ~hasAnd -> "single"
         [] hasOr /\ ~hasAnd -> "pure_or"
         [] hasAnd /\ ~hasOr -> "pure_and"
         [] OTHER -> "mixed"

Shape == CompileQueryEval(case.query)

MatchedQuery(matched) ==
    CASE Shape \in {"single", "pure_or"} -> matched \cap ToSet(terms) # {}
      [] Shape = "pure_and" -> ToSet(terms) \subseteq matched
      [] OTHER -> EvalTsQueryItem(case.query, matched)

(***************************************************************************)
(* Lexicon, postings, heads.  case.base[t][n] is the score of the posting, *)
(* 0 if the term has none there; case.dead holds the nodes without         *)
(* document length or liveness.                                            *)
(***************************************************************************)

Postings == [t \in Terms |-> Sorted({n \in Nodes : case.base[t][n] > 0}, <)]
BaseDf(t) == Len(Postings[t])
HasLexicon(t) == BaseDf(t) > 0
DeltaDf(t) == Len(case.delta[t])
Df(t) == BaseDf(t) + DeltaDf(t)
Live(n) == n \notin case.dead

Posting(n, t) == [node |-> n, score |-> case.base[t][n], t |-> t]

\* PgturbohybridBm25ScoreCompare, PgturbohybridBm25ImpactCompare: better first.
Better(a, b) == a.score > b.score \/ (a.score = b.score /\ a.node < b.node)

\* The stored head, loaded by PgturbohybridBm25EnsureImpactHead: the first
\* HeadK of all postings of a term common enough, dead nodes included.
ImpactHead(t) ==
    IF BaseDf(t) < MinDf THEN <<>>
    ELSE LET all == Sorted({Posting(n, t) : n \in ToSet(Postings[t])}, Better)
         IN SubSeq(all, 1, IF HeadK < Len(all) THEN HeadK ELSE Len(all))

(***************************************************************************)
(* Postings iterators: a position in the chain of chunks; the chunk at     *)
(* hand is the one the position lies in.                                   *)
(***************************************************************************)

AtEnd(t, i) == i > Len(Postings[t])
NodeId(t, i) == Postings[t][i]
Chunk(i) == (i - 1) \div MaxPerChunk

\* PgturbohybridBm25IteratorSeekTo with IteratorLoadChunk and
\* IteratorAdvanceValid: the next posting of a live node at or past target.
SeekTo(t, i, target) ==
    LET S == {j \in i..Len(Postings[t]) : Postings[t][j] >= target /\ Live(Postings[t][j])}
    IN IF S = {} THEN Len(Postings[t]) + 1 ELSE MinOf(S)

IteratorInit(t) == SeekTo(t, 1, 0)
AdvancePast(t, i, n) == SeekTo(t, i, n + 1)

\* PgturbohybridBm25IteratorUpperBound: the bound of the chunk at hand, exact
\* from stored tf norms, above the best posting by some slack from maxTf.
IteratorUpperBound(t, i) ==
    case.slack + MaxOf({case.base[t][Postings[t][j]] : j \in {j \in 1..Len(Postings[t]) : Chunk(j) = Chunk(i)}})

\* PgturbohybridBm25SortActiveInitial, PgturbohybridBm25RefreshActiveOrder.
SortActive(s, f) == Sorted({t \in ToSet(s) : ~AtEnd(t, f[t])}, LAMBDA a, b :
    \/ NodeId(a, f[a]) < NodeId(b, f[b])
    \/ NodeId(a, f[a]) = NodeId(b, f[b]) /\ a < b)

(***************************************************************************)
(* The accumulator: entries in a hash table or in the backend's dense      *)
(* arrays, touched nodes in order, and a min-heap of the k best entries,   *)
(* each entry knowing its place in the heap (-1: none).                    *)
(***************************************************************************)

NoEntry == [score |-> 0, matched |-> {}, heapIndex |-> -1]

HeapLess(e, a, b) ==
    e[a].score < e[b].score \/ (e[a].score = e[b].score /\ a > b)

\* Positions are those of the C array, from 0.
At(h, i) == h[i + 1]
HeapSwap(a, i, j) ==
    [a EXCEPT !.heap = [a.heap EXCEPT ![i + 1] = At(a.heap, j), ![j + 1] = At(a.heap, i)],
              !.entries[At(a.heap, i)].heapIndex = j,
              !.entries[At(a.heap, j)].heapIndex = i]

HeapSiftUp(a0, pos0) ==
    LET up[d \in Nat] ==   \* state after d swaps: accumulator and position
          IF d = 0 THEN [a |-> a0, pos |-> pos0]
          ELSE LET s == up[d - 1]
                   parent == (s.pos - 1) \div 2
               IN IF s.pos > 0 /\ HeapLess(s.a.entries, At(s.a.heap, s.pos), At(s.a.heap, parent))
                  THEN [a |-> HeapSwap(s.a, s.pos, parent), pos |-> parent] ELSE s
    IN up[Len(a0.heap)].a

\* Mutated: the right child is not looked at.
SmallestLeft(a, pos) ==
    LET S == {c \in {pos, 2 * pos + 1} : c < Len(a.heap)}
    IN CHOOSE c \in S : \A d \in S \ {c} : HeapLess(a.entries, At(a.heap, c), At(a.heap, d))

\* The least of a position and its children.
Smallest(a, pos) ==
    LET S == {c \in {pos, 2 * pos + 1, 2 * pos + 2} : c < Len(a.heap)}
    IN CHOOSE c \in S : \A d \in S \ {c} : HeapLess(a.entries, At(a.heap, c), At(a.heap, d))

HeapSiftDown(a0, pos0) ==
    LET down[d \in Nat] ==
          IF d = 0 THEN [a |-> a0, pos |-> pos0]
          ELSE LET s == down[d - 1]
                   c == Smallest(s.a, s.pos)
               IN IF c # s.pos THEN [a |-> HeapSwap(s.a, s.pos, c), pos |-> c] ELSE s
    IN down[Len(a0.heap)].a

RefreshThreshold(a) ==
    [a EXCEPT !.threshold = IF Len(a.heap) = K THEN a.entries[At(a.heap, 0)].score ELSE 0]

HeapHasRoom(a) == Len(a.heap) < K

\* PgturbohybridBm25AccumulatorUpdateTopK.
UpdateTopK(a, n) ==
    LET e == a.entries[n]
    IN RefreshThreshold(
         IF e.heapIndex >= 0 THEN HeapSiftDown(a, e.heapIndex)
         ELSE IF HeapHasRoom(a)
         THEN HeapSiftUp([a EXCEPT !.heap = Append(a.heap, n),
                                   !.entries[n].heapIndex = Len(a.heap)], Len(a.heap))
         ELSE IF e.score > a.entries[At(a.heap, 0)].score
         THEN HeapSiftDown([a EXCEPT !.heap[1] = n, !.entries[n].heapIndex = 0,
                                     !.entries[At(a.heap, 0)].heapIndex = -1], 0)
         ELSE a)

Found(a, n) == IF a.dense THEN a.gens[n] = a.generation ELSE n \in ToSet(a.touched)

\* PgturbohybridBm25AccumulatorLookup with create.
Lookup(a, n) ==
    IF Found(a, n) THEN a
    ELSE [a EXCEPT !.entries[n] = NoEntry, !.touched = Append(a.touched, n),
                   !.gens[n] = IF a.dense THEN a.generation ELSE @]

AddTermScore(a, n, score, matched) ==
    LET b == Lookup(a, n)
    IN UpdateTopK([b EXCEPT !.entries[n].score = @ + score,
                            !.entries[n].matched = @ \cup matched], n)

\* The postings of list, in order; each is [node, score, t].
AddAll(a0, list) ==
    LET add[i \in 0..Len(list)] ==
          IF i = 0 THEN a0
          ELSE LET a == add[i - 1] IN AddTermScore(a, list[i].node, list[i].score, {list[i].t})
    IN add[Len(list)]

\* PgturbohybridBm25ChooseAccumulatorMode.
ChooseDense ==
    LET docs == {n \in Nodes : \E t \in Terms : \/ case.base[t][n] > 0
                                                \/ \E i \in 1..DeltaDf(t) : case.delta[t][i].node = n}
    IN \/ FoldLeft(LAMBDA sum, t : sum + Df(t), 0, terms) > DenseThreshold
       \/ \E t \in ToSet(terms) : 100 * Df(t) > DfPercent * MaxOf({1, Cardinality(docs)})

\* PgturbohybridBm25AccumulatorInit: the dense arrays grow with zeroed
\* generations, and a generation that wraps clears them.
DenseNext(d) ==
    LET grown == [n \in Nodes |-> IF n < d.capacity THEN d.gens[n] ELSE 0]
        g == (d.generation + 1) % GenMod
    IN [capacity |-> IF d.capacity < Cardinality(Nodes) THEN Cardinality(Nodes) ELSE d.capacity,
        generation |-> IF g = 0 THEN 1 ELSE g,
        gens |-> IF g = 0 THEN [n \in Nodes |-> 0] ELSE grown,
        entries |-> d.entries]

EmptyAcc(isDense, d) ==
    [dense |-> isDense, touched |-> <<>>, heap |-> <<>>, threshold |-> 0, seed |-> 0,
     generation |-> d.generation, gens |-> d.gens,
     entries |-> IF isDense THEN d.entries ELSE [n \in Nodes |-> NoEntry]]

\* PgturbohybridBm25KthScore.
KthScore == IF Len(acc.heap) < K THEN acc.seed ELSE MaxOf({acc.threshold, acc.seed})

(***************************************************************************)
(* The fused score bound of a hybrid scan: dense contributions and the     *)
(* finalK-th best of them.                                                 *)
(***************************************************************************)

DenseContribution(n) == IF n \in DOMAIN case.fused.dense THEN case.fused.dense[n] ELSE 0
\* Mutated: a tie is pruned.
CanPruneCandidateTie(n, bound) == case.fused.enabled /\ DenseContribution(n) + bound <= case.fused.kth

CanPruneCandidate(n, bound) == case.fused.enabled /\ DenseContribution(n) + bound < case.fused.kth
CanPruneUnknownTail(bound) ==
    /\ case.fused.enabled
    /\ MaxOf({case.fused.dense[n] : n \in DOMAIN case.fused.dense}) + bound < case.fused.kth

(***************************************************************************)
(* PgturbohybridBm25TopK                                                   *)
(***************************************************************************)

Init ==
    /\ case \in Cases
    /\ dense = case.stale
    /\ pc = "start"
    /\ terms = <<>> /\ active = <<>> /\ results = <<>>
    /\ it = [t \in Terms |-> 1]
    /\ acc = EmptyAcc(FALSE, dense)
    /\ info = [strategy |-> "none", tier |-> 0, stopped |-> FALSE, wandIterations |-> 0]

\* A query without positive terms or without any postings returns nothing.
Start ==
    /\ pc = "start"
    /\ ~Unsupported(case.query)
    /\ terms' = CollectPositiveTerms(case.query)
    /\ pc' = IF \E t \in ToSet(terms') : HasLexicon(t) \/ DeltaDf(t) > 0 THEN "accumulate" ELSE "done"
    /\ UNCHANGED <<case, dense, acc, it, active, info, results>>

StartError ==
    /\ pc = "start"
    /\ Unsupported(case.query)
    /\ pc' = "error"
    /\ UNCHANGED <<case, dense, terms, acc, it, active, info, results>>

AccumulatorInit ==
    /\ pc = "accumulate"
    /\ dense' = IF ChooseDense THEN DenseNext(dense) ELSE dense
    /\ acc' = EmptyAcc(ChooseDense, dense')
    /\ pc' = "impact_single"
    /\ UNCHANGED <<case, terms, it, active, info, results>>

\* PgturbohybridBm25ScoreImpactSingle.
ScoreImpactSingle ==
    /\ pc = "impact_single"
    /\ IF Len(terms) = 1 /\ Len(ImpactHead(terms[1])) >= K
       THEN /\ acc' = AddAll(acc, SubSeq(ImpactHead(terms[1]), 1, K))
            /\ info' = [info EXCEPT !.strategy = "impact_single"]
            /\ pc' = "delta"
       ELSE pc' = "impact_or" /\ UNCHANGED <<acc, info>>
    /\ UNCHANGED <<case, dense, terms, it, active, results>>

\* PgturbohybridBm25ImpactORCanBeExact.
ImpactORCanBeExact ==
    /\ Len(terms) > 1
    /\ \A t \in ToSet(terms) : /\ DeltaDf(t) = 0
                               /\ HasLexicon(t) => Len(ImpactHead(t)) = BaseDf(t)

\* The entries of every head that lie in tier, term after term.
TierEntries(tier) ==
    LET from == IF tier = 1 THEN 0 ELSE Tiers[tier - 1]
        slice(t) == SubSeq(ImpactHead(t), from + 1, MinOf({Len(ImpactHead(t)), Tiers[tier]}))
    IN FlattenSeq([i \in 1..Len(terms) |-> slice(terms[i])])

\* The best score a node outside the tiers read so far could have.
RemainingUpperBound(tier) ==
    FoldLeft(LAMBDA s, t : s + IF Tiers[tier] < Len(ImpactHead(t))
                               THEN ImpactHead(t)[Tiers[tier] + 1].score ELSE 0, 0, terms)

\* PgturbohybridBm25ScoreImpactOR: one tier of every head, then the bounds.
ScoreImpactOR ==
    /\ pc = "impact_or"
    /\ Shape = "pure_or" /\ ImpactORCanBeExact
    /\ LET tier == info.tier + 1
           read == TierEntries(tier)
           next == AddAll(acc, read)
           rest == RemainingUpperBound(tier)
           stop == /\ read # <<>>
                   /\ \/ Len(next.heap) >= K /\ rest < next.threshold
                      \/ CanPruneUnknownTail(rest)
       IN /\ acc' = next
          /\ info' = [info EXCEPT !.strategy = "impact_or", !.tier = tier,
                                  !.stopped = stop /\ rest > 0]
          /\ pc' = IF stop \/ tier = Len(Tiers) THEN "delta" ELSE "impact_or"
    /\ UNCHANGED <<case, dense, terms, it, active, results>>

SkipImpactOR ==
    /\ pc = "impact_or"
    /\ ~(Shape = "pure_or" /\ ImpactORCanBeExact)
    /\ pc' = "seed"
    /\ UNCHANGED <<case, dense, terms, acc, it, active, info, results>>

\* PgturbohybridBm25SeedImpactHeads: the k-th best sum of head entries becomes
\* a threshold; the seeds themselves are not accumulated.
Seeds ==
    LET head(t) == SubSeq(ImpactHead(t), 1, MinOf({Len(ImpactHead(t)), K}))
        part(n, t) == LET S == {i \in 1..Len(head(t)) : head(t)[i].node = n}
                      IN IF S = {} THEN 0 ELSE head(t)[MinOf(S)].score
    IN {e \in {[node |-> n, score |-> FoldLeft(LAMBDA x, t : x + part(n, t), 0, terms)] : n \in Nodes} :
          e.score > 0}

\* Mutated: the best sum of head entries.
SeedThresholdBest ==
    IF Len(terms) > 1 /\ Shape = "pure_or" /\ Cardinality(Seeds) >= K
    THEN Sorted(Seeds, Better)[1].score ELSE 0

SeedThreshold ==
    IF Len(terms) > 1 /\ Shape = "pure_or" /\ Cardinality(Seeds) >= K
    THEN Sorted(Seeds, Better)[K].score ELSE 0

SeedImpactHeads ==
    /\ pc = "seed"
    /\ acc' = [acc EXCEPT !.seed = SeedThreshold]
    /\ pc' = IF Shape = "pure_and" /\ Len(terms) > 1 THEN "and" ELSE "wand_init"
    /\ UNCHANGED <<case, dense, terms, it, active, info, results>>

\* PgturbohybridBm25ScoreBaseAndRarestDriver.  The first of the rarest terms drives.
Driver == terms[MinOf({i \in 1..Len(terms) : \A t \in ToSet(terms) : Df(terms[i]) <= Df(t)})]

AndInit ==
    /\ pc = "and"
    /\ it' = [t \in Terms |-> IteratorInit(t)]
    /\ info' = [info EXCEPT !.strategy = "and"]
    /\ pc' = IF \E t \in ToSet(terms) : AtEnd(t, it'[t]) THEN "delta" ELSE "and_loop"
    /\ UNCHANGED <<case, dense, terms, acc, active, results>>

\* The other iterators are moved to the driver's node, up to the first one that
\* has no posting there.
AndStep ==
    /\ pc = "and_loop"
    /\ LET n == NodeId(Driver, it[Driver])
           seek(t) == SeekTo(t, it[t], n)
           miss == {i \in 1..Len(terms) : AtEnd(terms[i], seek(terms[i])) \/ NodeId(terms[i], seek(terms[i])) # n}
           asked == {terms[i] : i \in {i \in 1..Len(terms) : \A j \in miss : i <= j}}
           score == FoldLeft(LAMBDA x, t : x + case.base[t][n], 0, terms)
       IN /\ acc' = IF miss = {} /\ (Len(acc.touched) < K \/ score > KthScore)
                    THEN AddTermScore(acc, n, score, ToSet(terms)) ELSE acc
          /\ it' = [t \in Terms |-> IF t = Driver THEN AdvancePast(t, it[t], n)
                                    ELSE IF t \in asked THEN seek(t) ELSE it[t]]
    /\ pc' = IF AtEnd(Driver, it'[Driver]) THEN "delta" ELSE "and_loop"
    /\ UNCHANGED <<case, dense, terms, active, info, results>>

(***************************************************************************)
(* PgturbohybridBm25ScoreBaseWand                                          *)
(***************************************************************************)

WandInit ==
    /\ pc = "wand_init"
    /\ it' = [t \in Terms |-> IteratorInit(t)]
    /\ active' = IF case.wand THEN SortActive(terms, it') ELSE <<>>
    /\ pc' = IF case.wand THEN "wand" ELSE "daat_init"
    /\ UNCHANGED <<case, dense, terms, acc, info, results>>

ActiveBound(i) == FoldLeft(LAMBDA x, t : x + IteratorUpperBound(t, it[t]), 0, SubSeq(active, 1, i))

\* Iterators whose bound, with those before them, could beat the k-th score.
Pivots == {i \in 1..Len(active) : Len(acc.touched) < K \/ ActiveBound(i) > KthScore}

ActiveNode(i) == NodeId(active[i], it[active[i]])

Iteration(i) == [i EXCEPT !.wandIterations = @ + 1]

\* Mutated: the document-at-a-time loop runs after WAND in any case.
WandStopFallsThrough ==
    /\ pc = "wand"
    /\ Pivots = {}
    /\ pc' = "daat_init"
    /\ info' = IF active = <<>> THEN info ELSE Iteration(info)
    /\ UNCHANGED <<case, dense, terms, acc, it, active, results>>

\* used is set once a candidate matched; without one the document-at-a-time
\* loop runs as well.
WandStop ==
    /\ pc = "wand"
    /\ Pivots = {}
    /\ pc' = IF info.strategy = "wand" THEN "delta" ELSE "daat_init"
    /\ info' = IF active = <<>> THEN info ELSE Iteration(info)
    /\ UNCHANGED <<case, dense, terms, acc, it, active, results>>

AtPivot == ActiveNode(1) = ActiveNode(MinOf(Pivots))
OnNode(n) == {t \in ToSet(active) : NodeId(t, it[t]) = n}
NodeBound(n) == FoldSet(LAMBDA t, x : x + IteratorUpperBound(t, it[t]), 0, OnNode(n))

LeaveNode(n) ==
    /\ it' = [t \in Terms |-> IF t \in OnNode(n) THEN AdvancePast(t, it[t], n) ELSE it[t]]
    /\ active' = SortActive(active, it')

WandPrune ==
    /\ pc = "wand"
    /\ Pivots # {} /\ AtPivot
    /\ LET n == ActiveNode(1)
       IN CanPruneCandidate(n, NodeBound(n)) /\ LeaveNode(n)
    /\ info' = Iteration(info)
    /\ UNCHANGED <<case, dense, pc, terms, acc, results>>

WandScore ==
    /\ pc = "wand"
    /\ Pivots # {} /\ AtPivot
    /\ LET n == ActiveNode(1)
           score == FoldSet(LAMBDA t, x : x + case.base[t][n], 0, OnNode(n))
           matched == MatchedQuery(OnNode(n))
       IN /\ ~CanPruneCandidate(n, NodeBound(n))
          /\ info' = Iteration(IF matched THEN [info EXCEPT !.strategy = "wand"] ELSE info)
          /\ acc' = IF matched /\ (Len(acc.touched) < K \/ score > KthScore)
                    THEN AddTermScore(acc, n, score, OnNode(n)) ELSE acc
          /\ LeaveNode(n)
    /\ UNCHANGED <<case, dense, pc, terms, results>>

\* The iterators before the pivot are moved up to its node.
WandSeek ==
    /\ pc = "wand"
    /\ Pivots # {} /\ ~AtPivot
    /\ LET p == MinOf(Pivots)
       IN it' = [t \in Terms |-> IF \E i \in 1..p - 1 : active[i] = t
                                 THEN SeekTo(t, it[t], ActiveNode(p)) ELSE it[t]]
    /\ active' = SortActive(active, it')
    /\ info' = Iteration(info)
    /\ UNCHANGED <<case, dense, pc, terms, acc, results>>

(***************************************************************************)
(* Document at a time, delta, selection                                    *)
(***************************************************************************)

DaatInit ==
    /\ pc = "daat_init"
    /\ it' = [t \in Terms |-> 1]
    /\ info' = [info EXCEPT !.strategy = "daat"]
    /\ pc' = "daat"
    /\ UNCHANGED <<case, dense, terms, acc, active, results>>

\* The postings of live nodes in one chunk, scalar or by
\* PgturbohybridBm25ScoreOffset16TfNormAvx2 / Neon.
ScoreChunk(a, t, chunk) ==
    LET live == SelectSeq(chunk, Live)
    IN AddAll(a, [j \in 1..Len(live) |-> Posting(live[j], t)])

\* One chunk of the first term that has chunks left.
DaatChunk ==
    /\ pc = "daat"
    /\ \E i \in 1..Len(terms) :
         /\ ~AtEnd(terms[i], it[terms[i]])
         /\ \A j \in 1..i - 1 : AtEnd(terms[j], it[terms[j]])
         /\ LET t == terms[i]
                end == MinOf({Len(Postings[t]), it[t] + MaxPerChunk - 1})
            IN /\ acc' = ScoreChunk(acc, t, SubSeq(Postings[t], it[t], end))
               /\ it' = [it EXCEPT ![t] = end + 1]
    /\ UNCHANGED <<case, dense, pc, terms, active, info, results>>

DaatEnd ==
    /\ pc = "daat"
    /\ \A t \in ToSet(terms) : AtEnd(t, it[t])
    /\ pc' = "delta"
    /\ UNCHANGED <<case, dense, terms, acc, it, active, info, results>>

\* PgturbohybridBm25ScoreDelta, after every strategy.
ScoreDelta ==
    /\ pc = "delta"
    /\ acc' = AddAll(acc, FlattenSeq([i \in 1..Len(terms) |-> case.delta[terms[i]]]))
    /\ pc' = "select"
    /\ UNCHANGED <<case, dense, terms, it, active, info, results>>

\* PgturbohybridBm25SelectFinalTopK.
SelectFinalTopK(a) ==
    LET S == {[node |-> n, score |-> a.entries[n].score] :
                n \in {m \in ToSet(a.touched) : MatchedQuery(a.entries[m].matched)}}
        sorted == Sorted(S, Better)
    IN SubSeq(sorted, 1, MinOf({K, Len(sorted)}))

Select ==
    /\ pc = "select"
    /\ results' = SelectFinalTopK(acc)
    /\ dense' = IF acc.dense THEN [dense EXCEPT !.gens = acc.gens, !.entries = acc.entries] ELSE dense
    /\ pc' = "done"
    /\ UNCHANGED <<case, terms, acc, it, active, info>>

Next ==
    \/ Start \/ StartError \/ AccumulatorInit
    \/ ScoreImpactSingle \/ ScoreImpactOR \/ SkipImpactOR \/ SeedImpactHeads
    \/ AndInit \/ AndStep
    \/ WandInit \/ WandStop \/ WandPrune \/ WandScore \/ WandSeek
    \/ DaatInit \/ DaatChunk \/ DaatEnd
    \/ ScoreDelta \/ Select

Spec == Init /\ [][Next]_vars

(***************************************************************************)
(* Properties                                                              *)
(***************************************************************************)

\* The definition of the answer: the k best of the documents that match, with
\* the sum of the scores of the terms they contain.
TermScore(n, t) ==
    case.base[t][n] + FoldSet(LAMBDA i, x : x + case.delta[t][i].score, 0,
                              {i \in 1..DeltaDf(t) : case.delta[t][i].node = n})
Reference ==
    LET has(n) == {t \in ToSet(terms) : TermScore(n, t) > 0}
        S == {[node |-> n, score |-> FoldSet(LAMBDA t, x : x + TermScore(n, t), 0, ToSet(terms))] :
                n \in {m \in Nodes : Live(m) /\ has(m) # {} /\ MatchedQuery(has(m))}}
        sorted == Sorted(S, Better)
    IN SubSeq(sorted, 1, MinOf({K, Len(sorted)}))

\* Where the stored heads list dead nodes (they are loaded without looking at
\* liveness), where a block bound covers only part of a term's postings, and
\* where impact OR stops before it has read the heads, the answer is not exact.
DeadInHeads == \E t \in ToSet(terms), i \in 1..HeadK :
                 i <= Len(ImpactHead(t)) /\ ~Live(ImpactHead(t)[i].node)
OneChunkEach == \A t \in ToSet(terms) : BaseDf(t) <= MaxPerChunk
BoundsHold ==
    CASE info.strategy \in {"and", "daat"} -> TRUE
      [] info.strategy = "wand" -> OneChunkEach /\ (acc.seed > 0 => ~DeadInHeads)
      [] OTHER -> ~DeadInHeads /\ ~info.stopped

\* A seeded threshold may lose documents that tie with the k-th.
MayLose(r) == acc.seed > 0 /\ r.score = Last(Reference).score

\* Pruning loses nothing: every document of the answer is returned at its rank
\* with its full score.
ExactTopK ==
    pc = "done" /\ terms # <<>> /\ BoundsHold /\ ~case.fused.enabled =>
        \A i \in 1..Len(Reference) :
            MayLose(Reference[i]) \/ (i <= Len(results) /\ results[i] = Reference[i])

\* With the bound of a hybrid scan, a document missing from the answer has a
\* fused score below the finalK-th dense contribution: finalK documents are
\* ahead of it in the fused result.
FusedBoundSafe ==
    pc = "done" /\ terms # <<>> /\ BoundsHold /\ case.fused.enabled =>
        \A r \in ToSet(Reference) :
            \/ MayLose(r) \/ r \in ToSet(results)
            \/ DenseContribution(r.node) + r.score < case.fused.kth

\* Every strategy, bounds or not: a returned score is at most the document's
\* own score (nothing is left over from an earlier query in the dense arrays,
\* no posting is counted twice), and it is that score unless impact OR stopped
\* before the heads were read.
ScoresTrue ==
    pc = "done" =>
        \A r \in ToSet(results) :
            LET true == FoldSet(LAMBDA t, x : x + TermScore(r.node, t), 0, ToSet(terms))
            IN r.score <= true /\ (~info.stopped => r.score = true)

\* The heap of the accumulator is a min-heap that knows its members, and its
\* root is the k-th best accumulated score: what WAND compares bounds with.
ThresholdIsKth ==
    /\ \A i \in 0..Len(acc.heap) - 1 :
         /\ acc.entries[At(acc.heap, i)].heapIndex = i
         /\ i > 0 => ~HeapLess(acc.entries, At(acc.heap, i), At(acc.heap, (i - 1) \div 2))
    /\ LET beyond(x) == Cardinality({n \in ToSet(acc.touched) : acc.entries[n].score > x})
       IN IF Len(acc.touched) < K THEN acc.threshold = 0
          ELSE /\ beyond(acc.threshold) < K
               /\ acc.threshold > 0 => beyond(acc.threshold - 1) >= K

\* What is returned satisfies the tsquery as EvalTsQueryItem reads it.
ResultsMatchTree ==
    pc = "done" => \A r \in ToSet(results) :
        EvalTsQueryItem(case.query, {t \in Terms : TermScore(r.node, t) > 0})

\* The WAND loop ends: every iteration moves an iterator past a posting, so
\* there are no more of them than postings, and the one that finds no pivot.
IterationsBounded ==
    info.wandIterations <= 1 + FoldLeft(LAMBDA x, t : x + BaseDf(t), 0, terms)

\* Whatever the strategy returns is true: a document that satisfies the tsquery,
\* with its own score and nothing of an earlier query.
ResultsTrue == ScoresTrue /\ ResultsMatchTree

\* The WAND loop is driven by the right threshold and comes to an end.
WandLoopSound == ThresholdIsKth /\ IterationsBounded

=============================================================================

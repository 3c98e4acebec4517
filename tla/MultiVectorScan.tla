--------------------------- MODULE MultiVectorScan ---------------------------
(***************************************************************************)
(* A scan of a multivector index whose graph has one node per token.       *)
(* Every query token runs its own traversal of the graph; the hits are     *)
(* gathered by heap address into documents that carry an approximate       *)
(* score; reservoirs admit a bounded number of the documents; and the      *)
(* admitted ones are scored again with the vectors of the heap, giving up  *)
(* on a document as soon as it can no longer be among the best.  A small   *)
(* table is scored straight from the heap instead.                         *)
(*                                                                         *)
(* The traversal is GraphSearch's subject: a pass returns the best nodes   *)
(* it reached by the distance of their codes, and may miss some.           *)
(***************************************************************************)
EXTENDS MaxSim, FiniteSets, Functions, TLC

CONSTANTS
  Corpora,        \* sequences of documents: document t has heap address t
  Queries,        \* [tokens, weights, mask, hasWeights, hasMask]
  Requests,       \* [target, finalK, tupleTarget]: what the executor asks for
  Estimates,      \* [docCount, reltuples]: the statistics, possibly stale
  Options,        \* [contextLevel]: the reloptions
  Blind,          \* sets of nodes a traversal may miss
  Hidden,         \* sets of heap addresses the snapshot does not see
  Dim,            \* the dimension of the index
  MaxQueryVectors, SubvectorK, UniqueDocsPerToken, MaxRawHits, DocCandidateK, ExactRerankK,
  PerTokenReservoirK, CoverageReservoirK, PlainMaxDocs,
  ChunkMin, ChunkMax,  \* documents in a slab of the accumulator
  MaxAccumulator       \* cells the accumulator may take

ASSUME ScanAssumption ==
  /\ {SubvectorK, UniqueDocsPerToken, MaxRawHits, DocCandidateK, ExactRerankK, Dim} \subseteq Nat \ {0}
  /\ {PerTokenReservoirK, CoverageReservoirK, PlainMaxDocs, MaxAccumulator} \subseteq Nat
  /\ ChunkMin \in 1..ChunkMax

VARIABLES
  env,     \* what the scan runs on: corpus, query, request, statistics, option, blind, hidden
  pc,      \* the step of the scan
  locked,  \* it holds the scan lock
  qi,      \* the query token
  raw,     \* how many hits its traversal asks for
  hits,    \* the hits of its last traversal
  docIds,  \* the heap addresses in the order documents were numbered
  docs,    \* the accumulator: document number -> entry
  cands,   \* the candidates
  pos,     \* the candidate, or heap row, that is scored next
  top      \* the best exact scores so far

vars == <<env, pc, locked, qi, raw, hits, docIds, docs, cands, pos, top>>

Rank(S, x, Before(_, _)) == 1 + Quantify(S, LAMBDA y : Before(y, x))
Sorted(S, Before(_, _)) ==
    LET at == [x \in S |-> Rank(S, x, Before)]
    IN  [i \in 1..Cardinality(S) |-> CHOOSE x \in S : at[x] = i]

Least(a, b) == IF a < b THEN a ELSE b
Most(a, b) == IF a > b THEN a ELSE b
------------------------------------------------------------------------------
(* The index: the tokens of all documents in heap order. *)

\* Node k is Nodes[k]: the document it belongs to and its token.
Nodes ==
    FoldLeft(LAMBDA acc, t : acc \o [d \in 1..Len(env.corpus[t].tokens) |->
                                        [tid |-> t, vector |-> env.corpus[t].tokens[d]]],
             <<>>, [t \in 1..Len(env.corpus) |-> t])

\* The codes keep the even part of each coordinate.
Code(v) == [i \in 1..Len(v) |-> IF v[i] >= 0 THEN 2 * (v[i] \div 2) ELSE -2 * ((-v[i]) \div 2)]

\* RunTraversalPass: at most rawTarget hits, best code distance first.
RunTraversalPass(token, rawTarget) ==
    LET all == Nodes
        found == {[node |-> n, tid |-> all[n].tid,
                   similarity |-> DotProduct(env.query.tokens[token], Code(all[n].vector))] :
                     n \in (1..Len(all)) \ env.blind}
        Before(a, b) == \/ a.similarity > b.similarity
                        \/ a.similarity = b.similarity /\ a.node < b.node
        order == Sorted(found, Before)
    IN  SubSeq(order, 1, Least(rawTarget, Len(order)))

NodeCount == Total([t \in 1..Len(env.corpus) |-> Len(env.corpus[t].tokens)])
QueryCount == Len(env.query.tokens)
SkipToken(q) == env.query.mask[q]
QueryWeight(q) == env.query.weights[q]
------------------------------------------------------------------------------
(* Which path the scan takes, and its limits. *)

DocCandidateLimit(target) ==
    Most(1, Least(IF target > 0 THEN target ELSE DocCandidateK, DocCandidateK))

EmptyIndex == NodeCount = 0

EstimatedDocs ==
    IF ~EmptyIndex /\ env.estimate.docCount > 0 THEN env.estimate.docCount
    ELSE IF env.estimate.reltuples > 0 THEN env.estimate.reltuples
    ELSE NodeCount

\* ShouldUsePlainFallback in its automatic setting, with the fraction of one
\* half.
ShouldUsePlainFallback ==
    \/ EstimatedDocs <= PlainMaxDocs
    \/ 2 * (IF env.request.target > 0 THEN Least(env.request.target, DocCandidateK)
            ELSE DocCandidateK) > EstimatedDocs
    \/ 2 * Least(ExactRerankK, DocCandidateK) > EstimatedDocs

ClampRaw(k) == Most(1, Least(Least(k, MaxRawHits), NodeCount))
InitialRawTarget == ClampRaw(SubvectorK)
MaxRawTarget ==
    Most(InitialRawTarget,
         ClampRaw(Most(Most(SubvectorK, UniqueDocsPerToken), Most(env.request.target, 1))))

DocCapacity == Most(1, Least(MaxRawTarget, UniqueDocsPerToken) * QueryCount)

\* AccumulatorBytesEstimate, in cells: one per entry of the two hash tables
\* and one per query token of every document of a slab.
ChunkCapacity == Least(Most(DocCapacity, ChunkMin), ChunkMax)
AccumulatorEstimate ==
    LET chunks == (DocCapacity + ChunkCapacity - 1) \div ChunkCapacity
    IN  2 * DocCapacity + chunks * ChunkCapacity * QueryCount

\* The slabs the arena has allocated for the documents it holds.
ArenaAllocated ==
    LET n == Cardinality(DOMAIN docs)
    IN  ((n + ChunkCapacity - 1) \div ChunkCapacity) * ChunkCapacity * QueryCount
------------------------------------------------------------------------------
(* Gathering hits into documents. *)

\* ResolveDocId over a sequence of hits: documents are numbered as they appear.
ResolveDocIds(ids, found) ==
    FoldLeft(LAMBDA acc, h : IF h.tid \in ToSet(acc) THEN acc ELSE Append(acc, h.tid), ids, found)

DocId(ids, tid) == CHOOSE i \in 1..Len(ids) : ids[i] = tid

UniqueDocs(found) == Cardinality({h.tid : h \in ToSet(found)})

NoSim == [seen |-> FALSE, value |-> 0]

NewEntry(hit) ==
    [tid |-> hit.tid, bestNode |-> hit.node, best |-> NoSim, score |-> 0, matched |-> 0,
     maxsim |-> [q \in 1..QueryCount |-> NoSim]]

Better(sim, best) == ~best.seen \/ sim > best.value

\* A bug: every hit of a token counts, not only its best.
MutatedAccumulateDoc(acc, ids, hit, q) ==
    LET id == DocId(ids, hit.tid)
        e == IF id \in DOMAIN acc THEN acc[id] ELSE NewEntry(hit)
        kept == [e EXCEPT !.maxsim[q] = [seen |-> TRUE, value |-> hit.similarity],
                          !.score = @ + hit.similarity * QueryWeight(q),
                          !.matched = IF e.maxsim[q].seen THEN @ ELSE @ + 1]
    IN  (id :> kept) @@ acc

\* AccumulateDoc: only a token's best hit counts for a document.
AccumulateDoc(acc, ids, hit, q) ==
    LET id == DocId(ids, hit.tid)
        e == IF id \in DOMAIN acc THEN acc[id] ELSE NewEntry(hit)
        first == ~e.maxsim[q].seen
        taken == Better(hit.similarity, e.maxsim[q])
        gain == IF first THEN hit.similarity ELSE hit.similarity - e.maxsim[q].value
        top1 == Better(hit.similarity, e.best)
        kept == [e EXCEPT !.maxsim[q] = [seen |-> TRUE, value |-> hit.similarity],
                          !.score = @ + gain * QueryWeight(q),
                          !.matched = IF first THEN @ + 1 ELSE @,
                          !.best = IF top1 THEN [seen |-> TRUE, value |-> hit.similarity] ELSE @,
                          !.bestNode = IF top1 THEN hit.node ELSE @]
    IN  (id :> (IF taken THEN kept ELSE e)) @@ acc

\* The hits that are accumulated: all up to the one that brings the last new
\* document a token may have.
AdmittedHits(found) ==
    LET Enough(i) == UniqueDocs(SubSeq(found, 1, i)) >= UniqueDocsPerToken
        ends == {i \in 1..Len(found) : Enough(i)}
    IN  SubSeq(found, 1, IF ends = {} THEN Len(found) ELSE Min(ends))

AccumulateToken(acc, ids, found, q) ==
    FoldLeft(LAMBDA a, h : AccumulateDoc(a, ids, h, q), acc, AdmittedHits(found))
------------------------------------------------------------------------------
(* Admission. *)

\* CompareDocRank.
DocBefore(a, b) ==
    \/ docs[a].score > docs[b].score
    \/ docs[a].score = docs[b].score /\ docs[a].tid < docs[b].tid

\* CompareReservoirRankItem for three orders of the documents: by the score of
\* one token, by coverage and by the mean score of a matched token.
TokenBefore(q, a, b) ==
    \/ docs[a].maxsim[q].value > docs[b].maxsim[q].value
    \/ /\ docs[a].maxsim[q].value = docs[b].maxsim[q].value
       /\ \/ docs[a].score > docs[b].score
          \/ /\ docs[a].score = docs[b].score
             /\ \/ docs[a].matched > docs[b].matched
                \/ docs[a].matched = docs[b].matched /\ DocBefore(a, b)

CoverageBefore(a, b) ==
    \/ docs[a].matched > docs[b].matched
    \/ docs[a].matched = docs[b].matched /\ DocBefore(a, b)

MeanBefore(a, b) ==
    LET left == docs[a].score * docs[b].matched
        right == docs[b].score * docs[a].matched
    IN  \/ left > right
        \/ /\ left = right
           /\ \/ docs[a].score > docs[b].score
              \/ docs[a].score = docs[b].score /\ CoverageBefore(a, b)

\* ReservoirAddDoc.
AddDoc(chosen, id, limit) ==
    IF id \in ToSet(chosen) \/ Len(chosen) >= limit THEN chosen ELSE Append(chosen, id)

\* ReservoirAddScoreDocs and ReservoirAddRankItems: up to most documents that
\* are not admitted yet, in the order given.
AddDocs(chosen, order, most, limit) ==
    LET new == SelectSeq(order, LAMBDA id : id \notin ToSet(chosen))
    IN  FoldLeft(LAMBDA acc, id : AddDoc(acc, id, limit), chosen,
                 SubSeq(new, 1, Least(most, Len(new))))

\* ReservoirAddPerTokenDocs: every query token proposes its best documents, the
\* ones already admitted included.
AddPerTokenDocs(chosen, perToken, limit) ==
    LET Propose(acc, q) ==
            LET seen == {id \in DOMAIN docs : docs[id].maxsim[q].seen}
                order == Sorted(seen, LAMBDA a, b : TokenBefore(q, a, b))
            IN  FoldLeft(LAMBDA c, id : AddDoc(c, id, limit), acc,
                         SubSeq(order, 1, Least(perToken, Len(order))))
    IN  FoldLeft(Propose, chosen, [q \in 1..QueryCount |-> q])

\* A bug: the reservoir of the score takes the whole limit.
MutatedScoreLimit(limit) == limit

ScoreLimit(limit) ==
    LET reserved == Least(limit \div 2,
                          2 * Least(CoverageReservoirK, limit)
                          + Least(PerTokenReservoirK, limit) * Most(QueryCount, 1))
    IN  Most(1, limit - reserved)

\* BuildReservoirCandidates: the documents admitted, in order.
ReservoirDocs(limit) ==
    LET byScore == Sorted(DOMAIN docs, DocBefore)
        coverage == Least(CoverageReservoirK, limit)
        best == AddDocs(<<>>, byScore, ScoreLimit(limit), limit)
        tokens == AddPerTokenDocs(best, Least(PerTokenReservoirK, limit), limit)
        covered == AddDocs(tokens, Sorted(DOMAIN docs, CoverageBefore), coverage, limit)
        means == AddDocs(covered, Sorted(DOMAIN docs, MeanBefore), coverage, limit)
    IN  AddDocs(means, byScore, limit, limit)

\* CandidateFromDoc.
CandidateFromDoc(id) ==
    [tid |-> docs[id].tid, node |-> docs[id].bestNode, distance |-> -docs[id].score,
     exact |-> FALSE, rank |-> 0]

\* DenseCandidateCompare; HeapSort.
CandidateBefore(a, b) ==
    \/ a.distance < b.distance
    \/ a.distance = b.distance /\ a.tid < b.tid
    \/ a.distance = b.distance /\ a.tid = b.tid /\ a.node < b.node

SortCandidates(c) == Sorted(ToSet(c), CandidateBefore)
SetRanks(c) == [i \in 1..Len(c) |-> [c[i] EXCEPT !.rank = i]]

\* The bounded heap of the plain path: the worst candidate at the root.
Swap(h, i, j) == [h EXCEPT ![i] = h[j], ![j] = h[i]]

RECURSIVE HeapSiftUp(_, _)
HeapSiftUp(h, i) ==
    IF i > 1 /\ CandidateBefore(h[i \div 2], h[i])
    THEN HeapSiftUp(Swap(h, i, i \div 2), i \div 2) ELSE h

RECURSIVE HeapSiftDown(_, _)
HeapSiftDown(h, i) ==
    LET left == IF 2 * i <= Len(h) /\ CandidateBefore(h[i], h[2 * i]) THEN 2 * i ELSE i
        worst == IF 2 * i + 1 <= Len(h) /\ CandidateBefore(h[left], h[2 * i + 1]) THEN 2 * i + 1
                 ELSE left
    IN  IF worst = i THEN h ELSE HeapSiftDown(Swap(h, i, worst), worst)

HeapOffer(h, limit, c) ==
    IF Len(h) < limit THEN HeapSiftUp(Append(h, c), Len(h) + 1)
    ELSE IF CandidateBefore(c, h[1]) THEN HeapSiftDown([h EXCEPT ![1] = c], 1)
    ELSE h
------------------------------------------------------------------------------
(* The exact scores. *)

ExactRerankLimit == Least(Len(cands), Least(DocCandidateK, ExactRerankK))

AdaptiveTopK ==
    LET asked == IF env.request.finalK > 0 THEN env.request.finalK
                 ELSE IF env.request.tupleTarget > 0 THEN env.request.tupleTarget
                 ELSE ExactRerankLimit
    IN  Least(ExactRerankLimit, Most(1, asked))

\* Giving up early needs fewer results than candidates and scores that add up
\* over all tokens of the document.
AdaptiveReady == ~env.option.contextLevel /\ AdaptiveTopK < ExactRerankLimit

Visible(tid) == tid \notin env.hidden

ExactScore(tid) == IndexMaxSim(env.option.contextLevel, env.query, env.corpus[tid])

\* What the rerank makes of the next candidate: a row the snapshot does not see
\* keeps its approximate score.
Rescored(c) ==
    LET order == QueryNormOrder(env.query)
        bounded == MaxSimAdaptiveBounded(env.query, env.corpus[c.tid], order,
                                         SuffixNorms(env.query, order), top)
    IN  IF AdaptiveReady THEN bounded ELSE [score |-> ExactScore(c.tid), pruned |-> FALSE]
------------------------------------------------------------------------------
(* The scan. *)

Init ==
    /\ env \in [corpus : Corpora, query : Queries, request : Requests, estimate : Estimates,
                option : Options, blind : Blind, hidden : Hidden]
    /\ pc = "begin" /\ locked = FALSE
    /\ qi = 1 /\ raw = 0 /\ pos = 1
    /\ hits = <<>> /\ docIds = <<>> /\ docs = <<>> /\ cands = <<>> /\ top = NoTop

\* The scan lock, the metapage, the path and its limits; an error releases the
\* lock again.
BeginScan ==
    /\ pc = "begin"
    /\ LET refused == \/ QueryCount = 0 \/ QueryCount > MaxQueryVectors
                      \/ ~EmptyIndex /\ Len(env.query.tokens[1]) # Dim
           tokenPath == ~ShouldUsePlainFallback /\ ~EmptyIndex
           tooLarge == tokenPath /\ AccumulatorEstimate > MaxAccumulator
       IN  /\ pc' = IF refused THEN "error"
                    ELSE IF tooLarge THEN "error"
                    ELSE IF ShouldUsePlainFallback THEN "plain"
                    ELSE IF EmptyIndex THEN "done"
                    ELSE "token"
           /\ locked' = (pc' = "token")
           /\ raw' = IF pc' = "token" THEN InitialRawTarget ELSE raw
    /\ UNCHANGED <<env, qi, hits, docIds, docs, cands, pos, top>>

\* A masked query token takes no part in the search.
SkipQueryToken ==
    /\ pc = "token" /\ qi <= QueryCount /\ SkipToken(qi)
    /\ qi' = qi + 1
    /\ UNCHANGED <<env, pc, locked, raw, hits, docIds, docs, cands, pos, top>>

\* One pass of a token: documents are numbered, and counted to decide whether
\* the next pass asks for more hits.
TraverseToken ==
    /\ pc = "token" /\ qi <= QueryCount /\ ~SkipToken(qi)
    /\ hits' = RunTraversalPass(qi, raw)
    /\ docIds' = ResolveDocIds(docIds, hits')
    /\ IF UniqueDocs(hits') >= UniqueDocsPerToken \/ raw >= MaxRawTarget
       THEN pc' = "accumulate" /\ raw' = raw
       ELSE pc' = "token" /\ raw' = Least(MaxRawTarget, Most(raw + 1, raw * 2))
    /\ UNCHANGED <<env, locked, qi, docs, cands, pos, top>>

AccumulateHits ==
    /\ pc = "accumulate"
    /\ docs' = AccumulateToken(docs, docIds, hits, qi)
    /\ qi' = qi + 1 /\ raw' = InitialRawTarget /\ hits' = <<>>
    /\ pc' = "token"
    /\ UNCHANGED <<env, locked, docIds, cands, pos, top>>

\* The lock is released, the reservoirs admit documents and the candidates are
\* sorted by their approximate score.
AdmitCandidates ==
    /\ pc = "token" /\ qi > QueryCount
    /\ LET admitted == ReservoirDocs(DocCandidateLimit(env.request.target))
       IN  cands' = SortCandidates([i \in 1..Len(admitted) |-> CandidateFromDoc(admitted[i])])
    /\ locked' = FALSE /\ pc' = "rerank" /\ pos' = 1
    /\ UNCHANGED <<env, qi, raw, hits, docIds, docs, top>>

\* The loop of ExactHeapRerank.
RerankCandidate ==
    /\ pc = "rerank" /\ pos <= ExactRerankLimit
    /\ LET r == Rescored(cands[pos])
       IN  IF Visible(cands[pos].tid)
           THEN /\ cands' = [cands EXCEPT ![pos].distance = -r.score, ![pos].exact = TRUE]
                /\ top' = IF AdaptiveReady /\ ~r.pruned
                          THEN AdaptiveTopKOffer(top, r.score, AdaptiveTopK) ELSE top
           ELSE UNCHANGED <<cands, top>>
    /\ pos' = pos + 1
    /\ UNCHANGED <<env, pc, locked, qi, raw, hits, docIds, docs>>

FinishRerank ==
    /\ pc = "rerank" /\ pos > ExactRerankLimit
    /\ cands' = SetRanks(IF \E i \in 1..Len(cands) : cands[i].exact
                         THEN SortCandidates(cands) ELSE cands)
    /\ pc' = "done"
    /\ UNCHANGED <<env, locked, qi, raw, hits, docIds, docs, pos, top>>

\* ExactPlainFallback: the rows of the heap the snapshot sees, one by one, into
\* a bounded heap.
PlainHeapRow ==
    /\ pc = "plain" /\ pos <= Len(env.corpus)
    /\ cands' = IF Visible(pos)
                THEN HeapOffer(cands, DocCandidateLimit(env.request.target),
                               [tid |-> pos, node |-> 0, distance |-> -ExactScore(pos),
                                exact |-> TRUE, rank |-> 0])
                ELSE cands
    /\ pos' = pos + 1
    /\ UNCHANGED <<env, pc, locked, qi, raw, hits, docIds, docs, top>>

FinishPlain ==
    /\ pc = "plain" /\ pos > Len(env.corpus)
    /\ cands' = SetRanks(SortCandidates(cands))
    /\ pc' = "done"
    /\ UNCHANGED <<env, locked, qi, raw, hits, docIds, docs, pos, top>>

Next ==
    \/ BeginScan \/ SkipQueryToken \/ TraverseToken \/ AccumulateHits \/ AdmitCandidates
    \/ RerankCandidate \/ FinishRerank \/ PlainHeapRow \/ FinishPlain

Spec == Init /\ [][Next]_vars
------------------------------------------------------------------------------
(* Properties. *)

\* The sum over the query tokens that count of their best product, without
\* blocks, lanes or bounds.
TrueSim(tokens) ==
    LET Product(a, b) == Total([i \in 1..Len(a) |-> a[i] * b[i]])
        q == env.query
        Counts(i) == ~q.mask[i]
    IN  Total([i \in 1..QueryCount |->
                  IF Counts(i) THEN q.weights[i] * Max({Product(q.tokens[i], v) : v \in ToSet(tokens)})
                  ELSE 0])

TrueMaxSim(tid) ==
    LET doc == env.corpus[tid]
        Context(c) == SubSeq(doc.tokens, doc.offsets[c] + 1,
                             IF c < Len(doc.offsets) THEN doc.offsets[c + 1] ELSE Len(doc.tokens))
    IN  IF env.option.contextLevel /\ doc.offsets # <<>>
        THEN Max({TrueSim(Context(c)) : c \in 1..Len(doc.offsets)})
        ELSE TrueSim(doc.tokens)

\* The best documents are ranked by their true score.  Of the candidates that
\* were scored with the vectors of the heap, the first as many as the executor
\* wants are the ones with the highest true late-interaction scores, in that
\* order, with that score (ExactHeapRerank, MaxSimAdaptiveBounded): neither
\* giving up on a document, nor the blocks of the kernels, nor ties change the
\* answer.  The plain path returns exactly the best visible rows.
RerankTopExact ==
    (pc = "done" /\ cands # <<>>) =>
        LET scored == SelectSeq(cands, LAMBDA c : c.exact)
            plain == docIds = <<>>
            wanted == IF plain \/ ~AdaptiveReady THEN Len(scored)
                      ELSE Least(AdaptiveTopK, Len(scored))
            pool == IF plain THEN (1..Len(env.corpus)) \ env.hidden ELSE {c.tid : c \in ToSet(scored)}
            true == [t \in pool |-> TrueMaxSim(t)]
            order == Sorted(pool, LAMBDA a, b : true[a] > true[b] \/ (true[a] = true[b] /\ a < b))
        IN  /\ \A i \in 1..wanted : /\ scored[i].tid = order[i]
                                    /\ scored[i].distance = -true[order[i]]
            /\ plain => Len(scored) = Least(DocCandidateLimit(env.request.target), Cardinality(pool))

\* A document's approximate score is the weighted sum of its best admitted hits
\* (AccumulateDoc): whatever the order of the hits and however often a token
\* hits the document, each token counts once, every heap address is one
\* document, and the accumulator stays within the memory that was checked
\* before the search (CheckAccumulatorMemory).
AdmissionSound ==
    (pc = "token" /\ qi > QueryCount) =>
        /\ \A a, b \in 1..Len(docIds) : docIds[a] = docIds[b] => a = b
        /\ \A id \in DOMAIN docs :
              LET e == docs[id]
                  seen == {q \in 1..QueryCount : e.maxsim[q].seen}
              IN  /\ e.tid = docIds[id] /\ e.matched = Cardinality(seen)
                  /\ e.score = Total([q \in 1..QueryCount |->
                                         IF q \in seen THEN QueryWeight(q) * e.maxsim[q].value ELSE 0])
        /\ \A q \in 1..QueryCount :
              LET found == RunTraversalPass(q, MaxRawTarget)
              IN  \A id \in DOMAIN docs : docs[id].maxsim[q].seen =>
                      docs[id].maxsim[q].value
                        = Max({h.similarity : h \in {x \in ToSet(found) : x.tid = docs[id].tid}})
        /\ Cardinality(DOMAIN docs) <= DocCapacity
        /\ ArenaAllocated + 2 * Cardinality(DOMAIN docs) <= AccumulatorEstimate

\* No query token is drowned out: when at least twice as many documents may be
\* admitted as the query has tokens, the best document of every token is
\* admitted, even if its total score is low (BuildReservoirCandidates).
PerTokenBestAdmitted ==
    (pc = "rerank" /\ DocCandidateLimit(env.request.target) >= 2 * QueryCount) =>
        \A q \in 1..QueryCount :
            LET seen == {id \in DOMAIN docs : docs[id].maxsim[q].seen}
            IN  seen # {} =>
                    \E id \in seen : /\ \A o \in seen : docs[o].maxsim[q].value <= docs[id].maxsim[q].value
                                     /\ \E i \in 1..Len(cands) : cands[i].tid = docs[id].tid
=============================================================================

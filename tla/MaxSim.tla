------------------------------- MODULE MaxSim -------------------------------
(***************************************************************************)
(* Late interaction between a query and a document, both sequences of      *)
(* token vectors: every query token takes its best document token and the  *)
(* weighted sum of the best products is the score.  The module has the     *)
(* kernels that compute it in blocks and the bounded version, which stops  *)
(* once no score above a threshold can be reached any more.                *)
(*                                                                         *)
(* A query is [tokens, weights, mask]; a document is [tokens, offsets],    *)
(* offsets naming where its contexts start (empty: it has none).  Vectors  *)
(* have integer coordinates and integer norms.                             *)
(***************************************************************************)
EXTENDS Integers, Sequences, SequencesExt, FiniteSetsExt

CONSTANTS
  Lanes,   \* coordinates a vector kernel multiplies at once
  BlockQ   \* query tokens the blocked kernel scores at once

ASSUME KernelAssumption == {Lanes, BlockQ} \subseteq Nat \ {0}

Total(s) == FoldLeft(LAMBDA a, b : a + b, 0, s)

\* A vector kernel: full groups of lanes, their sums added up, then the tail.
DotProduct(a, b) ==
    LET full == Len(a) - (Len(a) % Lanes)
        Lane(l) == Total([i \in 1..(full \div Lanes) |->
                             a[(i - 1) * Lanes + l] * b[(i - 1) * Lanes + l]])
    IN  Total([l \in 1..Lanes |-> Lane(l)])
        + Total([i \in 1..(Len(a) - full) |-> a[full + i] * b[full + i]])

\* TokenNorm: finite for finite vectors.
TokenNorm(v) ==
    LET square == Total([i \in 1..Len(v) |-> v[i] * v[i]])
    IN  CHOOSE n \in 0..square : n * n = square

\* The best product of each token of a block of the query with any token of
\* the document.
BlockBest(query, doc, from, size) ==
    [q \in 1..size |-> Max({DotProduct(query.tokens[from + q], doc[d]) : d \in 1..Len(doc)})]

\* TqMultiVectorMaxSimBlocked: no weights, no mask.
MaxSimBlocked(query, doc) ==
    LET n == Len(query.tokens)
        Size(k) == Min({BlockQ, n - (k - 1) * BlockQ})
    IN  Total([k \in 1..((n + BlockQ - 1) \div BlockQ) |->
                  Total(BlockBest(query, doc, (k - 1) * BlockQ, Size(k)))])

\* TqMultiVectorMaxSimTokenRangeWeighted over doc[start .. end - 1], counted
\* from 0.
MaxSimTokenRangeWeighted(query, doc, start, end) ==
    Total([q \in 1..Len(query.tokens) |->
              IF query.mask[q] \/ query.weights[q] = 0 THEN 0
              ELSE query.weights[q]
                   * Max({DotProduct(query.tokens[q], doc[d]) : d \in (start + 1)..end})])

Unweighted(query) == ~query.hasWeights /\ ~query.hasMask

\* TqMultiVectorMaxSimWeighted.
MaxSimWeighted(query, doc) ==
    IF Unweighted(query) THEN MaxSimBlocked(query, doc.tokens)
    ELSE MaxSimTokenRangeWeighted(query, doc.tokens, 0, Len(doc.tokens))

\* TqMultiVectorMaxSimContextLevelWeighted: the best context of the document.
MaxSimContextLevelWeighted(query, doc) ==
    LET n == Len(doc.offsets)
        End(c) == IF c < n THEN doc.offsets[c + 1] ELSE Len(doc.tokens)
    IN  IF n = 0 THEN MaxSimWeighted(query, doc)
        ELSE Max({MaxSimTokenRangeWeighted(query, doc.tokens, doc.offsets[c], End(c)) : c \in 1..n})

IndexMaxSim(contextLevel, query, doc) ==
    IF contextLevel THEN MaxSimContextLevelWeighted(query, doc) ELSE MaxSimWeighted(query, doc)

------------------------------------------------------------------------------
(* The bounded version. *)

QueryNorm(query, q) == IF query.mask[q] THEN 0 ELSE TokenNorm(query.tokens[q]) * query.weights[q]

\* BuildQueryNormOrder: the tokens by weighted norm, the heaviest first.
QueryNormOrder(query) ==
    LET n == Len(query.tokens)
        norm == [q \in 1..n |-> QueryNorm(query, q)]
        Before(a, b) == norm[a] > norm[b] \/ (norm[a] = norm[b] /\ a < b)
        Rank(q) == 1 + Quantify(1..n, LAMBDA r : Before(r, q))
    IN  [pos \in 1..n |-> CHOOSE q \in 1..n : Rank(q) = pos]

SuffixNorms(query, order) ==
    [pos \in 1..(Len(order) + 1) |->
        Total([i \in 1..(Len(order) + 1 - pos) |-> QueryNorm(query, order[pos + i - 1])])]

DocMaxTokenNorm(doc) == Max({TokenNorm(doc.tokens[d]) : d \in 1..Len(doc.tokens)})

\* A bug: the bound forgets the token that is scored next.
MutatedUpperBound(partial, docMaxNorm, suffix, pos) ==
    partial + docMaxNorm * suffix[IF pos + 2 <= Len(suffix) THEN pos + 2 ELSE pos + 1]

UpperBound(partial, docMaxNorm, suffix, pos) == partial + docMaxNorm * suffix[pos + 1]

\* MaxSimAdaptiveBounded: [score, pruned].  A pruned document has the upper
\* bound at which it was given up for its score.
MaxSimAdaptiveBounded(query, doc, order, suffix, top) ==
    LET n == Len(order)
        norm == DocMaxTokenNorm(doc)
        Best(q) == Max({DotProduct(query.tokens[q], doc.tokens[d]) : d \in 1..Len(doc.tokens)})
        Step(s, pos) ==
            LET q == order[pos]
                partial == s.score + query.weights[q] * Best(q)
                bound == UpperBound(partial, norm, suffix, pos)
            IN  IF s.pruned \/ query.mask[q] \/ query.weights[q] = 0 THEN s
                ELSE IF top.valid /\ pos < n /\ bound < top.threshold
                     THEN [score |-> bound, pruned |-> TRUE]
                ELSE [score |-> partial, pruned |-> FALSE]
    IN  FoldLeft(Step, [score |-> 0, pruned |-> FALSE], [pos \in 1..n |-> pos])

NoTop == [scores |-> <<>>, threshold |-> 0, valid |-> FALSE]

\* AdaptiveTopKOffer: the threshold is the least of the topK best scores.
AdaptiveTopKOffer(top, score, topK) ==
    LET n == Len(top.scores)
        least == CHOOSE i \in 1..n : /\ \A j \in 1..n : top.scores[i] <= top.scores[j]
                                     /\ \A j \in 1..(i - 1) : top.scores[j] > top.scores[i]
        scores == IF n < topK THEN Append(top.scores, score)
                  ELSE IF score > top.threshold THEN [top.scores EXCEPT ![least] = score]
                  ELSE top.scores
        full == Len(scores) >= topK
    IN  IF n >= topK /\ score <= top.threshold THEN top
        ELSE [scores |-> scores, valid |-> full,
              threshold |-> IF full THEN Min(ToSet(scores)) ELSE top.threshold]
=============================================================================

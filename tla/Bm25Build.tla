----------------------------- MODULE Bm25Build -----------------------------
(***************************************************************************)
(* CREATE INDEX, the BM25 half: a heap scan collects (term, node, tf)      *)
(* tuples under the maintenance_work_mem budget, spilling sorted runs to   *)
(* temporary files; then docstats, lexicon, postings, block-max and impact *)
(* tuples are written, from memory or by a k-way merge of the runs.        *)
(*                                                                         *)
(* A term is a number standing for its bytes.  Postings keep the three     *)
(* encodings of the code, with the width of a uint16 and of a varint digit *)
(* as parameters.  Scores are the BM25 formula in integer arithmetic.      *)
(***************************************************************************)
EXTENDS Integers, Sequences, FiniteSets, SequencesExt

CONSTANTS
    Heaps,        \* the tables to index: sequences of rows, in heap order
    NodeCount,    \* collector->tidNodeCount, nodes of the graph
    Terms,        \* lexemes, numbered in the order of their bytes
    TermHash,     \* PgturbohybridHashTerm: lexeme -> Nat
    TermLen,      \* lexeme -> length in bytes
    Budgets,      \* values of maintenance_work_mem
    DocCap, TermCap, BytesCap,   \* initial capacities of the three arrays
    DocSize, TermSize, TidSize,  \* element sizes
    Max16,        \* PG_UINT16_MAX
    VarBase,      \* values of one varint digit (128)
    MaxPerChunk,  \* PgturbohybridBm25MaxPostingsPerChunk
    MaxDocsPerTuple, MaxPerImpact,
    PerPage,      \* tuples per page
    MinDf, HeadK, \* bm25_impact_min_df, bm25_impact_head_k
    Precompute    \* values of bm25_precompute_tfnorm

ASSUME TermAssumption ==
    Terms \subseteq Nat /\ TermHash \in [Terms -> Nat] /\ TermLen \in [Terms -> Nat]
ASSUME SizeAssumption ==
    /\ {NodeCount, DocCap, TermCap, BytesCap, MaxPerChunk, MaxDocsPerTuple,
        MaxPerImpact, PerPage, MinDf, HeadK, Max16} \subseteq Nat \ {0}
    /\ VarBase \in Nat /\ VarBase > 1 /\ Precompute \subseteq BOOLEAN
    /\ {DocSize, TermSize, TidSize} \subseteq Nat /\ Budgets \subseteq Nat
ASSUME HeapsAssumption ==
    Heaps \subseteq Seq([nodes : SUBSET (0..NodeCount - 1), lex : Seq([t : Terms, tf : Nat])])
\* A graph node has one heap tid, and a tsvector has a lexeme once.
ASSUME RowsAssumption == \A table \in Heaps :
    /\ \A i, j \in DOMAIN table : i # j => table[i].nodes \cap table[j].nodes = {}
    /\ \A i \in DOMAIN table : \A k, l \in DOMAIN table[i].lex :
          table[i].lex[k].t = table[i].lex[l].t => k = l

VARIABLES
    rows,    \* the table: rows[i] = [nodes, lex], lex = <<>> is a NULL value
    opt,     \* budget and options of this build
    pc,
    at,      \* heap scan position: row, and lexeme within the row
    col,     \* PgturbohybridBm25Collector
    merge,   \* cursors and heap of the k-way merge
    cur,     \* the term being written
    pages    \* what has been written, by page kind

vars == <<rows, opt, pc, at, col, merge, cur, pages>>

NoAddr == <<0, 0>>
MaxOf(S) == CHOOSE x \in S : \A y \in S : y <= x
MinOf(S) == CHOOSE x \in S : \A y \in S : x <= y

\* The sequences of ss one after the other.
Flat(ss) ==
    LET flat[i \in 0..Len(ss)] == IF i = 0 THEN <<>> ELSE flat[i - 1] \o ss[i]
    IN flat[Len(ss)]

\* s in the order L of its places.
Arrange(s, L) ==
    [k \in 1..Len(s) |->
       s[CHOOSE i \in 1..Len(s) : Cardinality({j \in 1..Len(s) : <<j, i>> \in L}) = k - 1]]
PlacesOf(s) == (1..Len(s)) \X (1..Len(s))

(***************************************************************************)
(* Scores.  k1 = 1.2 and b = 0.75, the defaults; avgDocLen = total / docs  *)
(* is kept as a fraction and is never below 1.                             *)
(***************************************************************************)

Q == 1000   \* resolution of a stored score

DenseDocLens == [n \in 0..NodeCount - 1 |->
    LET i == {j \in 1..Len(col.docs) : col.docs[j].node = n}
    IN IF i = {} THEN 0 ELSE col.docs[MaxOf(i)].docLen]

\* PgturbohybridBm25QuantizeTfNorm and PgturbohybridBm25BuildPostingScore: the
\* same tf normalisation, scaled to [0, Q].
TfNorm(node, tf) ==
    LET dl == MaxOf({1, DenseDocLens[node]})
        n == IF col.totalDocLen < Len(col.docs) THEN 1 ELSE col.totalDocLen
        d == IF col.totalDocLen < Len(col.docs) THEN 1 ELSE Len(col.docs)
    IN (Q * 1000 * tf * n) \div (1000 * tf * n + 12 * (25 * n + 75 * dl * d))

(***************************************************************************)
(* Encoding of one chunk of postings, a sequence of [node, tf].            *)
(***************************************************************************)

CanUseOffset16(first, node) == node >= first /\ node - first <= Max16
\* Mutated: the delta test admits one value too many.
CanUseDelta16Wide(prev, node) == node >= prev /\ node - prev <= Max16 + 1

CanUseDelta16(prev, node) == node >= prev /\ node - prev <= Max16

Prev(s, i) == IF i = 1 THEN s[1].node ELSE s[i - 1].node
UseOffset16(s) == \A i \in 1..Len(s) : CanUseOffset16(s[1].node, s[i].node)
UseDelta16(s) == \A i \in 1..Len(s) : CanUseDelta16(Prev(s, i), s[i].node)

\* PgturbohybridBm25PutVarint: digits, the least significant first, each but
\* the last marked as continued.
Rest(v) == LET rest[i \in 0..v] == IF i = 0 THEN v ELSE rest[i - 1] \div VarBase IN rest
Digits(v) == MinOf({i \in 1..v + 1 : Rest(v)[i - 1] < VarBase})
PutVarint(v) == [i \in 1..Digits(v) |-> <<Rest(v)[i - 1] % VarBase, i < Digits(v)>>]

\* PgturbohybridBm25GetVarint: the value that starts at byte i, and the byte after it.
GetVarint(p, i) ==
    LET end == MinOf({j \in i..Len(p) : ~p[j][2]})
        value[j \in i..end + 1] == IF j > end THEN 0 ELSE p[j][1] + VarBase * value[j + 1]
    IN [value |-> value[i], next |-> end + 1]

EncodeDeltas(s) == Flat([i \in 1..Len(s) |->
    PutVarint(s[i].node - Prev(s, i)) \o PutVarint(s[i].tf)])

Encoding(s) ==
    IF UseOffset16(s) THEN IF opt.tfNorm THEN "offset16_soa" ELSE "offset16"
    ELSE IF UseDelta16(s) THEN "delta16" ELSE "varint"

\* A uint16 holds what fits.
Uint16(x) == x % (Max16 + 1)

Payload(s) ==
    CASE Encoding(s) = "offset16_soa" ->
           [i \in 1..Len(s) |-> Uint16(s[i].node - s[1].node)] \o [i \in 1..Len(s) |-> s[i].tf]
      [] Encoding(s) = "offset16" ->
           [k \in 1..2 * Len(s) |-> LET i == (k + 1) \div 2
                                     IN IF k % 2 = 0 THEN s[i].tf ELSE Uint16(s[i].node - s[1].node)]
      [] Encoding(s) = "delta16" ->
           [k \in 1..2 * Len(s) |-> LET i == (k + 1) \div 2
                                     IN IF k % 2 = 0 THEN s[i].tf ELSE Uint16(s[i].node - Prev(s, i))]
      [] OTHER -> EncodeDeltas(s)

\* PgturbohybridWritePostingsChunk and PgturbohybridWritePostingsChunkData:
\* the tuple for one chunk.
PostingsTuple(s) ==
    [count   |-> Len(s), encoding |-> Encoding(s), payload |-> Payload(s),
     first   |-> s[1].node, last |-> s[Len(s)].node, next |-> NoAddr,
     maxTf   |-> MaxOf({s[i].tf : i \in 1..Len(s)}),
     norms   |-> IF opt.tfNorm THEN [i \in 1..Len(s) |-> TfNorm(s[i].node, s[i].tf)] ELSE <<>>,
     maxNorm |-> IF opt.tfNorm THEN MaxOf({TfNorm(s[i].node, s[i].tf) : i \in 1..Len(s)}) ELSE 0]

(***************************************************************************)
(* Decoding (PgturbohybridBm25DecodePostingsTuple).                        *)
(***************************************************************************)

DecodeOffsets(t) ==
    LET soa == t.encoding = "offset16_soa"
    IN [i \in 1..t.count |-> [node |-> t.first + t.payload[IF soa THEN i ELSE 2 * i - 1],
                               tf   |-> t.payload[IF soa THEN t.count + i ELSE 2 * i]]]

DecodeDelta16(t) ==
    LET node[i \in 0..t.count] == IF i = 0 THEN t.first ELSE node[i - 1] + t.payload[2 * i - 1]
    IN [i \in 1..t.count |-> [node |-> node[i], tf |-> t.payload[2 * i]]]

DecodeVarint(t) ==
    LET read[i \in 0..t.count] ==
          IF i = 0 THEN [next |-> 1, node |-> t.first, tf |-> 0]
          ELSE LET r == read[i - 1]
                   d == GetVarint(t.payload, r.next)
                   f == GetVarint(t.payload, d.next)
               IN [next |-> f.next, node |-> r.node + d.value, tf |-> f.value]
    IN [i \in 1..t.count |-> [node |-> read[i].node, tf |-> read[i].tf]]

Decode(t) ==
    CASE t.encoding \in {"offset16", "offset16_soa"} -> DecodeOffsets(t)
      [] t.encoding = "delta16"                      -> DecodeDelta16(t)
      [] t.encoding = "varint"                       -> DecodeVarint(t)

(***************************************************************************)
(* Pages of one kind: tuples are addressed by page and offset.             *)
(***************************************************************************)

\* x is added to the last of the sequences in p, or to a new one if that has k.
Fill(p, x, k) ==
    IF p = <<>> \/ Len(p[Len(p)]) = k THEN Append(p, <<x>>)
    ELSE [p EXCEPT ![Len(p)] = Append(@, x)]

\* PgturbohybridBm25AddItem.
AddItem(p, item) == Fill(p, item, PerPage)
AddItems(p, items) ==
    LET added[i \in 0..Len(items)] == IF i = 0 THEN p ELSE AddItem(added[i - 1], items[i])
    IN added[Len(items)]
LastAddr(p) == <<Len(p), Len(p[Len(p)])>>

\* PgturbohybridLinkPostingsChunk, PgturbohybridLinkImpactChunk.
LinkChunk(p, prev, next) == [p EXCEPT ![prev[1]][prev[2]].next = next]

\* A list of linked tuples under construction.
NewList(p) == [pages |-> p, first |-> NoAddr, prev |-> NoAddr, count |-> 0]
\* Mutated: the link is set on the first tuple of the list.
AddChunkToFirst(w, item) ==
    LET p == AddItem(w.pages, item)
        a == LastAddr(p)
    IN [pages |-> IF w.prev = NoAddr THEN p ELSE LinkChunk(p, w.first, a),
        first |-> IF w.first = NoAddr THEN a ELSE w.first,
        prev  |-> a,
        count |-> w.count + 1]

AddChunk(w, item) ==
    LET p == AddItem(w.pages, item)
        a == LastAddr(p)
    IN [pages |-> IF w.prev = NoAddr THEN p ELSE LinkChunk(p, w.prev, a),
        first |-> IF w.first = NoAddr THEN a ELSE w.first,
        prev  |-> a,
        count |-> w.count + 1]

AddChunks(p, items) ==
    LET list[i \in 0..Len(items)] == IF i = 0 THEN NewList(p) ELSE AddChunk(list[i - 1], items[i])
    IN list[Len(items)]

\* The sequence s in pieces of at most k.
Pieces(s, k) ==
    LET cut[i \in 0..Len(s)] == IF i = 0 THEN <<>> ELSE Fill(cut[i - 1], s[i], k)
    IN cut[Len(s)]

\* PgturbohybridWritePostings: all chunks of a term held in memory.
PostingsTuples(s) == LET c == Pieces(s, MaxPerChunk) IN [i \in 1..Len(c) |-> PostingsTuple(c[i])]
WritePostings(p, s) == AddChunks(p, PostingsTuples(s))

\* PgturbohybridBm25ImpactTupleEntryCompare.
ImpactBefore(x, y) == x.score > y.score \/ (x.score = y.score /\ x.node < y.node)

\* PgturbohybridWriteImpactHead.  The idf is one positive factor for all the
\* entries of a term and is left out of the stored score.
ImpactEntries(s) == [i \in 1..Len(s) |-> [node |-> s[i].node, score |-> TfNorm(s[i].node, s[i].tf)]]
SortImpact(e) ==
    Arrange(e, {p \in PlacesOf(e) : \/ ImpactBefore(e[p[1]], e[p[2]])
                                    \/ e[p[1]] = e[p[2]] /\ p[1] < p[2]})
ImpactHead(s) == LET e == SortImpact(ImpactEntries(s)) IN SubSeq(e, 1, MinOf({Len(e), HeadK, Max16}))
ImpactTuples(s) == LET c == Pieces(ImpactHead(s), MaxPerImpact)
                   IN [i \in 1..Len(c) |-> [entries |-> c[i], next |-> NoAddr]]
WriteImpactHead(p, s, df) ==
    IF df < MinDf \/ s = <<>> THEN NewList(p) ELSE AddChunks(p, ImpactTuples(s))

(***************************************************************************)
(* The collector.                                                          *)
(***************************************************************************)

\* PgturbohybridCheckBudget: what the collector holds, in bytes.
Used(c) == c.docCapacity * DocSize + Len(c.terms) * TermSize + c.bytesUsed + NodeCount * TidSize

\* PgturbohybridTermCompareWithBytes: hash, length, bytes, node.  The number
\* of a term stands for its bytes.
TermKeyLess(x, y) ==
    \/ TermHash[x] < TermHash[y]
    \/ TermHash[x] = TermHash[y] /\ (\/ TermLen[x] < TermLen[y]
                                     \/ TermLen[x] = TermLen[y] /\ x < y)

TermBefore(x, y) == TermKeyLess(x.t, y.t) \/ (x.t = y.t /\ x.node < y.node)

SortTermRun(s) ==
    Arrange(s, {p \in PlacesOf(s) : \/ TermBefore(s[p[1]], s[p[2]])
                                    \/ s[p[1]] = s[p[2]] /\ p[1] < p[2]})

\* Mutated: the run is written but the arena is not reset.
SpillTermRunKeepsBytes(c) ==
    IF c.terms = <<>> THEN c
    ELSE [c EXCEPT !.runs = Append(@, SortTermRun(c.terms)), !.terms = <<>>]

\* PgturbohybridSpillTermRun.
SpillTermRun(c) ==
    IF c.terms = <<>> THEN c
    ELSE [c EXCEPT !.runs = Append(@, SortTermRun(c.terms)), !.terms = <<>>, !.bytesUsed = 0]

\* CheckBudget: within budget, spilled, or an error.
CheckBudget(c) ==
    IF Used(c) <= opt.budget \/ c.failed THEN c
    ELSE IF c.terms # <<>> THEN SpillTermRun(c)
    ELSE [c EXCEPT !.failed = TRUE]

\* PgturbohybridBm25BuildGrowCapacity32: doubled until it is enough, which takes
\* fewer turns than what is needed.
GrowCapacity(cap, needed) ==
    LET after[i \in 0..needed] ==
          IF i = 0 THEN cap
          ELSE LET c == after[i - 1] IN IF c >= needed THEN c ELSE 2 * c
    IN after[needed]

\* PgturbohybridEnsureDocCapacity.
EnsureDocCapacity(c) ==
    IF Len(c.docs) < c.docCapacity THEN c
    ELSE CheckBudget([c EXCEPT !.docCapacity =
                         GrowCapacity(IF @ = 0 THEN DocCap ELSE @, Len(c.docs) + 1)])

\* PgturbohybridEnsureTermCapacity.
EnsureTermCapacity(c) ==
    IF Len(c.terms) < c.termCapacity THEN c
    ELSE CheckBudget([c EXCEPT !.termCapacity =
                         GrowCapacity(IF @ = 0 THEN TermCap ELSE @, Len(c.terms) + 1)])

\* PgturbohybridAppendTermBytes.
AppendTermBytes(c, len) ==
    LET grown == IF c.bytesUsed + len <= c.bytesCapacity THEN c
                 ELSE CheckBudget([c EXCEPT !.bytesCapacity =
                          GrowCapacity(IF @ = 0 THEN BytesCap ELSE @, c.bytesUsed + len)])
    IN [grown EXCEPT !.bytesUsed = @ + len]

Tf(l) == IF l.tf > 0 THEN l.tf ELSE 1

\* PgturbohybridAppendBuildTerm and the body of PgturbohybridCollectVectorTerms.
AppendBuildTerm(c, node, l) ==
    IF TermLen[l.t] = 0 THEN c
    ELSE LET room == AppendTermBytes(EnsureTermCapacity(c), TermLen[l.t])
         IN CheckBudget([room EXCEPT !.terms = Append(@, [t |-> l.t, node |-> node, tf |-> Tf(l)]),
                                     !.total = @ + 1])

\* PgturbohybridDocLen.
DocLen(lex) == FoldLeft(LAMBDA acc, l : acc + Tf(l), 0, lex)

\* PgturbohybridAppendBuildDoc.
AppendBuildDoc(c, node, tid, lex) ==
    LET room == EnsureDocCapacity(c)
    IN [room EXCEPT !.docs = Append(@, [node |-> node, tid |-> tid, docLen |-> DocLen(lex)]),
                    !.totalDocLen = @ + DocLen(lex)]

(***************************************************************************)
(* The build.                                                              *)
(***************************************************************************)

EmptyCollector == [docs |-> <<>>, docCapacity |-> 0, terms |-> <<>>, termCapacity |-> 0,
                   bytesUsed |-> 0, bytesCapacity |-> 0, runs |-> <<>>, total |-> 0,
                   totalDocLen |-> 0, failed |-> FALSE]
NoTerm == [open |-> FALSE]
NoMerge == [pos |-> <<>>, items |-> <<>>]

Init ==
    /\ rows \in Heaps
    /\ opt \in [budget : Budgets, tfNorm : Precompute]
    /\ pc = "scan"
    /\ at = [row |-> 1, lex |-> 0, node |-> 0]
    /\ col = CheckBudget(EmptyCollector)
    /\ merge = NoMerge
    /\ cur = NoTerm
    /\ pages = [docstats |-> <<>>, postings |-> <<>>, blockmax |-> <<>>, impact |-> <<>>,
                lexicon |-> <<>>, meta |-> <<>>]

\* ereport(ERROR): the build is rolled back.
Fail ==
    /\ pc = "scan" /\ col.failed
    /\ pc' = "error"
    /\ UNCHANGED <<rows, opt, at, col, merge, cur, pages>>

\* PgturbohybridBm25BuildCallback, up to the document: a row without lexical
\* value or without a graph node is skipped.  The node is found by a binary
\* search on the heap tid, which stops at any of the nodes that carry it.
SkipRow ==
    /\ pc = "scan" /\ ~col.failed /\ at.row <= Len(rows) /\ at.lex = 0
    /\ rows[at.row].lex = <<>> \/ rows[at.row].nodes = {}
    /\ at' = [at EXCEPT !.row = @ + 1]
    /\ UNCHANGED <<rows, opt, pc, col, merge, cur, pages>>

BuildCallback ==
    /\ pc = "scan" /\ ~col.failed /\ at.row <= Len(rows) /\ at.lex = 0
    /\ rows[at.row].lex # <<>>
    /\ \E node \in rows[at.row].nodes :
         /\ col' = AppendBuildDoc(col, node, at.row, rows[at.row].lex)
         /\ at' = [at EXCEPT !.lex = 1, !.node = node]
    /\ UNCHANGED <<rows, opt, pc, merge, cur, pages>>

\* One lexeme of PgturbohybridCollectVectorTerms.
CollectTerm ==
    /\ pc = "scan" /\ ~col.failed /\ at.lex > 0
    /\ col' = AppendBuildTerm(col, at.node, rows[at.row].lex[at.lex])
    /\ at' = IF at.lex < Len(rows[at.row].lex) THEN [at EXCEPT !.lex = @ + 1]
             ELSE [row |-> at.row + 1, lex |-> 0, node |-> 0]
    /\ UNCHANGED <<rows, opt, pc, merge, cur, pages>>

\* The end of PgturbohybridBm25BuildCollect: the rest becomes the last run, or
\* everything is sorted in memory.
ScanEnd ==
    /\ pc = "scan" /\ ~col.failed /\ at.row > Len(rows)
    /\ col' = IF col.runs # <<>> THEN SpillTermRun(col) ELSE [col EXCEPT !.terms = SortTermRun(@)]
    /\ pc' = "docstats"
    /\ UNCHANGED <<rows, opt, at, merge, cur, pages>>

\* PgturbohybridWriteDocStats: dense by node, in tuples of MaxDocsPerTuple.
AddDocStat(tuples, node) ==
    LET n == Len(tuples)
    IN IF tuples = <<>> \/ Len(tuples[n].docs) = MaxDocsPerTuple
       THEN Append(tuples, [start |-> node, docs |-> <<DenseDocLens[node]>>])
       ELSE [tuples EXCEPT ![n] = [start |-> @.start, docs |-> Append(@.docs, DenseDocLens[node])]]
DocStats ==
    LET tuples[i \in 0..NodeCount] == IF i = 0 THEN <<>> ELSE AddDocStat(tuples[i - 1], i - 1)
    IN tuples[NodeCount]

WriteDocStats ==
    /\ pc = "docstats"
    /\ pages' = [pages EXCEPT !.docstats = IF col.docs = <<>> THEN <<>> ELSE AddItems(<<>>, DocStats)]
    /\ pc' = IF col.runs # <<>> THEN "open" ELSE "terms"
    /\ UNCHANGED <<rows, opt, at, col, merge, cur>>

Df(s) == Cardinality({s[i].node : i \in 1..Len(s)})
Cf(s) == LET sum[i \in 0..Len(s)] == IF i = 0 THEN 0 ELSE sum[i - 1] + s[i].tf IN sum[Len(s)]

\* PgturbohybridWriteBlockMax, PgturbohybridWriteBlockMaxData.
BlockMax(first, last, maxTf) == [first |-> first, last |-> last, maxTf |-> maxTf]

\* PgturbohybridWriteLexiconItem, with the block-max and impact tuples before it.
FinishTerm(t, postings, list, df, cf, first, last, maxTf) ==
    LET head == WriteImpactHead(pages.impact, postings, df)
        block == AddItem(pages.blockmax, BlockMax(first, last, maxTf))
    IN [pages EXCEPT !.postings = list.pages, !.impact = head.pages, !.blockmax = block,
          !.lexicon = AddItem(@, [t |-> t, id |-> Len(Flat(@)), df |-> df, cf |-> cf,
                                  postings |-> list.first, chunks |-> list.count,
                                  blockmax |-> LastAddr(block), impact |-> head.first])]

\* One term of PgturbohybridWriteLexiconAndPostings, all in memory.
WriteTerm ==
    /\ pc = "terms" /\ col.terms # <<>>
    /\ LET n == CHOOSE k \in 1..Len(col.terms) :
                  /\ \A i \in 1..k : col.terms[i].t = col.terms[1].t
                  /\ k = Len(col.terms) \/ col.terms[k + 1].t # col.terms[1].t
           s == [i \in 1..n |-> [node |-> col.terms[i].node, tf |-> col.terms[i].tf]]
       IN /\ pages' = FinishTerm(col.terms[1].t, s, WritePostings(pages.postings, s), Df(s), Cf(s),
                                 s[1].node, s[n].node, MaxOf({s[i].tf : i \in 1..n}))
          /\ col' = [col EXCEPT !.terms = SubSeq(@, n + 1, Len(@))]
    /\ UNCHANGED <<rows, opt, pc, at, merge, cur>>

(***************************************************************************)
(* The k-way merge.  merge.pos[r] is the tuple of run r that its cursor    *)
(* holds, merge.items the binary heap of runs that hold one.               *)
(***************************************************************************)

CursorTuple(m, r) == col.runs[r][m.pos[r]]
CursorValid(m, r) == m.pos[r] <= Len(col.runs[r])
HeapLess(m, x, y) == TermBefore(CursorTuple(m, x), CursorTuple(m, y))
HeapSwap(s, i, j) == [s EXCEPT ![i] = s[j], ![j] = s[i]]

\* One round of PgturbohybridSpillHeapSiftUp, with positions from 1: the run at
\* s.at changes places with its parent if its tuple comes first.
RiseOnce(m, s) ==
    LET parent == s.at \div 2
    IN IF s.at > 1 /\ HeapLess(m, s.heap[s.at], s.heap[parent])
       THEN [heap |-> HeapSwap(s.heap, s.at, parent), at |-> parent]
       ELSE s
SiftUp(m, h, place) ==
    LET round[n \in 0..place] == IF n = 0 THEN [heap |-> h, at |-> place] ELSE RiseOnce(m, round[n - 1])
    IN round[place].heap

\* The first of place i and its children.
Smallest(m, h, i) ==
    LET left == IF 2 * i <= Len(h) /\ HeapLess(m, h[2 * i], h[i]) THEN 2 * i ELSE i
    IN IF 2 * i + 1 <= Len(h) /\ HeapLess(m, h[2 * i + 1], h[left]) THEN 2 * i + 1 ELSE left

\* One round of PgturbohybridSpillHeapSiftDown.
SinkOnce(m, s) ==
    LET first == Smallest(m, s.heap, s.at)
    IN IF first = s.at THEN s ELSE [heap |-> HeapSwap(s.heap, s.at, first), at |-> first]
SiftDown(m, h) ==
    LET round[n \in 0..Len(h)] == IF n = 0 THEN [heap |-> h, at |-> 1] ELSE SinkOnce(m, round[n - 1])
    IN round[Len(h)].heap

HeapPush(m, r) == [m EXCEPT !.items = SiftUp(m, Append(@, r), Len(@) + 1)]
HeapPop(m) ==
    LET n == Len(m.items)
    IN [m EXCEPT !.items = IF n = 1 THEN <<>>
                           ELSE SiftDown(m, <<m.items[n]>> \o SubSeq(m.items, 2, n - 1))]

\* The cursors are opened and every run that holds a tuple is pushed.
OpenRuns ==
    /\ pc = "open"
    /\ LET opened[r \in 0..Len(col.runs)] ==
             IF r = 0 THEN [pos |-> [q \in 1..Len(col.runs) |-> 1], items |-> <<>>]
             ELSE HeapPush(opened[r - 1], r)
       IN merge' = opened[Len(col.runs)]
    /\ pc' = "merge"
    /\ UNCHANGED <<rows, opt, at, col, cur, pages>>

Best == merge.items[1]
SameTerm(r) == CursorTuple(merge, r).t = cur.t

\* A new term begins with the tuple on top of the heap.
MergeTermBegin ==
    /\ pc = "merge" /\ ~cur.open /\ merge.items # <<>>
    /\ cur' = [open |-> TRUE, t |-> CursorTuple(merge, Best).t, df |-> 0, cf |-> 0, prevNode |-> -1,
               maxTf |-> 0, first |-> -1, last |-> 0, chunk |-> <<>>, all |-> <<>>,
               list |-> NewList(pages.postings)]
    /\ UNCHANGED <<rows, opt, pc, at, col, merge, pages>>

\* One tuple of the term: counters, impact entry, chunk, and the next tuple
\* of its run is pushed.
MergeTuple ==
    /\ pc = "merge" /\ cur.open /\ merge.items # <<>> /\ SameTerm(Best)
    /\ LET x == CursorTuple(merge, Best)
           posting == [node |-> x.node, tf |-> x.tf]
           chunk == Append(cur.chunk, posting)
           full == Len(chunk) = MaxPerChunk
           popped == [HeapPop(merge) EXCEPT !.pos[Best] = @ + 1]
       IN /\ cur' = [cur EXCEPT
               !.df = IF x.node # cur.prevNode THEN @ + 1 ELSE @,
               !.prevNode = x.node,
               !.cf = @ + x.tf,
               !.maxTf = MaxOf({@, x.tf}),
               !.first = IF @ = -1 THEN x.node ELSE @,
               !.last = x.node,
               !.all = Append(@, posting),
               !.chunk = IF full THEN <<>> ELSE chunk,
               !.list = IF full THEN AddChunk(@, PostingsTuple(chunk)) ELSE @]
          /\ merge' = IF CursorValid(popped, Best) THEN HeapPush(popped, Best) ELSE popped
    /\ UNCHANGED <<rows, opt, pc, at, col, pages>>

\* The term is complete: the last chunk, block-max, impact head and lexicon.
MergeTermEnd ==
    /\ pc = "merge" /\ cur.open
    /\ merge.items # <<>> => ~SameTerm(Best)
    /\ LET list == IF cur.chunk = <<>> THEN cur.list ELSE AddChunk(cur.list, PostingsTuple(cur.chunk))
       IN pages' = FinishTerm(cur.t, cur.all, list, cur.df, cur.cf, cur.first, cur.last, cur.maxTf)
    /\ cur' = NoTerm
    /\ UNCHANGED <<rows, opt, pc, at, col, merge>>

\* PgturbohybridWriteMeta.
WriteMeta ==
    /\ \/ pc = "terms" /\ col.terms = <<>>
       \/ pc = "merge" /\ ~cur.open /\ merge.items = <<>>
    /\ pages' = [pages EXCEPT !.meta = <<[docCount |-> Len(col.docs), totalDocLen |-> col.totalDocLen,
                                          termCount |-> Len(Flat(pages.lexicon)),
                                          termTupleCount |-> col.total]>>]
    /\ pc' = "done"
    /\ UNCHANGED <<rows, opt, at, col, merge, cur>>

Next ==
    \/ Fail \/ SkipRow \/ BuildCallback \/ CollectTerm \/ ScanEnd \/ WriteDocStats
    \/ WriteTerm \/ OpenRuns \/ MergeTermBegin \/ MergeTuple \/ MergeTermEnd \/ WriteMeta

Spec == Init /\ [][Next]_vars

(***************************************************************************)
(* What a reader of the pages finds.                                       *)
(***************************************************************************)

\* The tuples from start on, following the links.
ReadList(p, start) ==
    LET n == Len(p) * PerPage
        addr[i \in 0..n] == IF i = 0 THEN start
                            ELSE LET a == addr[i - 1] IN IF a = NoAddr THEN a ELSE p[a[1]][a[2]].next
        ends == {i \in 0..n : addr[i] = NoAddr}
    IN [i \in 1..(IF ends = {} THEN n ELSE MinOf(ends)) |-> p[addr[i - 1][1]][addr[i - 1][2]]]
ReadPostings(l) == LET ts == ReadList(pages.postings, l.postings)
                   IN Flat([i \in 1..Len(ts) |-> Decode(ts[i])])
ReadImpact(l) == LET ts == ReadList(pages.impact, l.impact)
                 IN Flat([i \in 1..Len(ts) |-> ts[i].entries])
Lexicon == LET s == Flat(pages.lexicon) IN {s[i] : i \in 1..Len(s)}

(***************************************************************************)
(* The reference: what the table says.                                     *)
(***************************************************************************)

DocsOf(t) == {d \in {col.docs[i] : i \in 1..Len(col.docs)} :
                \E i \in 1..Len(rows[d.tid].lex) : rows[d.tid].lex[i].t = t}
TfOf(d, t) == LET i == CHOOSE j \in 1..Len(rows[d.tid].lex) : rows[d.tid].lex[j].t = t
              IN Tf(rows[d.tid].lex[i])
RefPostings(t) ==
    LET S == {[node |-> d.node, tf |-> TfOf(d, t)] : d \in DocsOf(t)}
    IN [k \in 1..Cardinality(S) |-> CHOOSE x \in S : Cardinality({y \in S : y.node < x.node}) = k - 1]
IndexedTerms == {t \in Terms : TermLen[t] > 0 /\ DocsOf(t) # {}}

\* Every lexeme of every collected document has one lexicon entry, whether it
\* came from memory or from spilled runs, with the documents it occurs in and
\* its occurrences counted once each; the metadata counts the terms.
LexiconComplete ==
    pc = "done" =>
      /\ {l.t : l \in Lexicon} = IndexedTerms
      /\ Cardinality(Lexicon) = Cardinality(IndexedTerms)
      /\ \A l \in Lexicon : l.df = Cardinality({d.node : d \in DocsOf(l.t)}) /\ l.cf = Cf(RefPostings(l.t))
      /\ pages.meta[1].termCount = Cardinality(IndexedTerms)
      /\ pages.meta[1].docCount = Len(col.docs)

\* Following the chunk links of a term and decoding each chunk gives exactly
\* its postings, in node order, in every encoding and across chunk and page
\* boundaries.
PostingsReadBack ==
    pc = "done" => \A l \in Lexicon : ReadPostings(l) = RefPostings(l.t)

\* What readers skip by is an upper bound: a chunk's node range and maxima
\* cover its postings, and the block-max entry covers the whole term.
SkipDataSound ==
    pc = "done" => \A l \in Lexicon :
      LET b == pages.blockmax[l.blockmax[1]][l.blockmax[2]]
          ts == ReadList(pages.postings, l.postings)
      IN /\ Len(ts) = l.chunks
         /\ \A i \in 1..Len(RefPostings(l.t)) :
              LET x == RefPostings(l.t)[i] IN b.first <= x.node /\ x.node <= b.last /\ x.tf <= b.maxTf
         /\ \A k \in 1..Len(ts) : \A i \in 1..ts[k].count :
              LET x == Decode(ts[k])[i]
              IN /\ ts[k].first <= x.node /\ x.node <= ts[k].last /\ x.tf <= ts[k].maxTf
                 /\ opt.tfNorm => ts[k].norms[i] = TfNorm(x.node, x.tf) /\ ts[k].norms[i] <= ts[k].maxNorm

\* The impact head of a frequent term holds its HeadK best documents, best
\* first: nothing outside the head scores more than its last entry.
ImpactHeadIsTopK ==
    pc = "done" => \A l \in Lexicon :
      LET head == ReadImpact(l)
          rest == {x \in {RefPostings(l.t)[i] : i \in 1..l.df} : \A i \in 1..Len(head) : head[i].node # x.node}
      IN IF l.df < MinDf THEN head = <<>>
         ELSE /\ Len(head) = MinOf({l.df, HeadK, Max16})
              /\ \A i, j \in 1..Len(head) : i < j => head[i].score >= head[j].score
              /\ \A x \in rest : TfNorm(x.node, x.tf) <= head[Len(head)].score

\* The docstats tuples give back the length of every document.
DocStatsReadBack ==
    pc = "done" => \A i \in 1..Len(col.docs) :
      \E p \in 1..Len(pages.docstats) : \E k \in 1..Len(pages.docstats[p]) :
        LET s == pages.docstats[p][k]
            n == col.docs[i].node
        IN /\ s.start <= n /\ n < s.start + Len(s.docs)
           /\ s.docs[n - s.start + 1] = col.docs[i].docLen

\* The budget: while the build collects, terms are held in memory only while
\* everything fits, no array holds more than it was allocated for (also when
\* the growth of one has just spilled the run), and the build fails only when
\* the documents and the tid map alone do not fit, which is what its error says.
WithinBudget ==
    /\ pc = "scan" =>
         /\ ~col.failed /\ col.terms # <<>> => Used(col) <= opt.budget
         /\ Len(col.docs) <= col.docCapacity /\ Len(col.terms) <= col.termCapacity
         /\ col.bytesUsed <= col.bytesCapacity
    /\ col.failed => col.docCapacity * DocSize + NodeCount * TidSize > opt.budget

(***************************************************************************)
(* The invariant behind it.                                                *)
(***************************************************************************)
TermTuple == [t : Terms, node : Nat, tf : Nat]
DocTuple == [node : Nat, tid : Nat, docLen : {DocLen(rows[i].lex) : i \in DOMAIN rows}]

\* The collector: its arrays are sequences, each within what is allocated.
Collector(c) ==
    /\ DOMAIN c = DOMAIN EmptyCollector
    /\ {c.docCapacity, c.termCapacity, c.bytesUsed, c.bytesCapacity} \subseteq Nat
    /\ c.docs \in Seq(DocTuple) /\ c.terms \in Seq(TermTuple)
    /\ Len(c.docs) <= c.docCapacity /\ Len(c.terms) <= c.termCapacity
    /\ c.bytesUsed <= c.bytesCapacity /\ c.failed \in BOOLEAN

\* Without terms the arena is empty: a run takes its bytes with it.
ArenaClean(c) == c.terms = <<>> => c.bytesUsed = 0
Fitting(c) == c.terms # <<>> => Used(c) <= opt.budget
RightlyFailed(c) == c.failed => c.docCapacity * DocSize + NodeCount * TidSize > opt.budget

AtInv ==
    /\ at \in [row : Nat \ {0}, lex : Nat, node : Nat]
    /\ at.lex > 0 => at.row <= Len(rows) /\ at.lex <= Len(rows[at.row].lex)

CollectorInv ==
    /\ rows \in Heaps /\ opt.budget \in Nat
    /\ DOMAIN col = DOMAIN EmptyCollector /\ RightlyFailed(col)
    /\ pc = "scan" =>
         /\ Collector(col) /\ AtInv
         /\ ~col.failed => ArenaClean(col) /\ Fitting(col)

\* What a build has written reads back as what the table holds: the lexicon,
\* the postings of every term and the length of every document, from memory or
\* through spilled and merged runs, in every encoding and at every boundary.
PagesReadBack == LexiconComplete /\ PostingsReadBack /\ DocStatsReadBack

\* What queries skip by hides no document: ranges and maxima of chunks and
\* terms cover their postings and the impact heads hold the best ones.
BoundsSound == SkipDataSound /\ ImpactHeadIsTopK

=============================================================================

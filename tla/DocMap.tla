------------------------------- MODULE DocMap -------------------------------
(***************************************************************************)
(* The document map of a multivector index: a chain of pages that says     *)
(* which document each graph node belongs to and, in document mode, keeps  *)
(* the token vectors, contexts, centroids and postings of every document.  *)
(* The build writes it, an insert appends to it one WAL record per tuple   *)
(* after it has published its graph nodes, and a scan walks it page by     *)
(* page, without a lock against the insert, checks that it covers every    *)
(* node and document of the metapage it read, and may keep the result for  *)
(* later scans of the backend.                                             *)
(***************************************************************************)
EXTENDS Integers, Sequences, FiniteSets, SequencesExt, FiniteSetsExt, Functions, TLC

CONSTANTS
  Tids,        \* heap addresses, natural numbers in heap order
  Rows,        \* row values
  Shape,       \* [Rows -> [tokens, centroids: codewords, contexts: how many]]
  Options,     \* the reloptions and operator classes an index may have
  NodeCap,     \* entries of a node or document tuple written by the build
  ChunkCap,    \* vectors of one vector or centroid tuple
  PostingCap,  \* entries of one posting or code tuple
  PageCap,     \* tuples on a page
  Tables,      \* what the table may hold before its index is created
  MaxOps       \* bound on the builds, inserts, failures, deletes and scans of a behaviour

ASSUME DocMapAssumption ==
  /\ Tids \subseteq Nat
  /\ {NodeCap, ChunkCap, PostingCap, PageCap} \subseteq Nat \ {0}

VARIABLES
  option,  \* the current reloptions
  heap,    \* [Tids -> [st, row]]
  nodes,   \* the published graph nodes: node k is nodes[k + 1]
  log,     \* the tuples of the docmap chain, in chain order
  meta,    \* the fields of the metapage a load depends on
  ins,     \* the insert that holds the update lock
  scan,    \* the scan of the backend
  cache,   \* the backend's document sidecar caches
  hist,    \* what has gone wrong since the last build
  used     \* how much of the bound is spent

vars == <<option, heap, nodes, log, meta, ins, scan, cache, hist, used>>

Free == [st |-> "free", row |-> 0]
DocTokens(r) == [i \in DOMAIN Shape[r].tokens |-> <<r, i>>]
DocCentroids(r) == [i \in DOMAIN Shape[r].centroids |-> <<r, 0 - i>>]
Flat(ss) == FlattenSeq(ss)
SumSizes(s) == FoldLeft(LAMBDA a, t : a + t.size, 0, s)

(***************************************************************************)
(* Tuples.                                                                 *)
(***************************************************************************)
\* A sequence cut into pieces of at most cap, each with where it starts.
Chunks(s, cap) ==
  [i \in 1..((Len(s) + cap - 1) \div cap) |->
     [start |-> (i - 1) * cap, vals |-> SubSeq(s, (i - 1) * cap + 1, Min({i * cap, Len(s)}))]]

NodeTuple(first, entries) ==
  [t |-> "node", size |-> 1 + Len(entries), first |-> first, entries |-> entries]
DocTuple(first, entries) ==
  [t |-> "doc", size |-> 1 + 2 * Len(entries), first |-> first, entries |-> entries]
VectorTuple(doc, kind, c) ==
  [t |-> "vector", size |-> 1 + Len(c.vals), doc |-> doc, kind |-> kind,
   start |-> c.start, vals |-> c.vals]
ContextTuple(doc, count) == [t |-> "context", size |-> 1 + count, doc |-> doc, count |-> count]
CentroidTuple(doc, kind, total, c) ==
  [t |-> "centroid", size |-> 1 + Len(c.vals), doc |-> doc, kind |-> kind, total |-> total,
   start |-> c.start, vals |-> c.vals]
DocCodeTuple(doc, c) ==
  [t |-> "doccode", size |-> 1 + Len(c.vals), doc |-> doc, start |-> c.start, vals |-> c.vals]
PostingTuple(t, code, entries) ==
  [t |-> t, size |-> 1 + Len(entries), code |-> code, entries |-> entries]
CodebookTuple == [t |-> "codebook", size |-> 1]

NodeEntry(doc, ord) == [doc |-> doc, ord |-> ord]
DocEntry(tid, first, count) == [tid |-> tid, first |-> first, count |-> count]

VectorTuples(doc, kind, r) ==
  LET cs == Chunks(DocTokens(r), ChunkCap) IN [i \in DOMAIN cs |-> VectorTuple(doc, kind, cs[i])]
ContextTuples(doc, r) ==
  IF Shape[r].contexts > 0 THEN <<ContextTuple(doc, Shape[r].contexts)>> ELSE <<>>
CentroidTuples(doc, kind, r) ==
  LET cs == Chunks(DocCentroids(r), ChunkCap)
  IN [i \in DOMAIN cs |-> CentroidTuple(doc, kind, Len(Shape[r].centroids), cs[i])]
DocCodeTuples(doc, r) ==
  LET cs == Chunks(Shape[r].centroids, PostingCap)
  IN [i \in DOMAIN cs |-> DocCodeTuple(doc, cs[i])]

\* An insert writes one posting tuple per centroid or token.
InsertedPostings(t, doc, codes) ==
  [i \in DOMAIN codes |-> PostingTuple(t, codes[i], <<NodeEntry(doc, i - 1)>>)]

\* The build writes a codeword's postings together, in document order.
BuildPostings(t, docCodes) ==
  LET all == Flat([d \in DOMAIN docCodes |->
               [i \in DOMAIN docCodes[d] |-> [code |-> docCodes[d][i], e |-> NodeEntry(d - 1, i - 1)]]])
      codes == SetToSortSeq({all[i].code : i \in DOMAIN all}, <)
      list(c) == LET mine == SelectSeq(all, LAMBDA p : p.code = c)
                     cs == Chunks([i \in DOMAIN mine |-> mine[i].e], PostingCap)
                 IN [i \in DOMAIN cs |-> PostingTuple(t, c, cs[i].vals)]
  IN Flat([i \in DOMAIN codes |-> list(codes[i])])

(***************************************************************************)
(* Build.                                                                  *)
(***************************************************************************)
ValidateBuildOptions(o) ==
  /\ o.storage \in {"proxy_only", "centroid_only"} => o.document
  /\ o.document /\ o.storage = "centroid_only" => o.kmeans
  /\ o.document /\ o.storage = "proxy_only" => ~o.kmeans

StoresDocVectors(o) == o.document /\ o.storage \notin {"proxy_only", "centroid_only"}
StoresCentroids(o) == o.document /\ o.storage # "proxy_only" /\ o.kmeans
StoresQuantizedPostings(o) == StoresDocVectors(o)  \* the codebook is the built-in one

\* The documents of a heap scan, in heap order, and the first node of each.
BuildTids == SetToSortSeq({t \in Tids : heap[t].st = "live"}, <)
NodesOf(o, r) == IF o.document THEN 1 ELSE Len(Shape[r].tokens)
FirstNodes(o, rs) ==
  [d \in DOMAIN rs |-> FoldLeft(LAMBDA a, r : a + NodesOf(o, r), 0, SubSeq(rs, 1, d - 1))]

BuildNodeMap(o, rs) ==
  Flat([d \in DOMAIN rs |-> [i \in 1..NodesOf(o, rs[d]) |-> NodeEntry(d - 1, i - 1)]])
BuildDocMap(o, ts, rs) ==
  LET firsts == FirstNodes(o, rs)
  IN [d \in DOMAIN rs |-> DocEntry(ts[d], firsts[d], Len(Shape[rs[d]].tokens))]

BuildDocTuples(o, d, r) ==
     (IF StoresDocVectors(o) THEN VectorTuples(d, o.storage, r) \o ContextTuples(d, r) ELSE <<>>)
  \o (IF o.kmeans
        THEN CentroidTuples(d, IF o.storage = "centroid_only" THEN "f16" ELSE "f32", r)
        ELSE <<>>)

WriteDocMapPages(o, ts, rs) ==
  LET nm == Chunks(BuildNodeMap(o, rs), NodeCap)
      dm == Chunks(BuildDocMap(o, ts, rs), NodeCap)
      head == [i \in DOMAIN nm |-> NodeTuple(nm[i].start, nm[i].vals)]
              \o [i \in DOMAIN dm |-> DocTuple(dm[i].start, dm[i].vals)]
  IN IF ~o.document \/ o.storage = "proxy_only" THEN head
     ELSE head
       \o Flat([d \in DOMAIN rs |-> BuildDocTuples(o, d - 1, rs[d])])
       \o (IF o.kmeans
             THEN Flat([d \in DOMAIN rs |-> DocCodeTuples(d - 1, rs[d])])
                  \o BuildPostings("cposting", [d \in DOMAIN rs |-> Shape[rs[d]].centroids])
             ELSE <<>>)
       \o (IF StoresQuantizedPostings(o)
             THEN <<CodebookTuple>>
                  \o BuildPostings("qposting", [d \in DOMAIN rs |-> Shape[rs[d]].tokens])
             ELSE <<>>)

BuildFlags(o, rs) ==
  (IF o.document /\ o.storage = "proxy_only" THEN {"proxy_only"} ELSE {})
  \cup (IF StoresDocVectors(o) THEN {"vectors"} ELSE {})
  \cup (IF StoresDocVectors(o) /\ \E d \in DOMAIN rs : Shape[rs[d]].contexts > 0
          THEN {"contexts"} ELSE {})
  \cup (IF StoresQuantizedPostings(o) THEN {"quantized", "codebook"} ELSE {})
  \cup (IF StoresCentroids(o) THEN {"centroids", "cpostings", "doccodes"} ELSE {})
  \cup (IF StoresCentroids(o) /\ o.storage = "centroid_only" THEN {"f16"} ELSE {})

Pages(l) == (Len(l) + PageCap - 1) \div PageCap

MetaFromBuild(o, rs, l, file) ==
  LET valid == rs # <<>>
  IN [file |-> file, document |-> o.document, nodeCount |-> Len(BuildNodeMap(o, rs)),
      valid |-> valid, pageCount |-> IF valid THEN Pages(l) ELSE 0, docCount |-> Len(rs),
      bytes |-> IF valid THEN SumSizes(l) ELSE 0, flags |-> IF valid THEN BuildFlags(o, rs) ELSE {}]

(***************************************************************************)
(* Insert.                                                                 *)
(***************************************************************************)
\* Whether the new document is stored without its vectors is asked of the
\* current reloption as well as of the flags the build left.
ProxyOnlyDocMap(m) == m.document /\ (option.storage = "proxy_only" \/ "proxy_only" \in m.flags)

AppendsCentroids(m) == ~ProxyOnlyDocMap(m) /\ {"centroids", "cpostings"} \subseteq m.flags
AppendsQuantized(m) == m.document /\ ~ProxyOnlyDocMap(m) /\ "quantized" \in m.flags

InsertedFlags(m, r) ==
  m.flags \cup (IF ProxyOnlyDocMap(m) THEN {"proxy_only"} ELSE {})
          \cup (IF m.document /\ ~ProxyOnlyDocMap(m) /\ "vectors" \in m.flags /\ Shape[r].contexts > 0
                  THEN {"contexts"} ELSE {})
          \cup (IF m.document /\ AppendsCentroids(m) THEN {"doccodes"} ELSE {})

\* A mutant of MakeDocId: documents numbered like nodes.
MutatedMakeDocId(m) == m.nodeCount

MakeDocId(m) == m.docCount

InsertedDocMap(m, tid, r) ==
  LET doc == MakeDocId(m)
      n == IF m.document THEN 1 ELSE Len(Shape[r].tokens)
  IN <<NodeTuple(m.nodeCount, [i \in 1..n |-> NodeEntry(doc, i - 1)]),
       DocTuple(doc, <<DocEntry(tid, m.nodeCount, Len(Shape[r].tokens))>>)>>
     \o (IF m.document /\ ~ProxyOnlyDocMap(m) /\ "vectors" \in m.flags
           THEN VectorTuples(doc, "f32", r) \o ContextTuples(doc, r) ELSE <<>>)
     \o (IF m.document /\ AppendsCentroids(m)
           THEN CentroidTuples(doc, "f32", r) \o DocCodeTuples(doc, r)
                \o InsertedPostings("cposting", doc, Shape[r].centroids)
           ELSE <<>>)
     \o (IF AppendsQuantized(m) THEN InsertedPostings("qposting", doc, Shape[r].tokens) ELSE <<>>)

(***************************************************************************)
(* Load.                                                                   *)
(***************************************************************************)
\* What the flags promise a load of the metapage m.
Has(m, f) == m.document /\ f \in m.flags

Unloaded(m) ==
  [err |-> "", nodes |-> <<>>, docs |-> <<>>, contexts |-> {},
   vectors |-> [d \in 0..(m.docCount - 1) |-> <<>>], refs |-> <<>>,
   centroids |-> [d \in 0..(m.docCount - 1) |-> <<>>], totals |-> <<>>,
   codes |-> [d \in 0..(m.docCount - 1) |-> <<>>], cpostings |-> <<>>,
   codebook |-> FALSE, qpostings |-> <<>>]

Fail(st, why) == [st EXCEPT !.err = why]
NodeIds(t) == t.first..(t.first + Len(t.entries) - 1)
At(t, k) == t.entries[k - t.first + 1]

LoadNode(st, m, t) ==
  IF t.first + Len(t.entries) > m.nodeCount THEN Fail(st, "node docmap tuple range is invalid")
  ELSE IF \E k \in NodeIds(t) : k \in DOMAIN st.nodes \/ At(t, k).doc >= m.docCount
    THEN Fail(st, "node docmap entry is invalid")
  ELSE [st EXCEPT !.nodes = [k \in NodeIds(t) |-> At(t, k)] @@ @]

LoadDoc(st, m, t) ==
  IF t.first + Len(t.entries) > m.docCount THEN Fail(st, "document docmap tuple range is invalid")
  ELSE IF \E d \in NodeIds(t) :
            \/ d \in DOMAIN st.docs \/ At(t, d).first >= m.nodeCount
            \/ ~m.document /\ At(t, d).first + At(t, d).count > m.nodeCount
    THEN Fail(st, "document docmap entry is invalid")
  ELSE [st EXCEPT !.docs = [d \in NodeIds(t) |-> At(t, d)] @@ @]

\* A paged load remembers where a chunk is, a resident one copies it.
RememberChunk(st, pos, t) ==
  IF /\ \E i \in DOMAIN st.refs : st.refs[i].doc = t.doc
     /\ Last(st.refs).doc # t.doc
    THEN Fail(st, "document vector sidecar chunks are not grouped by document")
  ELSE [st EXCEPT !.refs = Append(@, [doc |-> t.doc, pos |-> pos, start |-> t.start,
                                      count |-> Len(t.vals), kind |-> t.kind])]

LoadVector(st, m, pos, paged, t) ==
  IF ~Has(m, "vectors") THEN Fail(st, "document vector tuple found without storage flag")
  ELSE IF t.doc >= m.docCount THEN Fail(st, "malformed document vector tuple")
  ELSE IF t.doc \notin DOMAIN st.docs \/ t.start + Len(t.vals) > st.docs[t.doc].count
    THEN Fail(st, "document vector tuple range is invalid")
  ELSE IF t.start # Len(st.vectors[t.doc]) THEN Fail(st, "chunks are not contiguous")
  ELSE LET kept == IF paged THEN RememberChunk(st, pos, t) ELSE st
       IN [kept EXCEPT !.vectors[t.doc] = @ \o t.vals]

LoadContext(st, m, paged, skipped, t) ==
  IF ~Has(m, "vectors") THEN Fail(st, "document context tuple found without storage flag")
  ELSE IF t.doc >= m.docCount THEN Fail(st, "malformed document context tuple")
  ELSE IF t.doc \notin DOMAIN st.docs THEN Fail(st, "document context tuple range is invalid")
  ELSE IF paged THEN IF skipped THEN st ELSE Fail(st, "paged sidecar does not support contexts")
  ELSE IF t.count > st.docs[t.doc].count THEN Fail(st, "document context tuple range is invalid")
  ELSE IF t.doc \in st.contexts THEN Fail(st, "duplicate document context tuple")
  ELSE [st EXCEPT !.contexts = @ \cup {t.doc}]

LoadCentroid(st, m, t) ==
  IF ~Has(m, "centroids") THEN Fail(st, "document centroid tuple found without storage flag")
  ELSE IF t.doc >= m.docCount THEN Fail(st, "malformed document centroid tuple")
  ELSE IF t.doc \notin DOMAIN st.docs \/ t.start + Len(t.vals) > t.total
    THEN Fail(st, "document centroid tuple range is invalid")
  ELSE IF t.doc \in DOMAIN st.totals /\ st.totals[t.doc] # t.total
    THEN Fail(st, "document centroid tuple count changed across chunks")
  ELSE IF t.start # Len(st.centroids[t.doc]) THEN Fail(st, "chunks are not contiguous")
  ELSE [st EXCEPT !.centroids[t.doc] = @ \o t.vals, !.totals = (t.doc :> t.total) @@ @]

LoadCentroidF16(st, m, t) ==
  IF "f16" \notin m.flags THEN Fail(st, "f16 centroid tuple found without storage flag")
  ELSE LoadCentroid(st, m, t)

LoadCentroidPosting(st, m, t) ==
  IF ~(Has(m, "centroids") /\ "cpostings" \in m.flags)
    THEN Fail(st, "centroid posting tuple found without posting storage flag")
  ELSE IF \E i \in DOMAIN t.entries : t.entries[i].doc >= m.docCount
    THEN Fail(st, "centroid posting entry is invalid")
  ELSE [st EXCEPT !.cpostings = @ \o [i \in DOMAIN t.entries |-> [code |-> t.code, e |-> t.entries[i]]]]

LoadDocCode(st, m, t) ==
  IF ~(Has(m, "centroids") /\ {"cpostings", "doccodes"} \subseteq m.flags)
    THEN Fail(st, "centroid doc-code tuple found without doc-code storage flag")
  ELSE IF t.doc >= m.docCount THEN Fail(st, "malformed centroid doc-code tuple")
  ELSE IF t.start # Len(st.codes[t.doc]) THEN Fail(st, "malformed centroid doc-code tuple")
  ELSE [st EXCEPT !.codes[t.doc] = @ \o t.vals]

LoadCodebook(st, m) ==
  IF ~(Has(m, "quantized") /\ "codebook" \in m.flags)
    THEN Fail(st, "quantized codebook tuple found without metadata flag")
  ELSE IF st.codebook THEN Fail(st, "duplicate quantized codebook metadata tuple")
  ELSE [st EXCEPT !.codebook = TRUE]

LoadQuantizedPosting(st, m, t) ==
  IF ~Has(m, "quantized") THEN Fail(st, "quantized posting tuple found without storage flag")
  ELSE IF "codebook" \in m.flags /\ ~st.codebook
    THEN Fail(st, "quantized posting tuple found before codebook metadata")
  ELSE IF \E i \in DOMAIN t.entries : t.entries[i].doc >= m.docCount
    THEN Fail(st, "quantized posting entry is invalid")
  ELSE [st EXCEPT !.qpostings = @ \o [i \in DOMAIN t.entries |-> [code |-> t.code, e |-> t.entries[i]]]]

\* The tuple at position pos; the first error ends the load.
LoadTuple(st, m, how, pos, t) ==
  IF st.err # "" THEN st
  ELSE CASE t.t = "node" -> LoadNode(st, m, t)
         [] t.t = "doc" -> LoadDoc(st, m, t)
         [] t.t = "vector" -> LoadVector(st, m, pos, how.paged, t)
         [] t.t = "context" -> LoadContext(st, m, how.paged, how.skipped, t)
         [] t.t = "centroid" /\ t.kind = "f32" -> LoadCentroid(st, m, t)
         [] t.t = "centroid" /\ t.kind = "f16" -> LoadCentroidF16(st, m, t)
         [] t.t = "cposting" -> LoadCentroidPosting(st, m, t)
         [] t.t = "doccode" -> LoadDocCode(st, m, t)
         [] t.t = "codebook" -> LoadCodebook(st, m)
         [] t.t = "qposting" -> LoadQuantizedPosting(st, m, t)

\* All tuples that page p holds when it is read.
LoadPage(st, m, how, p, l) ==
  LET positions == [i \in 1..(Max({0, Min({Len(l), p * PageCap}) - (p - 1) * PageCap})) |-> (p - 1) * PageCap + i]
  IN IF positions = <<>> THEN Fail(st, "docmap page chain ended early")
     ELSE FoldLeft(LAMBDA a, i : LoadTuple(a, m, how, i, l[i]), st, positions)

(***************************************************************************)
(* What a load checks once it has read the last page.                      *)
(***************************************************************************)
CoversNodesAndDocs(st, m) ==
  DOMAIN st.nodes = 0..(m.nodeCount - 1) /\ DOMAIN st.docs = 0..(m.docCount - 1)

NodesMatchDocs(st, m) ==
  \A k \in DOMAIN st.nodes :
    LET d == st.docs[st.nodes[k].doc]
    IN /\ st.nodes[k].ord < d.count
       /\ IF m.document THEN k = d.first ELSE k \in d.first..(d.first + d.count - 1)

CoversVectors(st, m) ==
  Has(m, "vectors") => \A d \in DOMAIN st.docs : Len(st.vectors[d]) = st.docs[d].count

\* Exactly one posting per position of every document, with a valid ordinal.
PostingsCover(postings, counts, m) ==
  /\ Len(postings) = FoldLeft(LAMBDA a, d : a + counts[d - 1], 0, [d \in 1..m.docCount |-> d])
  /\ \A i \in DOMAIN postings : postings[i].e.ord < counts[postings[i].e.doc]
  /\ \A d \in 0..(m.docCount - 1) :
       Cardinality({i \in DOMAIN postings : postings[i].e.doc = d}) = counts[d]

CoversQuantized(st, m) ==
  Has(m, "quantized") =>
    /\ "codebook" \in m.flags => st.codebook
    /\ PostingsCover(st.qpostings, [d \in DOMAIN st.docs |-> st.docs[d].count], m)

CoversCentroids(st, m) ==
  Has(m, "centroids") =>
    \A d \in DOMAIN st.docs : d \in DOMAIN st.totals /\ Len(st.centroids[d]) = st.totals[d]

CoversCentroidPostings(st, m) ==
  Has(m, "centroids") /\ "cpostings" \in m.flags =>
    /\ PostingsCover(st.cpostings, st.totals, m)
    /\ "doccodes" \in m.flags => \A d \in DOMAIN st.docs : st.codes[d] # <<>>

FinishLoad(st, m) ==
  IF st.err # "" THEN st
  ELSE IF ~CoversNodesAndDocs(st, m) THEN Fail(st, "docmap does not cover every node and document")
  ELSE IF ~NodesMatchDocs(st, m) THEN Fail(st, "node docmap entry does not match its document range")
  ELSE IF m.document /\ {"vectors", "proxy_only", "centroids", "quantized"} \cap m.flags = {}
    THEN Fail(st, "docmap is missing document vector storage flag")
  ELSE IF ~CoversVectors(st, m) THEN Fail(st, "docmap does not cover every document vector")
  ELSE IF ~CoversQuantized(st, m) THEN Fail(st, "quantized postings do not cover every token")
  ELSE IF ~CoversCentroids(st, m) THEN Fail(st, "docmap does not cover every document centroid")
  ELSE IF ~CoversCentroidPostings(st, m) THEN Fail(st, "centroid postings do not cover every centroid")
  ELSE st

LoadDocMap(m, how, l) ==
  IF ~m.valid THEN Fail(Unloaded(m), "multivector docmap sidecar is not available")
  ELSE FinishLoad(FoldLeft(LAMBDA a, p : LoadPage(a, m, how, p, l), Unloaded(m),
                           [p \in 1..m.pageCount |-> p]), m)

Resident == [paged |-> FALSE, skipped |-> FALSE]

(***************************************************************************)
(* The scan of a backend.                                                  *)
(***************************************************************************)
NoMeta == [file |-> 0, document |-> FALSE, nodeCount |-> 0, valid |-> FALSE, pageCount |-> 0,
           docCount |-> 0, bytes |-> 0, flags |-> {}]
NoScan == [pc |-> "idle", m |-> NoMeta, snap |-> <<>>, page |-> 0, map |-> <<>>,
           hits |-> {}, result |-> {}, raced |-> FALSE]
NoInsert == [pc |-> "idle", tid |-> 0, row |-> 0, m |-> NoMeta, done |-> 0, left |-> <<>>]

\* Document scans keep vectors on the pages and load only the map of where
\* they are, unless the operator class scores contexts or the index stores
\* no document vectors; only those paged maps are cached.
ProxyLazySidecarVectors(m) ==
  /\ option.storage \notin {"proxy_only", "centroid_only"}
  /\ "proxy_only" \notin m.flags
  /\ "vectors" \in m.flags
  /\ ~option.contextLevel
\* A mutant of LoadMode: contexts are not skipped by a paged load.
MutatedLoadMode(m) == [paged |-> m.document /\ ProxyLazySidecarVectors(m), skipped |-> FALSE]
LoadMode(m) ==
  IF m.document /\ ProxyLazySidecarVectors(m) THEN [paged |-> TRUE, skipped |-> TRUE] ELSE Resident

CacheKey(m) ==
  [file |-> m.file, nodeCount |-> m.nodeCount, pageCount |-> m.pageCount, docCount |-> m.docCount,
   bytes |-> m.bytes, flags |-> m.flags, document |-> m.document]
\* A mutant of DocSidecarCacheMatches: REINDEX does not change the key.
MutatedDocSidecarCacheMatches(c, m) == [c.key EXCEPT !.file = 0] = [CacheKey(m) EXCEPT !.file = 0]
DocSidecarCacheMatches(c, m) == c.key = CacheKey(m)

\* The sidecar rescores a hit only if every document has its vectors there.
CanUseSidecar(m) ==
  m.document /\ "vectors" \in m.flags /\ "proxy_only" \notin m.flags
             /\ option.storage # "proxy_only"

\* A paged vector is read again from its chunks, which must be as remembered.
ChunkOk(l, doc, ref, copied) ==
  /\ ref.pos <= Len(l)
  /\ l[ref.pos].t = "vector"
  /\ l[ref.pos].doc = doc /\ l[ref.pos].kind = ref.kind
  /\ l[ref.pos].start = ref.start /\ l[ref.pos].start = copied
  /\ Len(l[ref.pos].vals) = ref.count

LoadDocVector(map, m, l, doc) ==
  IF ~LoadMode(m).paged THEN map.vectors[doc]
  ELSE LET mine == SelectSeq(map.refs, LAMBDA r : r.doc = doc)
           read(acc, ref) == IF ChunkOk(l, doc, ref, Len(acc)) THEN acc \o l[ref.pos].vals ELSE acc
       IN FoldLeft(read, <<>>, mine)

\* Which document and heap address a hit stands for.
HitOf(map, m, k) ==
  IF m.document
    THEN [tid |-> map.docs[map.nodes[k].doc].tid, doc |-> map.nodes[k].doc]
    ELSE [tid |-> nodes[k + 1].tid, doc |-> 0]

TraversalHits(m) == {k \in 0..(m.nodeCount - 1) : ~nodes[k + 1].dead}

\* The token vectors a hit is scored with: from the sidecar, or from the heap
\* row if the snapshot sees one there; otherwise its graph score stands.
RerankTokens(h) ==
  IF CanUseSidecar(scan.m) THEN LoadDocVector(scan.map, scan.m, log, h.doc)
  ELSE IF h.tid \in DOMAIN scan.snap THEN DocTokens(scan.snap[h.tid])
  ELSE <<>>

(***************************************************************************)
(* Actions.                                                                *)
(***************************************************************************)
\* CREATE INDEX and REINDEX hold out every other user of the index.
Build ==
  /\ ins.pc = "idle" /\ scan.pc = "idle" /\ used < MaxOps
  /\ \E o \in Options :
       /\ ValidateBuildOptions(o)
       /\ LET ts == BuildTids
              rs == [i \in DOMAIN ts |-> heap[ts[i]].row]
              l == WriteDocMapPages(o, ts, rs)
              firsts == FirstNodes(o, rs)
          IN /\ option' = o
             /\ log' = IF rs = <<>> THEN <<>> ELSE l
             /\ meta' = MetaFromBuild(o, rs, l, meta.file + 1)
             /\ nodes' = Flat([d \in DOMAIN rs |->
                           [i \in 1..NodesOf(o, rs[d]) |-> [tid |-> ts[d], dead |-> FALSE]]])
  /\ hist' = [torn |-> FALSE, altered |-> FALSE]
  /\ used' = used + 1
  /\ UNCHANGED <<heap, ins, scan, cache>>

\* The row goes to the heap, then the index is asked to insert it.
InsertBegin ==
  /\ ins.pc = "idle" /\ meta.file > 0 /\ used < MaxOps
  /\ \E t \in Tids, r \in Rows :
       /\ heap[t].st = "free"
       /\ \A u \in Tids : heap[u].row # r
       /\ heap' = [heap EXCEPT ![t] = [st |-> "new", row |-> r]]
       /\ ins' = [pc |-> "nodes", tid |-> t, row |-> r, m |-> meta, done |-> 0, left |-> <<>>]
  /\ used' = used + 1
  /\ scan' = [scan EXCEPT !.raced = @ \/ scan.pc # "idle"]
  /\ UNCHANGED <<option, nodes, log, meta, cache, hist>>

InsertAsDocument == ins.m.valid /\ ins.m.document
InsertNodeTotal == IF InsertAsDocument THEN 1 ELSE Len(Shape[ins.row].tokens)

\* A document's neighbours are chosen among the documents of the docmap.
CollectDocumentInsertCandidates ==
  InsertAsDocument /\ meta.nodeCount > 0 => LoadDocMap(meta, Resident, log).err = ""

\* One graph node is written, linked and published.
InsertNode ==
  /\ ins.pc = "nodes"
  /\ CollectDocumentInsertCandidates
  /\ nodes' = Append(nodes, [tid |-> ins.tid, dead |-> FALSE])
  /\ meta' = [meta EXCEPT !.nodeCount = @ + 1]
  /\ ins' = IF ins.done + 1 < InsertNodeTotal THEN [ins EXCEPT !.done = @ + 1]
            ELSE IF ins.m.valid
              THEN [ins EXCEPT !.done = @ + 1, !.pc = "append",
                               !.left = InsertedDocMap(ins.m, ins.tid, ins.row)]
            ELSE [ins EXCEPT !.done = @ + 1, !.pc = "indexed"]
  /\ UNCHANGED <<option, heap, log, scan, cache, hist, used>>

InsertAppend ==
  /\ ins.pc = "append" /\ ins.left # <<>>
  /\ log' = Append(log, Head(ins.left))
  /\ ins' = [ins EXCEPT !.left = Tail(@)]
  /\ UNCHANGED <<option, heap, nodes, meta, scan, cache, hist, used>>

\* The metapage gets the new document; the page count is counted on the chain.
UpdateDocMapMeta(m) ==
  [m EXCEPT !.pageCount = Pages(log),
            !.docCount = ins.m.docCount + 1,
            !.bytes = ins.m.bytes + SumSizes(InsertedDocMap(ins.m, ins.tid, ins.row)),
            !.flags = InsertedFlags(ins.m, ins.row)]

\* A document stored without vectors while the flags promise vectors.
StoredShort == "vectors" \in ins.m.flags /\ ProxyOnlyDocMap(ins.m)

InsertPublish ==
  /\ ins.pc = "append" /\ ins.left = <<>>
  /\ meta' = UpdateDocMapMeta(meta)
  /\ ins' = [ins EXCEPT !.pc = "indexed"]
  /\ hist' = [hist EXCEPT !.altered = @ \/ StoredShort]
  /\ UNCHANGED <<option, heap, nodes, log, scan, cache, used>>

InsertCommit ==
  /\ ins.pc = "indexed"
  /\ heap' = [heap EXCEPT ![ins.tid].st = "live"]
  /\ ins' = NoInsert
  /\ UNCHANGED <<option, nodes, log, meta, scan, cache, hist, used>>

\* An error, a cancel or a crash: what was published stays in the index.
InsertFail ==
  /\ ins.pc # "idle" /\ ((ins.pc = "nodes" => CollectDocumentInsertCandidates) => used < MaxOps)
  /\ heap' = [heap EXCEPT ![ins.tid].st = "dead"]
  /\ hist' = [hist EXCEPT !.torn = @ \/ (ins.m.valid /\ ins.pc # "indexed" /\ ins.done > 0)]
  /\ ins' = NoInsert
  /\ used' = IF used < MaxOps THEN used + 1 ELSE used
  /\ UNCHANGED <<option, nodes, log, meta, scan, cache>>

Delete ==
  /\ used < MaxOps
  /\ \E t \in Tids : heap[t].st = "live" /\ heap' = [heap EXCEPT ![t].st = "dead"]
  /\ used' = used + 1
  /\ UNCHANGED <<option, nodes, log, meta, ins, scan, cache, hist>>

\* Rows dead to every snapshot: their nodes are marked, then the addresses
\* are free for new rows.  The docmap keeps their entries.
Vacuum ==
  LET gone == {t \in Tids : heap[t].st = "dead" /\ t \notin DOMAIN scan.snap}
  IN /\ gone # {}
     /\ nodes' = [i \in DOMAIN nodes |-> [nodes[i] EXCEPT !.dead = @ \/ nodes[i].tid \in gone]]
     /\ heap' = [t \in Tids |-> IF t \in gone THEN Free ELSE heap[t]]
     /\ UNCHANGED <<option, log, meta, ins, scan, cache, hist, used>>

\* ALTER INDEX ... SET (multivector_doc_storage = proxy_only)
AlterDocStorage ==
  /\ ins.pc = "idle" /\ scan.pc = "idle" /\ meta.file > 0
  /\ meta.document /\ option.storage = "f16"
  /\ option' = [option EXCEPT !.storage = "proxy_only"]
  /\ UNCHANGED <<heap, nodes, log, meta, ins, scan, cache, hist, used>>

\* A snapshot, the metapage, and the backend's cached sidecar if it matches;
\* caches of the index that do not match are dropped.  A token scan that
\* finds its graph cached loads nothing.
ScanBegin ==
  /\ scan.pc = "idle" /\ meta.file > 0 /\ meta.nodeCount > 0 /\ used < MaxOps
  /\ LET fresh == {c \in cache : DocSidecarCacheMatches(c, meta)}
         lazy == LoadMode(meta).paged
         snap == [t \in {t \in Tids : heap[t].st = "live"} |-> heap[t].row]
         begin(pc, map) ==
           [NoScan EXCEPT !.pc = pc, !.m = meta, !.snap = snap, !.page = 1, !.map = map,
                          !.raced = ins.pc \in {"nodes", "append"}]
     IN \E graphCached \in BOOLEAN :
          /\ graphCached => ~meta.document
          /\ scan' = IF graphCached \/ (~meta.document /\ ~meta.valid) THEN begin("traverse", Unloaded(meta))
                     ELSE IF ~meta.valid
                       THEN begin("error", Fail(Unloaded(meta), "multivector docmap sidecar is not available"))
                     ELSE IF lazy /\ fresh # {} THEN begin("traverse", (CHOOSE c \in fresh : TRUE).map)
                     ELSE begin("load", Unloaded(meta))
          /\ cache' = IF lazy THEN fresh ELSE cache
  /\ used' = used + 1
  /\ UNCHANGED <<option, heap, nodes, log, meta, ins, hist>>

ScanLoadPage ==
  /\ scan.pc = "load"
  /\ LET how == LoadMode(scan.m)
         read == LoadPage(scan.map, scan.m, how, scan.page, log)
         done == scan.page = scan.m.pageCount
         map == IF done THEN FinishLoad(read, scan.m) ELSE read
     IN /\ scan' = [scan EXCEPT !.map = map, !.page = @ + 1,
                                !.pc = IF map.err # "" THEN "error" ELSE IF done THEN "traverse" ELSE @]
        /\ cache' = IF done /\ map.err = "" /\ how.paged
                      THEN cache \cup {[key |-> CacheKey(scan.m), map |-> map]} ELSE cache
  /\ UNCHANGED <<option, heap, nodes, log, meta, ins, hist, used>>

ScanTraverse ==
  /\ scan.pc = "traverse"
  /\ scan' = [scan EXCEPT !.pc = "rerank", !.hits = {HitOf(scan.map, scan.m, k) : k \in TraversalHits(scan.m)}]
  /\ UNCHANGED <<option, heap, nodes, log, meta, ins, cache, hist, used>>

ScanRerank ==
  /\ scan.pc = "rerank"
  /\ scan' = [scan EXCEPT !.pc = "done", !.result = {[tid |-> h.tid, tokens |-> RerankTokens(h)] : h \in scan.hits}]
  /\ UNCHANGED <<option, heap, nodes, log, meta, ins, cache, hist, used>>

ScanEnd ==
  /\ scan.pc \in {"done", "error"}
  /\ scan' = NoScan
  /\ UNCHANGED <<option, heap, nodes, log, meta, ins, cache, hist, used>>

Init ==
  /\ option = CHOOSE o \in Options : TRUE
  /\ \E table \in Tables :
       heap = [t \in Tids |-> IF t \in DOMAIN table THEN [st |-> "live", row |-> table[t]] ELSE Free]
  /\ nodes = <<>> /\ log = <<>>
  /\ meta = NoMeta
  /\ ins = NoInsert /\ scan = NoScan /\ cache = {}
  /\ hist = [torn |-> FALSE, altered |-> FALSE]
  /\ used = 0

Next ==
  \/ Build \/ InsertBegin \/ InsertNode \/ InsertAppend \/ InsertPublish \/ InsertCommit
  \/ InsertFail \/ Delete \/ Vacuum \/ AlterDocStorage
  \/ ScanBegin \/ ScanLoadPage \/ ScanTraverse \/ ScanRerank \/ ScanEnd

Spec == Init /\ [][Next]_vars

(***************************************************************************)
(* Properties.                                                             *)
(***************************************************************************)
AtRest == ins.pc \in {"idle", "indexed"} /\ ~hist.torn /\ ~hist.altered

\* Between inserts, and if none has failed half-way and none was stored
\* without the vectors the flags promise, a load of the docmap succeeds in
\* either mode and maps every node to the document at its heap address
\* (the checks of PgturbohybridGraphLoadMultiVectorDocMapWithStats against
\* what the build and the inserts write).
DocMapReadable ==
  meta.valid /\ AtRest =>
    \A how \in {Resident, [paged |-> TRUE, skipped |-> TRUE]} :
      LET map == LoadDocMap(meta, how, log)
      IN /\ map.err = ""
         /\ \A k \in DOMAIN map.nodes : map.docs[map.nodes[k].doc].tid = nodes[k + 1].tid

\* A scan reports an invalid sidecar only if an insert was under way while it
\* ran, an insert failed half-way or was stored short, or the index was
\* built over an empty table.
LoadFailsOnlyBehindInsert ==
  scan.pc = "error" => scan.raced \/ hist.torn \/ hist.altered \/ ~scan.m.valid

\* A finished scan has every row its snapshot sees, and scored each of them
\* with the token vectors of that row and no other: across deletes, VACUUM,
\* reuse of the heap address, REINDEX, failed inserts and a cached sidecar.
ScoredByOwnVectors ==
  scan.pc = "done" =>
    /\ DOMAIN scan.snap \subseteq {c.tid : c \in scan.result}
    /\ \A c \in scan.result :
         c.tid \in DOMAIN scan.snap => c.tokens = DocTokens(scan.snap[c.tid])

\* What the report "docmap sidecar is invalid ... REINDEX" says of the index.
InvalidSaysInvalid ==
  scan.pc = "error" => hist.torn \/ hist.altered \/ ~scan.m.valid
=============================================================================

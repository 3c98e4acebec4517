----------------------------- MODULE Bm25Store -----------------------------
(***************************************************************************)
(* The BM25 half of a turbohybrid index while it is in use: documents are  *)
(* appended to a delta chain (aminsert, under UPDATE_LOCK), VACUUM marks   *)
(* nodes dead and then folds the delta into new base pages (under no       *)
(* heavyweight lock), and queries read through a per-backend cache (also   *)
(* under none).                                                            *)
(*                                                                         *)
(* One step is what the code does under one buffer lock.  A document is    *)
(* the set of its lexemes; its length is their number.  Base pages are     *)
(* never changed once the metadata points at them, so the docstats,        *)
(* lexicon and postings written by one build or compaction are one block.  *)
(***************************************************************************)
EXTENDS Integers, Sequences, FiniteSets

CONSTANTS
    Backends,    \* sessions that insert and query
    Terms,       \* lexemes, numbered in the order of a tsvector
    Buckets,     \* PGTURBOHYBRID_BM25_DELTA_TERM_BUCKETS
    BucketNo,    \* PgturbohybridBm25DeltaTermBucketNo: lexeme -> bucket
    InitDocs,    \* documents present at CREATE INDEX, in node order
    NewDocs,     \* documents rows may be inserted with
    Readers,     \* the sessions that also query
    Queries,     \* sets of lexemes queries ask for
    PerPage,     \* delta and term tuples per page
    Threshold,   \* bm25_delta_compaction_threshold, in percent
    MaxNodes,    \* bound: nodes ever appended
    MaxVacuums,  \* bound: VACUUMs ever started
    MaxQueries,  \* bound: queries ever started
    MaxDeletes,  \* bound: rows ever deleted
    MaxFaults    \* bound: errors and cancellations

ASSUME BucketAssumption == Terms \subseteq Nat /\ BucketNo \in [Terms -> Buckets]
ASSUME DocsAssumption == InitDocs \in Seq(SUBSET Terms) /\ NewDocs \subseteq SUBSET Terms
ASSUME QueriesAssumption == Queries \subseteq SUBSET Terms /\ Readers \subseteq Backends
ASSUME SizesAssumption ==
    /\ PerPage \in Nat \ {0} /\ Threshold \in Nat /\ MaxNodes \in Nat
    /\ MaxVacuums \in Nat /\ MaxQueries \in Nat /\ MaxDeletes \in Nat /\ MaxFaults \in Nat

VARIABLES
    nodes,     \* code tuples of the graph: document, row state, dead flag
    page,      \* BM25 pages by block number
    meta,      \* the BM25 metadata tuple
    ins,       \* the aminsert that holds UPDATE_LOCK
    vac,       \* the running VACUUM
    cursor,    \* pgturbohybrid_bm25_delta_cursor_* of each backend
    cache,     \* pgturbohybrid_bm25_cache_list of each backend
    query,     \* the running PgturbohybridBm25TopK of each backend
    ghost      \* history: what inserts and compactions that overlap do

vars == <<nodes, page, meta, ins, vac, cursor, cache, query, ghost>>

Invalid == 0                       \* InvalidBlockNumber
Blocks == 1..Len(page)
NodeIds == 1..Len(nodes)

(***************************************************************************)
(* Pages and chains.                                                       *)
(***************************************************************************)

\* A page: the type of its tuples, the tuples, and the first page of its chain.
\* nextblkno is only ever set on the last page of a chain, to a page allocated
\* under the same buffer lock, so the links follow the block numbers and the
\* pages reachable from b are the later ones with the same first page.
NewPage(kind, head, data) == [kind |-> kind, head |-> head, data |-> data]
Chain(pg, b) == {x \in 1..Len(pg) : b # Invalid /\ x >= b /\ pg[x].head = pg[b].head}
Items(pg, b) == UNION {pg[x].data : x \in Chain(pg, b)}
TailBlk(b) == CHOOSE x \in Chain(page, b) : \A y \in Chain(page, b) : y <= x
NextBlk(b) ==
    LET later == Chain(page, b) \ {b} IN
    IF later = {} THEN Invalid ELSE CHOOSE x \in later : \A y \in later : x <= y

\* PgturbohybridGraphAppendTuple: walk from start to the last page of the
\* chain, add the tuple there or, when it does not fit, link a new page; an
\* invalid start makes a new chain.  AppendBlkno is *insertBlkno.
Fits(start) == start # Invalid /\ Cardinality(page[TailBlk(start)].data) < PerPage
AppendBlkno(start) == IF Fits(start) THEN TailBlk(start) ELSE Len(page) + 1
AppendTuple(start, kind, item) ==
    IF Fits(start) THEN [page EXCEPT ![TailBlk(start)].data = @ \cup {item}]
    ELSE Append(page, NewPage(kind, IF start = Invalid THEN Len(page) + 1 ELSE page[start].head,
                              {item}))

\* PgturbohybridBm25CountChainPagesAndTail.
CountChainPagesAndTail(start) ==
    [pages |-> Cardinality(Chain(page, start)),
     tail  |-> IF start = Invalid THEN Invalid ELSE TailBlk(start)]

(***************************************************************************)
(* CREATE INDEX.                                                           *)
(***************************************************************************)

NoBucket == [start |-> Invalid, tail |-> Invalid, pages |-> 0]
InitDeltaDirectory == [k \in Buckets |-> NoBucket]
NoCursor == [gen |-> 0, start |-> Invalid, tail |-> Invalid, pages |-> 0]
NoCache == [valid |-> FALSE]
InsIdle == [pc |-> "idle"]
VacIdle == [pc |-> "idle"]
QueryIdle == [pc |-> "idle"]

Init ==
    /\ nodes = [k \in 1..Len(InitDocs) |-> [doc |-> InitDocs[k], row |-> "live", dead |-> FALSE]]
    /\ page = <<NewPage("base", 1, {[node |-> k, terms |-> InitDocs[k]] : k \in 1..Len(InitDocs)})>>
    /\ meta = [docCount |-> Len(InitDocs), base |-> 1, start |-> Invalid, dir |-> Invalid,
               gen |-> 0, deltaDocs |-> 0, pages |-> 0, termPages |-> 0, compacted |-> 0]
    /\ ins = InsIdle
    /\ vac = VacIdle
    /\ cursor = [b \in Backends |-> NoCursor]
    /\ cache = [b \in Backends |-> NoCache]
    /\ query = [b \in Backends |-> QueryIdle]
    /\ ghost = [published |-> 1..Len(InitDocs), since |-> {}, lost |-> {}, twice |-> {},
                compactions |-> 0, vacuums |-> 0, queries |-> 0,
                deletes |-> 0, faults |-> 0]

Busy(b) == query[b].pc # "idle" \/ (ins.pc # "idle" /\ ins.b = b)

\* PgturbohybridBm25InvalidateCache: the list of this backend only.
InvalidateCache(b) == [cache EXCEPT ![b] = NoCache]

(***************************************************************************)
(* aminsert.                                                               *)
(***************************************************************************)

\* LockPage(UPDATE_LOCK) and the graph insert.  A row without a lexical value
\* ends here: it appends no delta.
Insert(b, doc) ==
    /\ ins.pc = "idle" /\ ~Busy(b) /\ Len(nodes) < MaxNodes
    /\ nodes' = Append(nodes, [doc |-> doc, row |-> "live", dead |-> FALSE])
    /\ ins' = [pc |-> "read", b |-> b, node |-> Len(nodes) + 1, todo |-> doc]
    /\ UNCHANGED <<page, meta, vac, cursor, cache, query, ghost>>

InsertWithoutText(b) ==
    /\ ins.pc = "idle" /\ ~Busy(b) /\ Len(nodes) < MaxNodes
    /\ nodes' = Append(nodes, [doc |-> {}, row |-> "live", dead |-> FALSE])
    /\ UNCHANGED <<page, meta, ins, vac, cursor, cache, query, ghost>>

\* Mutated: any cursor of this index is trusted.
CursorHitByRelation(b) == cursor[b].start # Invalid

\* The backend's cursor is used when generation and start are the metadata's.
CursorHit(b) == cursor[b].gen = meta.gen /\ cursor[b].start = meta.start

\* PgturbohybridBm25AppendDelta, first half: under the lock of the metadata
\* page, copy the start, the directory and where the chain ends.
AppendDeltaRead ==
    /\ ins.pc = "read"
    /\ ins' = [pc |-> "append", b |-> ins.b, node |-> ins.node, todo |-> ins.todo,
               start |-> meta.start, seen |-> ghost.compactions,
               dir |-> IF meta.dir = Invalid THEN InitDeltaDirectory ELSE page[meta.dir].data,
               at |-> IF CursorHit(ins.b)
                      THEN [pages |-> cursor[ins.b].pages, tail |-> cursor[ins.b].tail]
                      ELSE CountChainPagesAndTail(meta.start)]
    /\ UNCHANGED <<nodes, page, meta, vac, cursor, cache, query, ghost>>

\* The delta tuple goes to the end of the chain; the page count follows.
AppendDeltaTuple ==
    LET from == IF ins.at.tail # Invalid THEN ins.at.tail ELSE ins.start
        blk == AppendBlkno(from)
    IN
    /\ ins.pc = "append"
    /\ page' = AppendTuple(from, "delta", [node |-> ins.node, terms |-> nodes[ins.node].doc])
    /\ ins' = [ins EXCEPT !.pc = "segments",
                          !.start = IF @ = Invalid THEN blk ELSE @,
                          !.at = [pages |-> IF ins.start = Invalid THEN 1
                                            ELSE IF blk # ins.at.tail THEN ins.at.pages + 1
                                            ELSE ins.at.pages,
                                  tail |-> blk]]
    /\ UNCHANGED <<nodes, meta, vac, cursor, cache, query, ghost>>

\* A bucket of the directory after a posting went to page blk.
BucketAfter(bucket, blk) ==
    [start |-> IF bucket.start = Invalid THEN blk ELSE bucket.start,
     pages |-> IF bucket.start = Invalid THEN 1
               ELSE IF blk # bucket.tail THEN bucket.pages + 1 ELSE bucket.pages,
     tail  |-> blk]

\* PgturbohybridBm25AppendDeltaTermSegments, the next lexeme: its posting goes
\* to the chain of its bucket in the private copy of the directory.
AppendDeltaTermSegment ==
    /\ ins.pc = "segments"
    /\ \E t \in ins.todo :
         LET k == BucketNo[t]
             bucket == ins.dir[k]
             from == IF bucket.tail # Invalid THEN bucket.tail ELSE bucket.start
         IN
         /\ \A u \in ins.todo : t <= u
         /\ page' = AppendTuple(from, "term", [node |-> ins.node, term |-> t])
         /\ ins' = [ins EXCEPT !.todo = @ \ {t},
                               !.dir[k] = BucketAfter(bucket, AppendBlkno(from))]
    /\ UNCHANGED <<nodes, meta, vac, cursor, cache, query, ghost>>

DirectoryTermPages(dir) ==
    LET sum[S \in SUBSET Buckets] ==
          IF S = {} THEN 0
          ELSE LET k == CHOOSE k \in S : TRUE IN dir[k].pages + sum[S \ {k}]
    IN sum[Buckets]

\* The metadata after the append: start and directory are the private copies.
Published(m) ==
    [m EXCEPT !.start = ins.start, !.dir = Len(page) + 1, !.gen = @ + 1,
              !.deltaDocs = @ + 1, !.pages = ins.at.pages,
              !.termPages = DirectoryTermPages(ins.dir)]

\* PgturbohybridBm25WriteDeltaTermDirectory puts the directory on a page of
\* its own that nothing refers to yet; then, under the lock of the metadata
\* page again, publish and move the cursor, drop this backend's caches, unlock.
\* History: a publication from before a compaction brings its chain back.
AppendDeltaPublish ==
    /\ ins.pc = "segments" /\ ins.todo = {}
    /\ page' = Append(page, NewPage("directory", Len(page) + 1, ins.dir))
    /\ meta' = Published(meta)
    /\ cursor' = [cursor EXCEPT ![ins.b] = [gen |-> meta.gen + 1, start |-> ins.start,
                                            tail |-> ins.at.tail, pages |-> ins.at.pages]]
    /\ cache' = InvalidateCache(ins.b)
    /\ ins' = InsIdle
    /\ ghost' = [ghost EXCEPT !.published = @ \cup {ins.node}, !.since = @ \cup {ins.node},
                              !.twice = @ \cup IF ins.seen = ghost.compactions THEN {}
                                               ELSE {d.node : d \in Items(page, ins.start)}]
    /\ UNCHANGED <<nodes, vac, query>>

\* An ERROR anywhere in AppendDelta: PG_CATCH unlocks, the row is rolled back
\* and what was appended stays.
InsertError ==
    /\ ins.pc # "idle" /\ ghost.faults < MaxFaults
    /\ nodes' = [nodes EXCEPT ![ins.node].row = "gone"]
    /\ ins' = InsIdle
    /\ ghost' = [ghost EXCEPT !.faults = @ + 1]
    /\ UNCHANGED <<page, meta, vac, cursor, cache, query>>

\* DELETE of a row whose insertion is complete (external).
DeleteRow(k) ==
    /\ k \in NodeIds /\ nodes[k].row = "live" /\ (ins.pc # "idle" => ins.node # k)
    /\ ghost.deletes < MaxDeletes
    /\ nodes' = [nodes EXCEPT ![k].row = "gone"]
    /\ ghost' = [ghost EXCEPT !.deletes = @ + 1]
    /\ UNCHANGED <<page, meta, ins, vac, cursor, cache, query>>

(***************************************************************************)
(* VACUUM: ambulkdelete, then amvacuumcleanup.                             *)
(***************************************************************************)

\* The rows VACUUM may remove: gone, and seen by no running query (external).
VacuumStart ==
    /\ vac.pc = "idle" /\ ghost.vacuums < MaxVacuums
    /\ vac' = [pc |-> "mark",
               todo |-> {k \in NodeIds : /\ nodes[k].row = "gone" /\ ~nodes[k].dead
                                         /\ ins.pc = "idle" \/ ins.node # k
                                         /\ \A b \in Backends :
                                              query[b].pc = "idle" \/ k \notin query[b].snap}]
    /\ ghost' = [ghost EXCEPT !.vacuums = @ + 1]
    /\ UNCHANGED <<nodes, page, meta, ins, cursor, cache, query>>

\* tqgraphbulkdelete marks the code tuples in node order; heap VACUUM then
\* frees the line pointers.
VacuumMark ==
    /\ vac.pc = "mark"
    /\ IF vac.todo = {}
       THEN /\ vac' = [pc |-> "meta"]
            /\ nodes' = [k \in NodeIds |-> IF nodes[k].dead THEN [nodes[k] EXCEPT !.row = "reclaimed"]
                                           ELSE nodes[k]]
       ELSE \E k \in vac.todo :
            /\ \A j \in vac.todo : k <= j
            /\ nodes' = [nodes EXCEPT ![k].dead = TRUE]
            /\ vac' = [vac EXCEPT !.todo = @ \ {k}]
    /\ UNCHANGED <<page, meta, ins, cursor, cache, query, ghost>>

\* PgturbohybridBm25MaybeCompact: too little delta, or a copy of the metadata
\* that everything below works from.
TooSmall(m) ==
    \/ m.deltaDocs = 0 \/ m.start = Invalid
    \/ m.deltaDocs * 100 < (IF m.docCount = 0 THEN 1 ELSE m.docCount) * Threshold
CompactBegin ==
    /\ vac.pc = "meta"
    /\ vac' = IF TooSmall(meta) THEN VacIdle ELSE [pc |-> "base", m |-> meta]
    /\ ghost' = [ghost EXCEPT !.since = {}]
    /\ UNCHANGED <<nodes, page, meta, ins, cursor, cache, query>>

\* PgturbohybridReadNodeStates, ReadDocLens and CollectBasePostings: the
\* documents of the base whose node is live and whose length is not 0.
CollectBasePostings(m, live) ==
    {d \in page[m.base].data : d.node \in live /\ d.terms # {}}
CompactBase ==
    LET live == {k \in NodeIds : ~nodes[k].dead} IN
    /\ vac.pc = "base"
    /\ vac' = [pc |-> "delta", m |-> vac.m, live |-> live, at |-> vac.m.start,
               docs |-> CollectBasePostings(vac.m, live)]
    /\ UNCHANGED <<nodes, page, meta, ins, cursor, cache, query, ghost>>

\* Mutated: the walk stops before the last page of the chain.
CollectDeltaButLast(at, live) ==
    IF NextBlk(at) = Invalid THEN {} ELSE {d \in page[at].data : d.node \in live}

\* PgturbohybridBm25CollectDelta, one page: nodes past the node count read
\* earlier and dead nodes are skipped.
CollectDelta(at, live) == {d \in page[at].data : d.node \in live}
CompactDelta ==
    /\ vac.pc = "delta"
    /\ vac' = [vac EXCEPT !.docs = @ \cup CollectDelta(vac.at, vac.live),
                          !.at = NextBlk(vac.at),
                          !.pc = IF NextBlk(vac.at) = Invalid THEN "write" ELSE "delta"]
    /\ UNCHANGED <<nodes, page, meta, ins, cursor, cache, query, ghost>>

\* PgturbohybridBm25WriteBasePages: new pages, the old ones are left behind.
CompactWrite ==
    /\ vac.pc = "write"
    /\ page' = Append(page, NewPage("base", Len(page) + 1, vac.docs))
    /\ vac' = [pc |-> "publish", m |-> vac.m, docs |-> vac.docs, base |-> Len(page) + 1]
    /\ UNCHANGED <<nodes, meta, ins, cursor, cache, query, ghost>>

\* PgturbohybridBm25UpdateCompactedMeta: the generation follows the one that
\* was read at the beginning, the delta is reset.
Compacted(old) ==
    [docCount |-> Cardinality(vac.docs), base |-> vac.base, start |-> Invalid, dir |-> Invalid,
     gen |-> old.gen + 1, deltaDocs |-> 0, pages |-> 0, termPages |-> 0, compacted |-> old.gen + 1]

\* History: documents published since CompactBegin that were not collected.
CompactPublish ==
    /\ vac.pc = "publish"
    /\ meta' = Compacted(vac.m)
    /\ vac' = VacIdle
    /\ ghost' = [ghost EXCEPT !.compactions = @ + 1,
                              !.lost = @ \cup {k \in ghost.since : k \notin {d.node : d \in vac.docs}}]
    /\ UNCHANGED <<nodes, page, ins, cursor, cache, query>>

\* A cancelled VACUUM: marks stay, new base pages stay unreferenced.
VacuumCancel ==
    /\ vac.pc # "idle" /\ ghost.faults < MaxFaults
    /\ vac' = VacIdle
    /\ ghost' = [ghost EXCEPT !.faults = @ + 1]
    /\ UNCHANGED <<nodes, page, meta, ins, cursor, cache, query>>

(***************************************************************************)
(* PgturbohybridBm25TopK: what a query reads.                              *)
(***************************************************************************)

\* PgturbohybridBm25ReadMeta.  History: the rows the query's snapshot sees and
\* those it must find.
QueryMeta(b, terms) ==
    /\ ~Busy(b) /\ ghost.queries < MaxQueries
    /\ ghost' = [ghost EXCEPT !.queries = @ + 1]
    /\ query' = [query EXCEPT ![b] =
         [pc |-> "cache", terms |-> terms, m |-> meta,
          snap |-> {k \in NodeIds : nodes[k].row = "live"},
          must |-> {k \in ghost.published \ ghost.lost : nodes[k].row = "live"}]]
    /\ UNCHANGED <<nodes, page, meta, ins, vac, cursor, cache>>

\* Mutated: the generation of the delta is not part of the key.
CacheMatchesNoGeneration(c, m, count) ==
    c.valid /\ c.count = count /\ c.m.base = m.base /\ c.m.start = m.start

\* PgturbohybridBm25CacheMatches.
CacheMatches(c, m, count) ==
    /\ c.valid /\ c.count = count
    /\ c.m.docCount = m.docCount /\ c.m.gen = m.gen /\ c.m.compacted = m.compacted
    /\ c.m.base = m.base /\ c.m.start = m.start /\ c.m.dir = m.dir

\* PgturbohybridBm25BuildCache: the lexicon; the rest is loaded on demand.
BuildCache(m, count) ==
    [valid |-> TRUE, m |-> m, count |-> count, lexicon |-> page[m.base].data,
     loaded |-> FALSE, live |-> {}, built |-> FALSE, delta |-> {}]

\* The accumulators of a query that is done: base and delta postings.
Answer(q, base, delta) ==
    [pc |-> "done", terms |-> q.terms, m |-> q.m, snap |-> q.snap, must |-> q.must,
     base |-> base, delta |-> delta]

\* PgturbohybridGraphReadMeta, then GetCache: caches of the index that do not
\* match are dropped.  A query no lexeme of which is known and that sees no
\* delta ends here.
QueryCache(b) ==
    LET q == query[b]
        c == IF CacheMatches(cache[b], q.m, Len(nodes)) THEN cache[b]
             ELSE BuildCache(q.m, Len(nodes))
        known == \E d \in c.lexicon : d.terms \cap q.terms # {}
    IN
    /\ q.pc = "cache"
    /\ IF Len(nodes) = 0 THEN cache' = cache ELSE cache' = [cache EXCEPT ![b] = c]
    /\ query' = [query EXCEPT ![b] =
         IF Len(nodes) = 0 \/ (~known /\ q.m.deltaDocs = 0)
         THEN Answer(q, {}, {})
         ELSE [q EXCEPT !.pc = "load"]]
    /\ UNCHANGED <<nodes, page, meta, ins, vac, cursor, ghost>>

\* EnsureDocStats and EnsureLiveness: loaded once per cache.
QueryLoad(b) ==
    /\ query[b].pc = "load"
    /\ cache' = IF cache[b].loaded THEN cache
                ELSE [cache EXCEPT ![b].loaded = TRUE,
                        ![b].live = {k \in 1..cache[b].count : ~nodes[k].dead}]
    /\ query' = [query EXCEPT ![b].pc = "delta"]
    /\ UNCHANGED <<nodes, page, meta, ins, vac, cursor, ghost>>

\* Postings of the delta chain: the documents are read one by one.
DocScan(m, live) ==
    UNION {{[node |-> d.node, term |-> t] : t \in d.terms} : d \in {e \in Items(page, m.start) : e.node \in live}}

\* BuildDeltaCacheFromTermSegments: only the buckets of the query's lexemes.
TermSegments(m, terms, live) ==
    LET dir == page[m.dir].data
        needed == {BucketNo[t] : t \in terms}
    IN {p \in UNION {Items(page, dir[k].start) : k \in needed} : p.term \in terms /\ p.node \in live}

\* The base postings of the query's lexemes, of live nodes with a length.
BasePostings(c, terms) ==
    UNION {{[node |-> d.node, term |-> t] : t \in d.terms \cap terms} :
             d \in {e \in c.lexicon : e.node \in c.live}}

\* Base and delta postings (ScoreDelta) add to the same accumulator.
Scored(q, c, delta) == Answer(q, BasePostings(c, q.terms), delta)

\* PgturbohybridBm25BuildDeltaCacheEntries with the query's lexemes (a cache
\* limit is set): term segments when there is a directory, else the chain.
QueryDeltaFiltered(b) ==
    LET q == query[b]  c == cache[b] IN
    /\ q.pc = "delta" /\ ~c.built
    /\ query' = [query EXCEPT ![b] = Scored(q, c,
                    IF q.m.dir # Invalid THEN TermSegments(q.m, q.terms, c.live)
                    ELSE {p \in DocScan(q.m, c.live) : p.term \in q.terms})]
    /\ UNCHANGED <<nodes, page, meta, ins, vac, cursor, cache, ghost>>

\* EnsureDeltaCache: all of the chain, kept in the cache.
QueryDeltaCached(b) ==
    LET q == query[b]
        c == IF cache[b].built THEN cache[b]
             ELSE [cache[b] EXCEPT !.built = TRUE, !.delta = DocScan(q.m, cache[b].live)]
    IN
    /\ q.pc = "delta"
    /\ cache' = [cache EXCEPT ![b] = c]
    /\ query' = [query EXCEPT ![b] = Scored(q, c, {p \in c.delta : p.term \in q.terms})]
    /\ UNCHANGED <<nodes, page, meta, ins, vac, cursor, ghost>>

\* The heap rows are fetched and the scan ends.
QueryEnd(b) ==
    /\ query[b].pc = "done"
    /\ query' = [query EXCEPT ![b] = QueryIdle]
    /\ UNCHANGED <<nodes, page, meta, ins, vac, cursor, cache, ghost>>

(***************************************************************************)
(* The system.                                                             *)
(***************************************************************************)

InsertStep ==
    \/ \E b \in Backends, doc \in NewDocs : Insert(b, doc)
    \/ \E b \in Backends : InsertWithoutText(b)
    \/ AppendDeltaRead \/ AppendDeltaTuple \/ AppendDeltaTermSegment
    \/ AppendDeltaPublish \/ InsertError
    \/ \E k \in 1..MaxNodes : DeleteRow(k)

VacuumStep ==
    \/ VacuumStart \/ VacuumMark \/ VacuumCancel
    \/ CompactBegin \/ CompactBase \/ CompactDelta \/ CompactWrite \/ CompactPublish

QueryStep ==
    \E b \in Readers :
        \/ \E terms \in Queries : QueryMeta(b, terms)
        \/ QueryCache(b) \/ QueryLoad(b) \/ QueryDeltaFiltered(b) \/ QueryDeltaCached(b)
        \/ QueryEnd(b)

Next == InsertStep \/ VacuumStep \/ QueryStep

Spec == Init /\ [][Next]_vars

(***************************************************************************)
(* Properties.                                                             *)
(***************************************************************************)

InBase == {d.node : d \in page[meta.base].data}
InDelta == {d.node : d \in Items(page, meta.start)}

\* Every document whose insertion completed is in the base or in the delta as
\* long as its row is there, but for the ones a compaction overlapped:
\* published after MaybeCompact read the metadata and appended to a page
\* CollectDelta had already left.
StoreComplete ==
    \A k \in ghost.published \ ghost.lost :
        (nodes[k].row = "live" /\ nodes[k].doc # {}) => k \in InBase \cup InDelta

\* No document is both in the base and in the delta, except after an insert
\* that had read the metadata before a compaction published after it.
StoreOnce == InBase \cap InDelta \subseteq ghost.twice

\* The counts the scores are computed from are the counts of what is stored.
CountsAgree ==
    /\ meta.docCount = Cardinality(page[meta.base].data)
    /\ ghost.twice = {} => meta.deltaDocs = Cardinality(InDelta \cap ghost.published)

\* The two access paths to the delta agree on every published document: what
\* the term segments of its lexemes hold is what the chain of documents holds.
SegmentsAgree ==
    meta.dir # Invalid =>
        LET live == InDelta \cap ghost.published IN
        DocScan(meta, live) = TermSegments(meta, Terms, live)

\* The page an append in flight starts from, found by walking the chain or
\* taken from the backend's cursor, is a page of the chain it will publish,
\* also when another backend appended or VACUUM compacted in between.
CursorSound ==
    (ins.pc = "append" /\ ins.at.tail # Invalid) => ins.at.tail \in Chain(page, ins.start)

\* A query finds every document it must: published before it read the
\* metadata, row visible, whatever inserts, VACUUM and compactions do while it
\* runs and whatever its backend had cached.
QueryComplete ==
    \A b \in Backends : query[b].pc = "done" =>
        \A k \in query[b].must, t \in query[b].terms :
            t \in nodes[k].doc =>
                [node |-> k, term |-> t] \in query[b].base \cup query[b].delta

\* A lexeme of a document counts once in a query, with the same exception as
\* StoreOnce.
QueryOnce ==
    \A b \in Backends : query[b].pc = "done" =>
        \A p \in query[b].base \cap query[b].delta : p.node \in ghost.twice

\* Inserts, VACUUM and compaction keep every document in exactly one place:
\* none is lost, none is stored twice, but for the overlaps named above.
StoreExact == StoreComplete /\ StoreOnce

\* What the next append and the next query start from is right: the counts, the
\* term segments and the cursor agree with the chains they summarise.
BookkeepingAgrees == CountsAgree /\ SegmentsAgree /\ CursorSound

\* A query counts every lexeme of every document it must see, and counts it
\* once, whatever its backend has cached and whatever runs beside it.
QueryExact == QueryComplete /\ QueryOnce

(***************************************************************************)
(* The inductive invariant.                                                *)
(***************************************************************************)

Node == [doc : SUBSET Terms, row : {"live", "gone", "reclaimed"}, dead : BOOLEAN]
DocTuple == [node : Nat, terms : SUBSET Terms]
Posting == [node : Nat, term : Terms]
Directory == [Buckets -> [start : Nat, tail : Nat, pages : Nat]]
DocCounts == {Cardinality(S) : S \in SUBSET DocTuple}
TermPageCounts == {0} \cup {DirectoryTermPages(d) : d \in Directory}
Meta == [docCount : DocCounts, base : Nat, start : Nat, dir : Nat, gen : Nat, deltaDocs : Nat,
         pages : Nat, termPages : TermPageCounts, compacted : Nat]
Page == [kind : {"base", "delta"}, head : Nat, data : SUBSET DocTuple]
        \cup [kind : {"term"}, head : Nat, data : SUBSET Posting]
        \cup [kind : {"directory"}, head : Nat, data : Directory]
InsReading == [pc : {"read"}, b : Backends, node : Nat, todo : SUBSET Terms]
InsAppending ==
    [pc : {"append", "segments"}, b : Backends, node : Nat, todo : SUBSET Terms,
     start : Nat, seen : Nat, dir : Directory, at : [pages : Nat, tail : Nat]]
VacMarking == [pc : {"mark"}, todo : SUBSET Nat]
VacCollecting ==
    [pc : {"delta", "write"}, m : Meta, live : SUBSET Nat, at : Nat, docs : SUBSET DocTuple]
VacPublishing == [pc : {"publish"}, m : Meta, docs : SUBSET DocTuple, base : Nat]
CacheLoaded ==
    [valid : {TRUE}, m : Meta, count : Nat, lexicon : SUBSET DocTuple,
     loaded : BOOLEAN, live : SUBSET Nat, built : BOOLEAN, delta : SUBSET Posting]
QueryRunning ==
    [pc : {"cache", "load", "delta"}, terms : SUBSET Terms, m : Meta,
     snap : SUBSET Nat, must : SUBSET Nat]
QueryDone ==
    [pc : {"done"}, terms : SUBSET Terms, m : Meta, snap : SUBSET Nat, must : SUBSET Nat,
     base : SUBSET Posting, delta : SUBSET Posting]
InsertState == {InsIdle} \cup InsReading \cup InsAppending
VacuumState ==
    {VacIdle} \cup VacMarking \cup [pc : {"meta"}] \cup [pc : {"base"}, m : Meta]
    \cup VacCollecting \cup VacPublishing
CacheState == {NoCache} \cup CacheLoaded
QueryState == {QueryIdle} \cup QueryRunning \cup QueryDone

Ghost ==
    [published : SUBSET Nat, since : SUBSET Nat, lost : SUBSET Nat, twice : SUBSET Nat,
     compactions : Nat, vacuums : Nat, queries : Nat, deletes : Nat, faults : Nat]

TypeOK ==
    /\ nodes \in Seq(Node)
    /\ page \in Seq(Page)
    /\ meta \in Meta
    /\ ins \in InsertState
    /\ vac \in VacuumState
    /\ cursor \in [Backends -> [gen : Nat, start : Nat, tail : Nat, pages : Nat]]
    /\ cache \in [Backends -> CacheState]
    /\ query \in [Backends -> QueryState]
    /\ ghost \in Ghost

\* Rows: a dead node has no row, and none a query may see becomes one.
NodesInv ==
    /\ \A k \in NodeIds : nodes[k].dead => nodes[k].row # "live"
    /\ ghost.published \subseteq NodeIds
    /\ vac.pc = "mark" =>
         /\ vac.todo \subseteq {k \in NodeIds : nodes[k].row # "live"}
         /\ \A b \in Backends : query[b].pc # "idle" => vac.todo \cap query[b].snap = {}

\* Pages: a chain holds tuples of one type and each is of a node that exists.
Docs == {[node |-> k, terms |-> nodes[k].doc] : k \in NodeIds}
Postings == {p \in [node : NodeIds, term : Terms] : p.term \in nodes[p.node].doc}
OnChain(pg, kind, start, tail) ==
    start \in 1..Len(pg) /\ pg[start].kind = kind /\ tail \in Chain(pg, start)
DirectoryOk(pg, dir) ==
    \A k \in Buckets : \/ dir[k].start = Invalid /\ dir[k].tail = Invalid
                       \/ OnChain(pg, "term", dir[k].start, dir[k].tail)
PagesInv ==
    \A x \in Blocks :
        /\ page[x].head \in 1..x /\ page[page[x].head].kind = page[x].kind
        /\ page[x].kind \in {"base", "delta"} => page[x].data \subseteq Docs
        /\ page[x].kind = "term" => page[x].data \subseteq Postings
        /\ page[x].kind = "directory" => DirectoryOk(page, page[x].data)

\* The nodes that a copy m of the metadata leads to, by each of its pointers.
BaseNodes(pg, m) == {d.node : d \in pg[m.base].data}
DeltaNodes(pg, m) == {d.node : d \in Items(pg, m.start)}
SegmentItems(pg, dir) == UNION {Items(pg, dir[k].start) : k \in Buckets}
SegmentNodes(pg, m) ==
    {p.node : p \in IF m.dir = Invalid THEN {} ELSE SegmentItems(pg, pg[m.dir].data)}
MetaOk(pg, m) ==
    /\ m.base \in 1..Len(pg) /\ pg[m.base].kind = "base"
    /\ \/ m.start = Invalid /\ m.dir = Invalid /\ m.deltaDocs = 0
       \/ /\ m.start \in 1..Len(pg) /\ pg[m.start].kind = "delta"
          /\ m.dir \in 1..Len(pg) /\ pg[m.dir].kind = "directory"
          /\ m.deltaDocs > 0

\* The term segments of dir hold every lexeme of the nodes in S.
Segmented(pg, dir, S) ==
    \A k \in S : \A t \in nodes[k].doc :
        [node |-> k, term |-> t] \in Items(pg, dir[BucketNo[t]].start)

MetaInv ==
    /\ MetaOk(page, meta)
    /\ meta.dir # Invalid =>
         /\ Segmented(page, page[meta.dir].data, DeltaNodes(page, meta) \cap ghost.published)
         /\ SegmentNodes(page, meta) \subseteq DeltaNodes(page, meta)

\* An insert: its node is new until its tuple is appended, its private copies
\* agree with each other, and only a compaction can take the chain away.
InsRunning == ins.pc \in {"append", "segments"}
InsInv ==
    /\ ins.pc # "idle" =>
         /\ ins.node \in NodeIds \ ghost.published
         /\ query[ins.b].pc = "idle"
         /\ ins.todo \subseteq nodes[ins.node].doc
    /\ ins.pc \in {"read", "append"} =>
         /\ ins.todo = nodes[ins.node].doc
         /\ \A x \in Blocks : page[x].kind \in {"base", "delta"} =>
                \A d \in page[x].data : d.node # ins.node
         /\ vac.pc \in {"delta", "write", "publish"} => \A d \in vac.docs : d.node # ins.node
InsChainInv == InsRunning =>
    /\ meta.start \in {Invalid, ins.start}
    /\ ins.seen <= ghost.compactions
    /\ DirectoryOk(page, ins.dir)
    /\ \/ /\ ins.pc = "append" /\ ins.start = Invalid /\ ins.at.tail = Invalid
          /\ \A k \in Buckets : ins.dir[k].start = Invalid
       \/ OnChain(page, "delta", ins.start, ins.at.tail)
    /\ Segmented(page, ins.dir, DeltaNodes(page, ins) \cap ghost.published)
    /\ {p.node : p \in SegmentItems(page, ins.dir)} \subseteq DeltaNodes(page, ins)
    /\ ins.pc = "segments" =>
         /\ ins.node \in DeltaNodes(page, ins)
         /\ \A t \in nodes[ins.node].doc \ ins.todo :
              [node |-> ins.node, term |-> t] \in Items(page, ins.dir[BucketNo[t]].start)
    /\ ins.seen = ghost.compactions =>
         /\ BaseNodes(page, meta) \cap DeltaNodes(page, ins) \subseteq ghost.twice
         /\ meta.start # ins.start => DeltaNodes(page, ins) \cap ghost.published = {}

CursorInv ==
    \A b \in Backends :
        \/ cursor[b].start = Invalid /\ cursor[b].tail = Invalid
        \/ OnChain(page, "delta", cursor[b].start, cursor[b].tail)

\* A compaction: the documents it must keep are collected or still ahead.
MustKeep ==
    {k \in ghost.published \ (ghost.since \cup ghost.lost) :
        nodes[k].row = "live" /\ nodes[k].doc # {}}
VacInv ==
    /\ vac.pc \in {"base", "delta", "write", "publish"} => MetaOk(page, vac.m)
    /\ vac.pc = "base" =>
         /\ vac.m.start # Invalid
         /\ MustKeep \subseteq BaseNodes(page, vac.m) \cup DeltaNodes(page, vac.m)
    /\ vac.pc \in {"delta", "write", "publish"} => vac.docs \subseteq Docs
    /\ vac.pc = "delta" =>
         /\ vac.at \in Blocks /\ page[vac.at].kind = "delta"
         /\ MustKeep \subseteq {d.node : d \in vac.docs \cup Items(page, vac.at)}
         /\ MustKeep \subseteq vac.live
    /\ vac.pc \in {"write", "publish"} => MustKeep \subseteq {d.node : d \in vac.docs}
    /\ vac.pc = "publish" =>
         /\ vac.base \in Blocks /\ page[vac.base].kind = "base"
         /\ page[vac.base].data = vac.docs

\* What is stored twice, reached from m, is known to be; the node of an insert
\* that a compaction collected is reached from its base alone.
OnceOk(pg, i, twice, m) ==
    /\ BaseNodes(pg, m) \cap (DeltaNodes(pg, m) \cup SegmentNodes(pg, m)) \subseteq twice
    /\ (i.pc = "segments" /\ i.node \in BaseNodes(pg, m)) => m.start = Invalid /\ m.dir = Invalid

\* A cache: base, start and directory identify what it was loaded from.
SameKey(m, n) == m.base = n.base /\ m.start = n.start /\ m.dir = n.dir
Covers(c, S) ==
    \A k \in S : k <= c.count => \A t \in nodes[k].doc : [node |-> k, term |-> t] \in c.delta
CacheOk(b) ==
    LET c == cache[b] IN c.valid =>
        /\ MetaOk(page, c.m)
        /\ c.lexicon = page[c.m.base].data
        /\ c.count <= Len(nodes)
        /\ c.built => c.loaded
        /\ c.loaded => \A k \in 1..c.count : nodes[k].dead \/ k \in c.live
        /\ c.built =>
             /\ c.delta \subseteq {p \in Postings : p.node \in DeltaNodes(page, c.m)}
             /\ SameKey(c.m, meta) =>
                  Covers(c, {k \in DeltaNodes(page, meta) \cap ghost.published : ~nodes[k].dead})

\* A query: what it must find is where its copy of the metadata leads, in the
\* documents, in the term segments and in the cache it uses.
QueryOk(b) ==
    LET q == query[b]  c == cache[b] IN
    /\ q.pc # "idle" =>
         /\ q.must \subseteq {k \in ghost.published \cap q.snap : ~nodes[k].dead}
         /\ MetaOk(page, q.m)
         /\ OnceOk(page, ins, ghost.twice, q.m)
         /\ \A k \in q.must :
              nodes[k].doc # {} => k \in BaseNodes(page, q.m) \cup DeltaNodes(page, q.m)
         /\ q.m.dir # Invalid =>
              Segmented(page, page[q.m.dir].data, q.must \cap DeltaNodes(page, q.m))
    /\ (q.pc \in {"cache", "load", "delta"} /\ c.valid /\ c.built /\ SameKey(c.m, q.m)) =>
         Covers(c, q.must \cap DeltaNodes(page, q.m))
    /\ q.pc \in {"load", "delta"} => c.valid /\ SameKey(c.m, q.m) /\ q.must \subseteq 1..c.count
    /\ q.pc = "delta" => c.loaded

Inv ==
    /\ TypeOK /\ NodesInv /\ PagesInv /\ MetaInv /\ InsInv /\ InsChainInv /\ CursorInv /\ VacInv
    /\ OnceOk(page, ins, ghost.twice, meta)
    /\ \A b \in Backends : CacheOk(b) /\ QueryOk(b)
    /\ StoreComplete /\ CountsAgree /\ QueryExact

=============================================================================

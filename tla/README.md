# A TLA+ model of pgturbohybrid

`pgturbohybrid` is a PostgreSQL index access method: a quantized proximity graph
for dense vectors, BM25 postings for `tsvector` columns, late interaction over
multivectors, and a fusion of them. PostgreSQL calls it from many backends at once; it
keeps its state on index pages, in caches of each backend and in cache files shared by
all of them. This directory holds TLA+ modules that model that state and what changes
it, TLC configurations that check them on small instances, and proofs that TLAPS checks.

## Inventory

| Part | State | Operations | What makes it correct | Module |
|---|---|---|---|---|
| Native graph, insert (`quant_insert.c`, `quant_storage.c`) | code, adjacency and exact page chains, metapage | `aminsert` under UPDATE_LOCK: read metapage, search, write the reciprocal edges, append tuples, write metapage | a committed row is found; a failed insert does no harm | `GraphIndex` |
| Native graph, VACUUM (`quant_vacuum.c`) | dead flags, repaired edges and entries, generation | `ambulkdelete` under SCAN_LOCK exclusive | no tuple names a reclaimed line pointer; the graph stays navigable | `GraphIndex` |
| Native graph, scan (`quant.c`) | results of one scan, visited marks kept in the cache | `amgettuple` under SCAN_LOCK shared until the results are collected | returns rows of its snapshot and no other; the search settles; short only when nothing is left | `GraphIndex`, `GraphSearch` |
| Per-backend cache (`quant_scan_cache.c`) | nodes and neighbours of one generation | find, build, append by an insert | never used when the pages say something else | `GraphIndex` |
| Shared cache files (`quant_scan_cache.c`) | files under `pg_turbohybrid_cache`, lock files, mappings | look up, build under an fcntl lock, publish by rename, remove old generations, collect garbage | one builder; complete files; a match means current content | `SharedCache` |
| Build (`quant.c`) | nodes, records and edges in shared memory | serial and parallel phases, barrier, fallback | ends; same index as the sequential algorithm | `BuildGraph`, `IndexBuild`, `ParallelBuild` |
| BM25 build (`bm25_build.c`) | collector, spilled runs, page chains | collect, spill, merge, write chunks, lexicon, heads | pages read back as the table; bounds cover; budget kept | `Bm25Build` |
| BM25 in use (`bm25_build.c`, `bm25_query.c`) | metadata, delta chain, term segments, cursor and reader cache of a backend | append, compact, cached query | every document stored once; no posting missed or counted twice | `Bm25Store` |
| BM25 query (`bm25_query.c`) | accumulator, iterators, heads, bounds | compile, choose a strategy, WAND, impact, document at a time | pruning equals exhaustive scoring | `Bm25Query` |
| Fusion and access method (`am.c`, `pgturbohybrid.c`) | candidates, fusion array, planned statement stack, wrapper frames | rescan, collect, merge, score, return; executor hooks, aborts | a scan returns what it would return alone | `HybridFusion`, `AccessMethod` |
| Document map (`quant_insert.c`, `quant_scan_cache.c`) | docmap chain, sidecar cache | build, append record by record, load with checks | loads whenever it should; scores belong to the row | `DocMap` |
| Multivector scan (`multivector.c`, `quant_multivector_scan.c`) | accumulator, reservoirs, rerank heap | per-token traversal, accumulate, admit, rerank | exact best documents, in order | `MaxSim`, `MultiVectorScan` |
| Validator (`validate.c`) | none | read-only checks of every page chain | silent on every state the writers produce | `GraphIndex` (`ValidatorOk`) |
| Scoring kernels, settings, `pg_colbert_llama` | none that other parts see | | | not modelled |

How they interact. A hybrid scan (`AccessMethod`) asks the graph (`GraphSearch`, under the
protocol of `GraphIndex`, over a view of `SharedCache`), the BM25 half (`Bm25Query` over the
snapshot `Bm25Store` hands out, of pages `Bm25Build` wrote) and, for a multivector column,
`MultiVectorScan` with the documents of `DocMap`; `HybridFusion` merges what they return.
`aminsert` writes graph, docmap and delta one after the other; VACUUM marks the graph and
then compacts the delta. Each module states what it takes from its neighbours in its header.

Hard behaviours: inserts and VACUUM hold *different* page locks and interleave page by
page, compaction holds neither; every page write is a WAL record of its own, so a crash
or an error leaves any prefix; caches outlive the locks under which they were filled
and files outlive the server; arrays reused across scans are told apart by counters
that wrap; executor hooks keep stacks that errors unwind; build workers meet at
barriers of fixed size and may die. `PROJECT.json` lists the hazards at their lines.

## Modules

| Module | Models |
|---|---|
| `GraphIndex`, `GraphIndexProofs` | the native graph: inserts, VACUUM, scans, per-backend caches, failures; its proofs |
| `SharedCache`, `SharedCacheProofs` | the cache files all backends share: lookup, build, publication, crashes; its proofs |
| `GraphSearch`, `GraphSearchProofs` | what one scan does between lock and result: entries, descent, base-layer search, widening, rescoring; its proofs |
| `BuildGraph` | the graph construction as operators on values |
| `IndexBuild` | what CREATE INDEX promises (abstract) |
| `ParallelBuild`, `ParallelBuildProofs` | CREATE INDEX by a leader and workers; implements `IndexBuild`; its proofs |
| `Bm25Build`, `Bm25BuildProofs` | the BM25 half of CREATE INDEX; proofs about its collector |
| `Bm25Store`, `Bm25StoreProofs` | the BM25 half in use: delta appends, compaction, cached queries; its proofs |
| `Bm25Query` | one BM25 query, strategy by strategy |
| `HybridFusion` | budgets, the three merges, scores and the top-N heap as operators |
| `AccessMethod`, `AccessMethodProofs` | executor hooks and scans of one backend; uses `HybridFusion`; proofs about both |
| `DocMap` | the document map of a multivector index |
| `MaxSim` | late interaction and its bounded version as operators |
| `MultiVectorScan` | a scan of a token graph; uses `MaxSim` |
| `OrderLemmas` | lemmas for several of the proofs: least and greatest elements, the list of a set in an order, values computed one from the other |
| `MC...` | small instances of the above for TLC |

A definition introduced as *Mutated:* is a wrong version of the definition after it.
No specification uses it; it documents a mistake that the runs are known to reject.

### GraphIndex

State and code. `code` and `adj` are the code and adjacency tuples in chain order
(page boundaries every `PerPage` tuples), `meta` the metapage fields that change
after the build, `ins` the insert that holds UPDATE_LOCK with its local copies,
`vac` the running VACUUM with its dead array and working copy of the graph, `scan`
and `cache` what each backend keeps. `heap` is PostgreSQL's heap: which row a line
pointer holds. A row has an identity of its own, so that a reused line pointer is
told apart from the row it used to hold; the model keeps the identity in the code
tuple as history, the code never reads it.

Steps. One action is what the code does under one buffer lock. `InsertBegin` ...
`InsertUpdateMeta` are the steps of `PgturbohybridGraphInsertValueInPlaceInternal`;
`VacuumReadMeta` ... `VacuumBump` those of `tqgraphbulkdelete`, in the order of the
code: the metapage is read before the lock is taken, edges are read node by node,
repaired in memory, and written back tuple by tuple; `ScanLock`/`ScanCollect`/
`ScanEnd` those of `tqgraphgettuple`. `InsertFail`, `InsertFailTorn` and `VacuumFail`
are errors (any `ereport`, a cancel), `Crash` and `CrashTorn` a server crash.

Abstractions. Distances are not modelled: where the code ranks by distance the model
allows every outcome some ranking produces. Adjacency is kept for level 0; higher
levels follow the same protocol and `Level` only decides the entry node. Routing and
sidecar entries are one set `seeds`. A scan may return every live node it loaded;
which of them the search reaches is the subject of `GraphSearch`.

Specifications. `Spec` has inserts, VACUUM, scans, errors before an insert's appends,
and crashes outside them. `SpecWrite` is the writers alone, with a VACUUM that may be
cancelled at any point. `SpecVacuumFail` adds a cancelled VACUUM to everything,
`SpecTorn` failures between an insert's appends; no run uses these two, because each
breaks a property that holds without it (Known deviations).

### SharedCache

`PgturbohybridGraphGetSharedMap` step by step, for backends that scan, insert and run
VACUUM. `files` are the published `.tqcache` files, `tmp` the backends that have a
temporary file, `lock` the holder of the fcntl lock, `map` the mapping each backend
keeps, `proc` where each backend is (one `pc` value per step of the function) with
the metapage it read (`key`), the pages it loaded (`buf`) and the view it ended with.
`index` are the pages, `durable` the pages WAL recovery would restore: a crash sets
`index` back to `durable` and leaves `files` as they are.

The graph is used here the way `GraphIndex` establishes it: nodes are appended, dead
flags are set by VACUUM under SCAN_LOCK, the generation moves with every insert and
at the end of a VACUUM that changed something. So an insert is one step, and reading
pages without a shared file (the fallback) gives the current pages. Neighbour lists
are not in the views. `index.reaped` (what the heap has reclaimed) and `index.dirty`
(marks for which no generation was written yet) are history the code does not keep;
no step of the code's part reads them. A cancelled VACUUM is in `GraphIndex` only.
That the name of a file is a hash of its key is not used: the header is compared
field by field. Opening or mapping a complete file is taken to succeed.

`Crash` restores states in which every published file is covered by flushed WAL and
flushed marks have their generation; `CrashInVacuum` and `CrashAhead` are the crashes
in which one of the two fails, each in a specification of its own (Known deviations).

### GraphSearch

The scan of `quant.c` from `CollectResults` to the rows handed out: candidate target
and its clamps, level descent, entry points (metapage entry, routing entries, samples,
payload seeds), base-layer search one expansion per step, fill of an underfilled band,
widening and retry, early stop, exact and quantized rescoring, and the exact scan of a
selective payload filter. `gens`/`gen` are the visited marks and the visit counter that
outlive the scan; cancellation may strike between expansions, VACUUM marks nodes
between scans. Nodes lie on a line, so distances are exact integers; a quantized
distance is one rounding of them. EXPLAIN counters are left out. Loops over a row list
(entries, fill, expansion, rescoring) are recursive functions over its positions.

`BeamSettled` says of each neighbour of a kept node that it is kept too, or that the band
is full of better ones, by the distance the search was offered it with: an entry point
has the one it was *chosen* by (an exact one, or none for the first slot), not the score
of its code. `scan.points` keeps the entry points for that.
`ShortOnlyWhenExhausted` excepts one pass. The one that adaptive widening adds replaces
the filled band of the first and is filled for its selectivity only, not for its target
(`quant.c:10746`-`10782` against `:9843`), so an unfiltered scan for the whole index of
a disconnected graph may come out shorter than its first pass was.

### BuildGraph, IndexBuild, ParallelBuild

`BuildGraph` has the algorithm as operators: selection and pruning of neighbours,
greedy and best-first search over the nodes inserted so far, one insertion, the batched
variant, backbone, routing entries, entry sidecar. `IndexBuild` says what a build is for
others: it fails and leaves nothing, or writes in one step an index of exactly the rows
of one scan, whose graph the sequential algorithm builds. `ParallelBuild` is the code:
`pc`, `slot` and `cur` of every participant, `sh` the shared memory of the phase
(capacity, claims under the spinlock, lists, the barrier with its arrivals), the phases
fit, encode, edges, finish, the fallback to serial code, workers that do not start or
die, rows that commit during CREATE INDEX CONCURRENTLY. `BuildsOneScan` is the
refinement, by `INSTANCE IndexBuild` over the four variables both have. `NoDataRace`
compares what the next steps of two participants read and write without a lock. The
leader links and publishes node by node, so the nodes in the graph are always a prefix
of the insertion order.

`Fairness`: leader, barrier and each participant take a step if they can for ever, which
scheduler, condition variables and CHECK_FOR_INTERRUPTS in every sleep give; commits
and failures need never happen. It is written with explicit enabling conditions in
place of ENABLED, which is expensive to evaluate here.

### Bm25Build, Bm25Store, Bm25Query

`Bm25Build` follows CREATE INDEX: each lexeme collected is a step, arrays grow by
doubling against the budget, runs are spilled and merged by a heap of cursors, and a
term's postings are cut into chunks in one of the encodings (16-bit offsets in two
layouts, 16-bit deltas, varints). `Decode` is the reader; `PagesReadBack` compares what
it returns with the table.

`Bm25Store` has two backends with delta cursor and reader cache, an append (read metadata,
delta tuple, one term segment per bucket, publish), VACUUM with compaction (base, delta,
write, publish, in the code's order and without heavyweight lock) and queries. `page` is the
relation file, which only grows: a page knows its kind and the first page of its chain, and
a chain is the pages of one first page in the order they were added. Every reader and writer
has its own copy of the metadata. `ghost` records as history which documents an overlap of
append and compaction has lost or stored twice; the properties allow exactly these.

`Bm25Query` has one query per behaviour over a fixed corpus: compilation to positive terms and
a match mask, the choice of strategy, every scoring loop one iteration at a time, the
dense and the hash accumulator, stored impact heads, block maxima, the fused bound of a
hybrid scan. A posting's score is a positive integer.

### HybridFusion, AccessMethod

`HybridFusion` has the three merges (generation-stamped array, open addressing, sort)
separately, and `ReferenceFusion`, the definition of a fusion they are compared with.
`AccessMethod` has the hooks: `hooks.current`/`stack` the planned statements,
`frames`/`wrappers` the graph wrapper frames, `run` the nested ExecutorRun calls, `subs` the
subtransactions, `active` the tuple target of the executing scan. An error unwinds to the
innermost exception block or to the top: each ExecutorRun call on the way puts back its
tuple target and drops the newest wrapper frame (`RestorePrevious`), and the statements are
cleared (`RunsAbort`). Policy is the shipped one (latency profile, fixed budgets, diversity
off, safe hybrid bound).

### DocMap, MaxSim, MultiVectorScan

`DocMap`: `log` is the docmap chain tuple by tuple, `ins` the insert that appends to it
record by record after publishing its nodes, `scan` a load that walks it page by page
without a lock against the insert and applies all checks of
`PgturbohybridGraphLoadMultiVectorDocMapWithStats`, `cache` the sidecar of the backend
with its key. `hist` records torn and short stores. A traversal reaches every live node
and `topM` is 1; VACUUM is one step (`GraphIndex` has its interleavings).

`MaxSim` has the kernels in blocks and lanes, the adaptive bounded version with its norm
bound, weights and masks. `MultiVectorScan` has one step per pass of a token, per
accumulated hit, per reservoir and per reranked document; traversals may miss nodes,
statistics may be stale, rows invisible. Documents are numbered by the hash of heap
addresses, as with the default of `multivector_docmap` (off).

## Runs

| Run | Instance | Properties |
|---|---|---|
| `graph_safety` | 2 line pointers, 2 backends, 2 tuples per page, 3 nodes, 3 rows | `IndexSound`, `NoLostRow`, `ScanSound`, `ScanComplete`, `CacheFresh` |
| `graph_repair` | writers and cancelled VACUUM, 3 line pointers, 4 nodes, levels 0 and 1 | `ValidatorOk`, `RepairSound` |
| `graph_liveness` | 2 line pointers, 1 backend, 1 tuple per page, 3 nodes, 3 rows; `FairSpec` | `Progress` |
| `shared_safety` | 2 backends, 2 rows, generations up to 4; `FairSpec` | `ScanViewSound`, `ScanViewComplete`, `NothingReaped`, `FilesNeverReplaced`, `BuildsKeepTheirFile`, `AttachEnds` |
| `search` | 48 index views, 2 policies, 3 scans, visit counter modulo 3, 1 dead node | `BeamSettled`, `CollectsSound`, `ShortOnlyWhenExhausted` |
| `parallel_build` | up to 6 rows, 0 to 2 workers, 1 failure, batches of at most 2; fairness | `NoDataRace`, `IndexUsable`, `BuildsOneScan`, `BuildEnds` |
| `bm25_build` | small tables, 4 terms of 0, 1 and 3 bytes, budgets 14, 17, 19, 22 and 60 | `PagesReadBack`, `BoundsSound`, `WithinBudget` |
| `bm25_store` | 2 backends, 1 tuple per page, 3 nodes, 1 VACUUM, 2 queries, 1 delete, 1 fault | `StoreExact`, `BookkeepingAgrees`, `QueryExact` |
| `bm25_query` | 5 nodes, 4 terms, k 1 to 3, generations modulo 3 | `ResultsTrue`, `ExactTopK`, `FusedBoundSafe`, `WandLoopSound` |
| `access_method` | 5 queries, depth 2, 1 subtransaction, generation counter up to 2 | `ScanIsolated`, `LimitedScanNotCapped`, `HooksOwnOpenQueries` |
| `docmap` | 2 heap addresses, 3 rows, 6 option sets, 6 operations | `DocMapReadable`, `LoadFailsOnlyBehindInsert`, `ScoredByOwnVectors` |
| `multivector` | corpora of up to 5 documents of 4 shapes, 5 queries | `RerankTopExact`, `AdmissionSound`, `PerTokenBestAdmitted` |

Why the bounds suffice. Graph: two line pointers of which one can be reused (3 rows)
give every order of delete, VACUUM, reclaim and reinsert; 3 nodes at 2 per page give a
full and a partial page and an append while VACUUM is between them; `M = 1` makes every
neighbour list full, so that each insert prunes and each repair must replace; the repair
run has a dead node with a live neighbour on either side. Two backends let one insert
with a cache while the other's cache ages. Cache files: two rows and generations up to 4
give an insert, a VACUUM and a file of an earlier and of a later state, before and after
a crash; two backends are builder and waiter, or builder and VACUUM. Search: the band is
smaller than the graph, some views are disconnected, and three scans wrap the counter.
Build: warmup, a full and a partial batch, an owner for every destination, a row more
than the capacity; the serial builder with one segment (the proof of `IndexUsable` covers
every number). BM25: the budgets make the collector spill at each of its three
arrays, run in memory, or fail; chunks are cut, linked across pages and met by every
encoding; the delta has several pages, and an append or query fits between any two steps
of a compaction; a dense accumulator wraps. Access method: a nested query of another
LIMIT, an error in it caught or not, arrays above and below the hash threshold, a growing
graph. Document map: an insert, a failure or a REINDEX between any two pages of a load,
a reused address. Multivector: more tokens than a block, more coordinates than lanes,
more documents than may be admitted, ties. Backends are symmetric in `graph_safety`. The
proofs remove the bounds for the safety properties they cover.

`graph_repair`, `parallel_build`, the BM25 runs, `search`, `docmap` and `multivector`
switch the deadlock check off: their behaviours end when the work, or the bound on it, is
done.

Fairness. `GraphIndex!FairSpec`: a backend that runs takes its next step (weak fairness of
VACUUM's, the insert's and the scan's steps: loops over finite chains, no waiting under a
buffer lock), and PostgreSQL's heavyweight lock queue is first come first served, so who
waits for SCAN_LOCK gets it in the end (strong fairness of `VacuumLock` and `ScanLock`).
`SharedCache!FairSpec`: a backend inside `GetSharedMap` takes its next step; the only
loop polls for at most `SHARED_CACHE_WAIT_US` and is modelled by its last turn. Nothing
forces crashes, heap changes or new scans to happen.

## Known deviations

Behaviours in which the code does not do what one of its comments, tests or documents
says, or in which a property holds with an exception only. Each can be reproduced with
the definitions here.

- A failed insert leaves reciprocal edges to a node that does not exist; the deep
  validator reports them until the next insert (`quant_insert.c:1069`,
  `002_wal_restart.pl:160`). `ValidatorOk` under `Spec` on one backend.
- VACUUM cancelled after marking nodes never moves the generation, nor does the rerun;
  caches stay "current" and offer reused line pointers (`quant_vacuum.c:762`).
  `ScanSound` under `SpecVacuumFail`.
- A failure between an insert's appends shifts the chain against node ids; later rows
  fall off the last page scans load (`quant_insert.c:2022`). `NoLostRow` under `SpecTorn`.
- VACUUM writes back neighbour lists without an edge an insert added in between
  (`quant_vacuum.c:320`, comment at `:210`). `VacuumKeepsLiveEdges` under `SpecWrite`
  with four line pointers.
- The server dies between VACUUM's marks and its new generation: the cache file of
  before still matches and the rerun changes nothing (`quant_vacuum.c:757`).
  `NothingReaped` under `SpecCrashInVacuum`.
- A file is published before the WAL of its pages is flushed; after a crash its
  generation is used again for other nodes and the file matches them
  (`quant_scan_cache.c:5677`). `ScanViewSound` under `SpecCrashAhead`.
- A compaction that overlaps an append loses the document, or stores it in base and
  delta (`bm25_build.c:3091`, `:3661`). `ghost.lost` and `ghost.twice` in `Bm25Store`;
  `StoreExact` without them.
- WAND with several chunks per term adds the bounds of the current chunks, and a later
  chunk may score higher (`bm25_query.c:4583`); impact heads may list deleted nodes, and
  seeding may drop a tie (`:3314`). The conditions of `ExactTopK` name these cases.
- A phrase query matches documents that hold its words anywhere (`bm25_query.c:2346`,
  comment at `:2259`). `ResultsTrue` with `Cases <- PhraseCases`.
- Wrapper frames are popped in the order opposite to their push whichever query ends;
  cursors need not nest, and a frame may stay (`pgturbohybrid.c:189`, `:262`;
  `SECURITY_CODE_AUDIT_SIGNOFF.md:25`). `HooksOwnOpenQueries` with `OpenPortals = TRUE`.
- A scan that overlaps an insert finds the docmap incomplete and reports an invalid
  sidecar and REINDEX on a healthy index (`quant_scan_cache.c:1406`, `:2862`).
  `InvalidSaysInvalid` in `DocMap`.
- A multivector insert that fails half-way, or is stored without the vectors the flags
  promise, makes later loads fail until REINDEX; an index built over an empty table never
  gets a docmap. `hist` in `DocMap` records the first two.
- In a multivector scan, rows past the requested count are ordered by the upper bounds at
  which their scoring stopped, and the memory estimate leaves out the document hash.
  `RerankTopExact` is about the requested count; `AdmissionSound` about what is estimated.

## Proofs

Every theorem is checked by TLAPS from the definitions the runs check, for all values of
the constants that satisfy the named assumptions of the module (`ASSUME`: counts are
natural numbers, sizes are positive, maps have their types); no run's bound is used. Each
proof has the same form. An inductive invariant, defined in the component's module and
checked by TLC on the run's instance first; one lemma per action; the theorem
`...InvHolds`; and the properties as consequences of it.

| Module | Proved of which specification | Invariant |
|---|---|---|
| `GraphIndexProofs` | `Spec`: `IndexSound`, `NoLostRow`, `ScanSound`, `CacheFresh`; `SpecVacuumFail`: the first two and `ScanComplete`; `SpecWrite`: `ValidatorOk`, `RepairSound` | `Inv`, `LaxInv`, `CompleteInv`, `AdjInv` |
| `SharedCacheProofs` | `Spec`: `ScanViewSound`, `ScanViewComplete`, `NothingReaped`, `FilesNeverReplaced`, `BuildsKeepTheirFile` | `Inv`, `LockInv` |
| `GraphSearchProofs` | `Spec`: `BeamSettled`, `CollectsSound`, `ShortOnlyWhenExhausted` | `Inv` |
| `ParallelBuildProofs` | `Spec`: `NoDataRace`, `RecordAreaExact`, `RowsIndexedOnce`, `IndexUsable` | `Inv`, `GraphInv` |
| `Bm25BuildProofs` | `Spec`: `WithinBudget`; in any state: written postings read back | `CollectorInv` |
| `Bm25StoreProofs` | `Spec`: `StoreExact`, `BookkeepingAgrees`, `QueryExact` | `Inv` |
| `AccessMethodProofs` | `Spec`: `ScanTargetOwn`, `LimitReachesFusion`, `LimitedScanNotCapped`; without open portals `HooksOwnOpenQueries`, `ScanStatementOwn`, `ScanIsolated` | `Inv`, `ScansInv` |

**Graph.** `IndexSound` alone is not inductive: that VACUUM may let the heap reclaim a
line pointer depends on its having passed every tuple that names it. `VacInv` says so:
an unmarked tuple with a collected line pointer lies ahead of VACUUM's position and below
its count. It needs `ChainInv` (position i holds node i-1, one tuple beyond the count only
while an insert is between append and metapage update) to relate positions and ids, and
`InsInv` (the insert's copy of the count is still the count, because UPDATE_LOCK excludes
other inserts and VACUUM never changes it). `LiveInv` keeps a live tuple for every
committed row. `CacheInv` says that a cached node is the code tuple of that id and misses
a dead mark only if the generation has moved on or VACUUM still owes the bump; with
`ScanInv` (SCAN_LOCK keeps VACUUM out) it gives `ScanSound`. `LaxInv` is the same without
what needs the generation to move, and holds when VACUUM may be cancelled anywhere.

`CompleteInv` is about what a scan must *not* miss. A row of the snapshot keeps its line
pointer and an unmarked tuple below the count the scan reads (`SnapInv`), which takes that
a row has one line pointer (`UniqueInv`) and that a cache has a tuple for every node below
its count and no mark the pages lack (`FreshInv`). None of this needs the generation, so
`ScanComplete` survives a cancelled VACUUM, which `ScanSound` does not.

`AdjInv` bounds neighbour lists in all their copies: pages, the insert's buffers,
VACUUM's copy of the graph, caches. A list names nodes below the count, or the one node
an insert is linking, and no more than `M`; entries and seeds on the metapage and in the
insert's copy name nodes. VACUUM writes back lists of an earlier state while inserts run,
which is sound only because the count never goes down.

**Cache files.** Soundness of a view depends on what every file says compared with the
pages *and* with the pages a crash would bring back. `FileOk` is that relation: the same
rows, and a dead mark is missed only by a file of an older generation or while VACUUM owes
a new one (`DirtyInv` names the VACUUM that does). Files ahead of the flushed pages make
no claim about them, and `Crash` happens when there are none. `ScanOk` says that while a
scan runs no VACUUM does, so a file of its generation misses nothing; `VacuumOk` that
after the marks no collected row has a live node; `DurableInv` relates pages and flushed
pages. `AttachPreserves` covers all steps of `GetSharedMap` at once: they leave the pages
alone, and what they add to files or views comes from good files or from the pages.
`LockInv` ties lock, place in the function and temporary files.

**Search.** `BeamInv` is what best-first search is correct by. A marked node was offered:
it is in the band or the band is full of better ones (`Settled`); a node of the band that
is no longer in the frontier has all its neighbours marked; marks are those of this search
because no mark is newer than the counter when it begins (`VisitInv`, also after the
counter wraps or a search was cancelled). `DroppedForGood` is the step that a node once
outside a full band stays outside. The loops that choose the entries are recursive
functions: `StepByStep` in `OrderLemmas` gives that what is computed step by step exists,
`PlacesStay` that a property of the first value which each step keeps holds for all. For
`CollectsSound` and `ShortOnlyWhenExhausted` there is a lemma per phase of the row list
(base results, fill, expansion, residual, heap and exact rescoring, payload band), each
saying that the rows stay live matching nodes, each once, how many there are, and their
order; `StepCollects` composes them along the passes.

**Parallel build.** Between two barriers all participants are in the same stretch of code
(`WarmingUp`, `Planning`, `Linking`, `Applying`, `Publishing`, `Leaving`), a slot is
claimed once (`SlotsInv`), and the node a participant links is its own: hence no race.
For the scan, a claimed record is one participant's until it is written and what was
claimed has left the scan (`ClaimsInv`), and a row that is neither still to be scanned nor
written is in the hands of a participant that has not finished (`NothingLost`). `NodesInv`
carries it to the index through merge, overflow, serial fallback and the sort, which
`SortedRows` shows to list each row once.

`GraphInv` is about the graph that the stretches build. `IsBuildGraph` says what a set of
neighbour lists is: a list for every level of every node, of other nodes of that level,
each once and no more than a page holds; `IsEntryOf` that the entry is one of the highest
inserted nodes. Every operation of `BuildGraph` keeps it, each with a lemma of its own:
choosing and pruning (`SelectIsList`, `PruneIsList`), the two searches (`GreedyStays`,
`SearchFinds`: what they return is an inserted node, so an entry for the level below always
exists), linking (`BuildLinksKeeps`), links back (`BacklinksKeep`), publishing, and with them
the serial builder with its segments and runs of duplicates (`SerialEdgesBuilt`) and every
step of the parallel one. That a participant replaces the lists of one node only
(`ReplaceNode`) is why nobody's work is lost. `LeaveInv` says that whoever has left the edge
phase has left with every node inserted, so the leader takes over a complete graph. On that
graph `WrittenIsUsable` follows the code after the edges: `BackboneConnects` (a full list
always has a neighbour that is not of the backbone, because lists have at least two places
on level 0, so the backbone never overwrites itself), `RoutingIsHighest`, and `SidecarIsFull`
for each strategy but "hash", whose buckets may be empty. All loops are recursive functions
over their rounds, each round an operator; a property that each round keeps holds for the
value of the loop (`StagesExist`, `PlacesStay` in `OrderLemmas`). The assumptions on the
constants are that levels and hash keys are natural numbers and positions integers.

**BM25 build.** `CollectorInv`: while the heap is scanned no array holds more than was
allocated, an empty term array has an empty arena, and terms are held only within the
budget. The growth of one array may spill the very run an append is half-way through;
`TermsHaveRoom` and `BytesHaveRoom` show that the place of the term and its bytes survive
it. `GrowCapacityFits` proves that doubling reaches what is needed.

**BM25 store.** `MetaInv`, `InsChainInv` and `QueryOk` say of each copy of the metadata
where its pointers lead: to pages of their kind, to chains that hold every published
document of that copy, to term segments that hold every lexeme of these documents.
`MustKeep` are the documents a compaction may not lose; they are collected or still ahead
on its chain. A document reached twice from one copy is one of `ghost.twice` (`OnceOk`).
`CacheOk` and `QueryOk` give `QueryExact`: a reader cache with the key of the query's
metadata covers all documents the query must find. The frame lemmas say that the file only
grows and that a chain changes only by appends, so that a copy read earlier leads where it
did.

**Access method.** ExecutorRun calls nest even where the open queries do not: a call's
saved target belongs to the innermost scan below it (`TargetInv`), and exception blocks
lie in the call they were entered in (`BlocksInv`). Hence a scan always collects under its
own target. Statements and wrapper frames are stacks of open queries and are right only
when queries close in the order opposite to their opening: `NestingInv`, `FramesInv` and
`StatementsInv` assume `~OpenPortals`, the case without cursors; with cursors the code
deviates (see above).

**Fusion.** `MergeOf` is what a merge owes: one item for each document that survives
REQUIRE_BM25_MATCH, with its rank and score in every branch that returned it. Each merge is
proved by the invariant of its loop: `TouchedBy` (the entries stamped with the generation of
this scan are those of the nodes seen, and no other entry carries it, because
`NextGeneration` clears the array before the counter repeats), `TableOf` (no free slot lies
between where the probing of a key starts and its slot; the table has more slots than
candidates, so a probe ends) and `RunsOf` (the keys of the runs ascend, the last may grow).
Two merges can differ in the node of an item and in nothing else; `SameListing` shows that
neither scores nor order depend on it, since a branch gives a rank once (`KeysDiffer`).
`ScoreBefore` is a strict total order on the results, so sorting is determined. The heap
loops are proved by `Rising` and `Sinking` (in order but for one place, and the parent of
that place comes after its children), `SelectTopN` by `KeepsBest`. Together
(`CollectedIsReference`): a scan answers `ReferenceFusion` of its candidates, so that what
is left in the fusion array, and which merge was taken, cannot show. `ScansInv` carries that
along the steps of nested queries, with `Inv` for the LIMIT and the tuple target. The proofs
assume of the branches what the other modules are about (`RankingAssumption`: a branch
returns a document once, a node has one heap TID, BM25 scores are not negative) and of the
argument what `turbohybrid_query` checks (`Arguments`).

What the proofs changed. Some statements TLC had accepted on its instance turned out to be
false for other constants, and are now stated as the code has it, with instances that tell:
a VACUUM repairs nothing for a reference that the repair of an earlier pair has overwritten
(`InstallReciprocal`); `BeamSettled` for entry points that were not offered with the score
of their code; `ShortOnlyWhenExhausted` after adaptive widening; `WithinBudget` when the
documents alone exceed the budget. The last is a corner of the code: growing the document
array while terms are held spills them and does not look again (`bm25_build.c:708`), so that
such a build goes on, spilling each lexeme as a run of its own, until the next check without
terms fails it. The loops of `HybridFusion` are recursive functions over candidates, probes
and heap places, each round an operator, so that a loop has an invariant to prove; its
constants got the types the query constructor and the branches guarantee.

Only model-checked, and why:

- Liveness (`Progress`, `AttachEnds`, `BuildEnds`): fairness and ENABLED.
- `BuildsOneScan`: that the graph is the one of the sequential algorithm, whatever the
  schedule, needs that linking and linking back commute, an induction over lists of
  operations; `RowsIndexedOnce` and `IndexUsable` are the proved parts, about the rows and
  about what a search needs of the graph.
- `Bm25Build`: `PagesReadBack` and `BoundsSound`. Encoding, decoding, chunks and links are
  proved (`DecodeInvertsEncode`, `WrittenPostingsReadBack`); that the collected terms, sorted
  or merged from runs, are those of the table, the document statistics and the impact heads
  are checked by TLC.
- `Bm25Query`: `ResultsTrue`, `ExactTopK`, `FusedBoundSafe`, `WandLoopSound`. Its scoring
  loops are folds over postings; the bounds compare sums over all terms of a query.
- `DocMap`: `DocMapReadable`, `LoadFailsOnlyBehindInsert`, `ScoredByOwnVectors`. A load is
  a recursion over records and chunks whose end no constant bounds.
- `MultiVectorScan`: `RerankTopExact`, `AdmissionSound`, `PerTokenBestAdmitted`. Late
  interaction sums a maximum over tokens, again a fold.

## Not modelled

Within the parts above: payload columns of an insert and the neighbour selection of
document nodes; the proxy-vector reservoirs of document nodes and the candidate sources
that no setting selects; the adaptive budgets, which the shipped settings switch off;
query parsing and the cost estimate; the BM25 bitmap filter; the validator's page
envelopes.

SIMD kernels and quantization (floating point without control state), settings, JSON and
EXPLAIN output, and `pg_colbert_llama` (wrapper of an external library) are left out.

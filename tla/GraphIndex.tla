----------------------------- MODULE GraphIndex -----------------------------
(***************************************************************************)
(* The native graph of a turbohybrid index: code tuples, adjacency tuples  *)
(* and the metapage, changed by aminsert (under UPDATE_LOCK), by           *)
(* ambulkdelete (under SCAN_LOCK exclusive) and read by scans (under       *)
(* SCAN_LOCK shared) and by the per-backend native caches.                 *)
(*                                                                         *)
(* One step is what the code does under one buffer lock.  Inserts and      *)
(* VACUUM take different page locks, so their steps interleave.            *)
(* Distances are abstracted: where the code ranks by distance the model    *)
(* picks any outcome some ranking gives.  Levels above 0 repeat the level  *)
(* 0 protocol, so adjacency is kept for level 0 and levels only decide the *)
(* entry node.                                                             *)
(***************************************************************************)
EXTENDS Integers, Sequences, FiniteSets

CONSTANTS
    Tids,        \* heap line pointers
    Backends,    \* sessions that scan and insert
    PerPage,     \* codeTuplesPerPage
    M,           \* PgturbohybridGraphLevelM(m, 0): neighbours per tuple
    Level,       \* PgturbohybridGraphPickLevel, a function of the node id
    InitTids,    \* heap tuples present when CREATE INDEX built the graph
    MaxNodes,    \* bound: nodes ever appended
    MaxRows      \* bound: heap rows ever created

ASSUME PerPageAssumption == PerPage \in Nat \ {0}
ASSUME BoundsAssumption  == MaxNodes \in Nat /\ MaxRows \in Nat /\ M \in Nat
ASSUME LevelAssumption   == Level \in [0..(MaxNodes - 1) -> Nat]
ASSUME InitTidsAssumption ==
    /\ InitTids \in Seq(Tids)
    /\ Len(InitTids) <= MaxNodes /\ Len(InitTids) <= MaxRows
    /\ \A i, j \in 1..Len(InitTids) : InitTids[i] = InitTids[j] => i = j

VARIABLES
    heap,      \* the heap: what each line pointer holds (PostgreSQL's)
    nextRow,   \* identity of the next heap row
    code,      \* code tuples in chain order
    adj,       \* adjacency tuples in chain order
    meta,      \* the metapage
    ins,       \* the aminsert that holds UPDATE_LOCK
    vac,       \* the running VACUUM of the table
    scan,      \* the scan of each backend
    cache      \* pgturbohybridGraphCacheList of each backend

vars == <<heap, nextRow, code, adj, meta, ins, vac, scan, cache>>

Rows == 1..MaxRows
Nodes == 0..(MaxNodes - 1)
None == 0 - 1          \* UINT_MAX, an invalid node id
Unused == [st |-> "unused", row |-> 0]
Nothing == [k \in {} |-> {}]
NoCache == [gen |-> 0, count |-> 0, entry |-> None, nodes |-> Nothing, adj |-> Nothing]

(***************************************************************************)
(* Readers of the page chains.                                             *)
(***************************************************************************)

\* (Definitions introduced as "Mutated:" are the wrong versions that the runs
\* are shown to reject; no specification uses them.)

\* Mutated: the page count rounded down.
OnWholePage(i, n) == (i - 1) \div PerPage < n \div PerPage

\* PgturbohybridGraphLoadCodePage reads pages 0 .. codePageCount-1 only:
\* position i is on a page that starts before node n's share of the chain.
OnLoadedPage(i, n) == (i - 1) - ((i - 1) % PerPage) < n

\* The chain position of the tuple a loader of n nodes keeps for node k: a
\* later tuple of the same node overwrites an earlier one.
Holds(i, k, n) == code[i].node = k /\ OnLoadedPage(i, n)
LastOf(k, n) ==
    CHOOSE i \in 1..Len(code) :
        Holds(i, k, n) /\ \A j \in 1..Len(code) : Holds(j, k, n) => j <= i

\* storage->nodes[] after every code page of n nodes is loaded.
Loaded(n) == {k \in 0..(n - 1) : \E i \in 1..Len(code) : Holds(i, k, n)}
View(n) == [k \in Loaded(n) |-> code[LastOf(k, n)]]

\* Adjacency tuples of node k.  Uncached inserts and VACUUM use the first in
\* chain order (LoadAdjTuple, UpdateAdjTuple), caches the last one
\* (LoadAllAdjPages overwrites the slot).
AdjAt(k) == {i \in 1..Len(adj) : adj[i].node = k}
FirstAdj(k) == {i \in AdjAt(k) : \A j \in AdjAt(k) : i <= j}
LastAdj(k) == {i \in AdjAt(k) : \A j \in AdjAt(k) : j <= i}
LoadAdjTuple(k) == UNION {adj[i].nbrs : i \in FirstAdj(k)}
LoadAllAdjPages(n) == [k \in 0..(n - 1) |-> UNION {adj[i].nbrs : i \in LastAdj(k)}]
UpdateAdjTuple(at, nbrs) ==
    [i \in 1..Len(adj) |-> IF i \in at THEN [adj[i] EXCEPT !.nbrs = nbrs] ELSE adj[i]]

\* Nodes a traversal of n nodes can visit from the seeds through the
\* neighbour lists nbrs, dead nodes included.
Reachable(nbrs, seeds, n) ==
    LET step[d \in Nat] ==
          IF d = 0 THEN seeds \cap 0..(n - 1)
          ELSE step[d - 1] \cup (UNION {nbrs[k] : k \in step[d - 1]} \cap 0..(n - 1))
    IN step[n]

(***************************************************************************)
(* CREATE INDEX over InitTids, then an idle system.  Construction fills    *)
(* every neighbour list from the nodes there are, by some ranking.         *)
(***************************************************************************)

\* PgturbohybridGraphVacuumBestLiveNode: the first node of the highest level.
IsBestLiveNode(k, dead, n) ==
    /\ k \in 0..(n - 1) \ dead
    /\ \A j \in 0..(n - 1) \ dead : Level[j] < Level[k] \/ (Level[j] = Level[k] /\ k <= j)

NoMeta == [count |-> 0, entry |-> None, gen |-> 0, maxLevel |-> 0, seeds |-> {}]
InsIdle == [pc |-> "idle"]
VacIdle == [pc |-> "idle", tids |-> {}, n |-> 0, pos |-> 0, dead |-> {},
            k |-> 0, adj |-> Nothing, todo |-> {}, upd |-> {}, changed |-> FALSE]
ScanIdle == [pc |-> "idle", snap |-> {}, m |-> NoMeta, hits |-> {}]

Init ==
    LET n == Len(InitTids) IN
    /\ heap = [t \in Tids |->
                 IF \E i \in 1..n : InitTids[i] = t
                 THEN [st |-> "live", row |-> CHOOSE i \in 1..n : InitTids[i] = t]
                 ELSE Unused]
    /\ nextRow = n + 1
    /\ code = [i \in 1..n |-> [node |-> i - 1, tid |-> InitTids[i],
                               row |-> i, dead |-> FALSE]]
    /\ \E g \in [0..(n - 1) -> SUBSET (0..(n - 1))] :
         /\ \A k \in 0..(n - 1) :
              k \notin g[k] /\ Cardinality(g[k]) = IF n <= M THEN n - 1 ELSE M
         /\ adj = [i \in 1..n |-> [node |-> i - 1, nbrs |-> g[i - 1]]]
    /\ \E seeds \in SUBSET (0..(n - 1)), entry \in IF n = 0 THEN {None} ELSE 0..(n - 1) :
         /\ n = 0 \/ IsBestLiveNode(entry, {}, n)
         /\ meta = [count |-> n, entry |-> entry, gen |-> 1, seeds |-> seeds,
                    maxLevel |-> IF n = 0 THEN 0 ELSE Level[entry]]
    /\ ins = InsIdle
    /\ vac = VacIdle
    /\ scan = [b \in Backends |-> ScanIdle]
    /\ cache = [b \in Backends |-> NoCache]

(***************************************************************************)
(* The heap (external).  A row is created, deleted once no longer wanted,  *)
(* and its line pointer is reclaimed only by a VACUUM that has finished    *)
(* with the indexes.                                                       *)
(***************************************************************************)

\* heap_insert: the row is there, its transaction has not committed.
HeapInsert(t) ==
    /\ heap[t] = Unused /\ nextRow \in Rows
    /\ heap' = [heap EXCEPT ![t] = [st |-> "inserting", row |-> nextRow]]
    /\ nextRow' = nextRow + 1
    /\ UNCHANGED <<code, adj, meta, ins, vac, scan, cache>>

\* A row whose key is NULL: aminsert returns before it touches the index.
\* (Such rows are not deleted here: the index never hears of them.)
HeapInsertNull(t) ==
    /\ heap[t] = Unused /\ nextRow \in Rows
    /\ heap' = [heap EXCEPT ![t] = [st |-> "null", row |-> nextRow]]
    /\ nextRow' = nextRow + 1
    /\ UNCHANGED <<code, adj, meta, ins, vac, scan, cache>>

\* DELETE (or a late ROLLBACK) of a row whose index entries exist.
HeapDelete(t) ==
    /\ heap[t].st = "live"
    /\ heap' = [heap EXCEPT ![t].st = "dead"]
    /\ UNCHANGED <<nextRow, code, adj, meta, ins, vac, scan, cache>>

(***************************************************************************)
(* Per-backend native cache.                                               *)
(***************************************************************************)

\* Mutated: the generation is not compared.
CacheMatchesNoGeneration(c, m) == c.count = m.count /\ c.entry = m.entry

\* PgturbohybridGraphCacheMatches, on the fields that change after build.
CacheMatches(c, m) ==
    c.gen = m.gen /\ c.count = m.count /\ c.entry = m.entry

\* PgturbohybridGraphBuildCache.
BuildCache(m) ==
    [gen |-> m.gen, count |-> m.count, entry |-> m.entry,
     nodes |-> View(m.count), adj |-> LoadAllAdjPages(m.count)]

\* PgturbohybridGraphFindCache drops what does not match and a miss builds.
FindOrBuild(b, m) == IF CacheMatches(cache[b], m) THEN cache[b] ELSE BuildCache(m)

\* PgturbohybridGraphAppendInsertCacheNode: the node is appended, the
\* generation of the cache is left alone.
AppendInsertCacheNode(c, new, tuple, nbrs, entry) ==
    IF c.count # new THEN c
    ELSE [c EXCEPT !.count = new + 1, !.entry = entry,
                   !.nodes = [k \in DOMAIN @ \cup {new} |-> IF k = new THEN tuple ELSE @[k]],
                   !.adj = [k \in DOMAIN @ \cup {new} |-> IF k = new THEN nbrs ELSE @[k]]]

(***************************************************************************)
(* aminsert: PgturbohybridGraphInsertValueInPlaceInternal.                 *)
(***************************************************************************)

\* LockPage(UPDATE_LOCK), ReadMeta and, with a non-empty graph,
\* InitInsertStorage: the backend's cache or, under other policies and for
\* multivector indexes, storage that reads the pages.  Everything below works
\* from this copy of the metapage.
InsertBegin(b, t) ==
    /\ ins.pc = "idle" /\ heap[t].st = "inserting"
    /\ scan[b].pc # "locked"
    /\ meta.count < MaxNodes
    /\ \E cached \in IF meta.count > 0 THEN BOOLEAN ELSE {FALSE} :
         /\ ins' = [pc |-> "select", by |-> b, tid |-> t, m |-> meta, cached |-> cached,
                    sel |-> {}, todo |-> {}, src |-> None, buf |-> {}]
         /\ cache' = [cache EXCEPT ![b] = IF cached THEN FindOrBuild(b, meta) ELSE @]
    /\ UNCHANGED <<heap, nextRow, code, adj, meta, vac, scan>>

\* A backend runs one thing at a time.
Inserting(b) == ins.pc # "idle" /\ ins.by = b

\* What the insert sees of nodes and neighbour lists.
InsNodes == IF ins.cached THEN cache[ins.by].nodes ELSE View(ins.m.count)
InsAdj == IF ins.cached THEN cache[ins.by].adj
          ELSE [k \in 0..(ins.m.count - 1) |-> LoadAdjTuple(k)]
InsSlot(k) == IF ins.cached THEN LastAdj(k) ELSE FirstAdj(k)

\* Traverse and SelectInsertNeighbors: a diverse pass, then a fill pass, so
\* the level is filled up to M from the live candidates.
InsertSelect ==
    LET found == Reachable(InsAdj, {ins.m.entry} \cup ins.m.seeds, ins.m.count)
        candidates == {k \in found \cap DOMAIN InsNodes : ~InsNodes[k].dead}
    IN
    /\ ins.pc = "select"
    /\ \E sel \in SUBSET candidates :
         /\ Cardinality(sel) <= M
         /\ Cardinality(sel) = M \/ sel = candidates
         /\ ins' = [ins EXCEPT !.pc = "link", !.sel = sel, !.todo = sel]
    /\ UNCHANGED <<heap, nextRow, code, adj, meta, vac, scan, cache>>

\* Mutated: one neighbour too many before the list is pruned.
InsertLoadUnpruned(src) ==
    /\ ins.pc = "link" /\ src \in ins.todo
    /\ ins' = [ins EXCEPT !.pc = "write", !.src = src, !.buf = InsAdj[src] \cup {ins.m.count}]
    /\ UNCHANGED <<heap, nextRow, code, adj, meta, vac, scan, cache>>

\* UpdateReciprocalNeighbor up to the write: a dead source is skipped; the
\* new node joins the neighbours that were read and the list is pruned to M.
InsertLoad(src) ==
    LET new == ins.m.count
        nbrs == InsAdj[src] \cup {new}
        ranked == {k \in nbrs : k <= new}
        skip == InsNodes[src].dead \/ AdjAt(src) = {}
    IN
    /\ ins.pc = "link" /\ src \in ins.todo
    /\ \/ skip /\ ins' = [ins EXCEPT !.todo = @ \ {src}]
       \/ /\ ~skip
          /\ \E kept \in SUBSET nbrs :
               /\ IF Cardinality(nbrs) <= M THEN kept = nbrs
                  ELSE /\ kept \subseteq ranked
                       /\ Cardinality(kept) <= M
                       /\ Cardinality(kept) = M \/ kept = ranked
               /\ ins' = [ins EXCEPT !.pc = "write", !.src = src, !.buf = kept]
    /\ UNCHANGED <<heap, nextRow, code, adj, meta, vac, scan, cache>>

\* UpdateAdjTuple: the whole tuple is overwritten, and the list in the cache.
InsertWrite ==
    /\ ins.pc = "write"
    /\ adj' = UpdateAdjTuple(InsSlot(ins.src), ins.buf)
    /\ cache' = IF ins.cached THEN [cache EXCEPT ![ins.by].adj[ins.src] = ins.buf] ELSE cache
    /\ ins' = [ins EXCEPT !.pc = "link", !.todo = @ \ {ins.src}]
    /\ UNCHANGED <<heap, nextRow, code, meta, vac, scan>>

NewTuple == [node |-> ins.m.count, tid |-> ins.tid,
             row |-> heap[ins.tid].row, dead |-> FALSE]

\* AppendInsertedExact and AppendInsertedCode.
InsertAppendCode ==
    /\ ins.pc = "link" /\ ins.todo = {}
    /\ code' = Append(code, NewTuple)
    /\ ins' = [ins EXCEPT !.pc = "adj"]
    /\ UNCHANGED <<heap, nextRow, adj, meta, vac, scan, cache>>

\* AppendInsertedAdj.
InsertAppendAdj ==
    /\ ins.pc = "adj"
    /\ adj' = Append(adj, [node |-> ins.m.count, nbrs |-> ins.sel])
    /\ ins' = [ins EXCEPT !.pc = "meta"]
    /\ UNCHANGED <<heap, nextRow, code, meta, vac, scan, cache>>

\* Mutated: the count is not raised.
InsertedMetaStale == [ins.m EXCEPT !.gen = meta.gen + 1]

\* The metapage rewritten from the copy InsertBegin made; only the generation
\* is taken from the page itself.
InsertedMeta ==
    LET new == ins.m.count
        top == new = 0 \/ Level[new] > ins.m.maxLevel
    IN [count |-> new + 1, gen |-> meta.gen + 1, seeds |-> ins.m.seeds,
        entry |-> IF top THEN new ELSE ins.m.entry,
        maxLevel |-> IF Level[new] > ins.m.maxLevel THEN Level[new] ELSE ins.m.maxLevel]

\* UpdateMetaPageFromUpdate, AppendInsertCacheNode, UnlockPage, and the
\* commit that makes the row visible.
InsertUpdateMeta ==
    /\ ins.pc = "meta"
    /\ meta' = InsertedMeta
    /\ cache' = [cache EXCEPT ![ins.by] =
                   IF ins.cached
                   THEN AppendInsertCacheNode(@, ins.m.count, NewTuple, ins.sel,
                                              InsertedMeta.entry)
                   ELSE @]
    /\ heap' = [heap EXCEPT ![ins.tid].st = "live"]
    /\ ins' = InsIdle
    /\ UNCHANGED <<nextRow, code, adj, vac, scan>>


(***************************************************************************)
(* VACUUM: tqgraphbulkdelete, between the heap passes that collect and     *)
(* reclaim the dead line pointers.                                         *)
(***************************************************************************)

\* pcs in which SCAN_LOCK is held in exclusive mode.
VacLocked == {"page", "load", "repair", "write", "entries", "bump"}

\* The heap pass (external): line pointers dead to every snapshot.
VacuumCollect ==
    LET dead == {t \in Tids : /\ heap[t].st = "dead"
                              /\ \A b \in Backends : heap[t].row \notin scan[b].snap}
    IN
    /\ vac.pc = "idle" /\ dead # {}
    /\ vac' = [vac EXCEPT !.pc = "read", !.tids = dead]
    /\ UNCHANGED <<heap, nextRow, code, adj, meta, ins, scan, cache>>

\* ReadMeta happens before SCAN_LOCK is taken and is not repeated under it.
VacuumReadMeta ==
    /\ vac.pc = "read"
    /\ vac' = [vac EXCEPT !.pc = IF meta.count = 0 THEN "reap" ELSE "lock",
                          !.n = meta.count]
    /\ UNCHANGED <<heap, nextRow, code, adj, meta, ins, scan, cache>>

\* LockPage(SCAN_LOCK, ExclusiveLock).
VacuumLock ==
    /\ vac.pc = "lock"
    /\ \A b \in Backends : scan[b].pc # "locked"
    /\ vac' = [vac EXCEPT !.pc = "page"]
    /\ UNCHANGED <<heap, nextRow, code, adj, meta, ins, scan, cache>>

\* Mutated: the last tuple of the page is skipped.
VacOnPageShort == {i \in 1..Len(code) : /\ vac.pos < i /\ i < vac.pos + PerPage
                                        /\ code[i].node < vac.n}

\* Tuples of the page after position pos that the callback looks at.
VacOnPage == {i \in 1..Len(code) : /\ vac.pos < i /\ i <= vac.pos + PerPage
                                   /\ code[i].node < vac.n}
VacMarks == {i \in VacOnPage : ~code[i].dead /\ code[i].tid \in vac.tids}

\* One code page under its buffer lock: collect what is dead already, mark
\* what the callback names.
VacuumPage ==
    LET dead == vac.dead \cup {code[i].node : i \in VacMarks}
                         \cup {code[i].node : i \in {j \in VacOnPage : code[j].dead}}
        next == vac.pos + PerPage
        more == next < vac.n /\ next < Len(code)
    IN
    /\ vac.pc = "page"
    /\ code' = [i \in 1..Len(code) |->
                  IF i \in VacMarks THEN [code[i] EXCEPT !.dead = TRUE] ELSE code[i]]
    /\ vac' = [vac EXCEPT !.pos = next, !.dead = dead,
                          !.changed = @ \/ VacMarks # {},
                          !.pc = IF more THEN "page"
                                 ELSE IF dead # {} THEN "load" ELSE "bump"]
    /\ UNCHANGED <<heap, nextRow, adj, meta, ins, scan, cache>>

\* RepairAdjacencyForDeadNodes reads the adjacency of one node after another,
\* then looks for the live sources of every dead node.
VacuumLoadAdj ==
    LET read == [j \in 0..vac.k |-> IF j = vac.k THEN LoadAdjTuple(vac.k) ELSE vac.adj[j]]
        done == vac.k + 1 >= vac.n
    IN
    /\ vac.pc = "load"
    /\ vac' = [vac EXCEPT !.adj = read, !.k = @ + 1,
                          !.pc = IF done THEN "repair" ELSE "load",
                          !.todo = IF done
                                   THEN {p \in vac.dead \X (0..vac.k \ vac.dead) :
                                           p[1] \in read[p[2]]}
                                   ELSE {}]
    /\ UNCHANGED <<heap, nextRow, code, adj, meta, ins, scan, cache>>

VacLive(k) == k < vac.n /\ k \notin vac.dead

\* Both passes of the candidate search: the dead node's neighbours and theirs.
RepairCandidates(dead, source) ==
    LET seeds == vac.adj[dead]
        pool == seeds \cup UNION {vac.adj[k] : k \in {j \in seeds : j < vac.n}}
    IN {k \in pool : VacLive(k) /\ k # source}

\* VacuumReplaceableSlot: what a reciprocal edge may overwrite.
Replaceable(k) == {j \in vac.adj[k] : ~VacLive(j)}

\* Mutated: the reciprocal edge is not installed.
InstallOneWay(dead, source, repl) ==
    IF repl \in vac.adj[source] THEN {}
    ELSE {[vac.adj EXCEPT ![source] = (@ \ {dead}) \cup {repl}]}

\* VacuumInstallReciprocal: the adjacency maps it can produce.  An earlier
\* pair may have overwritten the source's reference to the dead node already.
InstallReciprocal(dead, source, repl) ==
    LET back == IF source \in vac.adj[repl] THEN {vac.adj[repl]}
                ELSE IF Replaceable(repl) # {}
                THEN {(vac.adj[repl] \ {j}) \cup {source} : j \in Replaceable(repl)}
                ELSE IF Cardinality(vac.adj[repl]) < M
                THEN {vac.adj[repl] \cup {source}}
                ELSE {}
    IN IF dead \notin vac.adj[source] \/ repl \in vac.adj[source] THEN {}
       ELSE {[vac.adj EXCEPT ![source] = (@ \ {dead}) \cup {repl}, ![repl] = s] : s \in back}

\* One (dead node, source) pair, in the order of the loops.  The candidates
\* are tried by distance; one shadowed by a live neighbour of the source is
\* rejected, so with no such neighbour the first installable one is taken.
VacuumRepair ==
    /\ vac.pc = "repair"
    /\ \/ vac.todo = {} /\ vac' = [vac EXCEPT !.pc = "write"]
       \/ \E p \in vac.todo :
            LET dead == p[1]
                source == p[2]
                found == UNION {InstallReciprocal(dead, source, c) :
                                  c \in RepairCandidates(dead, source)}
                shadowed == \E k \in vac.adj[source] : VacLive(k)
            IN
            /\ \A o \in vac.todo : dead < o[1] \/ (dead = o[1] /\ source <= o[2])
            /\ \/ \E new \in found :
                    vac' = [vac EXCEPT !.adj = new, !.todo = @ \ {p},
                              !.upd = @ \cup {k \in DOMAIN new : new[k] # vac.adj[k]}]
               \/ /\ found = {} \/ shadowed
                  /\ vac' = [vac EXCEPT !.todo = @ \ {p}]
    /\ UNCHANGED <<heap, nextRow, code, adj, meta, ins, scan, cache>>

\* VacuumUpdateAdjTuple, node after node: the whole tuple is overwritten with
\* what was repaired in memory.
VacuumWriteAdj ==
    /\ vac.pc = "write"
    /\ \/ vac.upd = {} /\ vac' = [vac EXCEPT !.pc = "entries"] /\ adj' = adj
       \/ \E k \in vac.upd :
            /\ \A o \in vac.upd : k <= o
            /\ adj' = UpdateAdjTuple(FirstAdj(k), vac.adj[k])
            /\ vac' = [vac EXCEPT !.upd = @ \ {k}, !.changed = TRUE]
    /\ UNCHANGED <<heap, nextRow, code, meta, ins, scan, cache>>

\* VacuumRepairEntries: the entry node and the routing and sidecar seeds of
\* the metapage as it is now, against the dead nodes of the earlier count.
RepairedEntries(best) ==
    [meta EXCEPT !.entry = IF VacLive(@) /\ @ # None THEN @ ELSE best,
                 !.seeds = {IF k \in vac.dead THEN best ELSE k : k \in @}]

VacuumRepairEntries ==
    /\ vac.pc = "entries"
    /\ \/ 0..(vac.n - 1) \subseteq vac.dead /\ meta' = meta
       \/ \E best \in Nodes : IsBestLiveNode(best, vac.dead, vac.n) /\ meta' = RepairedEntries(best)
    /\ vac' = [vac EXCEPT !.pc = "bump", !.changed = @ \/ meta' # meta]
    /\ UNCHANGED <<heap, nextRow, code, adj, ins, scan, cache>>

\* Mutated: the generation stays; SCAN_LOCK is not released.
VacuumNoBump ==
    /\ vac.pc = "bump"
    /\ vac' = [VacIdle EXCEPT !.pc = "reap", !.tids = vac.tids]
    /\ UNCHANGED <<heap, nextRow, code, adj, meta, ins, scan, cache>>
VacuumBumpLocked ==
    /\ vac.pc = "bump" /\ vac.changed
    /\ meta' = [meta EXCEPT !.gen = @ + 1]
    /\ vac' = [vac EXCEPT !.changed = FALSE]
    /\ UNCHANGED <<heap, nextRow, code, adj, ins, scan, cache>>

\* BumpMetaGeneration when anything changed, then UnlockPage(SCAN_LOCK).
VacuumBump ==
    /\ vac.pc = "bump"
    /\ meta' = IF vac.changed THEN [meta EXCEPT !.gen = @ + 1] ELSE meta
    /\ vac' = [VacIdle EXCEPT !.pc = "reap", !.tids = vac.tids]
    /\ UNCHANGED <<heap, nextRow, code, adj, ins, scan, cache>>

\* The second heap pass (external): the line pointers may be reused.
VacuumReap ==
    /\ vac.pc = "reap"
    /\ heap' = [t \in Tids |-> IF t \in vac.tids THEN Unused ELSE heap[t]]
    /\ vac' = VacIdle
    /\ UNCHANGED <<nextRow, code, adj, meta, ins, scan, cache>>

(***************************************************************************)
(* Scans.                                                                  *)
(***************************************************************************)

\* The snapshot the executor hands to the scan (gettuple accepts MVCC
\* snapshots only).
ScanSnapshot(b) ==
    /\ scan[b].pc = "idle" /\ ~Inserting(b)
    /\ scan' = [scan EXCEPT ![b] =
                  [ScanIdle EXCEPT !.pc = "snap",
                     !.snap = {heap[t].row : t \in {u \in Tids : heap[u].st \in {"live", "null"}}}]]
    /\ UNCHANGED <<heap, nextRow, code, adj, meta, ins, vac, cache>>

\* CollectResults: LockPage(SCAN_LOCK, ShareLock) and ReadMeta under it.
ScanLock(b) ==
    /\ scan[b].pc = "snap" /\ vac.pc \notin VacLocked /\ ~Inserting(b)
    /\ scan' = [scan EXCEPT ![b].pc = "locked", ![b].m = meta]
    /\ UNCHANGED <<heap, nextRow, code, adj, meta, ins, vac, cache>>

\* InitScanStorage finds or builds the cache; every live node it holds may be
\* returned.  SCAN_LOCK is released before the first tuple is.
ScanCollect(b) ==
    LET c == FindOrBuild(b, scan[b].m)
        live == {k \in DOMAIN c.nodes : ~c.nodes[k].dead}
    IN
    /\ scan[b].pc = "locked"
    /\ cache' = [cache EXCEPT ![b] = c]
    /\ scan' = [scan EXCEPT ![b].pc = "return", ![b].m = NoMeta,
                            ![b].hits = {[tid |-> c.nodes[k].tid, row |-> c.nodes[k].row] :
                                           k \in live}]
    /\ UNCHANGED <<heap, nextRow, code, adj, meta, ins, vac>>

\* gettuple has returned its results; the snapshot is gone.
ScanEnd(b) ==
    /\ scan[b].pc = "return"
    /\ scan' = [scan EXCEPT ![b] = ScanIdle]
    /\ UNCHANGED <<heap, nextRow, code, adj, meta, ins, vac, cache>>

(***************************************************************************)
(* Failures.                                                               *)
(***************************************************************************)

\* ereport(ERROR) in aminsert: PG_CATCH unlocks, the transaction aborts; what
\* was written to index pages stays.
InsertAbort ==
    /\ heap' = [heap EXCEPT ![ins.tid].st = "dead"]
    /\ ins' = InsIdle
    /\ UNCHANGED <<nextRow, code, adj, meta, vac, scan, cache>>

InsertFail == ins.pc \in {"select", "link", "write"} /\ InsertAbort

\* The same between the append of the code tuple and the metapage update.
InsertFailTorn == ins.pc \in {"adj", "meta"} /\ InsertAbort

\* CHECK_FOR_INTERRUPTS in bulkdelete: PG_CATCH unlocks and rethrows, the
\* generation is not bumped and the heap keeps its dead line pointers.
VacuumFail ==
    /\ vac.pc \in {"page", "load", "write"}
    /\ vac' = VacIdle
    /\ UNCHANGED <<heap, nextRow, code, adj, meta, ins, scan, cache>>

\* Crash and WAL recovery: pages stay as written, every backend is gone.
Restart ==
    /\ heap' = [t \in Tids |-> IF heap[t].st = "inserting"
                               THEN [heap[t] EXCEPT !.st = "dead"] ELSE heap[t]]
    /\ ins' = InsIdle
    /\ vac' = VacIdle
    /\ scan' = [b \in Backends |-> ScanIdle]
    /\ cache' = [b \in Backends |-> NoCache]
    /\ UNCHANGED <<nextRow, code, adj, meta>>

Crash == ins.pc \notin {"adj", "meta"} /\ Restart
CrashTorn == ins.pc \in {"adj", "meta"} /\ Restart

(***************************************************************************)
(* Specifications.                                                         *)
(***************************************************************************)

VacuumStep ==
    \/ VacuumReadMeta \/ VacuumLock \/ VacuumPage \/ VacuumLoadAdj \/ VacuumRepair
    \/ VacuumWriteAdj \/ VacuumRepairEntries \/ VacuumBump \/ VacuumReap

InsertStep ==
    \/ InsertSelect \/ (\E src \in Nodes : InsertLoad(src)) \/ InsertWrite
    \/ InsertAppendCode \/ InsertAppendAdj \/ InsertUpdateMeta

Write ==
    \/ \E t \in Tids : HeapInsert(t) \/ HeapInsertNull(t) \/ HeapDelete(t)
    \/ \E b \in Backends, t \in Tids : InsertBegin(b, t)
    \/ InsertStep
    \/ VacuumCollect
    \/ VacuumStep

Read == \E b \in Backends : ScanSnapshot(b) \/ ScanLock(b) \/ ScanCollect(b) \/ ScanEnd(b)

\* The system with the failures it recovers from.
Next == Write \/ Read \/ InsertFail \/ Crash

Spec == Init /\ [][Next]_vars

\* The writers alone, VACUUM being cancelled at any point and run again.
SpecWrite == Init /\ [][Write \/ VacuumFail]_vars

\* With VACUUM cancelled, and with a failure inside aminsert's appends.
SpecVacuumFail == Init /\ [][Next \/ VacuumFail]_vars
SpecTorn == Init /\ [][Next \/ InsertFailTorn \/ CrashTorn]_vars

\* Backends make progress; the heavyweight lock queue is FIFO, so nobody who
\* waits for SCAN_LOCK is overtaken forever.
Fairness ==
    /\ WF_vars(VacuumStep) /\ SF_vars(VacuumLock) /\ WF_vars(InsertStep)
    /\ \A b \in Backends : SF_vars(ScanLock(b)) /\ WF_vars(ScanCollect(b) \/ ScanEnd(b))
FairSpec == Spec /\ Fairness

(***************************************************************************)
(* Properties.                                                             *)
(***************************************************************************)

CodeTuple == [node : Nodes, tid : Tids, row : Rows, dead : BOOLEAN]
MetaType == [count : 0..MaxNodes, entry : Nodes \cup {None}, gen : Nat,
             maxLevel : Nat, seeds : SUBSET Nodes]
Partial(f, R) == DOMAIN f \subseteq Nodes /\ f \in [DOMAIN f -> R]

HeapType ==
    heap \in [Tids -> [st : {"unused", "inserting", "live", "dead", "null"}, row : 0..MaxRows]]
PageType ==
    /\ code \in Seq(CodeTuple)
    /\ adj \in Seq([node : Nodes, nbrs : SUBSET Nodes])
    /\ meta \in MetaType
InsType ==
    \/ ins = InsIdle
    \/ ins \in [pc : {"select", "link", "write", "adj", "meta"}, by : Backends,
                tid : Tids, m : MetaType, cached : BOOLEAN, sel : SUBSET Nodes,
                todo : SUBSET Nodes, src : Nodes \cup {None}, buf : SUBSET Nodes]
VacType ==
    /\ vac \in [pc : {"idle", "read", "lock", "reap"} \cup VacLocked,
                tids : SUBSET Tids, n : 0..MaxNodes, pos : Nat, dead : SUBSET Nodes,
                k : 0..MaxNodes, adj : {vac.adj},
                todo : SUBSET (Nodes \X Nodes), upd : SUBSET Nodes, changed : BOOLEAN]
    /\ Partial(vac.adj, SUBSET Nodes)
ScanType ==
    scan \in [Backends -> [pc : {"idle", "snap", "locked", "return"}, snap : SUBSET Rows,
                           m : MetaType, hits : SUBSET [tid : Tids, row : Rows]]]
IsCache(c) ==
    /\ c \in [gen : Nat, count : 0..MaxNodes, entry : Nodes \cup {None},
              nodes : {c.nodes}, adj : {c.adj}]
    /\ Partial(c.nodes, CodeTuple)
    /\ Partial(c.adj, SUBSET Nodes)
CacheType == cache = [b \in Backends |-> cache[b]] /\ \A b \in Backends : IsCache(cache[b])

\* The type invariant: shapes of the heap, of the pages, of the caches and of
\* the local state of inserts, VACUUM and scans.
TypeOK ==
    /\ nextRow \in 1..(MaxRows + 1)
    /\ HeapType /\ PageType /\ InsType /\ VacType /\ ScanType /\ CacheType

\* A code tuple that is not marked dead names the heap row it was made for:
\* its line pointer has been neither reclaimed nor reused (tqgraphbulkdelete
\* marks before the heap reclaims, however inserts and crashes interleave).
IndexSound ==
    \A i \in 1..Len(code) : ~code[i].dead => heap[code[i].tid].row = code[i].row

\* A committed row has a live node among those a scan of the current metapage
\* loads (aminsert's writes, in its order, and VACUUM never lose it).
NoLostRow ==
    \A t \in Tids : heap[t].st = "live" =>
        \E k \in Loaded(meta.count) :
            LET c == View(meta.count)[k]
            IN ~c.dead /\ c.tid = t /\ c.row = heap[t].row

\* The rows a scan hands to the executor are judged by the snapshot alone
\* (xs_recheckorderby is off): a returned line pointer that the snapshot can
\* see holds the very row the node was made for.
ScanSound ==
    \A b \in Backends : \A h \in scan[b].hits :
        heap[h.tid].row \in scan[b].snap => heap[h.tid].row = h.row

\* Every row of the snapshot with a key is among the candidates of the scan,
\* whether they came from the pages or from a native cache that still matches.
ScanComplete ==
    \A b \in Backends, t \in Tids :
        (scan[b].pc = "return" /\ heap[t].st # "null" /\ heap[t].row \in scan[b].snap) =>
            \E h \in scan[b].hits : h.row = heap[t].row

\* A native cache that matches the metapage holds what the pages hold, except
\* while VACUUM keeps scans out and owes the metapage a new generation.
CacheFresh ==
    vac.changed \/ \A b \in Backends :
        CacheMatches(cache[b], meta) => cache[b].nodes = View(meta.count)

\* turbohybrid_validate_index, deep: the code chain.
ValidateCodeChain ==
    /\ \A i \in 1..Len(code) : code[i].node < meta.count
    /\ \A k \in 0..(meta.count - 1) :
         Cardinality({i \in 1..Len(code) : code[i].node = k}) = 1

\* turbohybrid_validate_index, deep: the adjacency chain and the metapage.
ValidateAdjChain ==
    \A i \in 1..Len(adj) : /\ adj[i].node < meta.count
                           /\ Cardinality(adj[i].nbrs) <= M
                           /\ adj[i].nbrs \subseteq 0..(meta.count - 1)
ValidateMeta ==
    /\ meta.count > 0 => meta.entry \in 0..(meta.count - 1)
    /\ meta.seeds \subseteq 0..(meta.count - 1)

\* Outside an insert every node id below the count has one code tuple and
\* there is no other: page arithmetic on node ids finds them, whatever
\* inserts failed early and whenever the server crashed.
CodeChainOk == ins.pc = "idle" => ValidateCodeChain

\* Outside an insert the deep validator reports no error, VACUUM running or
\* not ("validator passes after vacuum restart").
ValidatorOk == ins.pc = "idle" => ValidateCodeChain /\ ValidateAdjChain /\ ValidateMeta

\* The in-memory repair replaces dead references only, and every edge it adds
\* has its reciprocal ("only when a reciprocal live edge can be installed").
RepairSound ==
    [][vac.pc = "repair" => \A k \in DOMAIN vac.adj :
         /\ {j \in vac.adj[k] : VacLive(j)} \subseteq vac'.adj[k]
         /\ \A j \in vac'.adj[k] \ vac.adj[k] : VacLive(j) /\ k \in vac'.adj[j]]_vars

\* VACUUM that has begun ends, whatever inserts and scans do meanwhile.
VacuumCompletes == vac.pc = "read" ~> vac.pc = "idle"

\* aminsert that has UPDATE_LOCK gives it back.
InsertCompletes == ins.pc = "select" ~> ins.pc = "idle"

\* A scan that has its snapshot gets SCAN_LOCK and its results, unless the
\* server goes down.
ScanCompletes ==
    \A b \in Backends : scan[b].pc = "snap" ~> scan[b].pc \in {"return", "idle"}

\* Nobody waits for ever: VACUUM, inserts and scans that have begun come to
\* their end, although VACUUM waits for scans, scans wait for VACUUM and new
\* scans keep coming.
Progress == VacuumCompletes /\ InsertCompletes /\ ScanCompletes

\* "Replace an incoming dead reference only when a reciprocal live edge can be
\* installed at the same level": a page write of VACUUM drops no reference to
\* a live node.
VacuumKeepsLiveEdges ==
    [][vac.pc = "write" /\ vac' # vac => \A i \in 1..Len(adj) :
         {code[j].node : j \in {l \in 1..Len(code) : ~code[l].dead}} \cap adj[i].nbrs
           \subseteq adj'[i].nbrs]_vars

(***************************************************************************)
(* The inductive invariant behind IndexSound, NoLostRow, CodeChainOk and   *)
(* ScanSound.                                                              *)
(***************************************************************************)

\* Line pointers in use hold a row that was created, the others none.
HeapInv ==
    \A t \in Tids : IF heap[t].st = "unused" THEN heap[t].row = 0
                    ELSE heap[t].row \in 1..(nextRow - 1)

\* Position i of the code chain holds node i-1; the chain is one longer than
\* the count between the append and the metapage update.
ChainInv ==
    /\ \A i \in 1..Len(code) : code[i].node = i - 1
    /\ Len(code) = meta.count + (IF ins.pc \in {"adj", "meta"} THEN 1 ELSE 0)

\* The insert that holds UPDATE_LOCK has a current count, a row of its own
\* and, when cached, a cache of exactly that count.
InsInv ==
    ins.pc # "idle" =>
        /\ ins.m.count = meta.count /\ meta.count < MaxNodes
        /\ heap[ins.tid].st = "inserting"
        /\ ins.todo \subseteq 0..(meta.count - 1) /\ ins.sel \subseteq 0..(meta.count - 1)
        /\ ins.pc = "write" => ins.src \in 0..(meta.count - 1)
        /\ ins.cached => cache[ins.by].count = meta.count
        /\ ins.pc \in {"adj", "meta"} =>
             code[Len(code)] = [node |-> meta.count, tid |-> ins.tid,
                                row |-> heap[ins.tid].row, dead |-> FALSE]

\* Line pointers VACUUM collected are dead; as long as a tuple that names one
\* is not marked, VACUUM has its page still ahead.
VacInv ==
    /\ \A t \in vac.tids : heap[t].st = "dead"
    /\ vac.n <= meta.count
    /\ vac.pc \in {"idle", "read", "lock"} => vac.pos = 0
    /\ vac.pc \in {"idle", "read", "lock", "page"} => vac.k = 0
    /\ vac.pc \in {"idle", "read", "lock", "reap"} => ~vac.changed
    /\ vac.pc = "idle" => vac.tids = {}
    /\ \A i \in 1..Len(code) : ~code[i].dead /\ code[i].tid \in vac.tids =>
         /\ vac.pc \in {"read", "lock", "page"}
         /\ vac.pc # "read" => i <= vac.n
         /\ vac.pc = "page" => vac.pos < i

\* VACUUM's working copy of the graph.
RepairInv ==
    /\ vac.dead \subseteq 0..(vac.n - 1)
    /\ vac.upd \subseteq 0..(vac.n - 1)
    /\ \A p \in vac.todo : p[1] \in vac.dead /\ p[2] \in 0..(vac.n - 1) \ vac.dead
    /\ DOMAIN vac.adj = 0..(vac.k - 1)
    /\ vac.pc = "load" => vac.k < vac.n
    /\ vac.pc \in {"repair", "write"} => vac.k = vac.n
    /\ vac.todo # {} => vac.pc = "repair"
    /\ vac.upd # {} => vac.pc \in {"repair", "write"}

\* Committed rows keep a live tuple below the count.
LiveInv ==
    \A t \in Tids : heap[t].st = "live" =>
        \E i \in 1..meta.count : code[i] = [node |-> i - 1, tid |-> t,
                                            row |-> heap[t].row, dead |-> FALSE]

\* A cached node is the code tuple of its id; it misses a dead mark only if
\* the generation has moved on or is about to.  The parameter lax says that a
\* VACUUM may have been cancelled after it marked tuples and before it bumped
\* the generation: then a cache is told of those marks by nobody.
Missed(b, k) == ~cache[b].nodes[k].dead /\ code[k + 1].dead
CacheOk(b, lax) ==
    /\ cache[b].gen <= meta.gen
    /\ cache[b].count <= meta.count
    /\ DOMAIN cache[b].adj = 0..(cache[b].count - 1)
    /\ \A k \in DOMAIN cache[b].nodes :
         /\ k < cache[b].count
         /\ cache[b].nodes[k].tid = code[k + 1].tid
         /\ cache[b].nodes[k].row = code[k + 1].row
         /\ Missed(b, k) => \/ lax
                            \/ cache[b].gen < meta.gen
                            \/ vac.pc \in VacLocked /\ vac.changed
CacheInv(lax) == \A b \in Backends : CacheOk(b, lax)

\* A scan under SCAN_LOCK: VACUUM is out, and the backend's own cache is
\* either fresh or visibly older than the metapage the scan read.
ScanInv(lax) ==
    \A b \in Backends :
        /\ scan[b].snap \subseteq 1..(nextRow - 1)
        /\ scan[b].m.gen <= meta.gen /\ scan[b].m.count <= meta.count
        /\ scan[b].pc = "locked" =>
             /\ vac.pc \notin VacLocked /\ ~Inserting(b)
             /\ \A k \in DOMAIN cache[b].nodes :
                  Missed(b, k) => lax \/ cache[b].gen < scan[b].m.gen
HitsInv(lax) == lax \/ ScanSound

\* The conjunctions: Inv is inductive for Spec, LaxInv for SpecVacuumFail.
InvWith(lax) ==
    /\ TypeOK /\ HeapInv /\ ChainInv /\ InsInv /\ VacInv /\ RepairInv
    /\ LiveInv /\ IndexSound /\ CacheInv(lax) /\ ScanInv(lax) /\ HitsInv(lax)
Inv == InvWith(FALSE)
LaxInv == InvWith(TRUE)

(***************************************************************************)
(* What ScanComplete and CacheFresh rest on besides; inductive together    *)
(* with InvWith(lax), cancelled VACUUM or not.                             *)
(***************************************************************************)

\* A cache holds a tuple for each node below its count and no dead mark the
\* pages do not have.
FreshInv ==
    \A b \in Backends :
        /\ DOMAIN cache[b].nodes = 0..(cache[b].count - 1)
        /\ \A k \in DOMAIN cache[b].nodes :
             cache[b].nodes[k].node = k /\ (cache[b].nodes[k].dead => code[k + 1].dead)

\* A row has one line pointer.
UniqueInv ==
    \A t, u \in Tids : heap[t].row = heap[u].row /\ heap[t].row # 0 => t = u

\* Until the scan has its results, VACUUM keeps off the rows of its snapshot
\* and each has an unmarked tuple below the count the scan reads or has read.
SnapRow(b, t) ==
    /\ heap[t].st \in {"live", "dead"} /\ t \notin vac.tids
    /\ \E i \in 1..(IF scan[b].pc = "locked" THEN scan[b].m.count ELSE meta.count) :
         code[i].tid = t /\ code[i].row = heap[t].row /\ ~code[i].dead
SnapInv ==
    \A b \in Backends, t \in Tids :
        (scan[b].pc \in {"snap", "locked"} /\ heap[t].st # "null"
           /\ heap[t].row \in scan[b].snap) => SnapRow(b, t)

CompleteInv == FreshInv /\ UniqueInv /\ SnapInv /\ ScanComplete

(***************************************************************************)
(* What ValidatorOk rests on besides; inductive together with LaxInv for   *)
(* SpecWrite.                                                              *)
(***************************************************************************)

\* Node ids a neighbour list may hold: those below the count and, while an
\* insert links it, the new one.
Linkable == 0..(IF ins.pc = "idle" THEN meta.count - 1 ELSE meta.count)
ListOk(nbrs) == nbrs \subseteq Linkable /\ Cardinality(nbrs) <= M

\* Adjacency tuples on the pages.
AdjPagesInv ==
    \A i \in 1..Len(adj) :
        /\ adj[i].node < meta.count \/ (ins.pc = "meta" /\ adj[i].node = meta.count)
        /\ ListOk(adj[i].nbrs)

\* Neighbour lists in memory: an insert's buffers, VACUUM's copy of the graph
\* and the caches, whose lists an insert prunes before it writes them.
AdjCopiesInv ==
    /\ ins.pc # "idle" => Cardinality(ins.sel) <= M
    /\ ins.pc = "write" => ListOk(ins.buf)
    /\ \A k \in DOMAIN vac.adj : ListOk(vac.adj[k])
    /\ \A b \in Backends : \A k \in DOMAIN cache[b].adj : cache[b].adj[k] \subseteq Linkable

\* Entry and seeds, on the metapage and in an insert's copy of it.
EntryOk(m) ==
    /\ m.count > 0 => m.entry \in 0..(m.count - 1)
    /\ m.seeds \subseteq 0..(m.count - 1)
EntryInv == EntryOk(meta) /\ (ins.pc # "idle" => EntryOk(ins.m))

AdjInv == AdjPagesInv /\ AdjCopiesInv /\ EntryInv

=============================================================================

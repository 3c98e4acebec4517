----------------------------- MODULE BuildGraph -----------------------------
(***************************************************************************)
(* The graph construction of CREATE INDEX as operators on values: choosing *)
(* and pruning neighbours, the greedy and the best-first search over the   *)
(* nodes inserted so far, inserting one node, the serial builder with its  *)
(* segments, the level-0 backbone, the routing entries and the entry       *)
(* sidecar.  Source: pgturbohybrid_quant.c and pgturbohybrid_quant_        *)
(* internal.h.                                                             *)
(*                                                                         *)
(* A node id is its place in `ns`, the sequence of the scanned rows,       *)
(* counted from 0.  Vectors are points of a line: only the order of their  *)
(* distances matters to the code.  A neighbour list is a sequence of items *)
(* [id, d], the two arrays neighbors and neighborDistances.  A building    *)
(* graph is [g, ins, entry]: the lists, the inserted nodes and the entry.  *)
(***************************************************************************)
EXTENDS Integers, Sequences, FiniteSets, Functions, SequencesExt

CONSTANTS M,                \* the index option m
          EfConstruction,   \* the index option ef_construction
          FastEdges,        \* buildFastEdges
          Segments,         \* the index option native_segments
          Backbone,         \* the index option graph_backbone
          Pos,              \* Pos[row]: the vector of a row
          Level,            \* Level[id]: PickLevel of a node id
          Key,              \* Key[id]: Mix64 of a node id
          MaxRouting,       \* PGTURBOHYBRID_GRAPH_MAX_ROUTING_ENTRIES
          Representatives,  \* the index option entry_sidecar_representatives
          Strategy,         \* the index option entry_sidecar_strategy
          Warmup,           \* PGTURBOHYBRID_GRAPH_PARALLEL_EDGE_WARMUP
          BatchPer,         \* PGTURBOHYBRID_GRAPH_PARALLEL_EDGE_BATCH_PER_PARTICIPANT
          BatchMax          \* PGTURBOHYBRID_GRAPH_PARALLEL_EDGE_BATCH_MAX

ASSUME BuildGraphAssumption ==
    /\ M \in Nat \ {0} /\ EfConstruction \in Nat /\ Segments \in Nat
    /\ {Warmup, BatchPer, BatchMax} \subseteq Nat \ {0}
    /\ MaxRouting \in Nat \ {0} /\ Representatives \in Nat
    /\ FastEdges \in BOOLEAN /\ Backbone \in BOOLEAN
    /\ Strategy \in {"hash", "farthest", "level", "hybrid"}

NoEntry == [id |-> -1, level |-> -1]
DblMax == 1000                       \* larger than every distance of the instance

\* The elements of a set in the order Before; no two of them tie.
Sorted(S, Before(_, _)) ==
    [i \in 1 .. Cardinality(S) |->
        CHOOSE x \in S : Cardinality({y \in S : Before(y, x)}) = i - 1]

Ids(ns) == 0 .. Len(ns) - 1
LevelM(l) == IF l = 0 THEN 2 * M ELSE M
HasLevel(ns, n, l) == n \in Ids(ns) /\ l \in 0 .. Level[n]
Dist(ns, a, b) == LET x == Pos[ns[a + 1]]
                      y == Pos[ns[b + 1]] IN IF x < y THEN y - x ELSE x - y
Item(ns, q, n) == [id |-> n, d |-> Dist(ns, q, n)]
FrontierLess(a, b) == a.d < b.d \/ (a.d = b.d /\ a.id < b.id)
ListIds(list) == {list[i].id : i \in DOMAIN list}
EmptyGraph(ns) == [n \in Ids(ns) |-> [l \in 0 .. Level[n] |-> <<>>]]

-----------------------------------------------------------------------------
(* Neighbour lists.                                                         *)

\* A candidate is taken when it is closer to src than to every one taken before
\* it (the fast builder takes all), or to fill the list up.
TakeDiverse(ns, l, sel, c) ==
    IF /\ Len(sel) < LevelM(l)
       /\ FastEdges \/ \A i \in DOMAIN sel : Dist(ns, c.id, sel[i].id) >= c.d
    THEN Append(sel, c) ELSE sel
TakeRest(l, sel, c) ==
    IF Len(sel) < LevelM(l) /\ c.id \notin ListIds(sel) THEN Append(sel, c) ELSE sel

\* Both loops go over the candidates from the closest to the farthest.
Diverse(ns, l, cs) ==
    LET sel[i \in 0 .. Len(cs)] == IF i = 0 THEN <<>> ELSE TakeDiverse(ns, l, sel[i - 1], cs[i])
    IN  sel[Len(cs)]
FillUp(l, first, cs) ==
    LET sel[i \in 0 .. Len(cs)] == IF i = 0 THEN first ELSE TakeRest(l, sel[i - 1], cs[i])
    IN  sel[Len(cs)]

SelectNeighbors(ns, src, C, l) ==
    LET cs == Sorted({c \in C : c.id # src}, FrontierLess)
    IN  FillUp(l, Diverse(ns, l, cs), cs)

PruneNeighbors(ns, src, list, l) ==
    IF Len(list) <= LevelM(l) THEN list
    ELSE SelectNeighbors(ns, src, {list[i] : i \in DOMAIN list}, l)

\* The first place of the largest distance in a list, among the places I.
WorstOf(list, I) ==
    CHOOSE i \in I : \A j \in I : list[j].d < list[i].d \/ (list[j].d = list[i].d /\ i <= j)

CanLink(ns, g, src, dst, l) ==
    /\ src # dst
    /\ HasLevel(ns, src, l) /\ HasLevel(ns, dst, l)
    /\ dst \notin ListIds(g[src][l])

AddNeighbor(ns, g, src, dst, l, d) ==
    IF ~CanLink(ns, g, src, dst, l) THEN g
    ELSE LET list  == g[src][l]
             worst == WorstOf(list, DOMAIN list)
             item  == [id |-> dst, d |-> d]
         IN  [g EXCEPT ![src][l] =
                IF Len(list) < LevelM(l) THEN Append(list, item)
                ELSE IF ~FastEdges THEN PruneNeighbors(ns, src, Append(list, item), l)
                ELSE IF d < list[worst].d THEN [list EXCEPT ![worst] = item]
                ELSE list]

AddNeighborIfRoom(ns, g, src, dst, l) ==
    IF CanLink(ns, g, src, dst, l) /\ Len(g[src][l]) < LevelM(l)
    THEN [g EXCEPT ![src][l] = Append(@, Item(ns, src, dst))] ELSE g

-----------------------------------------------------------------------------
(* Searching the nodes inserted so far, for the node q.                     *)

\* To the closest neighbour, the first of those that tie, if it is closer.
GreedyStep(ns, g, ins, q, l, c) ==
    LET list  == g[c.id][l]
        At(i) == Dist(ns, q, list[i].id)
        near  == {i \in DOMAIN list : list[i].id \in ins /\ HasLevel(ns, list[i].id, l)}
        first == CHOOSE i \in near : \A j \in near : At(i) < At(j) \/ (At(i) = At(j) /\ i <= j)
    IN  IF HasLevel(ns, c.id, l) /\ \E i \in near : At(i) < c.d
        THEN Item(ns, q, list[first].id) ELSE c

\* Walk to the closest neighbour while one is closer than the current node.
GreedySearch(ns, g, ins, q, start, l) ==
    LET walk[k \in 0 .. Len(ns)] ==
            IF k = 0 THEN Item(ns, q, start) ELSE GreedyStep(ns, g, ins, q, l, walk[k - 1])
    IN  walk[Len(ns)]

\* A bounded max-heap as a set: the ef closest items offered so far.
OfferNearest(near, ef, item) ==
    IF Cardinality(near) < ef THEN near \cup {item}
    ELSE LET top == CHOOSE x \in near : \A y \in near : y = x \/ FrontierLess(y, x)
         IN  IF FrontierLess(item, top) THEN (near \ {top}) \cup {item} ELSE near

\* A neighbour seen for the first time is offered; one that is kept is to be
\* expanded.
VisitNeighbor(ns, ins, q, l, ef, s, n) ==
    LET near == OfferNearest(s.near, ef, Item(ns, q, n))
    IN  IF n \notin ins \/ n \in s.seen \/ ~HasLevel(ns, n, l) THEN s
        ELSE [front |-> IF Item(ns, q, n) \in near THEN s.front \cup {Item(ns, q, n)}
                        ELSE s.front,
              near |-> near, seen |-> s.seen \cup {n}]
VisitNeighbors(ns, ins, q, l, ef, s, list) ==
    LET after[i \in 0 .. Len(list)] ==
            IF i = 0 THEN s ELSE VisitNeighbor(ns, ins, q, l, ef, after[i - 1], list[i].id)
    IN  after[Len(list)]

\* Expand the closest item of the front, unless all that are kept are closer.
ExpandClosest(ns, g, ins, q, l, ef, s) ==
    LET item == CHOOSE x \in s.front : \A y \in s.front : y = x \/ FrontierLess(x, y)
        rest == [s EXCEPT !.front = @ \ {item}]
    IN  IF s.front = {} THEN s
        ELSE IF Cardinality(s.near) >= ef
                /\ \A x \in s.near : FrontierLess(x, item) THEN [s EXCEPT !.front = {}]
        ELSE IF ~HasLevel(ns, item.id, l) THEN rest
        ELSE VisitNeighbors(ns, ins, q, l, ef, rest, g[item.id][l])

\* The ef closest inserted nodes the best-first search reaches from `start`.
SearchLayer(ns, g, ins, q, start, l, ef) ==
    LET search[k \in 0 .. Len(ns)] ==
            IF k = 0 THEN [front |-> {start}, near |-> {start}, seen |-> {start.id}]
            ELSE ExpandClosest(ns, g, ins, q, l, ef, search[k - 1])
    IN  search[Len(ns)].near

-----------------------------------------------------------------------------
(* Inserting one node.                                                      *)

MinOf(a, b) == IF a < b THEN a ELSE b
MaxOf(a, b) == IF a < b THEN b ELSE a
Ef == MaxOf(EfConstruction, LevelM(0))

\* Down through the levels from `from` to just above `to`.
Descend(ns, g, ins, n, from, to) ==
    LET at[i \in 0 .. MaxOf(0, from.level - to)] ==
            IF i = 0 THEN Item(ns, n, from.id)
            ELSE LET e == at[i - 1] IN
                 IF HasLevel(ns, e.id, from.level - i + 1)
                 THEN GreedySearch(ns, g, ins, n, e.id, from.level - i + 1) ELSE e
    IN  at[MaxOf(0, from.level - to)]

\* The list of n on level l, and the entry of the level below.
LinkLevel(ns, ins, n, l, s) ==
    LET near == SearchLayer(ns, s.g, ins, n, s.e, l, Ef)
    IN  IF ~HasLevel(ns, s.e.id, l) THEN s
        ELSE [g |-> [s.g EXCEPT ![n][l] = SelectNeighbors(ns, n, near, l)],
              e |-> CHOOSE x \in near : \A y \in near : y = x \/ FrontierLess(x, y)]
LinkLevels(ns, ins, n, top, first) ==
    LET s[i \in 0 .. top + 1] ==
            IF i = 0 THEN first ELSE LinkLevel(ns, ins, n, top - i + 1, s[i - 1])
    IN  s[top + 1]

\* The lists of node n itself: descend greedily above its level, then search
\* and choose on every level it shares with the entry.
BuildNodeLinks(ns, b, n) ==
    LET g0 == [b.g EXCEPT ![n] = [l \in 0 .. Level[n] |-> <<>>]]
    IN  IF b.entry = NoEntry THEN g0
        ELSE LinkLevels(ns, b.ins, n, MinOf(Level[n], b.entry.level),
                        [g |-> g0, e |-> Descend(ns, g0, b.ins, n, b.entry, Level[n])]).g

\* The link back to node n on level l, in the list of the node of `it`.
AddBacklink(ns, ins, n, shard, shards, l, g, it) ==
    IF it.id \notin ins \/ (shards > 1 /\ it.id % shards # shard) THEN g
    ELSE AddNeighbor(ns, g, it.id, n, l, it.d)
LevelBacklinks(ns, ins, n, shard, shards, l, g, list) ==
    LET h[i \in 0 .. Len(list)] ==
            IF i = 0 THEN g ELSE AddBacklink(ns, ins, n, shard, shards, l, h[i - 1], list[i])
    IN  h[Len(list)]

\* The links back to node n in the lists of the inserted nodes it links to, of
\* the shard `shard` of `shards` when there is more than one.
ApplyNodeBacklinks(ns, g, ins, n, shard, shards) ==
    LET h[i \in 0 .. Level[n] + 1] ==
            IF i = 0 THEN g
            ELSE LevelBacklinks(ns, ins, n, shard, shards, i - 1, h[i - 1], g[n][i - 1])
    IN  h[Level[n] + 1]

PublishNode(b, n) ==
    [b EXCEPT !.ins = @ \cup {n},
              !.entry = IF Level[n] > @.level THEN [id |-> n, level |-> Level[n]] ELSE @]

InsertNode(ns, b, n) ==
    LET linked == [b EXCEPT !.g = BuildNodeLinks(ns, b, n)]
    IN  PublishNode([linked EXCEPT !.g = ApplyNodeBacklinks(ns, @, b.ins, n, 0, 1)], n)

\* The insertion order: by the hash of the node id.
BuildOrder(S) == Sorted(S, LAMBDA a, b : Key[a] < Key[b] \/ (Key[a] = Key[b] /\ a < b))

-----------------------------------------------------------------------------
(* The serial builder.                                                      *)

AdjacentDuplicates(ns, lo, hi) ==
    Cardinality({i \in lo + 1 .. hi - 1 : Dist(ns, i - 1, i) = 0})

\* A node of a duplicate run links to its predecessor only.
LinkAdjacent(ns, b, n) ==
    [b EXCEPT !.g = AddNeighborIfRoom(ns, [@ EXCEPT ![n][0] = <<Item(ns, n, n - 1)>>],
                                      n - 1, n, 0)]

\* Insert node n after the others of its range, which starts at lo.
InsertInRange(ns, lo, runs, b, n) ==
    IF runs /\ n > lo /\ (n - 1) \in b.ins
    THEN PublishNode(LinkAdjacent(ns, b, n), n) ELSE InsertNode(ns, b, n)

\* The nodes lo .. hi - 1 as a graph of their own: in hash order, or in scan
\* order when more than half of them repeat their predecessor.
BuildEdgesRange(ns, g, lo, hi) ==
    LET runs  == AdjacentDuplicates(ns, lo, hi) > (hi - lo) \div 2
        order == IF runs THEN [i \in 1 .. hi - lo |-> lo + i - 1]
                 ELSE BuildOrder(lo .. hi - 1)
        b[i \in 0 .. hi - lo - 1] ==
            IF i = 0 THEN PublishNode([g |-> g, ins |-> {}, entry |-> NoEntry], order[1])
            ELSE InsertInRange(ns, lo, runs, b[i - 1], order[i + 1])
    IN  b[hi - lo - 1]

SegmentCount(ns) == MaxOf(1, MinOf(Segments, Len(ns)))
\* Segment k of the nodes: the remainder goes to the first segments.
SegmentStart(ns, k) ==
    LET c == SegmentCount(ns) IN k * (Len(ns) \div c) + MinOf(k, Len(ns) % c)

\* Segment k added to the edges e; the entry stays the one of the first segment
\* that reaches the highest level.
AddSegment(ns, e, k) ==
    LET b == BuildEdgesRange(ns, e.g, SegmentStart(ns, k), SegmentStart(ns, k + 1))
    IN  [g |-> b.g, segments |-> SegmentCount(ns),
         entry |-> IF SegmentCount(ns) <= 1 \/ b.entry.level > e.entry.level
                   THEN b.entry ELSE e.entry]

\* [g, entry, segments] of the serial builder.
BuildEdges(ns) ==
    LET none == [g |-> EmptyGraph(ns), segments |-> 1, entry |-> NoEntry]
        e[k \in 0 .. SegmentCount(ns)] ==
            IF k = 0 THEN none ELSE AddSegment(ns, e[k - 1], k - 1)
    IN  IF ns = <<>> THEN none ELSE e[SegmentCount(ns)]

-----------------------------------------------------------------------------
(* The batched builder.                                                     *)

BatchSize(workers) == MinOf(BatchMax, (workers + 1) * BatchPer)

\* The batched construction done by one process: the warm-up nodes one by one,
\* then batch after batch, each linked against the graph before the batch.
BatchedEdges(ns, workers) ==
    LET order == BuildOrder(Ids(ns))
        warm  == MinOf(Warmup, Len(ns))
        start == [g |-> EmptyGraph(ns), ins |-> {order[1]},
                  entry |-> [id |-> order[1], level |-> Level[order[1]]]]
        Insert(b, n) == InsertNode(ns, b, n)
        Links(b, batch) ==
            [b EXCEPT !.g = [n \in Ids(ns) |->
                IF n \in Range(batch) THEN BuildNodeLinks(ns, b, n)[n] ELSE b.g[n]]]
        Batch(b, k) ==
            LET lo    == warm + (k - 1) * BatchSize(workers)
                batch == SubSeq(order, lo + 1, MinOf(lo + BatchSize(workers), Len(ns)))
                Back(h, n) == ApplyNodeBacklinks(ns, h, b.ins, n, 0, 1)
                linked == Links(b, batch)
            IN  FoldLeft(PublishNode, [linked EXCEPT !.g = FoldLeft(Back, @, batch)], batch)
        done == FoldLeft(Batch, FoldLeft(Insert, start, SubSeq(order, 2, warm)),
                         [k \in 1 .. Len(ns) |-> k])
    IN  [g |-> done.g, entry |-> done.entry, segments |-> 1]

-----------------------------------------------------------------------------
(* After the edges.                                                         *)

IsBackbone(ns, src, n) == n \in Ids(ns) /\ (n = src - 1 \/ n = src + 1)

\* Put dst into the level-0 list of src, over the worst neighbour that is not
\* of the backbone when the list is full.
ForceNeighborOverBackbone(ns, g, src, dst) ==
    LET list == g[src][0]
        item == [id |-> dst, d |-> DblMax]
    IN  IF ~CanLink(ns, g, src, dst, 0) THEN g
        ELSE [g EXCEPT ![src][0] = IF Len(list) < LevelM(0) THEN Append(list, item)
                                   ELSE [list EXCEPT ![WorstOf(list, DOMAIN list)] = item]]
ForceNeighbor(ns, g, src, dst) ==
    LET list  == g[src][0]
        free  == {i \in DOMAIN list : ~IsBackbone(ns, src, list[i].id)}
        slot  == IF free = {} THEN 1 ELSE WorstOf(list, free)
        item  == [id |-> dst, d |-> DblMax]
    IN  IF ~CanLink(ns, g, src, dst, 0) THEN g
        ELSE [g EXCEPT ![src][0] = IF Len(list) < LevelM(0) THEN Append(list, item)
                                   ELSE [list EXCEPT ![slot] = item]]

ConnectNeighbors(ns, g, n) == ForceNeighbor(ns, ForceNeighbor(ns, g, n - 1, n), n, n - 1)
EnsureLevel0Backbone(ns, g) ==
    LET h[n \in 0 .. Len(ns) - 1] == IF n = 0 THEN g ELSE ConnectNeighbors(ns, h[n - 1], n)
    IN  IF ns = <<>> THEN g ELSE h[Len(ns) - 1]

\* A full table gives up its lowest entry, the one with the largest id.
RoutingLower(a, b) == Level[a] < Level[b] \/ (Level[a] = Level[b] /\ a > b)
OfferRoutingEntry(table, n) ==
    LET worst == CHOOSE a \in table : \A b \in table : a = b \/ RoutingLower(a, b)
    IN  IF Cardinality(table) < MaxRouting THEN table \cup {n}
        ELSE IF RoutingLower(worst, n) THEN (table \ {worst}) \cup {n} ELSE table

RoutingEntries(ns, entry) ==
    LET table[i \in 0 .. Len(ns)] ==
            IF i = 0 THEN {}
            ELSE IF i - 1 = entry.id \/ Level[i - 1] <= 0 THEN table[i - 1]
            ELSE OfferRoutingEntry(table[i - 1], i - 1)
    IN  IF entry.id \notin Ids(ns) THEN {} ELSE table[Len(ns)]

-----------------------------------------------------------------------------
(* The entry sidecar: the representatives a search may start from.          *)

SidecarAdd(s, n, target) ==
    IF Len(s) < target /\ \A i \in DOMAIN s : s[i] # n THEN Append(s, n) ELSE s

SidecarAddAll(s, nodes, target) ==
    LET t[i \in 0 .. Len(nodes)] ==
            IF i = 0 THEN s ELSE SidecarAdd(t[i - 1], nodes[i], target)
    IN  t[Len(nodes)]

\* The winner of every hash bucket: the highest level, if levels count, then
\* the smallest key.
BucketWinners(ns, target, byLevel) ==
    LET bucket(i) == {n \in Ids(ns) : Key[n] % target = i}
        Better(a, b) ==
            \/ byLevel /\ Level[a] > Level[b]
            \/ (byLevel => Level[a] = Level[b])
               /\ (Key[a] < Key[b] \/ (Key[a] = Key[b] /\ a < b))
    IN  {CHOOSE n \in bucket(i) : \A k \in bucket(i) : k = n \/ Better(n, k) :
            i \in {i \in 0 .. target - 1 : bucket(i) # {}}}

SidecarHash(ns, target) ==
    Sorted(BucketWinners(ns, target, FALSE), LAMBDA a, b : Key[a] % target < Key[b] % target)

\* Bucket winners of the highest levels first, then every node by level.
SidecarLevelCovering(ns, s, target) ==
    LET winners == Sorted(BucketWinners(ns, target, TRUE),
                          LAMBDA a, b : Level[a] > Level[b]
                             \/ (Level[a] = Level[b] /\ Key[a] % target < Key[b] % target))
        rest    == Sorted(Ids(ns), LAMBDA a, b : Level[a] > Level[b]
                                                   \/ (Level[a] = Level[b] /\ a < b))
    IN  SidecarAddAll(SidecarAddAll(s, winners, target), rest, target)

\* How far a node is from the closest representative so far.
Gap(ns, s, n) == LET ds == {Dist(ns, n, s[i]) : i \in DOMAIN s}
                 IN  CHOOSE d \in ds : \A e \in ds : d <= e
\* The node farthest from them is the next one.
AddFarthest(ns, s, target) ==
    LET left == {n \in Ids(ns) : \A i \in DOMAIN s : s[i] # n}
    IN  IF Len(s) >= target \/ left = {} THEN s
        ELSE Append(s, CHOOSE n \in left : \A o \in left :
                          Gap(ns, s, n) > Gap(ns, s, o) \/ (Gap(ns, s, n) = Gap(ns, s, o) /\ n <= o))

SidecarFarthest(ns, s, entry, target) ==
    LET t[k \in 0 .. target] ==
            IF k = 0 THEN IF s # <<>> THEN s ELSE SidecarAdd(s, entry.id, target)
            ELSE AddFarthest(ns, t[k - 1], target)
    IN  t[target]

EntrySidecar(ns, entry) ==
    LET target == MinOf(Representatives, Len(ns))
        quarter == MaxOf(1, target \div 4)
    IN  IF target = 0 THEN <<>>
        ELSE CASE Strategy = "hash"     -> SidecarHash(ns, target)
               [] Strategy = "farthest" -> SidecarFarthest(ns, <<>>, entry, target)
               [] Strategy = "level"    -> SidecarLevelCovering(ns, <<>>, target)
               [] Strategy = "hybrid"   ->
                     SidecarFarthest(ns, SidecarLevelCovering(ns, <<>>, quarter), entry, target)

\* What is written to the index, from the edges e = [g, entry, segments].
WriteIndex(ns, e) ==
    LET g == IF Backbone /\ e.segments <= 1 THEN EnsureLevel0Backbone(ns, e.g) ELSE e.g
    IN  [nodes    |-> ns,
         adj      |-> [n \in Ids(ns) |-> [l \in 0 .. Level[n] |->
                         [i \in DOMAIN g[n][l] |-> g[n][l][i].id]]],
         entry    |-> e.entry,
         segments |-> e.segments,
         routing  |-> RoutingEntries(ns, e.entry),
         sidecar  |-> EntrySidecar(ns, e.entry)]
=============================================================================

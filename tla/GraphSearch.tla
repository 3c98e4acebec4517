---------------------------- MODULE GraphSearch ----------------------------
(***************************************************************************)
(* The dense scan of the native graph: how a scan chooses its candidate    *)
(* target, descends the levels, collects entry points, searches the base   *)
(* layer one expansion at a time, fills an underfilled band, widens and    *)
(* retries, rescores, and hands rows out.  The visited marks of the base   *)
(* layer live in the backend's cache and outlive the scan: a generation    *)
(* counter of GenModulus values stands for the uint32 of the source.       *)
(* What the pages hold is GraphIndex's business; here the index is the     *)
(* view that the cache gives a scan.                                       *)
(***************************************************************************)
EXTENDS Integers, Sequences, FiniteSets, SequencesExt, FiniteSetsExt

CONSTANTS
  Indexes,           \* views of a built index, see IndexView
  Queries,           \* what a scan may be asked, see Query
  Policies,          \* values of the dense_* globals of pgturbohybrid_graph.c
  EfSearch,          \* graph_ef_search
  Oversampling,      \* graph_oversampling
  DefaultFinalK,     \* PGTURBOHYBRID_DEFAULT_FINAL_K
  MaxScanTuples,     \* pgturbohybrid_max_scan_tuples
  MaxEntryPoints,    \* PGTURBOHYBRID_GRAPH_MAX_ENTRY_POINTS
  EntrySampleCount,  \* PGTURBOHYBRID_GRAPH_ENTRY_SAMPLE_COUNT
  PayloadSeedCount,  \* pgturbohybrid_payload_entry_seed_count
  PayloadExactMax,   \* PGTURBOHYBRID_GRAPH_PAYLOAD_EXACT_MAX
  TightFillMult,     \* PGTURBOHYBRID_GRAPH_TIGHT_L2_FILL_MULT
  Unit,              \* how many model units make a distance of 1.0
  GenModulus,        \* 2^32 in the source
  MaxScans,          \* bound on the scans of a behaviour
  MaxDead            \* bound on the nodes VACUUM marks

\* A built index as a scan may read it: `code` and `exact` are the distances of
\* every node to the vectors that are asked for.  A list of neighbours, of
\* routing or of sidecar entries, and the entry of a segment, may name a node
\* that is not there.
IndexView(v) ==
  /\ {"n", "entry", "maxLevel", "level", "adj", "code", "exact", "residual", "routing",
      "sidecar", "segments"} \subseteq DOMAIN v
  /\ v.n \in Nat /\ v.maxLevel \in Nat /\ v.entry \in Int
  /\ v.routing \in Seq(Int) /\ v.sidecar \in Seq(Int)
  /\ v.segments \in Seq([start : Nat, count : Nat, entry : Int])
  /\ \A k \in 0..(v.n - 1) :
       /\ v.level[k] \in Nat /\ v.residual[k] \in Int
       /\ \A l \in 0..v.maxLevel : v.adj[l][k] \in Seq(Nat)
       /\ \A query \in Queries :
            v.code[query.vector][k] \in Int /\ v.exact[query.vector][k] \in Int

\* A selectivity of s means that one row in s is expected to match; the caller's
\* target is 0 when it has none.
Query(query) ==
  /\ query.limit \in Int /\ query.minTarget \in Nat /\ query.finalK \in Nat
  /\ query.selectivity \in Nat \ {0}

ASSUME SearchAssumption ==
  /\ {EfSearch, Oversampling, DefaultFinalK, MaxScanTuples, MaxEntryPoints, EntrySampleCount,
      PayloadSeedCount, TightFillMult, Unit} \subseteq Nat \ {0}
  /\ PayloadExactMax \in Nat
  /\ GenModulus \in Nat \ {0, 1}
  /\ \A v \in Indexes : IndexView(v)
  /\ \A query \in Queries : Query(query)

VARIABLES
  idx,    \* the index view the backend has cached
  dead,   \* the nodes VACUUM has marked
  gens,   \* storage->visitedGeneration
  gen,    \* *storage->visitGeneration
  scan,   \* the scan descriptor and the locals of CollectResults
  out,    \* the rows tqgraphgettuple has handed out
  scans   \* scans begun so far

vars == <<idx, dead, gens, gen, scan, out, scans>>

NoFilter == 0 - 1
NoLimit == 0 - 1
NoNode == 0 - 1      \* UINT_MAX: a segment of dead nodes has no entry
NoPayload == 0 - 2   \* the payload column of the row is NULL
Nodes == 0..(idx.n - 1)
q == scan.q
policy == scan.policy

\* The metadata a scan trusts: a list with an impossible entry is ignored as
\* a whole, and an index without segments is one segment.
ReadMeta(v) ==
  LET one == <<[start |-> 0, count |-> v.n, entry |-> v.entry]>>
      segments == IF v.segments = <<>> /\ v.n > 0 THEN one ELSE v.segments
      valid(g) == /\ g.count > 0 /\ g.start + g.count <= v.n
                  /\ g.entry = NoNode \/ g.entry \in g.start..(g.start + g.count - 1)
  IN [v EXCEPT !.routing = IF ToSet(v.routing) \subseteq 0..(v.n - 1) THEN @ ELSE <<>>,
               !.segments = IF \A g \in ToSet(segments) : valid(g) THEN segments ELSE <<>>]

(***************************************************************************)
(* Distances.  A node has a packed code and an exact vector; which one     *)
(* ranks it depends on the phase.                                          *)
(***************************************************************************)
HighDim == idx.dims >= 1024
LowBit == idx.bits < 4
HasExactVector == idx.cached /\ ~idx.exactFree

ScoreNode(k) == idx.code[q.vector][k]
ExactVectorDistance(k) == idx.exact[q.vector][k]

UseExactLowBitRouting == idx.l2 /\ LowBit /\ HighDim /\ HasExactVector
UseExactHighdimL2Entry == idx.l2 /\ idx.bits = 4 /\ HighDim /\ HasExactVector

EntryDistance(k) == IF UseExactLowBitRouting THEN ExactVectorDistance(k) ELSE ScoreNode(k)
SampleDistance(k) == IF UseExactHighdimL2Entry THEN ExactVectorDistance(k) ELSE ScoreNode(k)

Item(k, d) == [k |-> k, d |-> d]
Result(k, d, exact) == [k |-> k, d |-> d, exact |-> exact]

\* Distance first, then node id: the order of every heap and sort here.
Less(a, b) == a.d < b.d \/ (a.d = b.d /\ a.k < b.k)

Ranked(S) ==
  LET at[i \in 1..Cardinality(S)] ==
        CHOOSE x \in S : Cardinality({y \in S : Less(y, x)}) = i - 1
  IN at
Sorted(s) == Ranked(ToSet(s))
TakeFirst(s, n) == SubSeq(s, 1, Min({n, Len(s)}))

Best(S) == CHOOSE x \in S : \A y \in S : y = x \/ Less(x, y)
Worst(S) == CHOOSE x \in S : \A y \in S : y = x \/ Less(y, x)
\* What a heap of the best `cap` keeps of the items offered to it.
BestOf(S, cap) == {x \in S : Cardinality({y \in S : Less(y, x)}) < cap}

Live(k) == k \notin dead
NodeMatchesPayload(k) == q.filter = NoFilter \/ idx.payload[k] = q.filter
Wanted == {k \in Nodes : Live(k) /\ NodeMatchesPayload(k)}

\* The sorted references of one payload value, which only the cache keeps.
\* They were built when the cache was, from the nodes that were live.
PayloadRefs == IF idx.cached THEN {k \in Nodes : Live(k) /\ idx.payload[k] = q.filter} ELSE {}
AnyPayloadRefs == idx.cached /\ \E k \in Nodes : Live(k) /\ idx.payload[k] # NoPayload
PayloadRefRange == q.filter # NoFilter /\ PayloadRefs # {}
RefSeq == LET r == Ranked({Item(k, 0) : k \in PayloadRefs}) IN [i \in DOMAIN r |-> r[i].k]

(***************************************************************************)
(* Entry points.                                                           *)
(***************************************************************************)
EntryAlreadySelected(es, k) == \E i \in DOMAIN es : es[i].k = k

Unscored == 1000 * Unit   \* DBL_MAX

\* Too many level entries: the lowest level goes, among those the highest id.
OfferLevelEntry(es, k) ==
  LET lower(a, b) == idx.level[a.k] < idx.level[b.k]
                     \/ (idx.level[a.k] = idx.level[b.k] /\ a.k > b.k)
      worst == CHOOSE i \in DOMAIN es : \A j \in DOMAIN es : j = i \/ lower(es[i], es[j])
      new == Item(k, Unscored)
  IN IF EntryAlreadySelected(es, k) THEN es
     ELSE IF Len(es) < MaxEntryPoints THEN Append(es, new)
     ELSE IF lower(es[worst], new) THEN [es EXCEPT ![worst] = new] ELSE es

\* The level entries are scored from the second on.
ScoreLevelEntries(es) ==
  [i \in DOMAIN es |-> IF i = 1 THEN es[1] ELSE Item(es[i].k, ScoreNode(es[i].k))]

OfferDistanceEntry(es, e) ==
  LET worst == CHOOSE i \in DOMAIN es :
                 /\ \A j \in DOMAIN es : es[j].d <= es[i].d
                 /\ \A j \in 1..(i - 1) : es[j].d < es[i].d
  IN IF EntryAlreadySelected(es, e.k)
     THEN [i \in DOMAIN es |-> IF es[i].k = e.k /\ e.d < es[i].d THEN e ELSE es[i]]
     ELSE IF Len(es) < MaxEntryPoints THEN Append(es, e)
     ELSE IF e.d < es[worst].d THEN [es EXCEPT ![worst] = e] ELSE es

\* Entries offered in the order of a list, but those already in `es`.
OfferDistanceEntries(es, nodes, distance) ==
  LET offered(i) == nodes[i] \in Nodes /\ ~EntryAlreadySelected(es, nodes[i])
      after[i \in 0..Len(nodes)] ==
        IF i = 0 THEN es
        ELSE IF offered(i) THEN OfferDistanceEntry(after[i - 1], Item(nodes[i], distance[nodes[i]]))
        ELSE after[i - 1]
  IN after[Len(nodes)]

\* `count` indexes spread evenly over 0..(total - 1).
EvenlySpaced(count, total) ==
  [i \in 1..count |-> IF count = 1 THEN 0 ELSE ((i - 1) * (total - 1)) \div (count - 1)]

\* The neighbours on one level that are closer, by their place in the list.
Closer(cur, level) ==
  LET adj == idx.adj[level][cur.k]
      near == {i \in DOMAIN adj : adj[i] \in Nodes /\ idx.level[adj[i]] >= level}
  IN {Item(i, EntryDistance(adj[i])) : i \in {j \in near : EntryDistance(adj[j]) < cur.d}}

\* Hill climbing on one level: on to the first of the closest neighbours, as
\* long as one is closer.  Every move is to another node.
ScanGreedySearch(cur, level) ==
  LET after[i \in 0..idx.n] ==
        IF i = 0 THEN cur
        ELSE LET at == after[i - 1]
                 closer == Closer(at, level)
             IN IF closer = {} THEN at
                ELSE Item(idx.adj[level][at.k][Best(closer).k], Best(closer).d)
  IN after[idx.n]

EntryNode == IF idx.entry \in Nodes THEN idx.entry ELSE 0

\* From the top level down to level 1.
Descend ==
  LET after[i \in 0..idx.maxLevel] ==
        LET level == idx.maxLevel - i + 1
        IN IF i = 0 THEN Item(EntryNode, EntryDistance(EntryNode))
           ELSE IF idx.level[after[i - 1].k] >= level THEN ScanGreedySearch(after[i - 1], level)
           ELSE after[i - 1]
  IN after[idx.maxLevel]

\* The entries of the segments, then the routing entries, without the node the
\* descent ended at; a routing entry has to be live and above the base layer.
LevelEntries(entry) ==
  LET segments == Len(idx.segments)
      nodes == [i \in 1..(segments + Len(idx.routing)) |->
                  IF i <= segments THEN idx.segments[i].entry ELSE idx.routing[i - segments]]
      offered(i) == /\ nodes[i] \in Nodes \ {entry.k}
                    /\ i > segments => Live(nodes[i]) /\ idx.level[nodes[i]] > 0
      after[i \in 0..Len(nodes)] ==
        IF i = 0 THEN <<entry>>
        ELSE IF offered(i) THEN OfferLevelEntry(after[i - 1], nodes[i]) ELSE after[i - 1]
  IN ScoreLevelEntries(after[Len(nodes)])

\* Nodes spread over the index, the nearest first.
SampleEntries(es, ef) ==
  LET wanted == IF idx.l2 /\ HighDim /\ idx.bits = 4 THEN Max({MaxEntryPoints, ef \div 4}) ELSE ef
      count == Min({idx.n, Min({EntrySampleCount, Max({wanted, MaxEntryPoints})})})
      fresh == {k \in ToSet(EvenlySpaced(count, idx.n)) : ~EntryAlreadySelected(es, k)}
      sampled == Ranked({Item(k, SampleDistance(k)) : k \in fresh})
  IN IF idx.n > 1
     THEN OfferDistanceEntries(es, [i \in DOMAIN sampled |-> sampled[i].k],
                               [k \in Nodes |-> SampleDistance(k)])
     ELSE es

Scores == [k \in Nodes |-> ScoreNode(k)]

AddPayloadEntrySeeds(es) ==
  LET count == Min({PayloadSeedCount, Len(RefSeq)})
      spread == [i \in 1..count |-> RefSeq[EvenlySpaced(count, Len(RefSeq))[i] + 1]]
  IN IF PayloadRefRange THEN OfferDistanceEntries(es, spread, Scores) ELSE es

\* The entry points of the base layer, and whether the sidecar was of no use.
Entries(ef) ==
  LET seeded == AddPayloadEntrySeeds(SampleEntries(LevelEntries(Descend), ef))
      all == OfferDistanceEntries(seeded, idx.sidecar, Scores)
      sidecar == {k \in ToSet(idx.sidecar) : k \in Nodes /\ ~EntryAlreadySelected(seeded, k)}
  IN [points |-> all,
      sidecarUnused |-> sidecar # {} /\ \A k \in sidecar : ~EntryAlreadySelected(all, k)]

(***************************************************************************)
(* The base layer: a best-first search that keeps the ef nearest.          *)
(***************************************************************************)
NextVisitUncleared ==
  LET g == (gen + 1) % GenModulus IN [gen |-> IF g = 0 THEN 1 ELSE g, gens |-> gens]
\* The counter wraps to 0, the value of an unmarked node: every mark is cleared
\* and the search goes on with 1.
NextVisit ==
  LET g == (gen + 1) % GenModulus
  IN IF g = 0 THEN [gen |-> 1, gens |-> [k \in Nodes |-> 0]] ELSE [gen |-> g, gens |-> gens]

\* Storage without the backend's cache has a visited array of its own.
FreshVisit == [gen |-> 1, gens |-> [k \in Nodes |-> 0]]

SearchDone ==
  scan.frontier # {} =>
    /\ Cardinality(scan.nearest) >= scan.ef
    /\ Less(Worst(scan.nearest), Best(scan.frontier))

\* One expansion: mark and score the unvisited neighbours, and queue each that
\* is among the nearest when its turn in the list comes.
SearchBaseLayerStep ==
  LET item == Best(scan.frontier)
      adj == idx.adj[0][item.k]
      batch == {i \in DOMAIN adj : adj[i] \in Nodes /\ gens[adj[i]] # gen}
      offer(i) == Item(adj[i], ScoreNode(adj[i]))
      nearest(b) == BestOf(scan.nearest \cup {offer(i) : i \in b}, scan.ef)
      queued == {i \in batch : offer(i) \in nearest({j \in batch : j <= i})}
  IN /\ gens' = [k \in Nodes |-> IF \E i \in batch : adj[i] = k THEN gen ELSE gens[k]]
     /\ gen' = gen
     /\ scan' = [scan EXCEPT !.nearest = nearest(batch),
                             !.frontier = (@ \ {item}) \cup {offer(i) : i \in queued}]

\* What the base layer leaves: live, matching nodes among the nearest, the
\* best `target` of them.
BaseResults ==
  LET distance(i) == IF UseExactLowBitRouting THEN ExactVectorDistance(i.k) ELSE i.d
      found == {Result(i.k, distance(i), UseExactLowBitRouting) : i \in
                  {j \in scan.nearest : j.k \in Wanted}}
  IN TakeFirst(Ranked(found), scan.target)

(***************************************************************************)
(* Bands.                                                                  *)
(***************************************************************************)
Selective == q.selectivity > 1      \* estimated selectivity 1/q.selectivity
Unmapped == q.filter = NoFilter /\ Selective
HasFilter == q.filter # NoFilter \/ Selective

FillCandidateBandDead(rs) ==
  IF Len(rs) >= scan.target THEN rs
  ELSE TakeFirst(Ranked(ToSet(rs) \cup {Result(k, ScoreNode(k), FALSE) :
                   k \in {j \in Nodes : NodeMatchesPayload(j)} \ {rs[i].k : i \in DOMAIN rs}}),
                 scan.target)
FillCandidateBandRefsOnly(rs) ==
  IF Len(rs) >= scan.target \/ ~PayloadRefRange THEN rs
  ELSE TakeFirst(Ranked(ToSet(rs) \cup {Result(k, ScoreNode(k), FALSE) :
                   k \in {j \in PayloadRefs : Live(j)} \ {rs[i].k : i \in DOMAIN rs}}), scan.target)
\* The nodes not yet selected are scored one by one, through the payload
\* references when there are any.
FillCandidateBand(rs) ==
  LET chosen == {rs[i].k : i \in DOMAIN rs}
      pool == IF PayloadRefRange THEN PayloadRefs
              ELSE IF q.filter # NoFilter /\ AnyPayloadRefs THEN {}
              ELSE Nodes
      offered == {Result(k, ScoreNode(k), FALSE) : k \in {j \in pool \ chosen : j \in Wanted}}
  IN IF Len(rs) >= scan.target THEN rs
     ELSE TakeFirst(Ranked(ToSet(rs) \cup offered), scan.target)

\* A filter value with few references is answered from them alone.
PayloadExactBandApplies == PayloadRefRange /\ Cardinality(PayloadRefs) <= PayloadExactMax
CollectPayloadExactBand(target) ==
  LET distance(k) == IF HasExactVector THEN ExactVectorDistance(k) ELSE ScoreNode(k)
  IN TakeFirst(Ranked({Result(k, distance(k), HasExactVector) : k \in PayloadRefs \cap Wanted}),
               target)

(***************************************************************************)
(* Targets.                                                                *)
(***************************************************************************)
CandidateOversampling == IF q.filter # NoFilter /\ ~idx.l2 THEN Min({Oversampling, 2}) ELSE Oversampling

\* A scan takes its LIMIT from the executor or, for the hybrid path, the
\* number of candidates the caller wants.
AskedTarget ==
  LET limit == Max({1, q.limit})
      byLimit == IF q.limit = NoLimit
                 THEN IF q.minTarget > 0 THEN q.minTarget ELSE DefaultFinalK
                 ELSE Max({limit * CandidateOversampling, EfSearch,
                           IF Selective THEN limit * q.selectivity * CandidateOversampling ELSE 0})
  IN Max({byLimit, q.minTarget})

L2Target ==
  IF ~idx.l2 THEN 0
  ELSE IF ~HighDim THEN EfSearch * Oversampling
  ELSE IF LowBit THEN EfSearch * Oversampling * 2 ELSE EfSearch * 8

RequestedBaseTarget ==
  Max({1, IF q.minTarget > 0 THEN q.minTarget ELSE DefaultFinalK,
       IF q.limit = NoLimit THEN 1 ELSE Max({1, q.limit})})

\* dense_budget_policy = auto: only high dimensions without a filter.
LatencyBudget == HighDim /\ ~HasFilter
BudgetCap == Max({EfSearch, Min({(3 * RequestedBaseTarget + 1) \div 2, 4 * RequestedBaseTarget})})

ResultTarget ==
  LET widened == Max({AskedTarget, L2Target,
                      IF Unmapped THEN Min({idx.n, MaxScanTuples}) ELSE 0})
      capped == IF LatencyBudget THEN Min({widened, BudgetCap}) ELSE widened
  IN Min({Max({capped, 1}), idx.n})

CeilSqrtTimes(x, s) == CHOOSE y \in 0..(x * s) : y * y >= x * x * s /\ (y - 1) * (y - 1) < x * x * s

\* native_segment_budget = auto: linear for an exact build, else square root.
ScaleSearchEfForSegments(ef) ==
  LET s == Max({Len(idx.segments), 1})
      scaled == IF idx.exactBuild THEN ef * s ELSE CeilSqrtTimes(ef, s)
  IN IF s = 1 THEN ef ELSE Max({Min({scaled, idx.n}), ef})

SearchEf(target) == ScaleSearchEfForSegments(Min({Max({EfSearch, target}), idx.n}))

FinalTarget == IF q.finalK > 0 THEN q.finalK
               ELSE IF q.limit > 0 THEN q.limit ELSE Min({RequestedBaseTarget, DefaultFinalK})

(***************************************************************************)
(* Widening, expansion and retry.                                          *)
(***************************************************************************)
Ceil(x, num, den) == (x * num + den - 1) \div den
Top10(rs) == Min({Len(rs), 10})
Boundary(rs) == Min({Len(rs), Max({1, FinalTarget})})

\* NormalizedGap(a, b) <= num / den
GapAtMost(a, b, num, den) ==
  den * Max({b - a, 0}) <= num * Max({IF a < 0 THEN 0 - a ELSE a, IF b < 0 THEN 0 - b ELSE b, Unit})

AdaptiveEligible ==
  /\ idx.exactFree /\ idx.dims <= 256 /\ idx.bits <= 4 /\ FinalTarget \in 1..20
  /\ policy.profile = "balanced"

ShouldAdaptiveWiden(rs) ==
  /\ rs # <<>>
  /\ \/ policy.adaptive = "on"
     \/ /\ policy.adaptive = "auto" /\ AdaptiveEligible
        /\ \/ Len(rs) < scan.target
           \/ Len(rs) > 1 /\ GapAtMost(rs[1].d, rs[Top10(rs)].d, 1, 20)
           \/ /\ Boundary(rs) < Len(rs)
              /\ GapAtMost(rs[Boundary(rs)].d, rs[Boundary(rs) + 1].d, 1, 5)

AdaptiveTarget ==
  LET t == scan.target
      factor == IF policy.profile = "balanced" THEN 3 ELSE 4      \* halves
      most == IF policy.profile = "balanced" THEN 3 ELSE 8
  IN Max({t + 1, Min({Ceil(t, factor, 2), Max({Ceil(t, most, 2), t + 1}), MaxScanTuples, idx.n})})
AdaptiveEf == Min({Max({scan.ef + 1, AdaptiveTarget}), idx.n})

\* A tight L2 neighbourhood that came out short is searched again, wider.
TightTarget == Min({idx.n, Max({scan.target, EfSearch * Oversampling * TightFillMult})})
ShouldFillTight(rs) ==
  /\ ~LatencyBudget /\ idx.l2
  /\ rs # <<>> /\ Len(rs) < scan.target /\ rs[1].d < Unit
  /\ TightTarget > scan.target
TightEf == Min({Max({EfSearch, TightTarget}), idx.n})

LocalExpansionShouldTrigger(rs) ==
  /\ policy.expansion # "off" /\ rs # <<>>
  /\ \/ policy.expansion = "on"
     \/ Len(rs) < scan.target
     \/ Len(rs) > 1 /\ GapAtMost(rs[1].d, rs[Top10(rs)].d, 1, 20)
     \/ GapAtMost(rs[1].d, rs[Len(rs)].d, 1, 5)

\* The last result, not the worst, makes room in a full band.
OfferCandidateSorted(rs, k) ==
  LET new == Result(k, ScoreNode(k), FALSE)
  IN IF Len(rs) < scan.target THEN Append(rs, new)
     ELSE IF Less(new, rs[Len(rs)]) THEN [rs EXCEPT ![Len(rs)] = new] ELSE rs

\* The neighbours of the eight best, each once, in the order of the lists.
ApplyLocalExpansion(rs) ==
  LET chosen == {rs[i].k : i \in DOMAIN rs}
      seeds == TakeFirst(rs, 8)
      nodes == FlattenSeq([i \in DOMAIN seeds |-> idx.adj[0][seeds[i].k]])
      offered(i) == nodes[i] \in Wanted \ chosen /\ \A j \in 1..(i - 1) : nodes[j] # nodes[i]
      after[i \in 0..Len(nodes)] ==
        IF i = 0 THEN rs
        ELSE IF offered(i) THEN OfferCandidateSorted(after[i - 1], nodes[i]) ELSE after[i - 1]
  IN IF LocalExpansionShouldTrigger(rs) THEN Sorted(after[Len(nodes)]) ELSE rs

RetryCap == Max({Min({idx.n, MaxScanTuples}), 1})
RetryTarget == Min({Max({Min({Ceil(scan.target, 3, 2), RetryCap}), scan.target + 1}), RetryCap})
RetryEf == Min({Max({Ceil(scan.ef, 3, 2), RetryTarget}), RetryCap})

ShouldUncertaintyRetry(rs, reordered) ==
  /\ policy.retry # "off" /\ scan.pass # "retry"
  /\ \/ policy.retry = "on"
     \/ Len(rs) < scan.target
     \/ Len(rs) > 1 /\ GapAtMost(rs[1].d, rs[Top10(rs)].d, 3, 100)
     \/ /\ Boundary(rs) < Len(rs)
        /\ rs[Boundary(rs)].d < rs[Boundary(rs) + 1].d
        /\ GapAtMost(rs[Boundary(rs)].d, rs[Boundary(rs) + 1].d, 3, 25)
     \/ scan.sidecarUnused
     \/ reordered
  /\ RetryTarget > scan.target \/ RetryEf > scan.ef

(***************************************************************************)
(* Rescoring.                                                              *)
(***************************************************************************)
SortFirst(rs, n) == Sorted(SubSeq(rs, 1, n)) \o SubSeq(rs, n + 1, Len(rs))
KeysOf(rs) == [i \in DOMAIN rs |-> rs[i].k]
TopChanged(before, after) ==
  KeysOf(TakeFirst(before, FinalTarget)) # KeysOf(TakeFirst(after, FinalTarget))

\* residual[k] is the sign of the sketches' similarity; the adjustment is
\* clipped at 0.15 of the band's spread.
ResidualBand(rs) ==
  Min({Len(rs), Max({20, 2 * Max({1, IF q.limit = NoLimit THEN q.minTarget ELSE q.limit})})})
ApplyResidualRerank(rs) ==
  LET band == ResidualBand(rs)
      spread == rs[band].d - rs[1].d
      adjusted == [i \in DOMAIN rs |-> IF i > band THEN rs[i] ELSE
                     Result(rs[i].k, rs[i].d - idx.residual[rs[i].k] * ((3 * spread) \div 20), FALSE)]
  IN IF Len(rs) <= 1 \/ idx.l2 \/ ~idx.sketches THEN rs ELSE SortFirst(adjusted, band)

EffectiveHeapRescoreMode ==
  IF idx.exactFree /\ policy.profile = "balanced" /\ (idx.dims <= 256 \/ idx.bits <= 2)
  THEN "topk" ELSE "off"
HeapRescoreLimit(rs) ==
  Min({Len(rs), IF q.finalK > 0 THEN q.finalK
                ELSE IF q.limit # NoLimit THEN Max({1, q.limit}) ELSE DefaultFinalK})
\* Rows the snapshot does not see keep their code distance.
HeapRescore(rs) ==
  LET limit == HeapRescoreLimit(rs)
      seen(i) == i <= limit /\ ~rs[i].exact /\ rs[i].k \notin idx.hidden
  IN IF EffectiveHeapRescoreMode = "off" THEN rs
     ELSE SortFirst([i \in DOMAIN rs |-> IF seen(i) THEN Result(rs[i].k, ExactVectorDistance(rs[i].k), TRUE)
                                          ELSE rs[i]], limit)

\* dense_rescore_band_policy = auto: everything, except a scan that only its
\* dimension widened.
FinalRescoreCount(rs) ==
  IF scan.widening # "dimension" THEN Len(rs)
  ELSE Min({Len(rs), Max({4 * Max({1, IF q.limit = NoLimit THEN q.minTarget ELSE q.limit}),
                          2 * Max({1, q.minTarget})})})
ExactRescore(rs) ==
  LET n == FinalRescoreCount(rs)
      exact == [i \in 1..n |-> Result(rs[i].k, ExactVectorDistance(rs[i].k), TRUE)]
  IN Sorted(exact)

(***************************************************************************)
(* The scan.                                                               *)
(***************************************************************************)
Idle(p) == [pc |-> "idle", policy |-> p]

Init ==
  /\ \E view \in Indexes : idx = ReadMeta(view)
  /\ dead = idx.dead
  /\ gens = [k \in Nodes |-> 0] /\ gen = 0
  /\ \E p \in Policies : scan = Idle(p)
  /\ out = <<>> /\ scans = 0

\* beginscan and rescan: everything the last scan left in the descriptor is
\* reset; the cache is not the descriptor's.
Rescan(query) ==
  /\ scan.pc \in {"idle", "rows"} /\ scans < MaxScans
  /\ scan' = [pc |-> "begun", policy |-> policy, q |-> query, pass |-> "first",
              target |-> 0, ef |-> 0, points |-> <<>>, frontier |-> {}, nearest |-> {},
              widening |-> "none", sidecarUnused |-> FALSE, results |-> <<>>, at |-> 0]
  /\ out' = <<>> /\ scans' = scans + 1
  /\ UNCHANGED <<idx, dead, gens, gen>>

\* The entry points of a pass, each queued and offered once.
StartPass(target, ef, pass, widening) ==
  LET es == Entries(ef)
      v == IF idx.cached THEN NextVisit ELSE FreshVisit
  IN /\ gen' = v.gen
     /\ gens' = [k \in Nodes |-> IF EntryAlreadySelected(es.points, k) THEN v.gen ELSE v.gens[k]]
     /\ scan' = [scan EXCEPT
          !.pc = "base", !.target = target, !.ef = ef, !.pass = pass, !.widening = widening,
          !.sidecarUnused = es.sidecarUnused, !.points = es.points,
          !.frontier = ToSet(es.points), !.nearest = BestOf(ToSet(es.points), ef)]

Rows(rs) == scan' = [scan EXCEPT !.pc = "rows", !.results = rs, !.frontier = {}, !.nearest = {}]

\* The first tqgraphgettuple, up to the base layer.
CollectStart ==
  /\ scan.pc = "begun"
  /\ LET widening == IF Unmapped THEN "filter"
                     ELSE IF idx.l2 /\ HighDim THEN "dimension" ELSE "none"
     IN IF idx.n = 0 THEN Rows(<<>>) /\ UNCHANGED <<gens, gen>>
        ELSE IF PayloadExactBandApplies
        THEN /\ scan' = [scan EXCEPT !.pc = "rows", !.target = ResultTarget,
                                     !.results = CollectPayloadExactBand(ResultTarget)]
             /\ UNCHANGED <<gens, gen>>
        ELSE StartPass(ResultTarget, SearchEf(ResultTarget), "first", widening)
  /\ UNCHANGED <<idx, dead, out, scans>>

BaseStep ==
  /\ scan.pc = "base" /\ ~SearchDone
  /\ SearchBaseLayerStep
  /\ UNCHANGED <<idx, dead, out, scans>>

\* What a pass makes of its base layer: which bands it fills depends on the pass.
PassResults ==
  LET found == BaseResults
      full == scan.pass \in {"first", "retry"} /\ q.filter = NoFilter /\ scan.target >= idx.n
      fill == full \/ Selective \/ scan.pass = "tight"
      band == IF fill THEN FillCandidateBand(found) ELSE found
  IN IF scan.pass \in {"first", "retry"} THEN ApplyLocalExpansion(band) ELSE band

\* Rescore and end the scan, or search once more.
FinishResults(rs) ==
  LET residual == ApplyResidualRerank(rs)
      rescored == HeapRescore(residual)
      reordered == idx.exactFree /\ (TopChanged(rs, residual) \/ TopChanged(residual, rescored))
      judged == IF idx.exactFree THEN rescored ELSE rs
  IN IF ShouldUncertaintyRetry(judged, reordered)
     THEN StartPass(Max({RetryTarget, 1}), Max({RetryEf, RetryTarget}), "retry", scan.widening)
     ELSE /\ Rows(IF idx.exactFree THEN rescored ELSE ExactRescore(rs))
          /\ UNCHANGED <<gens, gen>>

PassEnd ==
  /\ scan.pc = "base" /\ SearchDone
  /\ LET rs == PassResults
     IN IF scan.pass = "first" /\ ShouldAdaptiveWiden(rs)
        THEN StartPass(AdaptiveTarget, AdaptiveEf, "adaptive", scan.widening)
        ELSE IF scan.pass \in {"first", "adaptive"} /\ ShouldFillTight(rs)
        THEN StartPass(TightTarget, TightEf, "tight", "exact_policy")
        ELSE FinishResults(rs)
  /\ UNCHANGED <<idx, dead, out, scans>>

GetTuple ==
  /\ scan.pc = "rows" /\ scan.at < Len(scan.results)
  /\ scan' = [scan EXCEPT !.at = @ + 1]
  /\ out' = Append(out, scan.results[scan.at + 1].k)
  /\ UNCHANGED <<idx, dead, gens, gen, scans>>

\* An interrupt leaves the marks of the unfinished search in the cache.
Cancel ==
  /\ scan.pc = "base"
  /\ scan' = Idle(policy)
  /\ UNCHANGED <<idx, dead, gens, gen, out, scans>>

\* VACUUM waits for the scans that collect; the next scan finds a newer
\* generation of the index and builds its cache anew.
Vacuum(k) ==
  /\ scan.pc \in {"idle", "begun"} /\ k \in Nodes \ dead /\ Cardinality(dead) < MaxDead
  /\ dead' = dead \cup {k}
  /\ gens' = [j \in Nodes |-> 0] /\ gen' = 0
  /\ UNCHANGED <<idx, scan, out, scans>>

Next ==
  \/ \E query \in Queries : Rescan(query)
  \/ CollectStart \/ BaseStep \/ PassEnd \/ GetTuple \/ Cancel
  \/ \E k \in Nodes : Vacuum(k)

Spec == Init /\ [][Next]_vars

(***************************************************************************)
(* Properties.                                                             *)
(***************************************************************************)
Ended == scan.pc = "base" /\ SearchDone

\* How the search was offered a node: as the entry point it was, else with the
\* score of its code.
OfferedAs(k) ==
  LET entered == {e \in ToSet(scan.points) : e.k = k}
  IN IF entered # {} THEN entered ELSE {Item(k, ScoreNode(k))}

\* What was offered is kept, or the band is full of better ones.
Settled(x) ==
  \/ x \in scan.nearest
  \/ Cardinality(scan.nearest) = scan.ef /\ \A y \in scan.nearest : Less(y, x)

\* When the best-first search of the base layer stops, it has settled: a
\* neighbour of a node it kept is kept too, or is worse than all of a full
\* band.  A mark left by an earlier or cancelled search, or by the search that
\* used the same number before the counter wrapped, would hide a neighbour.
\* (An entry point was offered with the distance it was chosen by.)
BeamSettled ==
  Ended => \A i \in scan.nearest : \A j \in ToSet(idx.adj[0][i.k]) \cap Nodes :
             \A x \in OfferedAs(j) : Settled(x)

(***************************************************************************)
(* The invariant behind it.                                                *)
(***************************************************************************)
Marked(k) == gens[k] = gen
Points == [k : Nodes, d : Int]

\* Without exact vectors the distance of an entry point is the score of its
\* code, if it was scored.
ScoredPoints == {e \in Points : HasExactVector \/ e.d \in {ScoreNode(e.k), Unscored}}
UniqueKeys(rs) == \A i, j \in DOMAIN rs : rs[i].k = rs[j].k => i = j

\* No mark is newer than the counter: the next search begins with none.
VisitInv == gen \in 0..(GenModulus - 1) /\ gens \in [Nodes -> 0..gen]

DescriptorInv ==
  /\ scan.pc \in {"idle", "begun", "base", "rows"}
  /\ scan.pc # "idle" =>
       /\ {"pc", "policy", "q", "pass", "target", "ef", "points", "frontier", "nearest", "widening",
           "sidecarUnused", "results", "at"} \subseteq DOMAIN scan
       /\ q \in Queries

BeamInv ==
  scan.pc = "base" =>
    /\ idx.n > 0 /\ scan.target \in Nat /\ scan.ef \in Nat \ {0}
    /\ scan.pass \in {"first", "adaptive", "tight", "retry"}
    /\ scan.points \in Seq(ScoredPoints) /\ UniqueKeys(scan.points)
    /\ scan.frontier \subseteq Points /\ IsFiniteSet(scan.frontier)
    /\ scan.nearest \subseteq Points /\ IsFiniteSet(scan.nearest)
    /\ Cardinality(scan.nearest) <= scan.ef
    /\ \A e \in ToSet(scan.points) : Marked(e.k)
    /\ \A i \in scan.nearest : Marked(i.k) /\ i \in OfferedAs(i.k)
    /\ \A k \in Nodes : Marked(k) => \A x \in OfferedAs(k) : Settled(x)
    /\ \A i \in scan.nearest \ scan.frontier :
         \A k \in ToSet(idx.adj[0][i.k]) \cap Nodes : Marked(k)

Inv == IndexView(idx) /\ VisitInv /\ DescriptorInv /\ BeamInv

Collected == scan.pc # "rows" /\ scan'.pc = "rows"

\* The rows whose distance is final: a residual adjustment moves it on purpose,
\* and a top-k rescore compares exact with packed distances.
Uniform == ~(idx.exactFree /\ ((idx.sketches /\ ~idx.l2) \/ EffectiveHeapRescoreMode # "off"))

\* What a scan collects are live nodes that match the payload filter, each
\* once; where no rerank step mixes two kinds of distance they come best first,
\* each with the score of its own code or vector (an entry point that the level
\* rule put in the first slot is never scored and keeps the largest distance).
CollectsSound ==
  [][Collected =>
       LET rs == scan'.results
       IN /\ \A i \in DOMAIN rs : rs[i].k \in Wanted
          /\ \A i, j \in DOMAIN rs : i < j => rs[i].k # rs[j].k
          /\ Uniform => \A i \in DOMAIN rs :
               /\ rs[i].d \in {IF rs[i].exact THEN ExactVectorDistance(rs[i].k)
                               ELSE ScoreNode(rs[i].k), Unscored}
               /\ \A j \in 1..(i - 1) : Less(rs[j], rs[i])]_vars

\* A scan whose filter has a selectivity estimate, or an unfiltered one that
\* wants the whole index, comes out short only when no live matching row is
\* left: the search may miss a component of the graph, the fill of the band may
\* not.  (A high-dimensional L2 scan keeps only the rows it rescores.  The pass
\* that adaptive widening adds replaces the band of the first and is filled for
\* its selectivity only: an unfiltered one may come out shorter than that band.)
ShortOnlyWhenExhausted ==
  [][(/\ Collected /\ scan'.widening # "dimension"
      /\ \/ Selective
         \/ q.filter = NoFilter /\ scan'.target >= idx.n /\ scan.pass # "adaptive"
      /\ Len(scan'.results) < scan'.target)
       => Len(scan'.results) = Cardinality(Wanted)]_vars
=============================================================================

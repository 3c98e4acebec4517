-------------------------- MODULE GraphIndexProofs --------------------------
(***************************************************************************)
(* Proofs about GraphIndex, one lemma per action for each invariant:       *)
(*   - Inv, inductive for Spec, and LaxInv, for SpecVacuumFail: what the   *)
(*     index holds;                                                        *)
(*   - CompleteInv, on top of LaxInv and Inv: what scans and native caches *)
(*     rely on.  ScanComplete survives a cancelled VACUUM, CacheFresh needs*)
(*     the generation bump at the end of each VACUUM;                      *)
(*   - AdjInv, for SpecWrite: neighbour lists under inserts and a VACUUM   *)
(*     that repairs edges and may be cancelled.  The deep validator stays  *)
(*     silent, and the repair only trades dead references for reciprocal   *)
(*     live ones.                                                          *)
(***************************************************************************)
EXTENDS GraphIndex, SequenceTheorems, FiniteSetTheorems, TLAPS

\* A function on 1..n is a sequence of length n.
LEMMA FunIsSeq ==
    ASSUME NEW S, NEW n \in Nat, NEW f \in [1..n -> S]
    PROVE  f \in Seq(S) /\ Len(f) = n
  BY SeqDef, LenProperties

\* With node i-1 at position i, loading n nodes by page (LoadCodePage) yields
\* exactly nodes 0 .. n-1, each with the tuple at its own position.
LEMMA ViewIsChain ==
    ASSUME TypeOK, ChainInv, NEW n \in 0..Len(code)
    PROVE  /\ Loaded(n) = 0..(n - 1)
           /\ \A k \in 0..(n - 1) : View(n)[k] = code[k + 1]
  <1>1. Len(code) \in Nat /\ n \in Nat /\ PerPage \in Nat \ {0}
    BY PerPageAssumption, LenProperties DEF TypeOK, PageType
  <1>2. \A k \in 0..(n - 1), i \in 1..Len(code) : Holds(i, k, n) <=> i = k + 1
    <2>1. \A k \in 0..(n - 1) : k % PerPage \in Nat
      BY <1>1
    <2> QED BY <1>1, <2>1 DEF Holds, OnLoadedPage, ChainInv
  <1>3. \A k \in 0..(n - 1) : k + 1 \in 1..Len(code)
    BY <1>1
  <1>4. Loaded(n) = 0..(n - 1)
    BY <1>2, <1>3 DEF Loaded
  <1>5. ASSUME NEW k \in 0..(n - 1) PROVE LastOf(k, n) = k + 1
    <2>1. \A i \in 1..Len(code) :
            (Holds(i, k, n) /\ \A j \in 1..Len(code) : Holds(j, k, n) => j <= i) <=> i = k + 1
      BY <1>1, <1>2, <1>3
    <2> QED BY <2>1, <1>3 DEF LastOf
  <1> QED BY <1>4, <1>5 DEF View

\* The index CREATE INDEX leaves behind satisfies the invariant.
LEMMA InitInv ==
    ASSUME NEW lax \in BOOLEAN, Init
    PROVE  InvWith(lax)
  <1> DEFINE n == Len(InitTids)
  <1>0. /\ n \in Nat /\ n <= MaxNodes /\ n <= MaxRows /\ MaxNodes \in Nat /\ MaxRows \in Nat
        /\ InitTids \in [1..n -> Tids]
        /\ \A i, j \in 1..n : InitTids[i] = InitTids[j] => i = j
    BY InitTidsAssumption, BoundsAssumption, LenProperties
  <1>a. /\ heap \in [Tids -> [st : {"unused", "live"}, row : 0..n]]
        /\ \A t \in Tids : IF heap[t].st = "unused" THEN heap[t].row = 0 ELSE heap[t].row \in 1..n
        /\ \A t \in Tids : heap[t].st = "live" => InitTids[heap[t].row] = t
        /\ \A i \in 1..n : heap[InitTids[i]].row = i
    <2>1. heap = [t \in Tids |->
                    IF \E i \in 1..n : InitTids[i] = t
                    THEN [st |-> "live", row |-> CHOOSE i \in 1..n : InitTids[i] = t]
                    ELSE Unused]
      BY DEF Init
    <2>2. ASSUME NEW t \in Tids, \E i \in 1..n : InitTids[i] = t
          PROVE  /\ heap[t].st = "live" /\ heap[t].row \in 1..n /\ InitTids[heap[t].row] = t
                 /\ heap[t] \in [st : {"unused", "live"}, row : 0..n]
      BY <1>0, <2>1, <2>2
    <2>3. ASSUME NEW t \in Tids, ~ \E i \in 1..n : InitTids[i] = t
          PROVE  /\ heap[t].st = "unused" /\ heap[t].row = 0
                 /\ heap[t] \in [st : {"unused", "live"}, row : 0..n]
      BY <1>0, <2>1, <2>3 DEF Unused
    <2>4. heap \in [Tids -> [st : {"unused", "live"}, row : 0..n]]
      BY <2>1, <2>2, <2>3
    <2>5. \A i \in 1..n : InitTids[i] \in Tids /\ heap[InitTids[i]].row = i
      BY <1>0, <2>2
    <2> QED BY <2>2, <2>3, <2>4, <2>5
  <1>b. /\ code \in Seq(CodeTuple) /\ Len(code) = n
        /\ \A i \in 1..n : code[i] = [node |-> i - 1, tid |-> InitTids[i], row |-> i, dead |-> FALSE]
    <2>1. code \in [1..n -> CodeTuple]
      BY <1>0 DEF Init, CodeTuple, Nodes, Rows
    <2> QED BY <2>1, <1>0, FunIsSeq DEF Init
  <1>c. adj \in Seq([node : Nodes, nbrs : SUBSET Nodes])
    <2>1. adj \in [1..n -> [node : Nodes, nbrs : SUBSET Nodes]]
      BY <1>0 DEF Init, Nodes
    <2> QED BY <2>1, <1>0, FunIsSeq
  <1>d. meta \in MetaType /\ meta.count = n /\ meta.gen = 1
    BY <1>0, LevelAssumption DEF Init, MetaType, Nodes, None, IsBestLiveNode
  <1>e. /\ NoMeta \in MetaType
        /\ NoMeta.gen = 0 /\ NoMeta.count = 0
    BY <1>0 DEF NoMeta, MetaType, Nodes, None
  <1>1. TypeOK
    <2>1. VacType
      BY <1>0 DEF Init, VacIdle, Partial, Nothing, VacLocked, VacType
    <2>2. ScanType
      BY <1>e DEF Init, ScanIdle, ScanType
    <2>3. CacheType
      <3>1. cache = [b \in Backends |-> NoCache]
        BY DEF Init
      <3>2. IsCache(NoCache)
        BY <1>0 DEF NoCache, Nothing, Partial, IsCache
      <3> QED BY <3>1, <3>2 DEF CacheType
    <2>4. InsType
      BY DEF Init, InsType
    <2>5. HeapType
      BY <1>0, <1>a DEF HeapType
    <2>6. nextRow \in 1..(MaxRows + 1)
      BY <1>0 DEF Init
    <2> QED BY <1>b, <1>c, <1>d, <2>1, <2>2, <2>3, <2>4, <2>5, <2>6 DEF TypeOK, PageType
  <1>2. HeapInv
    BY <1>0, <1>a DEF HeapInv, Init
  <1>3. ChainInv
    BY <1>0, <1>b, <1>d DEF ChainInv, Init, InsIdle
  <1>4. InsInv
    BY DEF InsInv, Init, InsIdle
  <1>5. VacInv
    BY <1>0, <1>d DEF VacInv, Init, VacIdle
  <1>6. RepairInv
    BY <1>0 DEF RepairInv, Init, VacIdle, Nothing
  <1>7. LiveInv
    BY <1>0, <1>a, <1>b, <1>d DEF LiveInv, Init
  <1>8. IndexSound
    <2>1. \A i \in 1..n : code[i].tid = InitTids[i] /\ code[i].row = i
      <3> TAKE i \in 1..n
      <3>1. code[i] = [node |-> i - 1, tid |-> InitTids[i], row |-> i, dead |-> FALSE]
        BY <1>b
      <3> QED BY <3>1
    <2> QED BY <1>0, <1>a, <1>b, <2>1 DEF IndexSound
  <1>9. CacheInv(lax)
    BY <1>0, <1>d DEF CacheInv, CacheOk, Init, NoCache, Nothing
  <1>10. ScanInv(lax)
    BY <1>0, <1>d, <1>e DEF ScanInv, Init, ScanIdle
  <1>11. HitsInv(lax)
    BY DEF HitsInv, ScanSound, Init, ScanIdle
  <1> QED BY <1>1, <1>2, <1>3, <1>4, <1>5, <1>6, <1>7, <1>8, <1>9, <1>10, <1>11 DEF InvWith

\* Types of the code tuples.
LEMMA CodeFacts ==
    ASSUME TypeOK
    PROVE  /\ Len(code) \in Nat
           /\ \A i \in 1..Len(code) :
                /\ code[i] \in CodeTuple /\ code[i].tid \in Tids /\ code[i].dead \in BOOLEAN
                /\ code[i].row \in Nat \ {0} /\ code[i].node \in Nat
  <1>1. Len(code) \in Nat /\ \A i \in 1..Len(code) : code[i] \in CodeTuple
    BY LenProperties, ElementOfSeq DEF TypeOK, PageType
  <1> QED BY <1>1, BoundsAssumption DEF CodeTuple, Rows, Nodes

\* Types of the local state of a running aminsert.
LEMMA InsFacts ==
    ASSUME TypeOK, ins.pc # "idle"
    PROVE  /\ ins \in [pc : {"select", "link", "write", "adj", "meta"}, by : Backends,
                       tid : Tids, m : MetaType, cached : BOOLEAN, sel : SUBSET Nodes,
                       todo : SUBSET Nodes, src : Nodes \cup {None}, buf : SUBSET Nodes]
           /\ ins.tid \in Tids /\ ins.by \in Backends /\ ins.m \in MetaType
  BY DEF TypeOK, InsType, InsIdle

\* Types of a copy of the metapage.
LEMMA MetaFacts ==
    ASSUME NEW m \in MetaType
    PROVE  m.count \in 0..MaxNodes /\ m.count \in Nat /\ m.gen \in Nat /\ m.maxLevel \in Nat
  BY BoundsAssumption DEF MetaType

\* A new heap row, with or without a key, takes an unused line pointer: no
\* code tuple, cache or scan result names the new row.
LEMMA HeapInsertInv ==
    ASSUME NEW lax \in BOOLEAN, InvWith(lax), NEW t \in Tids, HeapInsert(t) \/ HeapInsertNull(t)
    PROVE  InvWith(lax)'
  <1> USE DEF InvWith
  <1>0. PICK st \in {"inserting", "null"} :
          /\ heap[t].st = "unused" /\ nextRow \in Rows /\ nextRow' = nextRow + 1
          /\ heap' = [heap EXCEPT ![t] = [st |-> st, row |-> nextRow]]
          /\ UNCHANGED <<code, adj, meta, ins, vac, scan, cache>>
    BY DEF HeapInsert, HeapInsertNull, Unused
  <1>a. /\ HeapType' /\ nextRow \in Nat \ {0}
        /\ \A u \in Tids : u # t => heap'[u] = heap[u]
        /\ heap'[t].st = st /\ heap'[t].row = nextRow
        /\ heap[t].row = 0 /\ st # "unused" /\ st # "live" /\ st # "dead"
    BY <1>0, BoundsAssumption DEF HeapType, TypeOK, Rows, HeapInv
  <1>1. TypeOK'
    BY <1>0, <1>a, BoundsAssumption
       DEF TypeOK, Rows, PageType, InsType, VacType, ScanType, CacheType
  <1>2. HeapInv'
    BY <1>0, <1>a DEF HeapInv, TypeOK, HeapType
  <1>3. ChainInv'
    BY <1>0 DEF ChainInv
  <1>4. InsInv'
    BY <1>0, <1>a, InsFacts DEF InsInv
  <1>5. VacInv'
    BY <1>0, <1>a DEF VacInv, TypeOK, VacType
  <1>6. RepairInv'
    BY <1>0 DEF RepairInv
  <1>7. LiveInv'
    <2>1. code' = code /\ meta' = meta /\ \A u \in Tids : heap'[u].st = "live" => u # t
      BY <1>0, <1>a
    <2> QED BY <1>a, <2>1 DEF LiveInv
  <1>8. IndexSound'
    BY <1>0, <1>a, CodeFacts DEF IndexSound
  <1>9. CacheInv(lax)'
    BY <1>0 DEF CacheInv, CacheOk, Missed
  <1>10. ScanInv(lax)'
    BY <1>0, <1>a DEF ScanInv, Missed, Inserting
  <1>11. HitsInv(lax)'
    BY <1>0, <1>a DEF HitsInv, ScanSound, ScanInv, TypeOK, ScanType, Rows
  <1> QED BY <1>1, <1>2, <1>3, <1>4, <1>5, <1>6, <1>7, <1>8, <1>9, <1>10, <1>11

\* Deleting a row changes no row identity.
LEMMA HeapDeleteInv ==
    ASSUME NEW lax \in BOOLEAN, InvWith(lax), NEW t \in Tids, HeapDelete(t)
    PROVE  InvWith(lax)'
  <1> USE DEF InvWith
  <1>0. /\ heap[t].st = "live" /\ heap' = [heap EXCEPT ![t].st = "dead"]
        /\ UNCHANGED <<nextRow, code, adj, meta, ins, vac, scan, cache>>
    BY DEF HeapDelete
  <1>a. /\ HeapType'
        /\ \A u \in Tids : u # t => heap'[u] = heap[u]
        /\ heap'[t].st = "dead" /\ heap'[t].row = heap[t].row
    BY <1>0 DEF HeapType, TypeOK
  <1>1. TypeOK'
    BY <1>0, <1>a DEF TypeOK, PageType, InsType, VacType, ScanType, CacheType
  <1>2. HeapInv'
    BY <1>0, <1>a DEF HeapInv
  <1>3. ChainInv'
    BY <1>0 DEF ChainInv
  <1>4. InsInv'
    BY <1>0, <1>a, InsFacts DEF InsInv
  <1>5. VacInv'
    BY <1>0, <1>a DEF VacInv, TypeOK, VacType
  <1>6. RepairInv'
    BY <1>0 DEF RepairInv
  <1>7. LiveInv'
    BY <1>0, <1>a DEF LiveInv
  <1>8. IndexSound'
    BY <1>0, <1>a, CodeFacts DEF IndexSound
  <1>9. CacheInv(lax)'
    BY <1>0 DEF CacheInv, CacheOk, Missed
  <1>10. ScanInv(lax)'
    BY <1>0, <1>a DEF ScanInv, Missed, Inserting
  <1>11. HitsInv(lax)'
    BY <1>0, <1>a DEF HitsInv, ScanSound, TypeOK, ScanType
  <1> QED BY <1>1, <1>2, <1>3, <1>4, <1>5, <1>6, <1>7, <1>8, <1>9, <1>10, <1>11

\* The abort of an insert that has appended nothing.
LEMMA InsertFailInv ==
    ASSUME NEW lax \in BOOLEAN, InvWith(lax), InsertFail
    PROVE  InvWith(lax)'
  <1> USE DEF InvWith
  <1>0. /\ ins.pc # "idle" /\ ins.pc \notin {"adj", "meta"}
        /\ heap' = [heap EXCEPT ![ins.tid].st = "dead"] /\ ins' = InsIdle
        /\ UNCHANGED <<nextRow, code, adj, meta, vac, scan, cache>>
    BY DEF InsertFail, InsertAbort
  <1>a. /\ HeapType' /\ heap[ins.tid].st = "inserting"
        /\ \A u \in Tids : u # ins.tid => heap'[u] = heap[u]
        /\ heap'[ins.tid].st = "dead" /\ heap'[ins.tid].row = heap[ins.tid].row
        /\ ins'.pc = "idle"
    BY <1>0, InsFacts DEF HeapType, TypeOK, InsInv, InsIdle
  <1>1. TypeOK'
    BY <1>0, <1>a DEF TypeOK, PageType, InsType, VacType, ScanType, CacheType
  <1>2. HeapInv'
    BY <1>0, <1>a DEF HeapInv
  <1>3. ChainInv'
    BY <1>0, <1>a DEF ChainInv
  <1>4. InsInv'
    BY <1>0, <1>a DEF InsInv
  <1>5. VacInv'
    BY <1>0, <1>a DEF VacInv, TypeOK, VacType
  <1>6. RepairInv'
    BY <1>0 DEF RepairInv
  <1>7. LiveInv'
    BY <1>0, <1>a DEF LiveInv
  <1>8. IndexSound'
    BY <1>0, <1>a, CodeFacts DEF IndexSound
  <1>9. CacheInv(lax)'
    BY <1>0 DEF CacheInv, CacheOk, Missed
  <1>10. ScanInv(lax)'
    BY <1>0, <1>a DEF ScanInv, Missed, Inserting
  <1>11. HitsInv(lax)'
    BY <1>0, <1>a DEF HitsInv, ScanSound, TypeOK, ScanType
  <1> QED BY <1>1, <1>2, <1>3, <1>4, <1>5, <1>6, <1>7, <1>8, <1>9, <1>10, <1>11

\* Crash recovery keeps the pages and forgets every backend.
LEMMA RestartInv ==
    ASSUME NEW lax \in BOOLEAN, InvWith(lax), Crash
    PROVE  InvWith(lax)'
  <1> USE DEF InvWith
  <1>0. /\ ins.pc \notin {"adj", "meta"} /\ ins' = InsIdle /\ vac' = VacIdle
        /\ heap' = [t \in Tids |-> IF heap[t].st = "inserting"
                                   THEN [heap[t] EXCEPT !.st = "dead"] ELSE heap[t]]
        /\ scan' = [b \in Backends |-> ScanIdle] /\ cache' = [b \in Backends |-> NoCache]
        /\ UNCHANGED <<nextRow, code, adj, meta>>
    BY DEF Crash, Restart
  <1>a. /\ HeapType'
        /\ \A u \in Tids : heap'[u].row = heap[u].row
        /\ \A u \in Tids : /\ heap'[u].st = "live" <=> heap[u].st = "live"
                           /\ heap'[u].st = "unused" <=> heap[u].st = "unused"
    BY <1>0 DEF HeapType, TypeOK
  <1>b. NoMeta \in MetaType /\ NoMeta.gen = 0 /\ NoMeta.count = 0
    BY BoundsAssumption DEF NoMeta, MetaType, Nodes, None
  <1>c. IsCache(NoCache)
    BY BoundsAssumption DEF NoCache, Nothing, Partial, IsCache
  <1>d. meta.count \in Nat /\ meta.gen \in Nat
    BY MetaFacts DEF TypeOK, PageType
  <1>1. TypeOK'
    <2>1. VacType'
      BY <1>0, BoundsAssumption DEF VacIdle, Partial, Nothing, VacLocked, VacType
    <2>2. ScanType'
      BY <1>0, <1>b DEF ScanIdle, ScanType
    <2>3. CacheType'
      BY <1>0, <1>c DEF CacheType
    <2> QED BY <1>0, <1>a, <2>1, <2>2, <2>3 DEF TypeOK, PageType, InsType
  <1>2. HeapInv'
    BY <1>0, <1>a DEF HeapInv
  <1>3. ChainInv'
    BY <1>0 DEF ChainInv, InsIdle
  <1>4. InsInv'
    BY <1>0 DEF InsInv, InsIdle
  <1>5. VacInv'
    BY <1>0, <1>d DEF VacInv, VacIdle
  <1>6. RepairInv'
    BY <1>0 DEF RepairInv, VacIdle, Nothing
  <1>7. LiveInv'
    BY <1>0, <1>a DEF LiveInv
  <1>8. IndexSound'
    BY <1>0, <1>a, CodeFacts DEF IndexSound
  <1>9. CacheInv(lax)'
    BY <1>0, <1>d DEF CacheInv, CacheOk, Missed, NoCache, Nothing
  <1>10. ScanInv(lax)'
    BY <1>0, <1>b, <1>d DEF ScanInv, ScanIdle
  <1>11. HitsInv(lax)'
    BY <1>0 DEF HitsInv, ScanSound, ScanIdle
  <1> QED BY <1>1, <1>2, <1>3, <1>4, <1>5, <1>6, <1>7, <1>8, <1>9, <1>10, <1>11

\* Types of the adjacency tuples and of what the loaders make of them.
LEMMA AdjFacts ==
    ASSUME TypeOK
    PROVE  /\ Len(adj) \in Nat
           /\ \A i \in 1..Len(adj) : adj[i] \in [node : Nodes, nbrs : SUBSET Nodes]
           /\ \A k : LoadAdjTuple(k) \in SUBSET Nodes
           /\ \A n : LoadAllAdjPages(n) \in [0..(n - 1) -> SUBSET Nodes]
  <1>1. Len(adj) \in Nat /\ \A i \in 1..Len(adj) : adj[i] \in [node : Nodes, nbrs : SUBSET Nodes]
    BY LenProperties, ElementOfSeq DEF TypeOK, PageType
  <1>2. \A k : AdjAt(k) \subseteq 1..Len(adj)
    BY DEF AdjAt
  <1>3. \A k : LoadAdjTuple(k) \in SUBSET Nodes
    BY <1>1, <1>2 DEF LoadAdjTuple, FirstAdj
  <1>4. \A k : UNION {adj[i].nbrs : i \in LastAdj(k)} \in SUBSET Nodes
    BY <1>1, <1>2 DEF LastAdj
  <1> QED BY <1>1, <1>3, <1>4 DEF LoadAllAdjPages

\* Overwriting adjacency tuples keeps the chain well typed.
LEMMA UpdateAdjType ==
    ASSUME TypeOK, NEW at, NEW nbrs \in SUBSET Nodes
    PROVE  UpdateAdjTuple(at, nbrs) \in Seq([node : Nodes, nbrs : SUBSET Nodes])
  <1>1. UpdateAdjTuple(at, nbrs) \in [1..Len(adj) -> [node : Nodes, nbrs : SUBSET Nodes]]
    BY AdjFacts DEF UpdateAdjTuple
  <1> QED BY <1>1, AdjFacts, FunIsSeq

\* A cache built now holds the chain up to the count it was built for.
LEMMA BuildFacts ==
    ASSUME TypeOK, ChainInv, NEW m \in MetaType, m.count <= Len(code)
    PROVE  LET c == BuildCache(m) IN
           /\ IsCache(c) /\ c.gen = m.gen /\ c.count = m.count
           /\ DOMAIN c.adj = 0..(m.count - 1) /\ DOMAIN c.nodes = 0..(m.count - 1)
           /\ \A k \in 0..(m.count - 1) : c.nodes[k] = code[k + 1]
  <1> DEFINE c == BuildCache(m)
  <1>0. m.count \in Nat /\ m.count \in 0..MaxNodes /\ m.gen \in Nat /\ m.entry \in Nodes \cup {None}
    BY MetaFacts DEF MetaType
  <1>1. /\ c = [gen |-> m.gen, count |-> m.count, entry |-> m.entry,
                nodes |-> View(m.count), adj |-> LoadAllAdjPages(m.count)]
    BY DEF BuildCache
  <1>2. /\ Loaded(m.count) = 0..(m.count - 1)
        /\ \A k \in 0..(m.count - 1) : View(m.count)[k] = code[k + 1]
    BY <1>0, ViewIsChain, CodeFacts
  <1>3. View(m.count) \in [0..(m.count - 1) -> CodeTuple]
    <2>1. \A k \in 0..(m.count - 1) : code[k + 1] \in CodeTuple
      BY <1>0, CodeFacts
    <2>2. View(m.count) = [k \in 0..(m.count - 1) |-> View(m.count)[k]]
      BY <1>2 DEF View
    <2> QED BY <1>2, <2>1, <2>2
  <1>4. LoadAllAdjPages(m.count) \in [0..(m.count - 1) -> SUBSET Nodes]
    BY AdjFacts
  <1>5. 0..(m.count - 1) \subseteq Nodes
    BY <1>0, BoundsAssumption DEF Nodes
  <1>6. IsCache(c)
    BY <1>0, <1>1, <1>3, <1>4, <1>5 DEF IsCache, Partial
  <1> QED BY <1>1, <1>2, <1>3, <1>4, <1>6

\* aminsert takes UPDATE_LOCK, its metapage copy and its storage.
LEMMA InsertBeginInv ==
    ASSUME NEW lax \in BOOLEAN, InvWith(lax), NEW b \in Backends, NEW t \in Tids, InsertBegin(b, t)
    PROVE  InvWith(lax)'
  <1> USE DEF InvWith
  <1>0. PICK cached \in BOOLEAN :
          /\ ins.pc = "idle" /\ heap[t].st = "inserting" /\ scan[b].pc # "locked"
          /\ meta.count < MaxNodes
          /\ ins' = [pc |-> "select", by |-> b, tid |-> t, m |-> meta, cached |-> cached,
                     sel |-> {}, todo |-> {}, src |-> None, buf |-> {}]
          /\ cache' = [cache EXCEPT ![b] = IF cached THEN FindOrBuild(b, meta) ELSE @]
          /\ UNCHANGED <<heap, nextRow, code, adj, meta, vac, scan>>
    BY DEF InsertBegin
  <1>a. meta \in MetaType /\ meta.count \in Nat /\ meta.gen \in Nat /\ Len(code) = meta.count
    BY <1>0, MetaFacts DEF TypeOK, PageType, ChainInv
  <1>b. /\ \A x \in Backends : x # b => cache'[x] = cache[x]
        /\ cache' = [x \in Backends |-> cache'[x]]
        /\ ~cached => cache'[b] = cache[b]
        /\ cached => (cache'[b] = cache[b] /\ cache[b].count = meta.count)
                     \/ cache'[b] = BuildCache(meta)
    BY <1>0 DEF TypeOK, CacheType, FindOrBuild, CacheMatches
  <1>c. \A x \in Backends : IsCache(cache'[x])
    BY <1>a, <1>b, BuildFacts DEF TypeOK, CacheType
  <1>d. ins'.pc = "select" /\ ins'.by = b /\ ins'.tid = t /\ ins'.m = meta /\ ins'.cached = cached
        /\ ins'.sel = {} /\ ins'.todo = {}
    BY <1>0
  <1>1. TypeOK'
    <2>1. InsType'
      BY <1>0, <1>a DEF InsType, Nodes
    <2> QED BY <1>0, <1>b, <1>c, <2>1 DEF TypeOK, PageType, HeapType, VacType, ScanType, CacheType
  <1>2. HeapInv'
    BY <1>0 DEF HeapInv
  <1>3. ChainInv'
    BY <1>0, <1>d DEF ChainInv
  <1>4. InsInv'
    <2>1. cached => cache'[b].count = meta.count
      BY <1>a, <1>b, BuildFacts
    <2> QED BY <1>0, <1>d, <2>1 DEF InsInv
  <1>5. VacInv'
    BY <1>0 DEF VacInv
  <1>6. RepairInv'
    BY <1>0 DEF RepairInv
  <1>7. LiveInv'
    BY <1>0 DEF LiveInv
  <1>8. IndexSound'
    BY <1>0 DEF IndexSound
  <1>9. CacheInv(lax)'
    <2>1. ASSUME NEW x \in Backends, cache'[x] = cache[x]
          PROVE  CacheOk(x, lax)'
      BY <1>0, <2>1 DEF CacheInv, CacheOk, Missed
    <2>2. ASSUME cache'[b] = BuildCache(meta) PROVE CacheOk(b, lax)'
      <3>1. /\ cache'[b].gen = meta.gen /\ cache'[b].count = meta.count
            /\ DOMAIN cache'[b].adj = 0..(meta.count - 1)
            /\ DOMAIN cache'[b].nodes = 0..(meta.count - 1)
            /\ \A k \in 0..(meta.count - 1) : cache'[b].nodes[k] = code[k + 1]
        BY <1>a, <2>2, BuildFacts
      <3>2. code' = code /\ meta' = meta /\ meta.gen <= meta.gen /\ meta.count <= meta.count
        BY <1>0, <1>a
      <3>3. \A k \in 0..(meta.count - 1) : k < meta.count
        BY <1>a
      <3> QED BY <3>1, <3>2, <3>3 DEF CacheOk, Missed
    <2> QED BY <1>b, <2>1, <2>2 DEF CacheInv
  <1>10. ScanInv(lax)'
    BY <1>0, <1>b, <1>d DEF ScanInv, Missed, Inserting
  <1>11. HitsInv(lax)'
    BY <1>0 DEF HitsInv, ScanSound
  <1> QED BY <1>1, <1>2, <1>3, <1>4, <1>5, <1>6, <1>7, <1>8, <1>9, <1>10, <1>11

\* Steps that change the local state of an insert only.
LEMMA InsOnly ==
    ASSUME NEW lax \in BOOLEAN, InvWith(lax), UNCHANGED <<heap, nextRow, code, adj, meta, vac, scan, cache>>,
           ins.pc \in {"select", "link", "write"}, ins'.pc \in {"select", "link", "write"},
           ins'.by = ins.by, InsType', InsInv'
    PROVE  InvWith(lax)'
  <1> USE DEF InvWith
  <1>1. TypeOK'
    BY DEF TypeOK, PageType, HeapType, VacType, ScanType, CacheType
  <1>2. HeapInv' /\ RepairInv' /\ LiveInv' /\ IndexSound' /\ HitsInv(lax)'
    BY DEF HeapInv, RepairInv, LiveInv, IndexSound, HitsInv, ScanSound
  <1>3. ChainInv'
    BY DEF ChainInv
  <1>4. VacInv'
    BY DEF VacInv
  <1>5. CacheInv(lax)'
    BY DEF CacheInv, CacheOk, Missed
  <1>6. ScanInv(lax)'
    BY DEF ScanInv, Missed, Inserting
  <1> QED BY <1>1, <1>2, <1>3, <1>4, <1>5, <1>6

\* Steps of VACUUM that change no code tuple, no count and no generation.
LEMMA VacOnly ==
    ASSUME NEW lax \in BOOLEAN, InvWith(lax), UNCHANGED <<heap, nextRow, code, ins, scan, cache>>,
           PageType', meta'.count = meta.count, meta'.gen = meta.gen,
           VacType', VacInv', RepairInv',
           vac.changed /\ vac.pc \in VacLocked => vac'.changed /\ vac'.pc \in VacLocked,
           vac'.pc \in VacLocked =>
               vac.pc \in VacLocked \/ \A b \in Backends : scan[b].pc # "locked"
    PROVE  InvWith(lax)'
  <1> USE DEF InvWith
  <1>1. TypeOK'
    BY DEF TypeOK, HeapType, InsType, ScanType, CacheType
  <1>2. HeapInv' /\ InsInv' /\ LiveInv' /\ IndexSound' /\ HitsInv(lax)'
    BY DEF HeapInv, InsInv, LiveInv, IndexSound, HitsInv, ScanSound
  <1>3. ChainInv'
    BY DEF ChainInv
  <1>5. CacheInv(lax)'
    BY DEF CacheInv, CacheOk, Missed
  <1>6. ScanInv(lax)'
    BY DEF ScanInv, Missed, Inserting
  <1> QED BY <1>1, <1>2, <1>3, <1>5, <1>6

\* Steps that change the local state of a scan only.
LEMMA ScanOnly ==
    ASSUME NEW lax \in BOOLEAN, InvWith(lax), UNCHANGED <<heap, nextRow, code, adj, meta, ins, vac, cache>>,
           ScanType', ScanInv(lax)', HitsInv(lax)'
    PROVE  InvWith(lax)'
  <1> USE DEF InvWith
  <1>1. TypeOK'
    BY DEF TypeOK, PageType, HeapType, InsType, VacType, CacheType
  <1>2. HeapInv' /\ InsInv' /\ LiveInv' /\ IndexSound' /\ RepairInv'
    BY DEF HeapInv, InsInv, LiveInv, IndexSound, RepairInv
  <1>3. ChainInv' /\ VacInv'
    BY DEF ChainInv, VacInv
  <1>5. CacheInv(lax)'
    BY DEF CacheInv, CacheOk, Missed
  <1> QED BY <1>1, <1>2, <1>3, <1>5

\* What an insert works on lies below the count.
LEMMA InsViewFacts ==
    ASSUME NEW lax \in BOOLEAN, InvWith(lax), ins.pc # "idle"
    PROVE  /\ meta.count \in Nat /\ ins.m.count = meta.count /\ meta.count < MaxNodes
           /\ 0..(meta.count - 1) \subseteq Nodes /\ meta.count \in Nodes
           /\ DOMAIN InsNodes \subseteq 0..(meta.count - 1)
           /\ InsAdj \in [0..(meta.count - 1) -> SUBSET Nodes]
  <1> USE DEF InvWith
  <1>1. /\ meta.count \in Nat /\ ins.m.count = meta.count /\ meta.count < MaxNodes
        /\ ins.by \in Backends /\ (ins.cached => cache[ins.by].count = meta.count)
    BY InsFacts, MetaFacts DEF TypeOK, PageType, InsInv
  <1>2. 0..(meta.count - 1) \subseteq Nodes /\ meta.count \in Nodes
    BY <1>1, BoundsAssumption DEF Nodes
  <1>3. CASE ins.cached
    <2>1. IsCache(cache[ins.by]) /\ CacheOk(ins.by, lax)
      BY <1>1 DEF TypeOK, CacheType, CacheInv
    <2>2. DOMAIN InsNodes \subseteq 0..(meta.count - 1)
      BY <1>1, <1>3, <2>1 DEF InsNodes, IsCache, Partial, CacheOk, Nodes
    <2>3. InsAdj \in [0..(meta.count - 1) -> SUBSET Nodes]
      BY <1>1, <1>3, <2>1 DEF InsAdj, IsCache, Partial, CacheOk
    <2> QED BY <1>1, <1>2, <2>2, <2>3
  <1>4. CASE ~ins.cached
    <2>1. DOMAIN View(meta.count) = Loaded(meta.count) /\ Loaded(meta.count) \subseteq 0..(meta.count - 1)
      BY DEF View, Loaded
    <2>2. InsAdj \in [0..(meta.count - 1) -> SUBSET Nodes]
      BY <1>1, <1>4, AdjFacts DEF InsAdj
    <2> QED BY <1>1, <1>2, <1>4, <2>1, <2>2 DEF InsNodes
  <1> QED BY <1>3, <1>4

\* Neighbour selection stays below the count.
LEMMA InsertSelectInv ==
    ASSUME NEW lax \in BOOLEAN, InvWith(lax), InsertSelect
    PROVE  InvWith(lax)'
  <1> USE DEF InvWith
  <1>0. PICK sel \in SUBSET (0..(meta.count - 1)) :
          ins' = [ins EXCEPT !.pc = "link", !.sel = sel, !.todo = sel]
    BY InsViewFacts DEF InsertSelect
  <1>1. /\ ins.pc = "select"
        /\ UNCHANGED <<heap, nextRow, code, adj, meta, vac, scan, cache>>
    BY DEF InsertSelect
  <1>2. sel \in SUBSET Nodes
    BY <1>1, InsViewFacts
  <1>3. InsType' /\ ins'.pc = "link" /\ ins'.by = ins.by /\ ins'.m = ins.m /\ ins'.tid = ins.tid
        /\ ins'.cached = ins.cached /\ ins'.sel = sel /\ ins'.todo = sel
    BY <1>0, <1>1, <1>2, InsFacts DEF InsType
  <1>4. InsInv'
    BY <1>1, <1>3 DEF InsInv
  <1> QED BY <1>1, <1>3, <1>4, InsOnly

\* Reading and pruning a reciprocal neighbour list.
LEMMA InsertLoadInv ==
    ASSUME NEW lax \in BOOLEAN, InvWith(lax), NEW src \in Nodes, InsertLoad(src)
    PROVE  InvWith(lax)'
  <1> USE DEF InvWith
  <1>0. /\ ins.pc = "link" /\ src \in ins.todo
        /\ UNCHANGED <<heap, nextRow, code, adj, meta, vac, scan, cache>>
    BY DEF InsertLoad
  <1>1. ins.todo \in SUBSET (0..(meta.count - 1)) /\ ins.todo \in SUBSET Nodes
    BY <1>0, InsFacts DEF InsInv
  <1>2. CASE ins' = [ins EXCEPT !.todo = @ \ {src}]
    <2>1. InsType' /\ ins'.pc = "link" /\ ins'.by = ins.by /\ ins'.m = ins.m /\ ins'.tid = ins.tid
          /\ ins'.cached = ins.cached /\ ins'.sel = ins.sel /\ ins'.todo \subseteq ins.todo
      BY <1>0, <1>1, <1>2, InsFacts DEF InsType
    <2>2. InsInv'
      BY <1>0, <2>1 DEF InsInv
    <2> QED BY <1>0, <2>1, <2>2, InsOnly
  <1>3. CASE \E kept \in SUBSET (InsAdj[src] \cup {ins.m.count}) :
                ins' = [ins EXCEPT !.pc = "write", !.src = src, !.buf = kept]
    <2>0. PICK kept \in SUBSET (InsAdj[src] \cup {ins.m.count}) :
                ins' = [ins EXCEPT !.pc = "write", !.src = src, !.buf = kept]
      BY <1>3
    <2>a. kept \in SUBSET Nodes
      BY <1>0, <1>1, <2>0, InsViewFacts
    <2>1. InsType' /\ ins'.pc = "write" /\ ins'.by = ins.by /\ ins'.m = ins.m /\ ins'.tid = ins.tid
          /\ ins'.cached = ins.cached /\ ins'.sel = ins.sel /\ ins'.todo = ins.todo /\ ins'.src = src
      BY <1>0, <2>0, <2>a, InsFacts DEF InsType
    <2>2. InsInv'
      BY <1>0, <1>1, <2>1 DEF InsInv
    <2> QED BY <1>0, <2>1, <2>2, InsOnly
  <1> QED BY <1>2, <1>3 DEF InsertLoad

\* The reciprocal write, to the page and to the backend's cache.
LEMMA InsertWriteInv ==
    ASSUME NEW lax \in BOOLEAN, InvWith(lax), InsertWrite
    PROVE  InvWith(lax)'
  <1> USE DEF InvWith
  <1>0. /\ ins.pc = "write"
        /\ adj' = UpdateAdjTuple(InsSlot(ins.src), ins.buf)
        /\ cache' = IF ins.cached THEN [cache EXCEPT ![ins.by].adj[ins.src] = ins.buf] ELSE cache
        /\ ins' = [ins EXCEPT !.pc = "link", !.todo = @ \ {ins.src}]
        /\ UNCHANGED <<heap, nextRow, code, meta, vac, scan>>
    BY DEF InsertWrite
  <1>a. /\ InsType' /\ ins'.pc = "link" /\ ins'.by = ins.by /\ ins'.m = ins.m /\ ins'.tid = ins.tid
        /\ ins'.cached = ins.cached /\ ins'.sel = ins.sel /\ ins'.todo \subseteq ins.todo
        /\ ins.buf \in SUBSET Nodes /\ ins.by \in Backends
    BY <1>0, InsFacts DEF InsType
  <1>b. /\ cache' = [x \in Backends |-> cache'[x]]
        /\ \A x \in Backends :
             /\ cache'[x].gen = cache[x].gen /\ cache'[x].count = cache[x].count
             /\ cache'[x].nodes = cache[x].nodes
             /\ DOMAIN cache'[x].adj = DOMAIN cache[x].adj
             /\ IsCache(cache'[x])
    <2>1. CASE ~ins.cached
      BY <1>0, <2>1 DEF TypeOK, CacheType
    <2>2. CASE ins.cached
      <3>1. cache = [x \in Backends |-> cache[x]] /\ \A x \in Backends : IsCache(cache[x])
        BY DEF TypeOK, CacheType
      <3>2. \A x \in Backends : x # ins.by => cache'[x] = cache[x]
        BY <1>0, <2>2, <3>1
      <3>3. cache'[ins.by] = [cache[ins.by] EXCEPT !.adj[ins.src] = ins.buf]
        BY <1>0, <1>a, <2>2, <3>1
      <3>4. /\ cache'[ins.by].gen = cache[ins.by].gen /\ cache'[ins.by].count = cache[ins.by].count
            /\ cache'[ins.by].nodes = cache[ins.by].nodes
            /\ DOMAIN cache'[ins.by].adj = DOMAIN cache[ins.by].adj
            /\ IsCache(cache'[ins.by])
        <4>1. IsCache(cache[ins.by])
          BY <1>a, <3>1
        <4> DEFINE c == cache[ins.by]
                   d == cache'[ins.by]
                   a == [c.adj EXCEPT ![ins.src] = ins.buf]
        <4>2. c \in [gen : Nat, count : 0..MaxNodes, entry : Nodes \cup {None},
                     nodes : {c.nodes}, adj : {c.adj}]
          BY <4>1 DEF IsCache
        <4>3. d = [c EXCEPT !.adj[ins.src] = ins.buf]
          BY <3>3
        <4> HIDE DEF c, d
        <4>4. /\ d.gen = c.gen /\ d.count = c.count /\ d.entry = c.entry
              /\ d.nodes = c.nodes /\ d.adj = a
              /\ d \in [gen : Nat, count : 0..MaxNodes, entry : Nodes \cup {None},
                        nodes : {c.nodes}, adj : {a}]
          BY <4>2, <4>3
        <4>5. Partial(a, SUBSET Nodes) /\ DOMAIN a = DOMAIN c.adj
          BY <1>a, <4>1 DEF IsCache, Partial, c
        <4>6. IsCache(d)
          BY <4>1, <4>4, <4>5 DEF IsCache, c
        <4> QED BY <4>4, <4>5, <4>6 DEF c, d
      <3> QED BY <1>0, <2>2, <3>1, <3>2, <3>4
    <2> QED BY <2>1, <2>2
  <1>1. TypeOK'
    <2>1. PageType'
      BY <1>0, <1>a, UpdateAdjType DEF TypeOK, PageType
    <2> QED BY <1>0, <1>a, <1>b, <2>1 DEF TypeOK, HeapType, VacType, ScanType, CacheType
  <1>2. HeapInv' /\ VacInv' /\ RepairInv' /\ LiveInv' /\ IndexSound' /\ HitsInv(lax)'
    BY <1>0 DEF HeapInv, VacInv, RepairInv, LiveInv, IndexSound, HitsInv, ScanSound
  <1>3. ChainInv'
    BY <1>0, <1>a DEF ChainInv
  <1>4. InsInv'
    BY <1>0, <1>a, <1>b DEF InsInv
  <1>9. CacheInv(lax)'
    BY <1>0, <1>b DEF CacheInv, CacheOk, Missed
  <1>10. ScanInv(lax)'
    BY <1>0, <1>a, <1>b DEF ScanInv, Missed, Inserting
  <1> QED BY <1>1, <1>2, <1>3, <1>4, <1>9, <1>10

\* The appended code tuple is node count, one position past the chain.
LEMMA InsertAppendCodeInv ==
    ASSUME NEW lax \in BOOLEAN, InvWith(lax), InsertAppendCode
    PROVE  InvWith(lax)'
  <1> USE DEF InvWith
  <1>0. /\ ins.pc = "link" /\ code' = Append(code, NewTuple) /\ ins' = [ins EXCEPT !.pc = "adj"]
        /\ UNCHANGED <<heap, nextRow, adj, meta, vac, scan, cache>>
    BY DEF InsertAppendCode
  <1>a. /\ InsType' /\ ins'.pc = "adj" /\ ins'.by = ins.by /\ ins'.m = ins.m /\ ins'.tid = ins.tid
        /\ ins'.cached = ins.cached /\ ins'.sel = ins.sel /\ ins'.todo = ins.todo
    BY <1>0, InsFacts DEF InsType
  <1>b. /\ Len(code) = meta.count /\ meta.count \in Nat
        /\ NewTuple = [node |-> meta.count, tid |-> ins.tid, row |-> heap[ins.tid].row, dead |-> FALSE]
        /\ NewTuple \in CodeTuple /\ ins.tid \in Tids
        /\ heap[ins.tid].st = "inserting"
    <2>1. heap[ins.tid].row \in Rows /\ ins.tid \in Tids /\ heap[ins.tid].st = "inserting"
      BY <1>0, InsFacts DEF InsInv, HeapInv, TypeOK, HeapType, Rows
    <2>2. Len(code) = meta.count /\ meta.count \in Nat /\ meta.count \in Nodes /\ ins.m.count = meta.count
      BY <1>0, InsViewFacts DEF ChainInv
    <2>3. NewTuple = [node |-> meta.count, tid |-> ins.tid, row |-> heap[ins.tid].row, dead |-> FALSE]
      BY <2>2 DEF NewTuple
    <2> QED BY <2>1, <2>2, <2>3 DEF CodeTuple
  <1>c. /\ code' \in Seq(CodeTuple) /\ Len(code') = Len(code) + 1
        /\ \A i \in 1..Len(code) : code'[i] = code[i]
        /\ code'[Len(code) + 1] = NewTuple
    <2>1. code \in Seq(CodeTuple)
      BY DEF TypeOK, PageType
    <2>2. NewTuple \in CodeTuple
      BY <1>b
    <2>3. /\ Append(code, NewTuple) \in Seq(CodeTuple)
          /\ Len(Append(code, NewTuple)) = Len(code) + 1
          /\ \A i \in 1..Len(code) : Append(code, NewTuple)[i] = code[i]
          /\ Append(code, NewTuple)[Len(code) + 1] = NewTuple
      BY <2>1, <2>2, AppendProperties
    <2> QED BY <1>0, <2>3
  <1>d. NewTuple.tid = ins.tid /\ NewTuple.row = heap[ins.tid].row /\ NewTuple.node = meta.count
        /\ NewTuple.dead = FALSE
    BY <1>b
  <1>1. TypeOK'
    BY <1>0, <1>a, <1>c DEF TypeOK, PageType, HeapType, VacType, ScanType, CacheType
  <1>2. HeapInv' /\ RepairInv' /\ HitsInv(lax)'
    BY <1>0 DEF HeapInv, RepairInv, HitsInv, ScanSound
  <1>3. ChainInv'
    BY <1>0, <1>a, <1>b, <1>c, <1>d DEF ChainInv
  <1>4. InsInv'
    BY <1>0, <1>a, <1>b, <1>c DEF InsInv
  <1>5. VacInv'
    BY <1>0, <1>b, <1>c, <1>d DEF VacInv
  <1>7. LiveInv'
    BY <1>0, <1>b, <1>c DEF LiveInv
  <1>8. IndexSound'
    BY <1>0, <1>b, <1>c, <1>d DEF IndexSound
  <1>b2. \A b \in Backends : \A k \in DOMAIN cache[b].nodes : code'[k + 1] = code[k + 1]
    <2> TAKE b \in Backends
    <2> TAKE k \in DOMAIN cache[b].nodes
    <2>1. k \in Nat /\ k < cache[b].count /\ cache[b].count <= meta.count /\ cache[b].count \in Nat
      BY BoundsAssumption DEF TypeOK, CacheType, IsCache, Partial, Nodes, CacheInv, CacheOk
    <2>2. k + 1 \in 1..Len(code)
      BY <1>b, <2>1
    <2> QED BY <1>c, <2>2
  <1>9. CacheInv(lax)'
    BY <1>0, <1>b2, ZenonT(40) DEF CacheInv, CacheOk, Missed
  <1>10. ScanInv(lax)'
    BY <1>0, <1>a, <1>b2 DEF ScanInv, Missed, Inserting
  <1> QED BY <1>1, <1>2, <1>3, <1>4, <1>5, <1>7, <1>8, <1>9, <1>10

\* The append of the adjacency tuple.
LEMMA InsertAppendAdjInv ==
    ASSUME NEW lax \in BOOLEAN, InvWith(lax), InsertAppendAdj
    PROVE  InvWith(lax)'
  <1> USE DEF InvWith
  <1>0. /\ ins.pc = "adj" /\ ins' = [ins EXCEPT !.pc = "meta"]
        /\ adj' = Append(adj, [node |-> ins.m.count, nbrs |-> ins.sel])
        /\ UNCHANGED <<heap, nextRow, code, meta, vac, scan, cache>>
    BY DEF InsertAppendAdj
  <1>a. /\ InsType' /\ ins'.pc = "meta" /\ ins'.by = ins.by /\ ins'.m = ins.m /\ ins'.tid = ins.tid
        /\ ins'.cached = ins.cached /\ ins'.sel = ins.sel /\ ins'.todo = ins.todo
    BY <1>0, InsFacts DEF InsType
  <1>b. adj' \in Seq([node : Nodes, nbrs : SUBSET Nodes])
    BY <1>0, InsFacts, InsViewFacts, AppendProperties DEF TypeOK, PageType
  <1>1. TypeOK'
    BY <1>0, <1>a, <1>b DEF TypeOK, PageType, HeapType, VacType, ScanType, CacheType
  <1>2. HeapInv' /\ VacInv' /\ RepairInv' /\ LiveInv' /\ IndexSound' /\ HitsInv(lax)'
    BY <1>0 DEF HeapInv, VacInv, RepairInv, LiveInv, IndexSound, HitsInv, ScanSound
  <1>3. ChainInv'
    BY <1>0, <1>a DEF ChainInv
  <1>4. InsInv'
    BY <1>0, <1>a DEF InsInv
  <1>9. CacheInv(lax)'
    BY <1>0 DEF CacheInv, CacheOk, Missed
  <1>10. ScanInv(lax)'
    BY <1>0, <1>a DEF ScanInv, Missed, Inserting
  <1> QED BY <1>1, <1>2, <1>3, <1>4, <1>9, <1>10

\* The metapage update makes the appended node part of the graph and the
\* cache's own append keeps the cache equal to the chain.
LEMMA InsertUpdateMetaInv ==
    ASSUME NEW lax \in BOOLEAN, InvWith(lax), InsertUpdateMeta
    PROVE  InvWith(lax)'
  <1> USE DEF InvWith
  <1>i. PICK b \in Backends, n \in Nat : b = ins.by /\ n = meta.count
    BY InsFacts, MetaFacts DEF InsertUpdateMeta, TypeOK, PageType
  <1>0. /\ ins.pc = "meta" /\ meta' = InsertedMeta /\ ins' = InsIdle
        /\ heap' = [heap EXCEPT ![ins.tid].st = "live"]
        /\ cache' = [cache EXCEPT ![b] =
                       IF ins.cached
                       THEN AppendInsertCacheNode(@, ins.m.count, NewTuple, ins.sel,
                                                  InsertedMeta.entry)
                       ELSE @]
        /\ UNCHANGED <<nextRow, code, adj, vac, scan>>
    BY <1>i DEF InsertUpdateMeta
  <1>a. /\ n \in Nat /\ n < MaxNodes /\ n \in Nodes /\ Len(code) = n + 1 /\ ins.m.count = n
        /\ b \in Backends /\ ins.tid \in Tids /\ ins.sel \in SUBSET Nodes
        /\ heap[ins.tid].st = "inserting" /\ ins'.pc = "idle" /\ meta.gen \in Nat
        /\ ins.m \in MetaType /\ n = meta.count /\ b = ins.by
    <2>1. meta.gen \in Nat
      BY MetaFacts DEF TypeOK, PageType
    <2> QED BY <1>i, <1>0, <2>1, InsFacts, InsViewFacts DEF InsInv, ChainInv, InsIdle
  <1>b. /\ meta' \in MetaType /\ meta'.count = n + 1 /\ meta'.gen = meta.gen + 1
        /\ InsertedMeta.entry \in Nodes \cup {None}
    <2>1. Level[n] \in Nat
      BY <1>a, LevelAssumption DEF Nodes
    <2>2. ins.m.entry \in Nodes \cup {None} /\ ins.m.maxLevel \in Nat /\ ins.m.seeds \in SUBSET Nodes
      BY <1>a DEF MetaType
    <2> QED BY <1>0, <1>a, <2>1, <2>2, BoundsAssumption DEF InsertedMeta, MetaType
  <1>c. /\ HeapType'
        /\ \A u \in Tids : u # ins.tid => heap'[u] = heap[u]
        /\ heap'[ins.tid].st = "live" /\ heap'[ins.tid].row = heap[ins.tid].row
    BY <1>0, <1>a DEF TypeOK, HeapType
  <1>d. /\ NewTuple = [node |-> n, tid |-> ins.tid, row |-> heap[ins.tid].row, dead |-> FALSE]
        /\ code[n + 1] = NewTuple
        /\ NewTuple \in CodeTuple
    <2>1. NewTuple = [node |-> n, tid |-> ins.tid, row |-> heap[ins.tid].row, dead |-> FALSE]
      BY <1>a DEF NewTuple
    <2>2. code[n + 1] = NewTuple
      BY <1>0, <1>a, <2>1 DEF InsInv
    <2> QED BY <1>a, <2>1, <2>2, CodeFacts
  <1>e. /\ \A x \in Backends : x # b => cache'[x] = cache[x]
        /\ cache' = [x \in Backends |-> cache'[x]]
        /\ ~ins.cached => cache'[b] = cache[b]
        /\ ins.cached => /\ cache'[b] = AppendInsertCacheNode(cache[b], n, NewTuple, ins.sel,
                                                              InsertedMeta.entry)
                         /\ cache[b].count = n
    BY <1>0, <1>a DEF TypeOK, CacheType, InsInv
  <1>f. ins.cached =>
           /\ IsCache(cache'[b]) /\ cache'[b].gen = cache[b].gen /\ cache'[b].count = n + 1
           /\ DOMAIN cache'[b].adj = DOMAIN cache[b].adj \cup {n}
           /\ DOMAIN cache'[b].nodes = DOMAIN cache[b].nodes \cup {n}
           /\ cache'[b].nodes[n] = NewTuple
           /\ \A k \in DOMAIN cache[b].nodes : k # n => cache'[b].nodes[k] = cache[b].nodes[k]
    <2>1. IsCache(cache[b])
      BY <1>a DEF TypeOK, CacheType
    <2>3. /\ n \in Nodes /\ NewTuple \in CodeTuple /\ ins.sel \in SUBSET Nodes
          /\ InsertedMeta.entry \in Nodes \cup {None}
      BY <1>a, <1>b, <1>d
    <2>4. ins.cached => cache[b].count = n
      BY <1>e
    <2> SUFFICES ASSUME ins.cached
                 PROVE  /\ IsCache(cache'[b]) /\ cache'[b].gen = cache[b].gen /\ cache'[b].count = n + 1
                        /\ DOMAIN cache'[b].adj = DOMAIN cache[b].adj \cup {n}
                        /\ DOMAIN cache'[b].nodes = DOMAIN cache[b].nodes \cup {n}
                        /\ cache'[b].nodes[n] = NewTuple
                        /\ \A k \in DOMAIN cache[b].nodes : k # n => cache'[b].nodes[k] = cache[b].nodes[k]
      OBVIOUS
    <2> DEFINE c == cache[b]
               d == cache'[b]
               e == InsertedMeta.entry
               new == NewTuple
               sel == ins.sel
    <2>5. d = AppendInsertCacheNode(c, n, new, sel, e) /\ c.count = n /\ IsCache(c)
      BY <1>e, <2>1, <2>4
    <2>6. n \in Nodes /\ new \in CodeTuple /\ sel \in SUBSET Nodes /\ e \in Nodes \cup {None}
      BY <2>3
    <2>7. /\ IsCache(d) /\ d.gen = c.gen /\ d.count = n + 1
          /\ DOMAIN d.adj = DOMAIN c.adj \cup {n}
          /\ DOMAIN d.nodes = DOMAIN c.nodes \cup {n}
          /\ d.nodes[n] = new
          /\ \A k \in DOMAIN c.nodes : k # n => d.nodes[k] = c.nodes[k]
      <3> DEFINE nd == [k \in DOMAIN c.nodes \cup {n} |-> IF k = n THEN new ELSE c.nodes[k]]
                 ad == [k \in DOMAIN c.adj \cup {n} |-> IF k = n THEN sel ELSE c.adj[k]]
      <3> HIDE DEF c, d, e, new, sel
      <3>1. c \in [gen : Nat, count : 0..MaxNodes, entry : Nodes \cup {None},
                   nodes : {c.nodes}, adj : {c.adj}]
        BY <2>5 DEF IsCache
      <3>2. d = [c EXCEPT !.count = n + 1, !.entry = e, !.nodes = nd, !.adj = ad]
        BY <2>5, <3>1 DEF AppendInsertCacheNode
      <3>3. n + 1 \in 0..MaxNodes
        BY <1>a, BoundsAssumption
      <3> HIDE DEF nd, ad
      <3>4. /\ d.gen = c.gen /\ d.count = n + 1 /\ d.entry = e
            /\ d.nodes = nd /\ d.adj = ad
            /\ d \in [gen : Nat, count : 0..MaxNodes, entry : Nodes \cup {None},
                      nodes : {nd}, adj : {ad}]
        BY <2>6, <3>1, <3>2, <3>3
      <3>5. Partial(nd, CodeTuple)
        BY <2>5, <2>6 DEF IsCache, Partial, nd
      <3>6. Partial(ad, SUBSET Nodes)
        BY <2>5, <2>6 DEF IsCache, Partial, ad
      <3>7. IsCache(d)
        BY <3>4, <3>5, <3>6 DEF IsCache
      <3> QED BY <3>4, <3>7 DEF nd, ad
    <2> QED BY <2>7
  <1>1. TypeOK'
    <2>1. \A x \in Backends : IsCache(cache'[x])
      BY <1>e, <1>f DEF TypeOK, CacheType
    <2> QED BY <1>0, <1>b, <1>c, <1>e, <2>1 DEF TypeOK, PageType, InsType, VacType, ScanType, CacheType
  <1>2. HeapInv'
    BY <1>0, <1>c, <1>a DEF HeapInv
  <1>3. ChainInv'
    BY <1>0, <1>a, <1>b DEF ChainInv
  <1>4. InsInv'
    BY <1>a DEF InsInv
  <1>5. VacInv'
    BY <1>0, <1>a, <1>b, <1>c DEF VacInv, TypeOK, VacType
  <1>6. RepairInv'
    BY <1>0 DEF RepairInv
  <1>7. LiveInv'
    <2>1. code'[n + 1] = [node |-> (n + 1) - 1, tid |-> ins.tid, row |-> heap'[ins.tid].row, dead |-> FALSE]
      <3>1. (n + 1) - 1 = n
        BY <1>a
      <3> QED BY <1>0, <1>c, <1>d, <3>1, Zenon
    <2>2. ASSUME NEW t \in Tids, heap'[t].st = "live", t # ins.tid
          PROVE  \E i \in 1..(n + 1) : code'[i] = [node |-> i - 1, tid |-> t,
                                                   row |-> heap'[t].row, dead |-> FALSE]
      BY <1>0, <1>a, <1>c, <2>2 DEF LiveInv
    <2>3. n + 1 \in 1..(n + 1)
      BY <1>a
    <2> QED BY <1>b, <2>1, <2>2, <2>3 DEF LiveInv
  <1>8. IndexSound'
    BY <1>0, <1>a, <1>c, CodeFacts DEF IndexSound
  <1>u. UNCHANGED <<code, vac, scan>>
    BY <1>0
  <1>9. CacheInv(lax)'
    <2>1. ASSUME NEW x \in Backends, cache'[x] = cache[x]
          PROVE  CacheOk(x, lax)'
      <3>1. cache[x].gen \in Nat /\ cache[x].count \in Nat
        BY BoundsAssumption DEF TypeOK, CacheType, IsCache
      <3>2. CacheOk(x, lax)
        BY DEF CacheInv
      <3> QED BY <1>u, <1>a, <1>b, <2>1, <3>1, <3>2 DEF CacheOk, Missed
    <2>2. ASSUME ins.cached PROVE CacheOk(b, lax)'
      <3>1. /\ CacheOk(b, lax) /\ IsCache(cache[b]) /\ cache[b].gen \in Nat /\ cache[b].count = n
        BY <1>a, <1>e, <2>2 DEF TypeOK, CacheType, IsCache, CacheInv
      <3>2. DOMAIN cache'[b].adj = 0..((n + 1) - 1)
        <4>1. 0..((n + 1) - 1) = 0..(n - 1) \cup {n}
          BY <1>a
        <4>2. DOMAIN cache[b].adj = 0..(n - 1)
          BY <3>1 DEF CacheOk
        <4> QED BY <1>f, <2>2, <4>1, <4>2
      <3>3. NewTuple.tid = code[n + 1].tid /\ NewTuple.row = code[n + 1].row /\ code[n + 1].dead = FALSE
        BY <1>d
      <3>4. \A k \in DOMAIN cache[b].nodes : k \in Nat /\ k < n /\ k # n
        BY <1>a, <3>1 DEF IsCache, CacheOk, Partial, Nodes
      <3>5. \A k \in DOMAIN cache'[b].nodes :
              /\ k < n + 1
              /\ cache'[b].nodes[k].tid = code[k + 1].tid
              /\ cache'[b].nodes[k].row = code[k + 1].row
        <4> TAKE k \in DOMAIN cache'[b].nodes
        <4>1. CASE k = n
          BY <1>a, <1>f, <2>2, <3>3, <4>1
        <4>2. CASE k \in DOMAIN cache[b].nodes
          <5>1. cache'[b].nodes[k] = cache[b].nodes[k] /\ k \in Nat /\ k < n
            BY <1>f, <2>2, <3>4, <4>2
          <5>2. cache[b].nodes[k].tid = code[k + 1].tid /\ cache[b].nodes[k].row = code[k + 1].row
            BY <3>1, <4>2 DEF CacheOk
          <5> QED BY <1>a, <5>1, <5>2
        <4> QED BY <1>f, <2>2, <4>1, <4>2
      <3>6. \A k \in DOMAIN cache'[b].nodes :
              ~cache'[b].nodes[k].dead /\ code[k + 1].dead => cache[b].gen < meta.gen + 1
        BY <1>a, <3>1 DEF CacheOk
      <3> QED BY <1>u, <1>b, <1>f, <2>2, <3>1, <3>2, <3>5, <3>6, <1>a DEF CacheOk, Missed
    <2> QED BY <1>e, <2>1, <2>2 DEF CacheInv
  <1>10. ScanInv(lax)'
    <2>1. \A x \in Backends : scan[x].m.gen \in Nat /\ scan[x].m.count \in Nat
      BY MetaFacts DEF TypeOK, ScanType
    <2> QED BY <1>0, <1>a, <1>b, <1>e, <2>1 DEF ScanInv, Missed, Inserting
  <1>11. HitsInv(lax)'
    BY <1>0, <1>a, <1>c DEF HitsInv, ScanSound, TypeOK, ScanType
  <1> QED BY <1>1, <1>2, <1>3, <1>4, <1>5, <1>6, <1>7, <1>8, <1>9, <1>10, <1>11

\* Types of the local state of VACUUM.
LEMMA VacFacts ==
    ASSUME TypeOK
    PROVE  /\ vac \in [pc : {"idle", "read", "lock", "reap"} \cup VacLocked,
                       tids : SUBSET Tids, n : 0..MaxNodes, pos : Nat, dead : SUBSET Nodes,
                       k : 0..MaxNodes, adj : {vac.adj},
                       todo : SUBSET (Nodes \X Nodes), upd : SUBSET Nodes, changed : BOOLEAN]
           /\ vac.pc \in {"idle", "read", "lock", "reap"} \cup VacLocked
           /\ vac.tids \subseteq Tids /\ vac.n \in Nat /\ vac.n <= MaxNodes /\ vac.pos \in Nat
           /\ vac.dead \subseteq Nodes /\ vac.k \in Nat /\ vac.changed \in BOOLEAN
           /\ vac.todo \subseteq Nodes \X Nodes /\ vac.upd \subseteq Nodes
           /\ DOMAIN vac.adj \subseteq Nodes /\ vac.adj \in [DOMAIN vac.adj -> SUBSET Nodes]
  <1>1. /\ vac \in [pc : {"idle", "read", "lock", "reap"} \cup VacLocked,
                    tids : SUBSET Tids, n : 0..MaxNodes, pos : Nat, dead : SUBSET Nodes,
                    k : 0..MaxNodes, adj : {vac.adj},
                    todo : SUBSET (Nodes \X Nodes), upd : SUBSET Nodes, changed : BOOLEAN]
        /\ Partial(vac.adj, SUBSET Nodes)
    BY DEF TypeOK, VacType
  <1>2. /\ vac.pc \in {"idle", "read", "lock", "reap"} \cup VacLocked
        /\ vac.tids \subseteq Tids /\ vac.n \in 0..MaxNodes /\ vac.pos \in Nat
        /\ vac.dead \subseteq Nodes /\ vac.k \in 0..MaxNodes /\ vac.changed \in BOOLEAN
        /\ vac.todo \subseteq Nodes \X Nodes /\ vac.upd \subseteq Nodes
    BY <1>1
  <1> QED BY <1>1, <1>2, BoundsAssumption DEF Partial

\* The tuple of an insert in progress is not one VACUUM is to mark.
LEMMA MarkedBelowCount ==
    ASSUME NEW lax \in BOOLEAN, InvWith(lax), NEW i \in 1..Len(code), code[i].tid \in vac.tids
    PROVE  i <= meta.count
  <1>1. CASE ins.pc \in {"adj", "meta"}
    <2>1. code[Len(code)].tid = ins.tid /\ heap[ins.tid].st = "inserting"
      BY <1>1 DEF InvWith, InsInv
    <2>2. i # Len(code)
      BY <2>1 DEF InvWith, VacInv
    <2>3. Len(code) = meta.count + 1 /\ Len(code) \in Nat /\ meta.count \in Nat
      BY <1>1, CodeFacts, MetaFacts DEF InvWith, ChainInv, TypeOK, PageType
    <2> QED BY <2>2, <2>3
  <1>2. CASE ins.pc \notin {"adj", "meta"}
    <2>1. Len(code) = meta.count /\ Len(code) \in Nat
      BY <1>2, CodeFacts, MetaFacts DEF InvWith, ChainInv, TypeOK, PageType
    <2> QED BY <2>1
  <1> QED BY <1>1, <1>2

\* VACUUM starts with line pointers that are dead.
LEMMA VacuumCollectInv ==
    ASSUME NEW lax \in BOOLEAN, InvWith(lax), VacuumCollect
    PROVE  InvWith(lax)'
  <1> USE DEF InvWith
  <1>0. PICK dead \in SUBSET Tids :
          /\ vac.pc = "idle" /\ \A t \in dead : heap[t].st = "dead"
          /\ vac' = [vac EXCEPT !.pc = "read", !.tids = dead]
          /\ UNCHANGED <<heap, nextRow, code, adj, meta, ins, scan, cache>>
    BY DEF VacuumCollect
  <1>a. /\ vac'.pc = "read" /\ vac'.tids = dead /\ vac'.n = vac.n /\ vac'.pos = vac.pos
        /\ vac'.dead = vac.dead /\ vac'.k = vac.k /\ vac'.adj = vac.adj /\ vac'.todo = vac.todo
        /\ vac'.upd = vac.upd /\ vac'.changed = vac.changed
        /\ vac' \in [pc : {"read"}, tids : SUBSET Tids, n : 0..MaxNodes, pos : Nat,
                     dead : SUBSET Nodes, k : 0..MaxNodes, adj : {vac.adj},
                     todo : SUBSET (Nodes \X Nodes), upd : SUBSET Nodes, changed : BOOLEAN]
    BY <1>0, VacFacts
  <1>1. VacType'
    BY <1>a, VacFacts DEF VacType, Partial
  <1>2. VacInv'
    BY <1>0, <1>a DEF VacInv
  <1>3. RepairInv'
    BY <1>0, <1>a DEF RepairInv
  <1> QED BY <1>0, <1>a, <1>1, <1>2, <1>3, VacOnly DEF VacLocked, TypeOK, PageType

\* The count read before SCAN_LOCK covers every tuple that is to be marked:
\* rows of later inserts are not dead.
LEMMA VacuumReadMetaInv ==
    ASSUME NEW lax \in BOOLEAN, InvWith(lax), VacuumReadMeta
    PROVE  InvWith(lax)'
  <1> USE DEF InvWith
  <1>0. PICK pc \in {"reap", "lock"} :
          /\ vac.pc = "read" /\ (pc = "reap" <=> meta.count = 0)
          /\ vac' = [vac EXCEPT !.pc = pc, !.n = meta.count]
          /\ UNCHANGED <<heap, nextRow, code, adj, meta, ins, scan, cache>>
    BY DEF VacuumReadMeta
  <1>b. meta.count \in Nat /\ meta.count \in 0..MaxNodes
    BY MetaFacts DEF TypeOK, PageType
  <1>a. /\ vac'.pc = pc /\ vac'.tids = vac.tids /\ vac'.n = meta.count /\ vac'.pos = vac.pos
        /\ vac'.dead = vac.dead /\ vac'.k = vac.k /\ vac'.adj = vac.adj /\ vac'.todo = vac.todo
        /\ vac'.upd = vac.upd /\ vac'.changed = vac.changed
        /\ vac' \in [pc : {pc}, tids : SUBSET Tids, n : 0..MaxNodes, pos : Nat,
                     dead : SUBSET Nodes, k : 0..MaxNodes, adj : {vac.adj},
                     todo : SUBSET (Nodes \X Nodes), upd : SUBSET Nodes, changed : BOOLEAN]
    BY <1>0, <1>b, VacFacts
  <1>1. VacType'
    BY <1>a, VacFacts DEF VacType, Partial
  <1>2. VacInv'
    <2>1. \A i \in 1..Len(code) : code[i].tid \in vac.tids => i <= meta.count /\ meta.count # 0
      BY <1>b, MarkedBelowCount, CodeFacts
    <2> QED BY <1>0, <1>a, <1>b, <2>1 DEF VacInv
  <1>3. RepairInv'
    BY <1>0, <1>a, <1>b, VacFacts DEF RepairInv, VacInv
  <1> QED BY <1>0, <1>a, <1>1, <1>2, <1>3, VacOnly DEF VacLocked, TypeOK, PageType

\* SCAN_LOCK in exclusive mode keeps scans out.
LEMMA VacuumLockInv ==
    ASSUME NEW lax \in BOOLEAN, InvWith(lax), VacuumLock
    PROVE  InvWith(lax)'
  <1> USE DEF InvWith
  <1>0. /\ vac.pc = "lock" /\ \A b \in Backends : scan[b].pc # "locked"
        /\ vac' = [vac EXCEPT !.pc = "page"]
        /\ UNCHANGED <<heap, nextRow, code, adj, meta, ins, scan, cache>>
    BY DEF VacuumLock
  <1>a. /\ vac'.pc = "page" /\ vac'.tids = vac.tids /\ vac'.n = vac.n /\ vac'.pos = vac.pos
        /\ vac'.dead = vac.dead /\ vac'.k = vac.k /\ vac'.adj = vac.adj /\ vac'.todo = vac.todo
        /\ vac'.upd = vac.upd /\ vac'.changed = vac.changed
        /\ vac' \in [pc : {"page"}, tids : SUBSET Tids, n : 0..MaxNodes, pos : Nat,
                     dead : SUBSET Nodes, k : 0..MaxNodes, adj : {vac.adj},
                     todo : SUBSET (Nodes \X Nodes), upd : SUBSET Nodes, changed : BOOLEAN]
    BY <1>0, VacFacts
  <1>1. VacType'
    BY <1>a, VacFacts DEF VacType, Partial, VacLocked
  <1>2. VacInv'
    BY <1>0, <1>a, CodeFacts DEF VacInv
  <1>3. RepairInv'
    BY <1>0, <1>a DEF RepairInv
  <1> QED BY <1>0, <1>a, <1>1, <1>2, <1>3, VacOnly DEF VacLocked, TypeOK, PageType

\* Reading the adjacency of one node for the repair.
LEMMA VacuumLoadAdjInv ==
    ASSUME NEW lax \in BOOLEAN, InvWith(lax), VacuumLoadAdj
    PROVE  InvWith(lax)'
  <1> USE DEF InvWith
  <1> DEFINE read == [j \in 0..vac.k |-> IF j = vac.k THEN LoadAdjTuple(vac.k) ELSE vac.adj[j]]
             pc == IF vac.k + 1 >= vac.n THEN "repair" ELSE "load"
             todo == IF vac.k + 1 >= vac.n
                     THEN {p \in vac.dead \X (0..vac.k \ vac.dead) : p[1] \in read[p[2]]} ELSE {}
  <1>0. /\ vac.pc = "load"
        /\ vac' = [vac EXCEPT !.adj = read, !.k = @ + 1, !.pc = pc, !.todo = todo]
        /\ UNCHANGED <<heap, nextRow, code, adj, meta, ins, scan, cache>>
    BY DEF VacuumLoadAdj
  <1>b. /\ vac.k < vac.n /\ vac.k \in Nat /\ vac.n \in Nat /\ vac.n <= MaxNodes
        /\ DOMAIN vac.adj = 0..(vac.k - 1) /\ vac.dead \subseteq 0..(vac.n - 1)
    BY <1>0, VacFacts DEF RepairInv
  <1>c. 0..vac.k \subseteq Nodes /\ 0..(vac.n - 1) \subseteq Nodes /\ 0..vac.k \subseteq 0..(vac.n - 1)
        /\ vac.k + 1 \in 0..MaxNodes
    BY <1>b, BoundsAssumption DEF Nodes
  <1>d. todo \subseteq (0..(vac.n - 1)) \X (0..(vac.n - 1)) /\ todo \subseteq Nodes \X Nodes
    BY <1>b, <1>c
  <1>e. read \in [0..vac.k -> SUBSET Nodes]
    <2>1. \A j \in 0..vac.k : j # vac.k => j \in DOMAIN vac.adj
      BY <1>b
    <2>2. \A j \in DOMAIN vac.adj : vac.adj[j] \in SUBSET Nodes
      BY VacFacts
    <2>3. LoadAdjTuple(vac.k) \in SUBSET Nodes
      BY AdjFacts
    <2> QED BY <2>1, <2>2, <2>3
  <1>f. pc \in {"repair", "load"} /\ (pc = "repair" => vac.k + 1 = vac.n)
        /\ (pc = "load" => vac.k + 1 < vac.n /\ todo = {})
    BY <1>b
  <1> HIDE DEF read, pc, todo
  <1>a. /\ vac'.pc = pc /\ vac'.tids = vac.tids /\ vac'.n = vac.n /\ vac'.pos = vac.pos
        /\ vac'.dead = vac.dead /\ vac'.k = vac.k + 1 /\ vac'.adj = read /\ vac'.todo = todo
        /\ vac'.upd = vac.upd /\ vac'.changed = vac.changed
        /\ vac' \in [pc : {pc}, tids : SUBSET Tids, n : 0..MaxNodes, pos : Nat,
                     dead : SUBSET Nodes, k : 0..MaxNodes, adj : {read},
                     todo : SUBSET (Nodes \X Nodes), upd : SUBSET Nodes, changed : BOOLEAN]
    BY <1>0, <1>c, <1>d, VacFacts
  <1>1. VacType'
    BY <1>0, <1>a, <1>c, <1>e, <1>f DEF VacType, Partial, VacLocked
  <1>2. VacInv'
    BY <1>0, <1>a, <1>f DEF VacInv
  <1>3. RepairInv'
    <2>1. DOMAIN read = 0..((vac.k + 1) - 1)
      BY <1>b, <1>e
    <2>2. \A p \in todo : p[1] \in vac.dead /\ p[2] \in 0..(vac.n - 1) \ vac.dead
      BY <1>d DEF todo
    <2> QED BY <1>0, <1>a, <1>f, <2>1, <2>2 DEF RepairInv
  <1> QED BY <1>0, <1>a, <1>f, <1>1, <1>2, <1>3, VacOnly DEF VacLocked, TypeOK, PageType

\* The maps a reciprocal installation can produce.
LEMMA InstallFacts ==
    ASSUME NEW lax \in BOOLEAN, InvWith(lax), vac.pc = "repair", NEW p \in vac.todo,
           NEW c \in RepairCandidates(p[1], p[2]),
           NEW new \in InstallReciprocal(p[1], p[2], c)
    PROVE  new \in [0..(vac.n - 1) -> SUBSET Nodes]
  <1> USE DEF InvWith
  <1>1. /\ p[1] \in 0..(vac.n - 1) /\ p[2] \in 0..(vac.n - 1)
        /\ vac.n \in Nat /\ DOMAIN vac.adj = 0..(vac.n - 1)
        /\ vac.adj \in [0..(vac.n - 1) -> SUBSET Nodes] /\ 0..(vac.n - 1) \subseteq Nodes
    BY VacFacts, BoundsAssumption DEF RepairInv, Nodes
  <1>2. c \in Nodes /\ c < vac.n
    <2>1. vac.adj[p[1]] \subseteq Nodes
      BY <1>1
    <2>2. \A j \in vac.adj[p[1]] : j < vac.n => j \in 0..(vac.n - 1)
      BY <1>1, <2>1 DEF Nodes
    <2>3. \A j \in 0..(vac.n - 1) : vac.adj[j] \subseteq Nodes
      BY <1>1
    <2> QED BY <2>1, <2>2, <2>3 DEF RepairCandidates, VacLive
  <1>3. c \in 0..(vac.n - 1)
    BY <1>1, <1>2 DEF Nodes
  <1>4. PICK s : /\ new = [vac.adj EXCEPT ![p[2]] = (@ \ {p[1]}) \cup {c}, ![c] = s]
                 /\ \/ s = vac.adj[c]
                    \/ \E j : s = (vac.adj[c] \ {j}) \cup {p[2]}
                    \/ s = vac.adj[c] \cup {p[2]}
    BY DEF InstallReciprocal
  <1>5. s \in SUBSET Nodes
    BY <1>1, <1>3, <1>4
  <1> QED BY <1>1, <1>2, <1>3, <1>4, <1>5

\* One (dead node, source) pair of the in-memory repair.
LEMMA VacuumRepairInv ==
    ASSUME NEW lax \in BOOLEAN, InvWith(lax), VacuumRepair
    PROVE  InvWith(lax)'
  <1> USE DEF InvWith
  <1>0. /\ vac.pc = "repair"
        /\ UNCHANGED <<heap, nextRow, code, adj, meta, ins, scan, cache>>
    BY DEF VacuumRepair
  <1>b. /\ vac.n \in Nat /\ vac.k = vac.n /\ DOMAIN vac.adj = 0..(vac.n - 1)
        /\ 0..(vac.n - 1) \subseteq Nodes /\ vac.upd \subseteq 0..(vac.n - 1)
    BY <1>0, VacFacts, BoundsAssumption DEF RepairInv, Nodes
  <1>c. PICK pc \in {"repair", "write"}, todo \in SUBSET vac.todo,
             upd \in SUBSET (0..(vac.n - 1)), new \in [0..(vac.n - 1) -> SUBSET Nodes] :
          /\ vac' = [vac EXCEPT !.pc = pc, !.adj = new, !.todo = todo, !.upd = upd]
          /\ pc = "write" => todo = {}
    <2>v. /\ vac.adj \in [0..(vac.n - 1) -> SUBSET Nodes]
          /\ vac.upd \in SUBSET (0..(vac.n - 1)) /\ vac.todo \in SUBSET vac.todo
      BY <1>b, VacFacts
    <2>1. CASE vac.todo = {} /\ vac' = [vac EXCEPT !.pc = "write"]
      <3>1. vac.todo = {} /\
            vac' = [vac EXCEPT !.pc = "write", !.adj = vac.adj, !.todo = vac.todo, !.upd = vac.upd]
        BY <2>1, VacFacts
      <3> QED BY <2>v, <3>1
    <2>2. ASSUME NEW p \in vac.todo, vac' = [vac EXCEPT !.todo = @ \ {p}]
          PROVE  \E todo \in SUBSET vac.todo :
                   vac' = [vac EXCEPT !.pc = "repair", !.adj = vac.adj, !.todo = todo, !.upd = vac.upd]
      <3>1. vac' = [vac EXCEPT !.pc = "repair", !.adj = vac.adj, !.todo = vac.todo \ {p}, !.upd = vac.upd]
        BY <1>0, <2>2, VacFacts
      <3> QED BY <3>1
    <2>3. ASSUME NEW p \in vac.todo,
                 NEW new \in UNION {InstallReciprocal(p[1], p[2], c) :
                                      c \in RepairCandidates(p[1], p[2])},
                 vac' = [vac EXCEPT !.adj = new, !.todo = @ \ {p},
                              !.upd = @ \cup {k \in DOMAIN new : new[k] # vac.adj[k]}]
          PROVE  \E todo \in SUBSET vac.todo, upd \in SUBSET (0..(vac.n - 1)),
                    nw \in [0..(vac.n - 1) -> SUBSET Nodes] :
                   vac' = [vac EXCEPT !.pc = "repair", !.adj = nw, !.todo = todo, !.upd = upd]
      <3>1. new \in [0..(vac.n - 1) -> SUBSET Nodes]
        <4>1. PICK c \in RepairCandidates(p[1], p[2]) : new \in InstallReciprocal(p[1], p[2], c)
          OBVIOUS
        <4> QED BY <1>0, <4>1, InstallFacts
      <3> DEFINE u == vac.upd \cup {k \in DOMAIN new : new[k] # vac.adj[k]}
      <3>2. u \in SUBSET (0..(vac.n - 1))
        BY <1>b, <3>1
      <3>3. vac' = [vac EXCEPT !.pc = "repair", !.adj = new, !.todo = vac.todo \ {p}, !.upd = u]
        BY <1>0, <2>3, VacFacts
      <3> HIDE DEF u
      <3> QED BY <3>1, <3>2, <3>3
    <2>4. \/ vac.todo = {} /\ vac' = [vac EXCEPT !.pc = "write"]
          \/ \E p \in vac.todo : vac' = [vac EXCEPT !.todo = @ \ {p}]
          \/ \E p \in vac.todo :
               \E new \in UNION {InstallReciprocal(p[1], p[2], c) : c \in RepairCandidates(p[1], p[2])} :
                 vac' = [vac EXCEPT !.adj = new, !.todo = @ \ {p},
                            !.upd = @ \cup {k \in DOMAIN new : new[k] # vac.adj[k]}]
      BY Zenon DEF VacuumRepair
    <2> QED BY <2>v, <2>1, <2>2, <2>3, <2>4
  <1>a. /\ vac'.pc = pc /\ vac'.tids = vac.tids /\ vac'.n = vac.n /\ vac'.pos = vac.pos
        /\ vac'.dead = vac.dead /\ vac'.k = vac.k /\ vac'.adj = new /\ vac'.todo = todo
        /\ vac'.upd = upd /\ vac'.changed = vac.changed
        /\ vac' \in [pc : {pc}, tids : SUBSET Tids, n : 0..MaxNodes, pos : Nat,
                     dead : SUBSET Nodes, k : 0..MaxNodes, adj : {new},
                     todo : SUBSET (Nodes \X Nodes), upd : SUBSET Nodes, changed : BOOLEAN]
    BY <1>b, <1>c, VacFacts
  <1>1. VacType'
    BY <1>a, <1>b DEF VacType, Partial, VacLocked
  <1>2. VacInv'
    BY <1>0, <1>a DEF VacInv
  <1>3. RepairInv'
    BY <1>0, <1>a, <1>b, <1>c DEF RepairInv
  <1> QED BY <1>0, <1>a, <1>1, <1>2, <1>3, VacOnly DEF VacLocked, TypeOK, PageType

\* Writing one repaired tuple back.
LEMMA VacuumWriteAdjInv ==
    ASSUME NEW lax \in BOOLEAN, InvWith(lax), VacuumWriteAdj
    PROVE  InvWith(lax)'
  <1> USE DEF InvWith
  <1>0. /\ vac.pc = "write"
        /\ UNCHANGED <<heap, nextRow, code, meta, ins, scan, cache>>
    BY DEF VacuumWriteAdj
  <1>b. /\ vac.n \in Nat /\ vac.k = vac.n /\ DOMAIN vac.adj = 0..(vac.n - 1)
        /\ vac.adj \in [0..(vac.n - 1) -> SUBSET Nodes] /\ vac.upd \subseteq 0..(vac.n - 1)
    BY <1>0, VacFacts DEF RepairInv
  <1>c. PageType' /\
        \E pc \in {"write", "entries"}, upd \in SUBSET vac.upd, changed \in BOOLEAN :
          /\ vac' = [vac EXCEPT !.pc = pc, !.upd = upd, !.changed = changed]
          /\ vac.changed => changed
          /\ pc = "entries" => vac.upd = {} /\ upd = {}
    <2>1. CASE vac.upd = {} /\ vac' = [vac EXCEPT !.pc = "entries"] /\ adj' = adj
      <3>1. vac' = [vac EXCEPT !.pc = "entries", !.upd = vac.upd, !.changed = vac.changed]
        BY <2>1, VacFacts
      <3>2. PageType'
        BY <1>0, <2>1 DEF TypeOK, PageType
      <3>3. vac.changed \in BOOLEAN
        BY VacFacts
      <3> QED BY <2>1, <3>1, <3>2, <3>3
    <2>2. ASSUME NEW k \in vac.upd, adj' = UpdateAdjTuple(FirstAdj(k), vac.adj[k]),
                 vac' = [vac EXCEPT !.upd = @ \ {k}, !.changed = TRUE]
          PROVE  /\ PageType'
                 /\ vac' = [vac EXCEPT !.pc = "write", !.upd = vac.upd \ {k}, !.changed = TRUE]
      <3>1. vac.adj[k] \in SUBSET Nodes
        BY <1>b
      <3>2. PageType'
        BY <1>0, <2>2, <3>1, UpdateAdjType DEF TypeOK, PageType
      <3> QED BY <1>0, <2>2, <3>2, VacFacts
    <2> QED BY <2>1, <2>2 DEF VacuumWriteAdj
  <1>d. PICK pc \in {"write", "entries"}, upd \in SUBSET vac.upd, changed \in BOOLEAN :
          /\ vac' = [vac EXCEPT !.pc = pc, !.upd = upd, !.changed = changed]
          /\ vac.changed => changed
          /\ pc = "entries" => vac.upd = {} /\ upd = {}
    BY <1>c
  <1>a. /\ vac'.pc = pc /\ vac'.tids = vac.tids /\ vac'.n = vac.n /\ vac'.pos = vac.pos
        /\ vac'.dead = vac.dead /\ vac'.k = vac.k /\ vac'.adj = vac.adj /\ vac'.todo = vac.todo
        /\ vac'.upd = upd /\ vac'.changed = changed
        /\ vac' \in [pc : {pc}, tids : SUBSET Tids, n : 0..MaxNodes, pos : Nat,
                     dead : SUBSET Nodes, k : 0..MaxNodes, adj : {vac.adj},
                     todo : SUBSET (Nodes \X Nodes), upd : SUBSET Nodes, changed : BOOLEAN]
    BY <1>d, VacFacts
  <1>1. VacType'
    BY <1>a, VacFacts DEF VacType, Partial, VacLocked
  <1>2. VacInv'
    BY <1>0, <1>a DEF VacInv
  <1>3. RepairInv'
    BY <1>0, <1>a, <1>b, <1>d DEF RepairInv
  <1> QED BY <1>0, <1>a, <1>c, <1>d, <1>1, <1>2, <1>3, VacOnly DEF VacLocked

\* Repairing entry and seeds changes neither count nor generation.
LEMMA VacuumRepairEntriesInv ==
    ASSUME NEW lax \in BOOLEAN, InvWith(lax), VacuumRepairEntries
    PROVE  InvWith(lax)'
  <1> USE DEF InvWith
  <1>0. /\ vac.pc = "entries"
        /\ vac' = [vac EXCEPT !.pc = "bump", !.changed = @ \/ meta' # meta]
        /\ UNCHANGED <<heap, nextRow, code, adj, ins, scan, cache>>
        /\ \/ meta' = meta
           \/ \E best \in Nodes : meta' = RepairedEntries(best)
    BY DEF VacuumRepairEntries
  <1>b. PageType' /\ meta'.count = meta.count /\ meta'.gen = meta.gen
    <2>1. CASE meta' = meta
      BY <1>0, <2>1 DEF TypeOK, PageType
    <2>2. ASSUME NEW best \in Nodes, meta' = RepairedEntries(best)
          PROVE  meta' \in MetaType /\ meta'.count = meta.count /\ meta'.gen = meta.gen
      BY <2>2 DEF TypeOK, PageType, MetaType, RepairedEntries
    <2> QED BY <1>0, <2>1, <2>2 DEF TypeOK, PageType
  <1>c. PICK changed \in BOOLEAN :
          (vac.changed => changed) /\ vac' = [vac EXCEPT !.pc = "bump", !.changed = changed]
    BY <1>0
  <1>a. /\ vac'.pc = "bump" /\ vac'.tids = vac.tids /\ vac'.n = vac.n /\ vac'.pos = vac.pos
        /\ vac'.dead = vac.dead /\ vac'.k = vac.k /\ vac'.adj = vac.adj /\ vac'.todo = vac.todo
        /\ vac'.upd = vac.upd /\ vac'.changed = changed
        /\ vac' \in [pc : {"bump"}, tids : SUBSET Tids, n : 0..MaxNodes, pos : Nat,
                     dead : SUBSET Nodes, k : 0..MaxNodes, adj : {vac.adj},
                     todo : SUBSET (Nodes \X Nodes), upd : SUBSET Nodes, changed : BOOLEAN]
    BY <1>c, VacFacts
  <1>1. VacType'
    BY <1>a, VacFacts DEF VacType, Partial, VacLocked
  <1>2. VacInv'
    BY <1>0, <1>a, <1>b DEF VacInv
  <1>3. RepairInv'
    BY <1>0, <1>a DEF RepairInv
  <1> QED BY <1>0, <1>a, <1>b, <1>c, <1>1, <1>2, <1>3, VacOnly DEF VacLocked

\* The generation bump outdates every cache that misses a mark before scans
\* are let in.
LEMMA VacuumBumpInv ==
    ASSUME NEW lax \in BOOLEAN, InvWith(lax), VacuumBump
    PROVE  InvWith(lax)'
  <1> USE DEF InvWith
  <1>0. /\ vac.pc = "bump"
        /\ meta' = IF vac.changed THEN [meta EXCEPT !.gen = @ + 1] ELSE meta
        /\ vac' = [VacIdle EXCEPT !.pc = "reap", !.tids = vac.tids]
        /\ UNCHANGED <<heap, nextRow, code, adj, ins, scan, cache>>
    BY DEF VacuumBump
  <1>a. /\ meta' \in MetaType /\ meta'.count = meta.count /\ meta.gen \in Nat /\ meta.count \in Nat
        /\ meta'.gen = IF vac.changed THEN meta.gen + 1 ELSE meta.gen
    <2>1. meta \in MetaType /\ meta.gen \in Nat /\ meta.count \in Nat
      BY MetaFacts DEF TypeOK, PageType
    <2>2. CASE vac.changed
      BY <1>0, <2>1, <2>2 DEF MetaType
    <2>3. CASE ~vac.changed
      BY <1>0, <2>1, <2>3
    <2> QED BY <2>1, <2>2, <2>3
  <1>b. /\ vac'.pc = "reap" /\ vac'.tids = vac.tids /\ vac'.n = 0 /\ vac'.pos = 0
        /\ vac'.dead = {} /\ vac'.k = 0 /\ vac'.adj = Nothing /\ vac'.todo = {}
        /\ vac'.upd = {} /\ vac'.changed = FALSE
        /\ vac' \in [pc : {"reap"}, tids : SUBSET Tids, n : 0..MaxNodes, pos : Nat,
                     dead : SUBSET Nodes, k : 0..MaxNodes, adj : {Nothing},
                     todo : SUBSET (Nodes \X Nodes), upd : SUBSET Nodes, changed : BOOLEAN]
    <2>1. vac.tids \in SUBSET Tids /\ 0 \in 0..MaxNodes
      BY VacFacts, BoundsAssumption
    <2> QED BY <1>0, <2>1 DEF VacIdle
  <1>c. \A x \in Backends : cache[x].gen \in Nat /\ scan[x].m.gen \in Nat
    BY MetaFacts DEF TypeOK, CacheType, IsCache, ScanType
  <1>1. TypeOK'
    <2>1. VacType'
      BY <1>b DEF VacType, Partial, Nothing
    <2> QED BY <1>0, <1>a, <2>1 DEF TypeOK, PageType, HeapType, InsType, ScanType, CacheType
  <1>2. HeapInv' /\ LiveInv' /\ IndexSound' /\ HitsInv(lax)'
    BY <1>0, <1>a DEF HeapInv, LiveInv, IndexSound, HitsInv, ScanSound
  <1>3. ChainInv'
    BY <1>0, <1>a DEF ChainInv
  <1>4. InsInv'
    BY <1>0, <1>a DEF InsInv
  <1>5. VacInv'
    BY <1>0, <1>a, <1>b DEF VacInv
  <1>6. RepairInv'
    BY <1>b DEF RepairInv, Nothing
  <1>9. CacheInv(lax)'
    <2> SUFFICES ASSUME NEW x \in Backends PROVE CacheOk(x, lax)'
      BY DEF CacheInv
    <2>1. CacheOk(x, lax) /\ cache[x].gen \in Nat
      BY <1>c DEF CacheInv
    <2>2. UNCHANGED <<cache, code>>
      BY <1>0
    <2> QED BY <1>a, <2>1, <2>2 DEF CacheOk, Missed
  <1>10. ScanInv(lax)'
    BY <1>0, <1>a, <1>b, <1>c DEF ScanInv, VacLocked
  <1> QED BY <1>1, <1>2, <1>3, <1>4, <1>5, <1>6, <1>9, <1>10

\* The heap reclaims line pointers no unmarked code tuple names.
LEMMA VacuumReapInv ==
    ASSUME NEW lax \in BOOLEAN, InvWith(lax), VacuumReap
    PROVE  InvWith(lax)'
  <1> USE DEF InvWith
  <1>0. /\ vac.pc = "reap" /\ vac' = VacIdle
        /\ heap' = [t \in Tids |-> IF t \in vac.tids THEN Unused ELSE heap[t]]
        /\ UNCHANGED <<nextRow, code, adj, meta, ins, scan, cache>>
    BY DEF VacuumReap
  <1>a. /\ HeapType'
        /\ \A t \in Tids : t \notin vac.tids => heap'[t] = heap[t]
        /\ \A t \in Tids : t \in vac.tids => heap'[t].st = "unused" /\ heap'[t].row = 0
        /\ \A t \in vac.tids : heap[t].st = "dead"
        /\ vac'.pc = "idle"
    BY <1>0, BoundsAssumption DEF TypeOK, HeapType, Unused, VacInv, VacIdle
  <1>1. TypeOK'
    <2>1. VacType'
      BY <1>0, BoundsAssumption DEF VacIdle, Partial, Nothing, VacLocked, VacType
    <2> QED BY <1>0, <1>a, <2>1 DEF TypeOK, PageType, InsType, ScanType, CacheType
  <1>2. HeapInv'
    BY <1>0, <1>a DEF HeapInv
  <1>3. ChainInv'
    BY <1>0 DEF ChainInv
  <1>4. InsInv'
    BY <1>0, <1>a, InsFacts DEF InsInv
  <1>5. VacInv'
    <2>1. meta.count \in Nat
      BY MetaFacts DEF TypeOK, PageType
    <2> QED BY <1>0, <2>1 DEF VacInv, VacIdle
  <1>6. RepairInv'
    BY <1>0 DEF RepairInv, VacIdle, Nothing
  <1>7. LiveInv'
    BY <1>0, <1>a DEF LiveInv
  <1>8. IndexSound'
    BY <1>0, <1>a, CodeFacts DEF IndexSound, VacInv
  <1>9. CacheInv(lax)'
    BY <1>0, <1>a DEF CacheInv, CacheOk, Missed, VacLocked
  <1>10. ScanInv(lax)'
    BY <1>0, <1>a DEF ScanInv, Missed, Inserting, VacLocked
  <1>11. HitsInv(lax)'
    BY <1>0, <1>a DEF HitsInv, ScanSound, TypeOK, ScanType, ScanInv
  <1> QED BY <1>1, <1>2, <1>3, <1>4, <1>5, <1>6, <1>7, <1>8, <1>9, <1>10, <1>11

\* Marking one code page: what is to be marked is on this page or a later one,
\* and a cache that now misses a mark is one VACUUM will outdate.
LEMMA VacuumPageInv ==
    ASSUME NEW lax \in BOOLEAN, InvWith(lax), VacuumPage
    PROVE  InvWith(lax)'
  <1> USE DEF InvWith
  <1> DEFINE dead == vac.dead \cup {code[i].node : i \in VacMarks}
                              \cup {code[i].node : i \in {j \in VacOnPage : code[j].dead}}
             next == vac.pos + PerPage
             more == next < vac.n /\ next < Len(code)
             pc == IF more THEN "page" ELSE IF dead # {} THEN "load" ELSE "bump"
             changed == vac.changed \/ VacMarks # {}
  <1>0. /\ vac.pc = "page"
        /\ code' = [i \in 1..Len(code) |->
                      IF i \in VacMarks THEN [code[i] EXCEPT !.dead = TRUE] ELSE code[i]]
        /\ vac' = [vac EXCEPT !.pos = next, !.dead = dead, !.changed = changed, !.pc = pc]
        /\ UNCHANGED <<heap, nextRow, adj, meta, ins, scan, cache>>
    BY DEF VacuumPage
  <1>a. /\ Len(code) \in Nat /\ vac.pos \in Nat /\ vac.n \in Nat /\ PerPage \in Nat \ {0}
        /\ meta.count \in Nat /\ vac.n <= meta.count /\ vac.n <= MaxNodes
        /\ \A i \in 1..Len(code) : code[i].node = i - 1
        /\ vac.k = 0 /\ vac.dead \subseteq 0..(vac.n - 1)
    BY <1>0, CodeFacts, VacFacts, MetaFacts, PerPageAssumption
       DEF VacInv, ChainInv, RepairInv, TypeOK, PageType
  <1>b. /\ VacMarks \subseteq VacOnPage /\ VacOnPage \subseteq 1..Len(code)
        /\ \A i \in VacOnPage : code[i].node \in 0..(vac.n - 1)
        /\ \A i \in VacMarks : ~code[i].dead /\ code[i].tid \in vac.tids
    BY <1>a DEF VacMarks, VacOnPage
  <1>c. dead \subseteq 0..(vac.n - 1) /\ dead \subseteq Nodes
    <2>1. dead \subseteq 0..(vac.n - 1)
      BY <1>a, <1>b
    <2>2. 0..(vac.n - 1) \subseteq Nodes
      BY <1>a, BoundsAssumption DEF Nodes
    <2> QED BY <2>1, <2>2
  <1> HIDE DEF dead
  <1>d. /\ pc \in {"page", "load", "bump"} /\ (pc = "page" <=> more) /\ (pc = "load" => vac.n > 0)
        /\ changed \in BOOLEAN /\ (vac.changed => changed) /\ (VacMarks # {} => changed)
        /\ next \in Nat
    <2>1. dead # {} => vac.n > 0
      <3> SUFFICES ASSUME NEW x \in dead PROVE vac.n > 0
        OBVIOUS
      <3>1. x \in 0..(vac.n - 1)
        BY <1>c
      <3> QED BY <1>a, <3>1
    <2>2. changed \in BOOLEAN /\ (vac.changed => changed) /\ (VacMarks # {} => changed)
      BY VacFacts
    <2> QED BY <1>a, <2>1, <2>2
  \* A tuple VACUUM is to mark and does not mark now is on a later page.
  <1>e. \A i \in 1..Len(code) :
          ~code[i].dead /\ code[i].tid \in vac.tids /\ i \notin VacMarks => more /\ next < i /\ i <= vac.n
    <2> SUFFICES ASSUME NEW i \in 1..Len(code),
                        ~code[i].dead, code[i].tid \in vac.tids, i \notin VacMarks
                 PROVE  more /\ next < i /\ i <= vac.n
      OBVIOUS
    <2>1. vac.pos < i /\ i <= vac.n
      BY <1>0 DEF VacInv
    <2>2. ~(i <= vac.pos + PerPage)
      BY <1>a, <2>1 DEF VacMarks, VacOnPage
    <2> QED BY <1>a, <2>1, <2>2
  <1>f. /\ Len(code') = Len(code) /\ code' \in Seq(CodeTuple)
        /\ \A i \in 1..Len(code) :
             /\ i \notin VacMarks => code'[i] = code[i]
             /\ i \in VacMarks => code'[i].dead
             /\ code'[i].tid = code[i].tid /\ code'[i].row = code[i].row
             /\ code'[i].node = code[i].node
    <2>1. \A i \in 1..Len(code) :
             /\ code'[i] \in CodeTuple
             /\ i \notin VacMarks => code'[i] = code[i]
             /\ i \in VacMarks => code'[i].dead
             /\ code'[i].tid = code[i].tid /\ code'[i].row = code[i].row
             /\ code'[i].node = code[i].node
      BY <1>0, CodeFacts DEF CodeTuple
    <2>2. code' \in [1..Len(code) -> CodeTuple]
      BY <1>0, <2>1
    <2>3. code' \in Seq(CodeTuple) /\ Len(code') = Len(code)
      BY <1>a, <2>2, FunIsSeq
    <2> QED BY <2>1, <2>3
  <1> HIDE DEF dead, pc, changed, more, next
  <1>g. /\ vac'.pc = pc /\ vac'.tids = vac.tids /\ vac'.n = vac.n /\ vac'.pos = next
        /\ vac'.dead = dead /\ vac'.k = vac.k /\ vac'.adj = vac.adj /\ vac'.todo = vac.todo
        /\ vac'.upd = vac.upd /\ vac'.changed = changed
        /\ vac' \in [pc : {pc}, tids : SUBSET Tids, n : 0..MaxNodes, pos : Nat,
                     dead : SUBSET Nodes, k : 0..MaxNodes, adj : {vac.adj},
                     todo : SUBSET (Nodes \X Nodes), upd : SUBSET Nodes, changed : BOOLEAN]
    BY <1>0, <1>c, <1>d, VacFacts
  <1>h. UNCHANGED <<heap, nextRow, adj, meta, ins, scan, cache>>
    BY <1>0
  <1>i. \A i \in VacMarks : heap[code[i].tid].st = "dead"
    BY <1>b DEF VacInv
  <1>j. \A b \in Backends : scan[b].pc # "locked"
    BY <1>0 DEF ScanInv, VacLocked
  <1>1. TypeOK'
    <2>1. VacType'
      BY <1>d, <1>g, VacFacts DEF VacType, Partial, VacLocked
    <2> QED BY <1>f, <1>h, <2>1 DEF TypeOK, PageType, HeapType, InsType, ScanType, CacheType
  <1>2. HeapInv' /\ HitsInv(lax)'
    BY <1>h DEF HeapInv, HitsInv, ScanSound
  <1>3. ChainInv'
    BY <1>f, <1>h DEF ChainInv
  <1>4. InsInv'
    <2>1. ins.pc \in {"adj", "meta"} => Len(code) \in 1..Len(code) /\ Len(code) \notin VacMarks
      <3>1. ins.pc \in {"adj", "meta"} => Len(code) = meta.count + 1 /\ code[Len(code)].tid = ins.tid
                                          /\ heap[ins.tid].st = "inserting"
        BY DEF InsInv, ChainInv
      <3> QED BY <1>a, <1>i, <3>1
    <2> QED BY <1>f, <1>h, <2>1 DEF InsInv
  <1>5. VacInv'
    <2>1. \A i \in 1..Len(code) : ~code'[i].dead /\ code'[i].tid \in vac.tids =>
             more /\ next < i /\ i <= vac.n
      BY <1>e, <1>f
    <2> QED BY <1>a, <1>d, <1>f, <1>g, <1>h, <2>1 DEF VacInv
  <1>6. RepairInv'
    BY <1>0, <1>a, <1>c, <1>d, <1>g DEF RepairInv
  <1>7. LiveInv'
    <2> SUFFICES ASSUME NEW t \in Tids, heap[t].st = "live"
                 PROVE  \E i \in 1..meta.count :
                          code'[i] = [node |-> i - 1, tid |-> t, row |-> heap[t].row, dead |-> FALSE]
      BY <1>h DEF LiveInv
    <2>1. PICK i \in 1..meta.count :
            code[i] = [node |-> i - 1, tid |-> t, row |-> heap[t].row, dead |-> FALSE]
      BY DEF LiveInv
    <2>2. i \in 1..Len(code)
      BY <1>a DEF ChainInv
    <2>3. i \notin VacMarks
      BY <1>i, <2>1
    <2> QED BY <1>f, <2>1, <2>2, <2>3
  <1>8. IndexSound'
    BY <1>f, <1>h DEF IndexSound
  <1>9. CacheInv(lax)'
    <2> SUFFICES ASSUME NEW b \in Backends PROVE CacheOk(b, lax)'
      BY DEF CacheInv
    <2>1. CacheOk(b, lax) /\ IsCache(cache[b])
      BY DEF CacheInv, TypeOK, CacheType
    <2>2. \A k \in DOMAIN cache[b].nodes : k + 1 \in 1..Len(code)
      <3>1. /\ DOMAIN cache[b].nodes \subseteq Nodes /\ cache[b].count \in Nat
            /\ cache[b].count <= meta.count /\ meta.count <= Len(code)
            /\ \A k \in DOMAIN cache[b].nodes : k < cache[b].count
        BY <1>a, <2>1, BoundsAssumption DEF IsCache, Partial, CacheOk, ChainInv
      <3> QED BY <1>a, <3>1 DEF Nodes
    <2>3. pc \in VacLocked
      BY <1>d DEF VacLocked
    <2>4. \A k \in DOMAIN cache[b].nodes :
            ~cache[b].nodes[k].dead /\ code'[k + 1].dead => Missed(b, k) \/ changed
      BY <1>d, <1>f, <2>2 DEF Missed
    <2> QED BY <1>d, <1>f, <1>g, <1>h, <2>1, <2>2, <2>3, <2>4 DEF CacheOk, Missed
  <1>10. ScanInv(lax)'
    BY <1>h, <1>j DEF ScanInv
  <1> QED BY <1>1, <1>2, <1>3, <1>4, <1>5, <1>6, <1>7, <1>8, <1>9, <1>10

\* A snapshot holds rows that exist.
LEMMA ScanSnapshotInv ==
    ASSUME NEW lax \in BOOLEAN, InvWith(lax), NEW b \in Backends, ScanSnapshot(b)
    PROVE  InvWith(lax)'
  <1> USE DEF InvWith
  <1> DEFINE snap == {heap[t].row : t \in {u \in Tids : heap[u].st \in {"live", "null"}}}
  <1>0. /\ scan' = [scan EXCEPT ![b] = [ScanIdle EXCEPT !.pc = "snap", !.snap = snap]]
        /\ UNCHANGED <<heap, nextRow, code, adj, meta, ins, vac, cache>>
    BY DEF ScanSnapshot
  <1>a. snap \subseteq 1..(nextRow - 1) /\ snap \subseteq Rows
    <2>1. snap \subseteq 1..(nextRow - 1)
      BY DEF HeapInv
    <2> QED BY <2>1, BoundsAssumption DEF TypeOK, Rows
  <1>b. NoMeta \in MetaType /\ NoMeta.gen = 0 /\ NoMeta.count = 0
        /\ meta.count \in Nat /\ meta.gen \in Nat
    BY BoundsAssumption, MetaFacts DEF NoMeta, MetaType, Nodes, None, TypeOK, PageType
  <1> HIDE DEF snap
  <1>c. /\ ScanType' /\ \A x \in Backends : x # b => scan'[x] = scan[x]
        /\ scan'[b].pc = "snap" /\ scan'[b].snap = snap /\ scan'[b].m = NoMeta /\ scan'[b].hits = {}
    BY <1>0, <1>a, <1>b DEF TypeOK, ScanType, ScanIdle
  <1>1. ScanInv(lax)'
    BY <1>0, <1>a, <1>b, <1>c DEF ScanInv, Missed, Inserting
  <1>2. HitsInv(lax)'
    BY <1>0, <1>c DEF HitsInv, ScanSound
  <1> QED BY <1>0, <1>c, <1>1, <1>2, ScanOnly

\* Under SCAN_LOCK a cache that misses a mark is older than the metapage read.
LEMMA ScanLockInv ==
    ASSUME NEW lax \in BOOLEAN, InvWith(lax), NEW b \in Backends, ScanLock(b)
    PROVE  InvWith(lax)'
  <1> USE DEF InvWith
  <1>0. /\ vac.pc \notin VacLocked /\ ~Inserting(b)
        /\ scan' = [scan EXCEPT ![b].pc = "locked", ![b].m = meta]
        /\ UNCHANGED <<heap, nextRow, code, adj, meta, ins, vac, cache>>
    BY DEF ScanLock
  <1>a. meta \in MetaType /\ meta.count \in Nat /\ meta.gen \in Nat
    BY MetaFacts DEF TypeOK, PageType
  <1>c. /\ ScanType' /\ \A x \in Backends : x # b => scan'[x] = scan[x]
        /\ scan'[b].pc = "locked" /\ scan'[b].snap = scan[b].snap /\ scan'[b].m = meta
        /\ scan'[b].hits = scan[b].hits
    BY <1>0, <1>a DEF TypeOK, ScanType
  <1>d. \A k \in DOMAIN cache[b].nodes : Missed(b, k) => lax \/ cache[b].gen < meta.gen
    BY <1>0 DEF CacheInv, CacheOk
  <1>e. UNCHANGED <<heap, nextRow, code, meta, ins, vac, cache>> /\ \A x \in Backends :
          /\ scan'[x].snap = scan[x].snap /\ scan'[x].hits = scan[x].hits
          /\ x # b => scan'[x].m = scan[x].m /\ scan'[x].pc = scan[x].pc
    BY <1>0, <1>c
  <1>1. ScanInv(lax)'
    <2> SUFFICES ASSUME NEW x \in Backends
                 PROVE  /\ scan'[x].snap \subseteq 1..(nextRow - 1)
                        /\ scan'[x].m.gen <= meta.gen /\ scan'[x].m.count <= meta.count
                        /\ scan'[x].pc = "locked" =>
                             /\ vac.pc \notin VacLocked /\ ~Inserting(x)
                             /\ \A k \in DOMAIN cache[x].nodes :
                                  Missed(x, k) => lax \/ cache[x].gen < scan'[x].m.gen
      BY <1>e DEF ScanInv, Missed, Inserting
    <2>1. CASE x = b
      <3>1. scan[b].snap \subseteq 1..(nextRow - 1)
        BY DEF ScanInv
      <3>2. meta.gen <= meta.gen /\ meta.count <= meta.count
        BY <1>a
      <3>3. scan'[x].m = meta /\ scan'[x].snap = scan[b].snap
        BY <1>c, <2>1
      <3>4. ~Inserting(x) /\ vac.pc \notin VacLocked
        BY <1>0, <2>1
      <3>5. \A k \in DOMAIN cache[x].nodes : Missed(x, k) => lax \/ cache[x].gen < meta.gen
        BY <1>d, <2>1
      <3> QED BY <3>1, <3>2, <3>3, <3>4, <3>5
    <2>2. CASE x # b
      BY <1>c, <2>2 DEF ScanInv
    <2> QED BY <2>1, <2>2
  <1>2. HitsInv(lax)'
    BY <1>e DEF HitsInv, ScanSound
  <1> QED BY <1>0, <1>c, <1>1, <1>2, ScanOnly

\* The end of a scan.
LEMMA ScanEndInv ==
    ASSUME NEW lax \in BOOLEAN, InvWith(lax), NEW b \in Backends, ScanEnd(b)
    PROVE  InvWith(lax)'
  <1> USE DEF InvWith
  <1>0. /\ scan' = [scan EXCEPT ![b] = ScanIdle]
        /\ UNCHANGED <<heap, nextRow, code, adj, meta, ins, vac, cache>>
    BY DEF ScanEnd
  <1>b. NoMeta \in MetaType /\ NoMeta.gen = 0 /\ NoMeta.count = 0
        /\ meta.count \in Nat /\ meta.gen \in Nat
    BY BoundsAssumption, MetaFacts DEF NoMeta, MetaType, Nodes, None, TypeOK, PageType
  <1>c. /\ ScanType' /\ \A x \in Backends : x # b => scan'[x] = scan[x]
        /\ scan'[b].pc = "idle" /\ scan'[b].snap = {} /\ scan'[b].m = NoMeta /\ scan'[b].hits = {}
    BY <1>0, <1>b DEF TypeOK, ScanType, ScanIdle
  <1>1. ScanInv(lax)'
    BY <1>0, <1>b, <1>c DEF ScanInv, Missed, Inserting
  <1>2. HitsInv(lax)'
    BY <1>0, <1>c DEF HitsInv, ScanSound
  <1> QED BY <1>0, <1>c, <1>1, <1>2, ScanOnly

\* The results of a scan, from a matching cache or from the pages, name heap
\* rows that are still in place.
LEMMA ScanCollectInv ==
    ASSUME NEW lax \in BOOLEAN, InvWith(lax), NEW b \in Backends, ScanCollect(b)
    PROVE  InvWith(lax)'
  <1> USE DEF InvWith
  <1> DEFINE c == FindOrBuild(b, scan[b].m)
             hits == {[tid |-> c.nodes[k].tid, row |-> c.nodes[k].row] :
                        k \in {j \in DOMAIN c.nodes : ~c.nodes[j].dead}}
  <1>0. /\ scan[b].pc = "locked"
        /\ cache' = [cache EXCEPT ![b] = c]
        /\ scan' = [scan EXCEPT ![b].pc = "return", ![b].m = NoMeta, ![b].hits = hits]
        /\ UNCHANGED <<heap, nextRow, code, adj, meta, ins, vac>>
    BY DEF ScanCollect
  <1>a. /\ scan[b].m \in MetaType /\ scan[b].m.count \in Nat /\ scan[b].m.gen \in Nat
        /\ meta.count \in Nat /\ meta.gen \in Nat /\ Len(code) \in Nat
        /\ scan[b].m.count <= meta.count /\ scan[b].m.gen <= meta.gen /\ meta.count <= Len(code)
        /\ vac.pc \notin VacLocked /\ ~Inserting(b)
    BY <1>0, MetaFacts, CodeFacts DEF TypeOK, PageType, ScanType, ScanInv, ChainInv
  \* Either way the cache holds chain tuples and, unless lax, misses no dead mark.
  <1>b. /\ IsCache(c) /\ c.gen <= meta.gen /\ c.count <= meta.count /\ c.count \in Nat
        /\ DOMAIN c.adj = 0..(c.count - 1) /\ DOMAIN c.nodes \subseteq 0..(c.count - 1)
        /\ \A k \in DOMAIN c.nodes : /\ c.nodes[k].tid = code[k + 1].tid
                                     /\ c.nodes[k].row = code[k + 1].row
                                     /\ ~c.nodes[k].dead => lax \/ ~code[k + 1].dead
    <2>1. CASE c = BuildCache(scan[b].m)
      <3> HIDE DEF c
      <3>1. scan[b].m.count <= Len(code)
        BY <1>a
      <3>2. /\ IsCache(c) /\ c.gen = scan[b].m.gen /\ c.count = scan[b].m.count
            /\ DOMAIN c.adj = 0..(c.count - 1) /\ DOMAIN c.nodes = 0..(c.count - 1)
            /\ \A k \in 0..(c.count - 1) : c.nodes[k] = code[k + 1]
        BY <1>a, <2>1, <3>1, BuildFacts
      <3> QED BY <1>a, <3>2
    <2>2. CASE c = cache[b] /\ cache[b].gen = scan[b].m.gen
      <3>1. IsCache(cache[b]) /\ CacheOk(b, lax)
        BY DEF TypeOK, CacheType, CacheInv
      <3>2. \A k \in DOMAIN cache[b].nodes : lax \/ ~Missed(b, k)
        BY <1>0, <1>a, <2>2 DEF ScanInv
      <3>3. DOMAIN cache[b].nodes \subseteq 0..(cache[b].count - 1) /\ cache[b].count \in Nat
        BY <3>1, BoundsAssumption DEF IsCache, Partial, CacheOk, Nodes
      <3> HIDE DEF c
      <3> QED BY <2>2, <3>1, <3>2, <3>3 DEF CacheOk, Missed
    <2> QED BY <2>1, <2>2 DEF FindOrBuild, CacheMatches
  <1> HIDE DEF c
  <1>c. \A h \in hits : h \in [tid : Tids, row : Rows] /\ (lax \/ heap[h.tid].row = h.row)
    <2>1. \A k \in DOMAIN c.nodes : k + 1 \in 1..Len(code)
      BY <1>a, <1>b
    <2>2. \A k \in DOMAIN c.nodes : code[k + 1].tid \in Tids /\ code[k + 1].row \in Rows
      BY <2>1, CodeFacts DEF CodeTuple
    <2>3. \A k \in DOMAIN c.nodes : ~c.nodes[k].dead => lax \/ heap[c.nodes[k].tid].row = c.nodes[k].row
      BY <1>b, <2>1 DEF IndexSound
    <2> QED BY <1>b, <2>2, <2>3
  <1> HIDE DEF hits
  <1>d. NoMeta \in MetaType /\ NoMeta.gen = 0 /\ NoMeta.count = 0
    BY BoundsAssumption DEF NoMeta, MetaType, Nodes, None
  <1>e. /\ ScanType' /\ \A x \in Backends : x # b => scan'[x] = scan[x]
        /\ scan'[b].pc = "return" /\ scan'[b].snap = scan[b].snap /\ scan'[b].m = NoMeta
        /\ scan'[b].hits = hits
    BY <1>0, <1>c, <1>d DEF TypeOK, ScanType
  <1>f. /\ cache' = [x \in Backends |-> cache'[x]] /\ cache'[b] = c
        /\ \A x \in Backends : x # b => cache'[x] = cache[x]
    BY <1>0 DEF TypeOK, CacheType
  <1>u. UNCHANGED <<heap, nextRow, code, adj, meta, ins, vac>>
    BY <1>0
  <1>1. TypeOK'
    <2>1. \A x \in Backends : IsCache(cache'[x])
      BY <1>b, <1>f DEF TypeOK, CacheType
    <2> QED BY <1>e, <1>f, <1>u, <2>1 DEF TypeOK, PageType, HeapType, InsType, VacType, CacheType
  <1>2. HeapInv' /\ VacInv' /\ RepairInv' /\ LiveInv' /\ IndexSound'
    BY <1>u DEF HeapInv, VacInv, RepairInv, LiveInv, IndexSound
  <1>3. ChainInv'
    BY <1>u DEF ChainInv
  <1>4. InsInv'
    BY <1>a, <1>f, <1>u, InsFacts DEF InsInv, Inserting
  <1>9. CacheInv(lax)'
    <2> SUFFICES ASSUME NEW x \in Backends PROVE CacheOk(x, lax)'
      BY DEF CacheInv
    <2>1. CASE x = b
      <3>1. \A k \in DOMAIN c.nodes : k < c.count
        BY <1>b
      <3> QED BY <1>b, <1>f, <1>u, <2>1, <3>1 DEF CacheOk, Missed
    <2>2. CASE x # b
      BY <1>f, <1>u, <2>2 DEF CacheInv, CacheOk, Missed
    <2> QED BY <2>1, <2>2
  <1>10. ScanInv(lax)'
    BY <1>a, <1>d, <1>e, <1>f, <1>u DEF ScanInv, Missed, Inserting
  <1>11. HitsInv(lax)'
    BY <1>c, <1>e, <1>u DEF HitsInv, ScanSound
  <1> QED BY <1>1, <1>2, <1>3, <1>4, <1>9, <1>10, <1>11

\* A cancelled VACUUM gives up its working state and leaves the marks it set.
LEMMA VacuumFailInv ==
    ASSUME LaxInv, VacuumFail
    PROVE  LaxInv'
  <1> USE DEF LaxInv, InvWith
  <1>0. /\ vac' = VacIdle /\ vac'.pc = "idle"
        /\ UNCHANGED <<heap, nextRow, code, adj, meta, ins, scan, cache>>
    BY DEF VacuumFail, VacIdle
  <1>1. TypeOK'
    <2>1. VacType'
      BY <1>0, BoundsAssumption DEF VacIdle, Partial, Nothing, VacLocked, VacType
    <2> QED BY <1>0, <2>1 DEF TypeOK, PageType, HeapType, InsType, ScanType, CacheType
  <1>2. HeapInv' /\ LiveInv' /\ IndexSound' /\ HitsInv(TRUE)'
    BY <1>0 DEF HeapInv, LiveInv, IndexSound, HitsInv
  <1>3. ChainInv' /\ InsInv'
    BY <1>0 DEF ChainInv, InsInv
  <1>4. VacInv'
    <2>1. meta.count \in Nat
      BY MetaFacts DEF TypeOK, PageType
    <2> QED BY <1>0, <2>1 DEF VacInv, VacIdle
  <1>5. RepairInv'
    BY <1>0 DEF RepairInv, VacIdle, Nothing
  <1>6. CacheInv(TRUE)'
    BY <1>0 DEF CacheInv, CacheOk, Missed
  <1>7. ScanInv(TRUE)'
    BY <1>0 DEF ScanInv, Missed, Inserting, VacLocked
  <1> QED BY <1>1, <1>2, <1>3, <1>4, <1>5, <1>6, <1>7

\* Every step of the specification preserves the invariant, of either kind.
LEMMA InvInductive ==
    ASSUME NEW lax \in BOOLEAN, InvWith(lax), [Next]_vars
    PROVE  InvWith(lax)'
  <1>1. CASE UNCHANGED vars
    <2>1. TypeOK'
      BY <1>1 DEF vars, InvWith, TypeOK, HeapType, PageType, InsType, VacType, ScanType, CacheType
    <2>2. HeapInv' /\ VacInv' /\ RepairInv' /\ LiveInv' /\ IndexSound' /\ HitsInv(lax)'
      BY <1>1 DEF vars, InvWith, HeapInv, VacInv, RepairInv, LiveInv, IndexSound, HitsInv, ScanSound
    <2>3. ChainInv' /\ InsInv'
      BY <1>1 DEF vars, InvWith, ChainInv, InsInv
    <2>4. CacheInv(lax)' /\ ScanInv(lax)'
      BY <1>1 DEF vars, InvWith, CacheInv, CacheOk, ScanInv, Missed, Inserting
    <2> QED BY <2>1, <2>2, <2>3, <2>4 DEF InvWith
  <1>2. CASE Write
    BY <1>2, HeapInsertInv, HeapDeleteInv, InsertBeginInv, InsertSelectInv, InsertLoadInv,
       InsertWriteInv, InsertAppendCodeInv, InsertAppendAdjInv, InsertUpdateMetaInv,
       VacuumCollectInv, VacuumReadMetaInv, VacuumLockInv, VacuumPageInv, VacuumLoadAdjInv,
       VacuumRepairInv, VacuumWriteAdjInv, VacuumRepairEntriesInv, VacuumBumpInv, VacuumReapInv
       DEF Write, InsertStep, VacuumStep
  <1>3. CASE Read
    BY <1>3, ScanSnapshotInv, ScanLockInv, ScanCollectInv, ScanEndInv DEF Read
  <1>4. CASE InsertFail \/ Crash
    BY <1>4, InsertFailInv, RestartInv
  <1> QED BY <1>1, <1>2, <1>3, <1>4 DEF Next

\* The inductive invariant holds in every reachable state.
THEOREM InvHolds == Spec => []Inv
  <1>1. Init => Inv
    BY InitInv DEF Inv
  <1>2. Inv /\ [Next]_vars => Inv'
    BY InvInductive DEF Inv
  <1> QED BY <1>1, <1>2, PTL DEF Spec

\* With VACUUM cancelled at any point, what does not depend on the generation
\* still holds in every reachable state.
THEOREM LaxInvHolds == SpecVacuumFail => []LaxInv
  <1>1. Init => LaxInv
    BY InitInv DEF LaxInv
  <1>2. LaxInv /\ [Next \/ VacuumFail]_vars => LaxInv'
    BY InvInductive, VacuumFailInv DEF LaxInv
  <1> QED BY <1>1, <1>2, PTL DEF SpecVacuumFail

\* Type correctness.
THEOREM TypeCorrect == Spec => []TypeOK
  <1>1. Inv => TypeOK
    BY DEF Inv, InvWith
  <1> QED BY <1>1, InvHolds, PTL

\* However inserts, VACUUM, scans, failures before the first append and crashes
\* interleave, an unmarked code tuple names the heap row it was made for.
THEOREM IndexIsSound == Spec => []IndexSound
  <1>1. Inv => IndexSound
    BY DEF Inv, InvWith
  <1> QED BY <1>1, InvHolds, PTL

\* A line pointer a scan returns and its snapshot can see holds the row the
\* node was made for, cached or not.
THEOREM ScansAreSound == Spec => []ScanSound
  <1>1. Inv => ScanSound
    BY DEF Inv, InvWith, HitsInv
  <1> QED BY <1>1, InvHolds, PTL

\* Every committed row has a live node among those a scan of the metapage loads.
LEMMA RowsAreLoaded ==
    ASSUME NEW lax \in BOOLEAN, InvWith(lax)
    PROVE  NoLostRow
  <1> SUFFICES ASSUME NEW t \in Tids, heap[t].st = "live"
               PROVE  \E k \in Loaded(meta.count) :
                        /\ ~View(meta.count)[k].dead
                        /\ View(meta.count)[k].tid = t /\ View(meta.count)[k].row = heap[t].row
    BY DEF NoLostRow
  <1>1. PICK i \in 1..meta.count :
          code[i] = [node |-> i - 1, tid |-> t, row |-> heap[t].row, dead |-> FALSE]
    BY DEF InvWith, LiveInv
  <1>2. meta.count \in Nat /\ meta.count \in 0..Len(code)
    BY MetaFacts, CodeFacts DEF InvWith, TypeOK, PageType, ChainInv
  <1>3. i - 1 \in Loaded(meta.count) /\ View(meta.count)[i - 1] = code[(i - 1) + 1]
    BY <1>2, ViewIsChain DEF InvWith
  <1>4. View(meta.count)[i - 1] = code[i]
    BY <1>2, <1>3
  <1> QED BY <1>1, <1>3, <1>4

\* Outside an insert the code chain passes turbohybrid_validate_index.
LEMMA ChainValidates ==
    ASSUME NEW lax \in BOOLEAN, InvWith(lax)
    PROVE  CodeChainOk
  <1> SUFFICES ASSUME ins.pc = "idle" PROVE ValidateCodeChain
    BY DEF CodeChainOk
  <1>1. /\ Len(code) = meta.count /\ meta.count \in Nat
        /\ \A i \in 1..Len(code) : code[i].node = i - 1
    BY MetaFacts DEF InvWith, TypeOK, PageType, ChainInv
  <1>2. ASSUME NEW k \in 0..(meta.count - 1)
        PROVE  Cardinality({i \in 1..Len(code) : code[i].node = k}) = 1
    <2>1. {i \in 1..Len(code) : code[i].node = k} = {k + 1}
      BY <1>1
    <2> QED BY <2>1, FS_Singleton
  <1>3. \A i \in 1..Len(code) : code[i].node < meta.count
    BY <1>1
  <1> QED BY <1>2, <1>3 DEF ValidateCodeChain

\* Every committed row has a live node among those a scan of the metapage
\* loads: aminsert and VACUUM never lose one, whatever fails in between.
THEOREM NoRowIsLost == Spec => []NoLostRow
  <1>1. Inv => NoLostRow
    BY RowsAreLoaded DEF Inv
  <1> QED BY <1>1, InvHolds, PTL

\* Outside an insert the code chain passes turbohybrid_validate_index.
THEOREM CodeChainIsOk == Spec => []CodeChainOk
  <1>1. Inv => CodeChainOk
    BY ChainValidates DEF Inv
  <1> QED BY <1>1, InvHolds, PTL

\* A VACUUM cancelled between any two page writes (PG_CATCH in
\* tqgraphbulkdelete) and run again leaves pages on which no unmarked tuple
\* names a foreign row, no committed row is lost and the code chain is whole.
THEOREM CancelledVacuumKeepsPages == SpecVacuumFail => [](IndexSound /\ NoLostRow /\ CodeChainOk)
  <1>1. LaxInv => IndexSound /\ NoLostRow /\ CodeChainOk
    BY RowsAreLoaded, ChainValidates DEF LaxInv, InvWith
  <1> QED BY <1>1, LaxInvHolds, PTL

(***************************************************************************)
(* Scans and caches.                                                       *)
(***************************************************************************)

\* Before anything ran no cache and no scan holds anything.
LEMMA InitComplete == Init => CompleteInv
  <1> SUFFICES ASSUME Init PROVE CompleteInv
    OBVIOUS
  <1>1. FreshInv
    BY DEF Init, FreshInv, NoCache, Nothing
  <1>2. UniqueInv
    <2> DEFINE n == Len(InitTids)
    <2>1. heap = [t \in Tids |->
                    IF \E i \in 1..n : InitTids[i] = t
                    THEN [st |-> "live", row |-> CHOOSE i \in 1..n : InitTids[i] = t]
                    ELSE Unused]
      BY DEF Init
    <2>2. ASSUME NEW t \in Tids, heap[t].row # 0 PROVE InitTids[heap[t].row] = t
      <3>1. CASE \E i \in 1..n : InitTids[i] = t
        BY <2>1, <3>1
      <3>2. CASE ~ \E i \in 1..n : InitTids[i] = t
        BY <2>1, <2>2, <3>2 DEF Unused
      <3> QED BY <3>1, <3>2
    <2> QED BY <2>2 DEF UniqueInv
  <1>3. SnapInv
    BY DEF Init, SnapInv, ScanIdle
  <1>4. ScanComplete
    BY DEF Init, ScanComplete, ScanIdle
  <1> QED BY <1>1, <1>2, <1>3, <1>4 DEF CompleteInv

\* Node ids of a cache are positions of the chain.
LEMMA CachePositions ==
    ASSUME NEW lax \in BOOLEAN, InvWith(lax), FreshInv, NEW b \in Backends
    PROVE  /\ cache[b].count \in Nat /\ cache[b].count <= Len(code)
           /\ \A k \in DOMAIN cache[b].nodes : k \in Nat /\ k + 1 \in 1..Len(code)
  <1>1. /\ cache[b].count \in Nat /\ meta.count \in Nat /\ Len(code) \in Nat
        /\ cache[b].count <= meta.count /\ meta.count <= Len(code)
    BY MetaFacts, CodeFacts, BoundsAssumption
       DEF InvWith, TypeOK, PageType, CacheType, IsCache, CacheInv, CacheOk, ChainInv
  <1>2. DOMAIN cache[b].nodes = 0..(cache[b].count - 1)
    BY DEF FreshInv
  <1> QED BY <1>1, <1>2

\* Positions a scan may count on exist.
LEMMA ScanPositions ==
    ASSUME NEW lax \in BOOLEAN, InvWith(lax), NEW b \in Backends
    PROVE  /\ meta.count \in Nat /\ scan[b].m.count \in Nat /\ Len(code) \in Nat
           /\ scan[b].m.count <= meta.count /\ meta.count <= Len(code)
  BY MetaFacts, CodeFacts DEF InvWith, TypeOK, PageType, ScanType, ScanInv, ChainInv

\* Steps that touch neither the heap, the code chain, the scans nor the nodes
\* of a cache, and give VACUUM no further line pointer.
LEMMA QuietStep ==
    ASSUME CompleteInv, UNCHANGED <<heap, code, scan>>, meta'.count = meta.count,
           vac'.tids \subseteq vac.tids,
           \A b \in Backends : /\ cache'[b].nodes = cache[b].nodes
                               /\ cache'[b].count = cache[b].count
    PROVE  CompleteInv'
  <1> USE DEF CompleteInv
  <1>1. FreshInv'
    BY DEF FreshInv
  <1>2. UniqueInv' /\ ScanComplete'
    BY DEF UniqueInv, ScanComplete
  <1>3. SnapInv'
    BY DEF SnapInv, SnapRow
  <1> QED BY <1>1, <1>2, <1>3

\* Steps of the heap: a row of a snapshot keeps its line pointer and its row.
LEMMA HeapStep ==
    ASSUME CompleteInv, UniqueInv', UNCHANGED <<code, meta, scan, cache>>,
           vac'.tids \subseteq vac.tids,
           \A b \in Backends, t \in Tids :
               heap'[t].st # "null" /\ heap'[t].row \in scan[b].snap =>
                   /\ heap'[t].row = heap[t].row /\ heap[t].st # "null"
                   /\ heap[t].st \in {"live", "dead"} => heap'[t].st \in {"live", "dead"}
    PROVE  CompleteInv'
  <1> USE DEF CompleteInv
  <1>1. FreshInv'
    BY DEF FreshInv
  <1>2. ScanComplete'
    BY DEF ScanComplete
  <1>3. SnapInv'
    BY DEF SnapInv, SnapRow
  <1> QED BY <1>1, <1>2, <1>3

\* A new row is in no snapshot.
LEMMA HeapInsertComplete ==
    ASSUME NEW lax \in BOOLEAN, InvWith(lax), CompleteInv,
           NEW t \in Tids, HeapInsert(t) \/ HeapInsertNull(t)
    PROVE  CompleteInv'
  <1> USE DEF InvWith, CompleteInv
  <1>0. PICK st \in {"inserting", "null"} :
          /\ heap[t].st = "unused" /\ nextRow \in Rows
          /\ heap' = [heap EXCEPT ![t] = [st |-> st, row |-> nextRow]]
          /\ UNCHANGED <<code, meta, vac, scan, cache>>
    BY DEF HeapInsert, HeapInsertNull, Unused
  <1>1. /\ \A u \in Tids : u # t => heap'[u] = heap[u]
        /\ heap'[t].row = nextRow /\ nextRow \in Nat
    BY <1>0, BoundsAssumption DEF TypeOK, HeapType, Rows
  <1>2. \A b \in Backends : nextRow \notin scan[b].snap
    BY <1>1 DEF ScanInv
  <1>3. \A u \in Tids : heap[u].row # nextRow
    BY <1>0, <1>1 DEF HeapInv, TypeOK, HeapType, Rows
  <1>4. UniqueInv'
    BY <1>1, <1>3 DEF UniqueInv
  <1> QED BY <1>0, <1>1, <1>2, <1>4, HeapStep

\* DELETE and the abort of an insert change the state of a line pointer only.
LEMMA HeapDeleteComplete ==
    ASSUME NEW lax \in BOOLEAN, InvWith(lax), CompleteInv,
           InsertFail \/ \E t \in Tids : HeapDelete(t)
    PROVE  CompleteInv'
  <1> USE DEF InvWith, CompleteInv
  <1>0. PICK t \in Tids :
          /\ heap[t].st \in {"live", "inserting"}
          /\ heap' = [heap EXCEPT ![t].st = "dead"]
          /\ UNCHANGED <<code, meta, vac, scan, cache>>
    BY InsFacts DEF InsertFail, InsertAbort, HeapDelete, InsInv
  <1>1. /\ \A u \in Tids : u # t => heap'[u] = heap[u]
        /\ heap'[t].row = heap[t].row /\ heap'[t].st = "dead"
    BY <1>0 DEF TypeOK, HeapType
  <1>2. UniqueInv'
    BY <1>1 DEF UniqueInv
  <1>3. \A u \in Tids : heap'[u].row = heap[u].row
    BY <1>1
  <1> QED BY <1>0, <1>1, <1>2, <1>3, HeapStep

\* A reclaimed line pointer holds no row.
LEMMA VacuumReapComplete ==
    ASSUME NEW lax \in BOOLEAN, InvWith(lax), CompleteInv, VacuumReap
    PROVE  CompleteInv'
  <1> USE DEF InvWith, CompleteInv
  <1>0. /\ vac' = VacIdle /\ vac'.tids = {}
        /\ heap' = [t \in Tids |-> IF t \in vac.tids THEN Unused ELSE heap[t]]
        /\ UNCHANGED <<code, meta, scan, cache>>
    BY DEF VacuumReap, VacIdle
  <1>1. \A t \in Tids : heap'[t] = heap[t] \/ heap'[t].row = 0
    BY <1>0 DEF Unused
  <1>2. UniqueInv'
    BY <1>1 DEF UniqueInv
  <1>3. \A b \in Backends : 0 \notin scan[b].snap
    BY DEF TypeOK, ScanType, Rows
  <1> QED BY <1>0, <1>1, <1>2, <1>3, HeapStep

\* VACUUM collects no row a snapshot can see.
LEMMA VacuumCollectComplete ==
    ASSUME NEW lax \in BOOLEAN, InvWith(lax), CompleteInv, VacuumCollect
    PROVE  CompleteInv'
  <1> USE DEF InvWith, CompleteInv
  <1>0. PICK dead \in SUBSET Tids :
          /\ \A t \in dead : \A b \in Backends : heap[t].row \notin scan[b].snap
          /\ vac' = [vac EXCEPT !.pc = "read", !.tids = dead]
          /\ UNCHANGED <<heap, code, meta, scan, cache>>
    BY DEF VacuumCollect
  <1>1. vac'.tids = dead
    BY <1>0, VacFacts
  <1>2. FreshInv' /\ UniqueInv' /\ ScanComplete'
    BY <1>0 DEF FreshInv, UniqueInv, ScanComplete
  <1>3. SnapInv'
    BY <1>0, <1>1 DEF SnapInv, SnapRow
  <1> QED BY <1>2, <1>3

\* Marking a page spares the tuples of rows that a snapshot can see.
LEMMA VacuumPageComplete ==
    ASSUME NEW lax \in BOOLEAN, InvWith(lax), CompleteInv, VacuumPage
    PROVE  CompleteInv'
  <1> USE DEF InvWith, CompleteInv
  <1>0. /\ code' = [i \in 1..Len(code) |->
                      IF i \in VacMarks THEN [code[i] EXCEPT !.dead = TRUE] ELSE code[i]]
        /\ UNCHANGED <<heap, meta, scan, cache>>
    BY DEF VacuumPage
  <1>1. vac'.tids = vac.tids
    BY VacFacts DEF VacuumPage
  <1>2. \A i \in 1..Len(code) :
          /\ i \notin VacMarks => code'[i] = code[i]
          /\ code[i].dead => code'[i].dead
          /\ code'[i].tid = code[i].tid /\ code'[i].row = code[i].row
    BY <1>0, CodeFacts DEF CodeTuple
  <1>3. \A i \in VacMarks : code[i].tid \in vac.tids
    BY DEF VacMarks
  <1>4. FreshInv'
    BY <1>0, <1>2, CachePositions DEF FreshInv
  <1>5. UniqueInv' /\ ScanComplete'
    BY <1>0 DEF UniqueInv, ScanComplete
  <1>6. SnapInv'
    <2> SUFFICES ASSUME NEW b \in Backends, NEW t \in Tids, scan[b].pc \in {"snap", "locked"},
                        heap[t].st # "null", heap[t].row \in scan[b].snap
                 PROVE  SnapRow(b, t)'
      BY <1>0 DEF SnapInv
    <2> DEFINE n == IF scan[b].pc = "locked" THEN scan[b].m.count ELSE meta.count
    <2>1. SnapRow(b, t)
      BY DEF SnapInv
    <2>2. PICK i \in 1..n : code[i].tid = t /\ code[i].row = heap[t].row /\ ~code[i].dead
      BY <2>1 DEF SnapRow
    <2>3. i \in 1..Len(code) /\ i \notin VacMarks
      BY <1>3, <2>1, <2>2, ScanPositions DEF SnapRow
    <2>4. code'[i].tid = t /\ code'[i].row = heap[t].row /\ ~code'[i].dead
      BY <1>2, <2>2, <2>3
    <2> QED BY <1>0, <1>1, <2>1, <2>2, <2>4 DEF SnapRow
  <1> QED BY <1>4, <1>5, <1>6

\* The cache an insert or a scan finds or builds.
LEMMA FoundFresh ==
    ASSUME NEW lax \in BOOLEAN, InvWith(lax), FreshInv, NEW b \in Backends,
           NEW m \in MetaType, m.count <= Len(code), NEW c, c = FindOrBuild(b, m)
    PROVE  /\ c.count = m.count /\ DOMAIN c.nodes = 0..(c.count - 1)
           /\ \A k \in DOMAIN c.nodes : /\ c.nodes[k].node = k
                                        /\ c.nodes[k].row = code[k + 1].row
                                        /\ c.nodes[k].dead => code[k + 1].dead
  <1>1. CASE c = BuildCache(m)
    <2>1. /\ c.count = m.count /\ DOMAIN c.nodes = 0..(m.count - 1)
          /\ \A k \in 0..(m.count - 1) : c.nodes[k] = code[k + 1]
      BY <1>1, BuildFacts DEF InvWith
    <2>2. \A k \in 0..(m.count - 1) : code[k + 1].node = k
      BY MetaFacts, CodeFacts DEF InvWith, ChainInv
    <2> QED BY <2>1, <2>2
  <1>2. CASE c = cache[b] /\ cache[b].count = m.count
    <2> QED BY <1>2 DEF InvWith, CacheInv, CacheOk, FreshInv
  <1> QED BY <1>1, <1>2 DEF FindOrBuild, CacheMatches

\* Taking UPDATE_LOCK may build the backend's cache.
LEMMA InsertBeginComplete ==
    ASSUME NEW lax \in BOOLEAN, InvWith(lax), CompleteInv,
           NEW b \in Backends, NEW t \in Tids, InsertBegin(b, t)
    PROVE  CompleteInv'
  <1> USE DEF InvWith, CompleteInv
  <1>0. /\ ins.pc = "idle" /\ UNCHANGED <<heap, code, meta, vac, scan>>
        /\ \/ cache' = [cache EXCEPT ![b] = FindOrBuild(b, meta)]
           \/ cache' = [cache EXCEPT ![b] = @]
    BY DEF InsertBegin
  <1>1. meta \in MetaType /\ meta.count <= Len(code)
    BY MetaFacts, CodeFacts DEF TypeOK, PageType, ChainInv
  <1>2. /\ \A x \in Backends : x # b => cache'[x] = cache[x]
        /\ cache'[b] = FindOrBuild(b, meta) \/ cache'[b] = cache[b]
    BY <1>0 DEF TypeOK, CacheType
  <1>3. FreshInv'
    BY <1>0, <1>1, <1>2, FoundFresh DEF FreshInv
  <1>4. UniqueInv' /\ ScanComplete'
    BY <1>0 DEF UniqueInv, ScanComplete
  <1>5. SnapInv'
    BY <1>0 DEF SnapInv, SnapRow
  <1> QED BY <1>3, <1>4, <1>5

\* The reciprocal write changes neighbour lists only.
LEMMA InsertWriteComplete ==
    ASSUME NEW lax \in BOOLEAN, InvWith(lax), CompleteInv, InsertWrite
    PROVE  CompleteInv'
  <1> USE DEF InvWith
  <1>1. UNCHANGED <<heap, code, meta, vac, scan>>
    BY DEF InsertWrite
  <1>2. ASSUME NEW x \in Backends
        PROVE  cache'[x].nodes = cache[x].nodes /\ cache'[x].count = cache[x].count
    <2>1. cache = [y \in Backends |-> cache[y]] /\ IsCache(cache[x])
      BY DEF TypeOK, CacheType
    <2>2. \/ cache'[x] = cache[x]
          \/ cache'[x] = [cache[x] EXCEPT !.adj[ins.src] = ins.buf]
      BY <2>1 DEF InsertWrite
    <2> QED BY <2>1, <2>2 DEF IsCache
  <1> QED BY <1>1, <1>2, QuietStep

\* The appended tuple is beyond every cache and every count.
LEMMA InsertAppendCodeComplete ==
    ASSUME NEW lax \in BOOLEAN, InvWith(lax), CompleteInv, InsertAppendCode
    PROVE  CompleteInv'
  <1> USE DEF InvWith, CompleteInv
  <1>0. code' = Append(code, NewTuple) /\ UNCHANGED <<heap, meta, vac, scan, cache>>
    BY DEF InsertAppendCode
  <1>1. \A i \in 1..Len(code) : code'[i] = code[i]
    BY <1>0, AppendProperties DEF TypeOK, PageType
  <1>2. FreshInv'
    BY <1>0, <1>1, CachePositions DEF FreshInv
  <1>3. UniqueInv' /\ ScanComplete'
    BY <1>0 DEF UniqueInv, ScanComplete
  <1>4. SnapInv'
    <2> SUFFICES ASSUME NEW b \in Backends, NEW t \in Tids, scan[b].pc \in {"snap", "locked"},
                        heap[t].st # "null", heap[t].row \in scan[b].snap
                 PROVE  SnapRow(b, t)'
      BY <1>0 DEF SnapInv
    <2>1. SnapRow(b, t)
      BY DEF SnapInv
    <2>2. \A i \in 1..(IF scan[b].pc = "locked" THEN scan[b].m.count ELSE meta.count) :
            i \in 1..Len(code)
      BY ScanPositions
    <2> QED BY <1>0, <1>1, <2>1, <2>2 DEF SnapRow
  <1> QED BY <1>2, <1>3, <1>4

\* The metapage update: counts grow, the backend's cache gains the tuple the
\* chain gained, and the row that becomes visible is in no snapshot.
LEMMA InsertUpdateMetaComplete ==
    ASSUME NEW lax \in BOOLEAN, InvWith(lax), CompleteInv, InsertUpdateMeta
    PROVE  CompleteInv'
  <1> USE DEF InvWith, CompleteInv
  <1> DEFINE n == meta.count
  <1>0. /\ ins.pc = "meta" /\ UNCHANGED <<code, vac, scan>>
        /\ heap' = [heap EXCEPT ![ins.tid].st = "live"] /\ meta' = InsertedMeta
        /\ cache' = [cache EXCEPT ![ins.by] =
                       IF ins.cached
                       THEN AppendInsertCacheNode(@, ins.m.count, NewTuple, ins.sel,
                                                  InsertedMeta.entry)
                       ELSE @]
    BY DEF InsertUpdateMeta
  <1>1. /\ n \in Nat /\ ins.m.count = n /\ Len(code) = n + 1 /\ ins.tid \in Tids
        /\ ins.by \in Backends /\ heap[ins.tid].st = "inserting"
        /\ ins.cached => cache[ins.by].count = n
    BY <1>0, InsFacts, InsViewFacts DEF InsInv, ChainInv
  <1>2. meta'.count = n + 1
    BY <1>0, <1>1 DEF InsertedMeta
  <1>3. /\ \A u \in Tids : u # ins.tid => heap'[u] = heap[u]
        /\ heap'[ins.tid].st = "live" /\ heap'[ins.tid].row = heap[ins.tid].row
    BY <1>0, <1>1 DEF TypeOK, HeapType
  <1>4. /\ code[n + 1] = NewTuple /\ NewTuple.node = n /\ NewTuple.dead = FALSE
    BY <1>0, <1>1 DEF InsInv, NewTuple
  <1>5. FreshInv'
    <2> SUFFICES ASSUME NEW b \in Backends
                 PROVE  /\ DOMAIN cache'[b].nodes = 0..(cache'[b].count - 1)
                        /\ \A k \in DOMAIN cache'[b].nodes :
                             /\ cache'[b].nodes[k].node = k
                             /\ cache'[b].nodes[k].dead => code[k + 1].dead
      BY <1>0, ZenonT(40) DEF FreshInv
    <2>1. CASE cache'[b] = cache[b]
      BY <2>1 DEF FreshInv
    <2>2. CASE ins.cached /\ b = ins.by
      <3> DEFINE c == cache[b]
                 nd == [k \in DOMAIN c.nodes \cup {n} |-> IF k = n THEN NewTuple ELSE c.nodes[k]]
      <3>1. IsCache(c) /\ c.count = n /\ DOMAIN c.nodes = 0..(n - 1)
        BY <1>1, <2>2 DEF TypeOK, CacheType, FreshInv
      <3>2. cache'[b] = AppendInsertCacheNode(c, n, NewTuple, ins.sel, InsertedMeta.entry)
        BY <1>0, <1>1, <2>2 DEF TypeOK, CacheType
      <3>3. cache'[b].count = n + 1 /\ cache'[b].nodes = nd
        BY <3>1, <3>2 DEF AppendInsertCacheNode, IsCache
      <3>4. DOMAIN nd = 0..((n + 1) - 1)
        BY <1>1, <3>1
      <3>5. \A k \in 0..(n - 1) : c.nodes[k].node = k /\ (c.nodes[k].dead => code[k + 1].dead)
        BY <3>1 DEF FreshInv
      <3>6. \A k \in DOMAIN nd : nd[k].node = k /\ (nd[k].dead => code[k + 1].dead)
        BY <1>4, <3>1, <3>5
      <3> QED BY <3>3, <3>4, <3>6
    <2> QED BY <1>0, <1>1, <2>1, <2>2 DEF TypeOK, CacheType
  <1>6. UniqueInv'
    BY <1>3 DEF UniqueInv
  <1>7. ScanComplete'
    BY <1>0, <1>1, <1>3 DEF ScanComplete
  <1>8. SnapInv'
    <2> SUFFICES ASSUME NEW b \in Backends, NEW t \in Tids, scan[b].pc \in {"snap", "locked"},
                        heap'[t].st # "null", heap'[t].row \in scan[b].snap
                 PROVE  SnapRow(b, t)'
      BY <1>0 DEF SnapInv
    <2>1. heap[t].st # "null" /\ heap[t].row = heap'[t].row
      BY <1>1, <1>3
    <2>2. SnapRow(b, t)
      BY <2>1 DEF SnapInv
    <2>3. t # ins.tid
      BY <1>1, <2>2 DEF SnapRow
    <2>4. \A i \in 1..n : i \in 1..(n + 1)
      BY <1>1
    <2> QED BY <1>0, <1>2, <1>3, <2>2, <2>3, <2>4 DEF SnapRow
  <1> QED BY <1>5, <1>6, <1>7, <1>8

\* A crash forgets caches and scans.
LEMMA CrashComplete ==
    ASSUME NEW lax \in BOOLEAN, InvWith(lax), CompleteInv, Crash
    PROVE  CompleteInv'
  <1> USE DEF InvWith, CompleteInv
  <1>1. FreshInv'
    BY DEF Crash, Restart, FreshInv, NoCache, Nothing
  <1>2. \A t \in Tids : heap'[t].row = heap[t].row
    BY DEF Crash, Restart, TypeOK, HeapType
  <1>3. UniqueInv'
    BY <1>2 DEF UniqueInv
  <1>4. SnapInv' /\ ScanComplete'
    BY DEF Crash, Restart, SnapInv, ScanComplete, ScanIdle
  <1> QED BY <1>1, <1>3, <1>4

\* The rows of a new snapshot are live, so VACUUM has not collected them.
LEMMA ScanSnapshotComplete ==
    ASSUME NEW lax \in BOOLEAN, InvWith(lax), CompleteInv, NEW b \in Backends, ScanSnapshot(b)
    PROVE  CompleteInv'
  <1> USE DEF InvWith, CompleteInv
  <1> DEFINE snap == {heap[t].row : t \in {u \in Tids : heap[u].st \in {"live", "null"}}}
  <1>0. /\ scan' = [scan EXCEPT ![b] = [ScanIdle EXCEPT !.pc = "snap", !.snap = snap]]
        /\ UNCHANGED <<heap, code, meta, vac, cache>>
    BY DEF ScanSnapshot
  <1>1. /\ \A x \in Backends : x # b => scan'[x] = scan[x]
        /\ scan'[b].pc = "snap" /\ scan'[b].snap = snap
    BY <1>0 DEF TypeOK, ScanType, ScanIdle
  <1>2. FreshInv' /\ UniqueInv'
    BY <1>0 DEF FreshInv, UniqueInv
  <1>3. ScanComplete'
    BY <1>0, <1>1 DEF ScanComplete
  <1>4. ASSUME NEW t \in Tids, heap[t].st # "null", heap[t].row \in snap
        PROVE  /\ heap[t].st = "live" /\ t \notin vac.tids
               /\ \E i \in 1..meta.count :
                    code[i].tid = t /\ code[i].row = heap[t].row /\ ~code[i].dead
    <2>1. PICK u \in Tids : heap[u].st \in {"live", "null"} /\ heap[u].row = heap[t].row
      BY <1>4
    <2>2. heap[u].row # 0
      BY <2>1 DEF HeapInv, TypeOK
    <2>3. u = t
      BY <2>1, <2>2 DEF UniqueInv
    <2>4. heap[t].st = "live"
      BY <1>4, <2>1, <2>3
    <2>5. t \notin vac.tids
      BY <2>4 DEF VacInv
    <2>6. PICK i \in 1..meta.count :
            code[i] = [node |-> i - 1, tid |-> t, row |-> heap[t].row, dead |-> FALSE]
      BY <2>4 DEF LiveInv
    <2>7. code[i].tid = t /\ code[i].row = heap[t].row /\ ~code[i].dead
      BY <2>6
    <2> QED BY <2>4, <2>5, <2>7
  <1> HIDE DEF snap
  <1>5. SnapInv'
    <2> SUFFICES ASSUME NEW x \in Backends, NEW t \in Tids, scan'[x].pc \in {"snap", "locked"},
                        heap[t].st # "null", heap[t].row \in scan'[x].snap
                 PROVE  SnapRow(x, t)'
      BY <1>0 DEF SnapInv
    <2>1. CASE x = b
      BY <1>0, <1>1, <1>4, <2>1 DEF SnapRow
    <2>2. CASE x # b
      <3>1. scan'[x] = scan[x] /\ UNCHANGED <<heap, code, meta, vac>>
        BY <1>0, <1>1, <2>2
      <3>2. SnapRow(x, t)
        BY <3>1 DEF SnapInv
      <3> QED BY <3>1, <3>2 DEF SnapRow
    <2> QED BY <2>1, <2>2
  <1> QED BY <1>2, <1>3, <1>5

\* Under SCAN_LOCK the count is the one just read from the metapage.
LEMMA ScanLockComplete ==
    ASSUME NEW lax \in BOOLEAN, InvWith(lax), CompleteInv, NEW b \in Backends, ScanLock(b)
    PROVE  CompleteInv'
  <1> USE DEF InvWith, CompleteInv
  <1>0. /\ scan' = [scan EXCEPT ![b].pc = "locked", ![b].m = meta] /\ scan[b].pc = "snap"
        /\ UNCHANGED <<heap, code, meta, vac, cache>>
    BY DEF ScanLock
  <1>1. /\ \A x \in Backends : x # b => scan'[x] = scan[x]
        /\ scan'[b].pc = "locked" /\ scan'[b].snap = scan[b].snap /\ scan'[b].m = meta
    BY <1>0 DEF TypeOK, ScanType
  <1>2. FreshInv' /\ UniqueInv'
    BY <1>0 DEF FreshInv, UniqueInv
  <1>3. ScanComplete'
    BY <1>0, <1>1, ZenonT(40) DEF ScanComplete
  <1>4. SnapInv'
    <2> SUFFICES ASSUME NEW x \in Backends, NEW t \in Tids, scan'[x].pc \in {"snap", "locked"},
                        heap[t].st # "null", heap[t].row \in scan'[x].snap
                 PROVE  SnapRow(x, t)'
      BY <1>0 DEF SnapInv
    <2>1. CASE x = b
      <3>1. SnapRow(b, t)
        BY <1>0, <1>1, <2>1 DEF SnapInv
      <3> QED BY <1>0, <1>1, <2>1, <3>1 DEF SnapRow
    <2>2. CASE x # b
      <3>1. scan'[x] = scan[x] /\ UNCHANGED <<heap, code, meta, vac>>
        BY <1>0, <1>1, <2>2
      <3>2. SnapRow(x, t)
        BY <3>1 DEF SnapInv
      <3> QED BY <3>1, <3>2 DEF SnapRow
    <2> QED BY <2>1, <2>2
  <1> QED BY <1>2, <1>3, <1>4

\* Every row of the snapshot becomes a result, from the pages or from a cache
\* that matches the metapage read.
LEMMA ScanCollectComplete ==
    ASSUME NEW lax \in BOOLEAN, InvWith(lax), CompleteInv, NEW b \in Backends, ScanCollect(b)
    PROVE  CompleteInv'
  <1> USE DEF InvWith, CompleteInv
  <1>i. PICK c, hits :
          /\ c = FindOrBuild(b, scan[b].m)
          /\ hits = {[tid |-> c.nodes[k].tid, row |-> c.nodes[k].row] :
                       k \in {j \in DOMAIN c.nodes : ~c.nodes[j].dead}}
    OBVIOUS
  <1>0. /\ scan[b].pc = "locked"
        /\ cache' = [cache EXCEPT ![b] = c]
        /\ scan' = [scan EXCEPT ![b].pc = "return", ![b].m = NoMeta, ![b].hits = hits]
        /\ UNCHANGED <<heap, code, meta, vac>>
    BY <1>i, Zenon DEF ScanCollect
  <1>1. /\ \A x \in Backends : x # b => scan'[x] = scan[x]
        /\ scan'[b].pc = "return" /\ scan'[b].snap = scan[b].snap /\ scan'[b].hits = hits
    BY <1>0 DEF TypeOK, ScanType
  <1>2. cache'[b] = c /\ \A x \in Backends : x # b => cache'[x] = cache[x]
    BY <1>0 DEF TypeOK, CacheType
  <1>3. /\ c.count = scan[b].m.count /\ DOMAIN c.nodes = 0..(c.count - 1)
        /\ \A k \in DOMAIN c.nodes : /\ c.nodes[k].node = k
                                     /\ c.nodes[k].row = code[k + 1].row
                                     /\ c.nodes[k].dead => code[k + 1].dead
    <2>1. scan[b].m \in MetaType /\ scan[b].m.count <= Len(code)
      BY ScanPositions DEF TypeOK, ScanType
    <2> QED BY <1>i, <2>1, FoundFresh
  <1>u. UNCHANGED <<heap, code, meta, vac>>
    BY <1>0
  <1>4. FreshInv'
    <2> SUFFICES ASSUME NEW x \in Backends
                 PROVE  /\ DOMAIN cache'[x].nodes = 0..(cache'[x].count - 1)
                        /\ \A k \in DOMAIN cache'[x].nodes :
                             /\ cache'[x].nodes[k].node = k
                             /\ cache'[x].nodes[k].dead => code[k + 1].dead
      BY <1>u DEF FreshInv
    <2>1. CASE x = b
      BY <1>2, <1>3, <2>1
    <2>2. CASE x # b
      <3>1. cache'[x] = cache[x]
        BY <1>2, <2>2
      <3> QED BY <3>1 DEF FreshInv
    <2> QED BY <2>1, <2>2
  <1>5. UniqueInv'
    BY <1>u DEF UniqueInv
  <1>6. SnapInv'
    <2> SUFFICES ASSUME NEW x \in Backends, NEW t \in Tids, scan'[x].pc \in {"snap", "locked"},
                        heap[t].st # "null", heap[t].row \in scan'[x].snap
                 PROVE  SnapRow(x, t)'
      BY <1>u DEF SnapInv
    <2>1. scan'[x] = scan[x]
      BY <1>1
    <2>2. SnapRow(x, t)
      BY <2>1 DEF SnapInv
    <2> QED BY <1>u, <2>1, <2>2 DEF SnapRow
  <1>7. ASSUME NEW t \in Tids, heap[t].st # "null", heap[t].row \in scan[b].snap
        PROVE  \E h \in hits : h.row = heap[t].row
    <2>1. SnapRow(b, t)
      BY <1>0, <1>7 DEF SnapInv
    <2>2. PICK i \in 1..scan[b].m.count : code[i].row = heap[t].row /\ ~code[i].dead
      BY <1>0, <2>1 DEF SnapRow
    <2>3. i - 1 \in DOMAIN c.nodes /\ (i - 1) + 1 = i
      BY <1>3, <2>2, ScanPositions
    <2>4. ~c.nodes[i - 1].dead /\ c.nodes[i - 1].row = heap[t].row
      BY <1>3, <2>2, <2>3
    <2>5. [tid |-> c.nodes[i - 1].tid, row |-> c.nodes[i - 1].row] \in hits
      BY <1>i, <2>3, <2>4
    <2> QED BY <2>4, <2>5
  <1>8. ScanComplete'
    BY <1>0, <1>1, <1>7, ZenonT(40) DEF ScanComplete
  <1> QED BY <1>4, <1>5, <1>6, <1>8

\* The end of a scan.
LEMMA ScanEndComplete ==
    ASSUME NEW lax \in BOOLEAN, InvWith(lax), CompleteInv, NEW b \in Backends, ScanEnd(b)
    PROVE  CompleteInv'
  <1> USE DEF InvWith, CompleteInv
  <1>0. scan' = [scan EXCEPT ![b] = ScanIdle] /\ UNCHANGED <<heap, code, meta, vac, cache>>
    BY DEF ScanEnd
  <1>1. (\A x \in Backends : x # b => scan'[x] = scan[x]) /\ scan'[b].pc = "idle"
    BY <1>0 DEF TypeOK, ScanType, ScanIdle
  <1>2. FreshInv' /\ UniqueInv'
    BY <1>0 DEF FreshInv, UniqueInv
  <1>3. ScanComplete'
    BY <1>0, <1>1 DEF ScanComplete
  <1>4. SnapInv'
    BY <1>0, <1>1 DEF SnapInv, SnapRow
  <1> QED BY <1>2, <1>3, <1>4

\* The remaining steps of inserts and of VACUUM are quiet ones.
LEMMA QuietSteps ==
    ASSUME NEW lax \in BOOLEAN, InvWith(lax), CompleteInv,
           \/ InsertSelect \/ (\E src \in Nodes : InsertLoad(src)) \/ InsertAppendAdj
           \/ VacuumReadMeta \/ VacuumLock \/ VacuumLoadAdj \/ VacuumRepair \/ VacuumWriteAdj
           \/ VacuumRepairEntries \/ VacuumBump \/ VacuumFail \/ UNCHANGED vars
    PROVE  CompleteInv'
  <1>1. CASE UNCHANGED <<heap, code, meta, vac, scan, cache>>
    BY <1>1, QuietStep
  <1>2. CASE /\ UNCHANGED <<heap, code, scan, cache>> /\ vac'.tids \subseteq vac.tids
             /\ meta'.count = meta.count
    BY <1>2, QuietStep
  <1>v. VacuumReadMeta \/ VacuumLock \/ VacuumLoadAdj => vac'.tids = vac.tids
    BY VacFacts DEF InvWith, VacuumReadMeta, VacuumLock, VacuumLoadAdj
  <1>w. VacuumRepair \/ VacuumWriteAdj => vac'.tids = vac.tids
    BY VacFacts DEF InvWith, VacuumRepair, VacuumWriteAdj
  <1>m. meta \in MetaType
    BY DEF InvWith, TypeOK, PageType
  <1>3. CASE VacuumRepairEntries
    <2>1. vac'.tids = vac.tids
      BY <1>3, VacFacts DEF InvWith, VacuumRepairEntries
    <2>2. meta'.count = meta.count
      BY <1>3, <1>m DEF VacuumRepairEntries, RepairedEntries, MetaType
    <2> QED BY <1>2, <1>3, <2>1, <2>2 DEF VacuumRepairEntries
  <1>4. CASE VacuumBump
    <2>1. vac'.tids = vac.tids
      BY <1>4 DEF VacuumBump, VacIdle
    <2>2. meta'.count = meta.count
      BY <1>4, <1>m DEF VacuumBump, MetaType
    <2> QED BY <1>2, <1>4, <2>1, <2>2 DEF VacuumBump
  <1>5. CASE VacuumFail
    BY <1>2, <1>5 DEF VacuumFail, VacIdle
  <1>6. CASE VacuumReadMeta \/ VacuumLock \/ VacuumLoadAdj \/ VacuumRepair \/ VacuumWriteAdj
    BY <1>2, <1>6, <1>v, <1>w
       DEF VacuumReadMeta, VacuumLock, VacuumLoadAdj, VacuumRepair, VacuumWriteAdj
  <1> QED
    BY <1>1, <1>3, <1>4, <1>5, <1>6 DEF InsertSelect, InsertLoad, InsertAppendAdj, vars

\* Every step, a cancelled VACUUM included, preserves the invariant.
LEMMA CompleteInductive ==
    ASSUME NEW lax \in BOOLEAN, InvWith(lax), CompleteInv, [Next \/ VacuumFail]_vars
    PROVE  CompleteInv'
  <1>1. CASE Write
    BY <1>1, HeapInsertComplete, HeapDeleteComplete, InsertBeginComplete, InsertWriteComplete,
       InsertAppendCodeComplete, InsertUpdateMetaComplete, VacuumCollectComplete,
       VacuumPageComplete, VacuumReapComplete, QuietSteps
       DEF Write, InsertStep, VacuumStep
  <1>2. CASE Read
    BY <1>2, ScanSnapshotComplete, ScanLockComplete, ScanCollectComplete, ScanEndComplete DEF Read
  <1>3. CASE InsertFail \/ Crash
    BY <1>3, HeapDeleteComplete, CrashComplete
  <1>4. CASE VacuumFail \/ UNCHANGED vars
    BY <1>4, QuietSteps
  <1> QED BY <1>1, <1>2, <1>3, <1>4 DEF Next

\* No row of a scan's snapshot is missing from its candidates, even after a
\* VACUUM was cancelled half-way: a cache never holds a dead mark of its own,
\* and VACUUM marks nothing a snapshot can see.
THEOREM ScansAreComplete == SpecVacuumFail => []ScanComplete
  <1>1. LaxInv /\ CompleteInv /\ [Next \/ VacuumFail]_vars => CompleteInv'
    BY CompleteInductive DEF LaxInv
  <1>2. CompleteInv => ScanComplete
    BY DEF CompleteInv
  <1> QED BY <1>1, <1>2, InitComplete, LaxInvHolds, PTL DEF SpecVacuumFail

\* A native cache that matches the metapage holds what the pages hold, unless
\* a running VACUUM still owes the metapage its new generation.
THEOREM CachesAreFresh == Spec => []CacheFresh
  <1>1. Inv /\ CompleteInv => CacheFresh
    <2> SUFFICES ASSUME Inv, CompleteInv, ~vac.changed,
                        NEW b \in Backends, CacheMatches(cache[b], meta)
                 PROVE  cache[b].nodes = View(meta.count)
      BY DEF CacheFresh
    <2>1. /\ cache[b].gen = meta.gen /\ meta.gen \in Nat
          /\ cache[b].count = meta.count /\ meta.count \in 0..Len(code)
      BY MetaFacts, CodeFacts DEF CacheMatches, Inv, InvWith, TypeOK, PageType, ChainInv
    <2>2. /\ DOMAIN cache[b].nodes = 0..(meta.count - 1)
          /\ cache[b].nodes \in [DOMAIN cache[b].nodes -> CodeTuple]
      BY <2>1 DEF CompleteInv, FreshInv, Inv, InvWith, TypeOK, CacheType, IsCache, Partial
    <2>3. ASSUME NEW k \in 0..(meta.count - 1) PROVE cache[b].nodes[k] = code[k + 1]
      <3>1. cache[b].nodes[k] \in CodeTuple /\ code[k + 1] \in CodeTuple
        BY <2>1, <2>2, CodeFacts DEF Inv, InvWith
      <3>2. CacheOk(b, FALSE)
        BY DEF Inv, InvWith, CacheInv
      <3>3. /\ cache[b].nodes[k].tid = code[k + 1].tid
            /\ cache[b].nodes[k].row = code[k + 1].row
            /\ ~Missed(b, k)
        BY <2>1, <2>2, <3>2 DEF CacheOk
      <3>4. /\ cache[b].nodes[k].node = code[k + 1].node
            /\ cache[b].nodes[k].dead = code[k + 1].dead
        <4>1. code[k + 1].node = k
          BY <2>1, CodeFacts DEF Inv, InvWith, ChainInv
        <4>2. cache[b].nodes[k].node = k /\ (cache[b].nodes[k].dead => code[k + 1].dead)
          BY <2>2 DEF CompleteInv, FreshInv
        <4>3. cache[b].nodes[k].dead \in BOOLEAN /\ code[k + 1].dead \in BOOLEAN
          BY <3>1 DEF CodeTuple
        <4> QED BY <3>3, <4>1, <4>2, <4>3 DEF Missed
      <3> QED BY <3>1, <3>3, <3>4 DEF CodeTuple
    <2>4. /\ Loaded(meta.count) = 0..(meta.count - 1)
          /\ \A k \in 0..(meta.count - 1) : View(meta.count)[k] = code[k + 1]
      BY <2>1, ViewIsChain DEF Inv, InvWith
    <2>5. View(meta.count) = [k \in 0..(meta.count - 1) |-> View(meta.count)[k]]
      BY <2>4 DEF View
    <2>6. cache[b].nodes = [k \in 0..(meta.count - 1) |-> cache[b].nodes[k]]
      BY <2>2
    <2>7. [k \in 0..(meta.count - 1) |-> cache[b].nodes[k]]
             = [k \in 0..(meta.count - 1) |-> View(meta.count)[k]]
      BY <2>3, <2>4
    <2> QED BY <2>5, <2>6, <2>7
  <1>2. Inv /\ CompleteInv /\ [Next]_vars => CompleteInv'
    BY CompleteInductive DEF Inv
  <1> QED BY <1>1, <1>2, InitComplete, InvHolds, PTL DEF Spec

(***************************************************************************)
(* Neighbour lists.                                                        *)
(***************************************************************************)

\* A list within the bounds is finite.
LEMMA ListFinite ==
    ASSUME LaxInv, NEW nbrs, nbrs \subseteq Linkable
    PROVE  IsFiniteSet(nbrs) /\ Cardinality(nbrs) \in Nat
  <1>1. meta.count \in Nat
    BY MetaFacts DEF LaxInv, InvWith, TypeOK, PageType
  <1>2. IsFiniteSet(Linkable)
    BY <1>1, FS_Interval, SMTT(30) DEF Linkable
  <1>3. IsFiniteSet(nbrs)
    BY <1>2, FS_Subset
  <1> QED BY <1>3, FS_CardinalityType

\* A reference replaced by another does not lengthen a list.
LEMMA ListReplace ==
    ASSUME NEW S, IsFiniteSet(S), Cardinality(S) <= M, NEW x \in S, NEW y
    PROVE  Cardinality((S \ {x}) \cup {y}) <= M
  <1>1. /\ IsFiniteSet(S \ {x}) /\ Cardinality(S \ {x}) = Cardinality(S) - 1
        /\ Cardinality(S) \in Nat /\ Cardinality(S \ {x}) \in Nat
    BY FS_RemoveElement, FS_CardinalityType
  <1>2. Cardinality((S \ {x}) \cup {y}) \in {Cardinality(S \ {x}), Cardinality(S \ {x}) + 1}
    BY <1>1, FS_AddElement
  <1> QED BY <1>1, <1>2, BoundsAssumption

\* There is room for one more reference in a list that is not full.
LEMMA ListAppend ==
    ASSUME NEW S, IsFiniteSet(S), Cardinality(S) < M, NEW y
    PROVE  Cardinality(S \cup {y}) <= M
  <1>1. Cardinality(S) \in Nat
    BY FS_CardinalityType
  <1>2. Cardinality(S \cup {y}) \in {Cardinality(S), Cardinality(S) + 1}
    BY FS_AddElement
  <1> QED BY <1>1, <1>2, BoundsAssumption

\* What the loaders make of lists within the bounds is within the bounds;
\* VacuumLoadAdjTuple returns the list of at most one tuple.
LEMMA LoadedLists ==
    ASSUME LaxInv, AdjPagesInv
    PROVE  /\ \A k : ListOk(LoadAdjTuple(k))
           /\ \A n : \A k \in 0..(n - 1) : LoadAllAdjPages(n)[k] \subseteq Linkable
  <1>1. \A k : AdjAt(k) \subseteq 1..Len(adj)
    BY DEF AdjAt
  <1>2. \A k : FirstAdj(k) \subseteq AdjAt(k) /\ LastAdj(k) \subseteq AdjAt(k)
    BY DEF FirstAdj, LastAdj
  <1>3. \A i \in 1..Len(adj) : ListOk(adj[i].nbrs)
    BY DEF AdjPagesInv
  <1>4. ASSUME NEW k PROVE ListOk(LoadAdjTuple(k))
    <2>1. \A i, j \in FirstAdj(k) : i = j
      <3>1. Len(adj) \in Nat
        BY AdjFacts DEF LaxInv, InvWith
      <3> QED BY <1>1, <3>1 DEF FirstAdj
    <2>2. CASE FirstAdj(k) = {}
      <3>1. LoadAdjTuple(k) = {}
        BY <2>2 DEF LoadAdjTuple
      <3> QED BY <3>1, FS_EmptySet, BoundsAssumption DEF ListOk
    <2>3. ASSUME NEW i \in FirstAdj(k) PROVE ListOk(LoadAdjTuple(k))
      <3>1. LoadAdjTuple(k) = adj[i].nbrs
        BY <2>1 DEF LoadAdjTuple
      <3>2. i \in 1..Len(adj)
        BY <1>1, <1>2
      <3> QED BY <1>3, <3>1, <3>2
    <2> QED BY <2>2, <2>3
  <1>5. \A k : UNION {adj[i].nbrs : i \in LastAdj(k)} \subseteq Linkable
    BY <1>1, <1>2, <1>3 DEF ListOk
  <1> QED BY <1>4, <1>5 DEF LoadAllAdjPages

\* CREATE INDEX fills each list with at most M nodes of the graph.
LEMMA InitAdj == Init => AdjInv
  <1> SUFFICES ASSUME Init PROVE AdjInv
    OBVIOUS
  <1> DEFINE n == Len(InitTids)
  <1>0. n \in Nat /\ M \in Nat
    BY InitTidsAssumption, BoundsAssumption, LenProperties
  <1>1. /\ ins.pc = "idle" /\ DOMAIN vac.adj = {}
        /\ \A b \in Backends : DOMAIN cache[b].adj = {}
    BY DEF Init, InsIdle, VacIdle, NoCache, Nothing
  <1>2. meta.count = n /\ EntryOk(meta)
    BY <1>0 DEF Init, EntryOk, IsBestLiveNode
  <1>3. Linkable = 0..(n - 1)
    BY <1>1, <1>2 DEF Linkable
  <1>4. AdjPagesInv
    <2>1. PICK g \in [0..(n - 1) -> SUBSET (0..(n - 1))] :
            /\ \A k \in 0..(n - 1) :
                 k \notin g[k] /\ Cardinality(g[k]) = IF n <= M THEN n - 1 ELSE M
            /\ adj = [i \in 1..n |-> [node |-> i - 1, nbrs |-> g[i - 1]]]
      BY DEF Init
    <2>2. Len(adj) = n
      BY <1>0, <2>1
    <2>3. ASSUME NEW i \in 1..n PROVE adj[i].node < n /\ ListOk(adj[i].nbrs)
      <3>1. i - 1 \in 0..(n - 1) /\ adj[i].node = i - 1 /\ adj[i].nbrs = g[i - 1]
        BY <1>0, <2>1
      <3>2. g[i - 1] \subseteq 0..(n - 1) /\ Cardinality(g[i - 1]) <= M
        BY <1>0, <2>1, <3>1
      <3> QED BY <1>0, <1>3, <3>1, <3>2 DEF ListOk
    <2> QED BY <1>2, <2>2, <2>3 DEF AdjPagesInv
  <1>5. AdjCopiesInv
    BY <1>1 DEF AdjCopiesInv
  <1>6. EntryInv
    BY <1>1, <1>2 DEF EntryInv
  <1> QED BY <1>4, <1>5, <1>6 DEF AdjInv

\* Steps that change no neighbour list, no insert and no count.
LEMMA AdjQuiet ==
    ASSUME AdjInv, UNCHANGED <<adj, ins, cache>>, meta'.count = meta.count, EntryOk(meta)',
           vac'.adj = vac.adj \/ vac'.adj = Nothing
    PROVE  AdjInv'
  <1> USE DEF AdjInv
  <1>1. Linkable' = Linkable
    BY DEF Linkable
  <1>2. \A s : ListOk(s)' <=> ListOk(s)
    BY <1>1 DEF ListOk
  <1>3. AdjPagesInv'
    BY <1>2 DEF AdjPagesInv
  <1>4. AdjCopiesInv'
    BY <1>1, <1>2 DEF AdjCopiesInv, Nothing
  <1>5. EntryInv'
    BY DEF EntryInv, EntryOk
  <1> QED BY <1>3, <1>4, <1>5

\* The insert begins with a copy of the metapage; one more id may be linked.
LEMMA InsertBeginAdj ==
    ASSUME LaxInv, AdjInv, NEW b \in Backends, NEW t \in Tids, InsertBegin(b, t)
    PROVE  AdjInv'
  <1> USE DEF AdjInv
  <1>i. PICK cached \in BOOLEAN :
          /\ ins' = [pc |-> "select", by |-> b, tid |-> t, m |-> meta, cached |-> cached,
                     sel |-> {}, todo |-> {}, src |-> None, buf |-> {}]
          /\ cache' = [cache EXCEPT ![b] = IF cached THEN FindOrBuild(b, meta) ELSE @]
    BY DEF InsertBegin
  <1>0. /\ ins.pc = "idle" /\ ins'.pc = "select" /\ ins'.m = meta /\ ins'.sel = {}
        /\ UNCHANGED <<adj, meta, vac>>
    BY <1>i DEF InsertBegin
  <1>1. meta.count \in Nat
    BY MetaFacts DEF LaxInv, InvWith, TypeOK, PageType
  <1>2. Linkable = 0..(meta.count - 1) /\ Linkable' = 0..meta.count
    BY <1>0 DEF Linkable
  <1>3. Linkable \subseteq Linkable'
    BY <1>1, <1>2
  <1>4. \A s : ListOk(s) => ListOk(s)'
    BY <1>3 DEF ListOk
  <1>5. AdjPagesInv'
    BY <1>0, <1>4 DEF AdjPagesInv
  <1>6. /\ \A x \in Backends : x # b => cache'[x] = cache[x]
        /\ cache'[b] = BuildCache(meta) \/ cache'[b] = cache[b]
    BY <1>i DEF LaxInv, InvWith, TypeOK, CacheType, FindOrBuild
  <1>7. \A k \in DOMAIN BuildCache(meta).adj : BuildCache(meta).adj[k] \subseteq Linkable
    <2>1. BuildCache(meta).adj = LoadAllAdjPages(meta.count)
      BY DEF BuildCache
    <2>2. DOMAIN LoadAllAdjPages(meta.count) = 0..(meta.count - 1)
      BY DEF LoadAllAdjPages
    <2> QED BY <2>1, <2>2, LoadedLists
  <1>8. \A x \in Backends : \A k \in DOMAIN cache'[x].adj : cache'[x].adj[k] \subseteq Linkable'
    BY <1>3, <1>6, <1>7 DEF AdjCopiesInv
  <1>9. AdjCopiesInv'
    <2>1. Cardinality({}) <= M
      BY FS_EmptySet, BoundsAssumption
    <2> QED BY <1>0, <1>4, <1>8, <2>1 DEF AdjCopiesInv
  <1>10. EntryInv'
    BY <1>0 DEF EntryInv, EntryOk
  <1> QED BY <1>5, <1>9, <1>10

\* Steps of a running insert that neither change the pages nor the caches.
LEMMA InsOnlyAdj ==
    ASSUME LaxInv, AdjInv, UNCHANGED <<adj, meta, vac, cache>>,
           ins.pc \notin {"idle", "meta"}, ins'.pc # "idle", ins'.m = ins.m,
           Cardinality(ins'.sel) <= M, ins'.pc = "write" => ListOk(ins'.buf)
    PROVE  AdjInv'
  <1> USE DEF AdjInv
  <1>1. Linkable' = Linkable
    BY DEF Linkable
  <1>2. \A s : ListOk(s)' <=> ListOk(s)
    BY <1>1 DEF ListOk
  <1>3. AdjPagesInv'
    BY <1>2 DEF AdjPagesInv
  <1>4. AdjCopiesInv'
    BY <1>1, <1>2 DEF AdjCopiesInv
  <1>5. EntryInv'
    BY DEF EntryInv, EntryOk
  <1> QED BY <1>3, <1>4, <1>5

\* At most M neighbours are selected.
LEMMA InsertSelectAdj ==
    ASSUME LaxInv, AdjInv, InsertSelect
    PROVE  AdjInv'
  <1>0. /\ ins.pc = "select" /\ UNCHANGED <<adj, meta, vac, cache>>
        /\ \E sel : Cardinality(sel) <= M /\ ins' = [ins EXCEPT !.pc = "link", !.sel = sel, !.todo = sel]
    BY DEF InsertSelect
  <1>1. ins'.pc = "link" /\ ins'.m = ins.m /\ Cardinality(ins'.sel) <= M
    BY <1>0, InsFacts DEF LaxInv, InvWith
  <1> QED BY <1>0, <1>1, InsOnlyAdj

\* The lists an insert reads, from the pages or from its cache.
LEMMA InsAdjLinkable ==
    ASSUME LaxInv, AdjInv, ins.pc # "idle", NEW src \in 0..(meta.count - 1)
    PROVE  /\ InsAdj[src] \subseteq Linkable
           /\ Linkable = 0..meta.count /\ ins.m.count = meta.count /\ meta.count \in Nat
  <1>1. ins.m.count = meta.count /\ meta.count \in Nat /\ ins.by \in Backends
    BY InsFacts, InsViewFacts DEF LaxInv, InvWith
  <1>2. CASE ins.cached
    <2>1. CacheOk(ins.by, TRUE)
      BY <1>1 DEF LaxInv, InvWith, CacheInv
    <2>2. cache[ins.by].count = meta.count
      BY <1>2 DEF LaxInv, InvWith, InsInv
    <2>3. src \in DOMAIN cache[ins.by].adj
      BY <2>1, <2>2 DEF CacheOk
    <2> QED BY <1>1, <1>2, <2>3 DEF InsAdj, Linkable, AdjInv, AdjCopiesInv
  <1>3. CASE ~ins.cached
    <2>1. InsAdj[src] = LoadAdjTuple(src)
      BY <1>1, <1>3 DEF InsAdj
    <2> QED BY <1>1, <2>1, LoadedLists DEF Linkable, ListOk, AdjInv
  <1> QED BY <1>2, <1>3

\* A list is pruned to M before it is written.
LEMMA InsertLoadAdj ==
    ASSUME LaxInv, AdjInv, NEW src \in Nodes, InsertLoad(src)
    PROVE  AdjInv'
  <1>0. ins.pc = "link" /\ src \in ins.todo /\ UNCHANGED <<adj, meta, vac, cache>>
    BY DEF InsertLoad
  <1>1. src \in 0..(meta.count - 1)
    BY <1>0 DEF LaxInv, InvWith, InsInv
  <1>2. Cardinality(ins.sel) <= M
    BY <1>0 DEF AdjInv, AdjCopiesInv
  <1>3. CASE ins' = [ins EXCEPT !.todo = @ \ {src}]
    <2>1. ins'.pc = "link" /\ ins'.m = ins.m /\ ins'.sel = ins.sel
      BY <1>0, <1>3, InsFacts DEF LaxInv, InvWith
    <2> QED BY <1>0, <1>2, <2>1, InsOnlyAdj
  <1>4. CASE \E kept \in SUBSET (InsAdj[src] \cup {ins.m.count}) :
                /\ Cardinality(kept) <= M
                /\ ins' = [ins EXCEPT !.pc = "write", !.src = src, !.buf = kept]
    <2>0. PICK kept \in SUBSET (InsAdj[src] \cup {ins.m.count}) :
                /\ Cardinality(kept) <= M
                /\ ins' = [ins EXCEPT !.pc = "write", !.src = src, !.buf = kept]
      BY <1>4
    <2>1. ins'.pc = "write" /\ ins'.m = ins.m /\ ins'.sel = ins.sel /\ ins'.buf = kept
      BY <1>0, <2>0, InsFacts DEF LaxInv, InvWith
    <2>2. ListOk(kept)
      <3>1. ins.m.count \in Linkable
        BY <1>0, <1>1, InsAdjLinkable
      <3>2. InsAdj[src] \subseteq Linkable
        BY <1>0, <1>1, InsAdjLinkable
      <3> QED BY <2>0, <3>1, <3>2 DEF ListOk
    <2> QED BY <1>0, <1>2, <2>1, <2>2, InsOnlyAdj
  <1>5. \/ ins' = [ins EXCEPT !.todo = @ \ {src}]
        \/ \E kept \in SUBSET (InsAdj[src] \cup {ins.m.count}) :
             /\ Cardinality(kept) <= M
             /\ ins' = [ins EXCEPT !.pc = "write", !.src = src, !.buf = kept]
    BY DEF InsertLoad
  <1> QED BY <1>3, <1>4, <1>5

\* The append of the code tuple.
LEMMA InsertAppendCodeAdj ==
    ASSUME LaxInv, AdjInv, InsertAppendCode
    PROVE  AdjInv'
  <1>0. /\ ins.pc = "link" /\ ins' = [ins EXCEPT !.pc = "adj"]
        /\ UNCHANGED <<adj, meta, vac, cache>>
    BY DEF InsertAppendCode
  <1>1. ins'.pc = "adj" /\ ins'.m = ins.m /\ ins'.sel = ins.sel
    BY <1>0, InsFacts DEF LaxInv, InvWith
  <1>2. Cardinality(ins.sel) <= M
    BY <1>0 DEF AdjInv, AdjCopiesInv
  <1> QED BY <1>0, <1>1, <1>2, InsOnlyAdj

\* The reciprocal write puts a pruned list on the page and into the cache.
LEMMA InsertWriteAdj ==
    ASSUME LaxInv, AdjInv, InsertWrite
    PROVE  AdjInv'
  <1> USE DEF AdjInv
  <1>0. /\ ins.pc = "write" /\ adj' = UpdateAdjTuple(InsSlot(ins.src), ins.buf)
        /\ cache' = IF ins.cached THEN [cache EXCEPT ![ins.by].adj[ins.src] = ins.buf] ELSE cache
        /\ ins' = [ins EXCEPT !.pc = "link", !.todo = @ \ {ins.src}]
        /\ UNCHANGED <<meta, vac>>
    BY DEF InsertWrite
  <1>1. ins'.pc = "link" /\ ins'.m = ins.m /\ ins'.sel = ins.sel /\ ins.by \in Backends
    BY <1>0, InsFacts DEF LaxInv, InvWith
  <1>2. Linkable' = Linkable /\ ListOk(ins.buf)
    BY <1>0, <1>1 DEF Linkable, AdjCopiesInv
  <1>3. \A s : ListOk(s)' <=> ListOk(s)
    BY <1>2 DEF ListOk
  <1>4. /\ Len(adj') = Len(adj)
        /\ \A i \in 1..Len(adj) : /\ adj'[i].node = adj[i].node
                                  /\ adj'[i].nbrs \in {adj[i].nbrs, ins.buf}
    <2>1. Len(adj) \in Nat /\ \A i \in 1..Len(adj) : adj[i] \in [node : Nodes, nbrs : SUBSET Nodes]
      BY AdjFacts DEF LaxInv, InvWith
    <2> QED BY <1>0, <2>1 DEF UpdateAdjTuple
  <1>5. AdjPagesInv'
    BY <1>0, <1>2, <1>3, <1>4 DEF AdjPagesInv
  <1>6. ASSUME NEW x \in Backends, NEW k \in DOMAIN cache'[x].adj
        PROVE  cache'[x].adj[k] \subseteq Linkable
    <2>1. cache = [y \in Backends |-> cache[y]] /\ IsCache(cache[x])
      BY DEF LaxInv, InvWith, TypeOK, CacheType
    <2>2. CASE cache'[x] = cache[x]
      BY <2>2 DEF AdjCopiesInv
    <2>3. CASE cache'[x] = [cache[x] EXCEPT !.adj[ins.src] = ins.buf]
      <3>1. cache'[x].adj = [cache[x].adj EXCEPT ![ins.src] = ins.buf]
        BY <2>1, <2>3 DEF IsCache
      <3>2. k \in DOMAIN cache[x].adj /\ cache'[x].adj[k] \in {cache[x].adj[k], ins.buf}
        BY <3>1
      <3> QED BY <1>2, <3>2 DEF AdjCopiesInv, ListOk
    <2> QED BY <1>0, <1>1, <2>1, <2>2, <2>3
  <1>7. AdjCopiesInv'
    BY <1>0, <1>1, <1>2, <1>3, <1>6 DEF AdjCopiesInv
  <1>8. EntryInv'
    BY <1>0, <1>1 DEF EntryInv, EntryOk
  <1> QED BY <1>5, <1>7, <1>8

\* The new node's own list is the selection.
LEMMA InsertAppendAdjAdj ==
    ASSUME LaxInv, AdjInv, InsertAppendAdj
    PROVE  AdjInv'
  <1> USE DEF AdjInv
  <1> DEFINE new == [node |-> ins.m.count, nbrs |-> ins.sel]
  <1>0. /\ ins.pc = "adj" /\ ins' = [ins EXCEPT !.pc = "meta"] /\ adj' = Append(adj, new)
        /\ UNCHANGED <<meta, vac, cache>>
    BY DEF InsertAppendAdj
  <1>1. ins'.pc = "meta" /\ ins'.m = ins.m /\ ins'.sel = ins.sel
    BY <1>0, InsFacts DEF LaxInv, InvWith
  <1>2. /\ ins.m.count = meta.count /\ meta.count \in Nat /\ meta.count \in Nodes
        /\ ins.sel \subseteq 0..(meta.count - 1) /\ 0..(meta.count - 1) \subseteq Nodes
    BY <1>0, InsViewFacts DEF LaxInv, InvWith, InsInv
  <1>3. Linkable' = Linkable /\ Linkable = 0..meta.count
    BY <1>0, <1>1 DEF Linkable
  <1>4. \A s : ListOk(s)' <=> ListOk(s)
    BY <1>3 DEF ListOk
  <1>5. new.node = meta.count /\ ListOk(new.nbrs)
    BY <1>0, <1>2, <1>3 DEF ListOk, AdjCopiesInv
  <1>6. /\ Len(adj) \in Nat /\ Len(adj') = Len(adj) + 1 /\ adj'[Len(adj) + 1] = new
        /\ \A i \in 1..Len(adj) : adj'[i] = adj[i]
    BY <1>0, AppendProperties, AdjFacts DEF LaxInv, InvWith, TypeOK, PageType
  <1> HIDE DEF new
  <1>7. AdjPagesInv'
    <2> SUFFICES ASSUME NEW i \in 1..(Len(adj) + 1)
                 PROVE  /\ adj'[i].node < meta.count \/ adj'[i].node = meta.count
                        /\ ListOk(adj'[i].nbrs)
      BY <1>0, <1>1, <1>4, <1>6 DEF AdjPagesInv
    <2>1. CASE i = Len(adj) + 1
      BY <1>5, <1>6, <2>1
    <2>2. CASE i \in 1..Len(adj)
      BY <1>6, <2>2 DEF AdjPagesInv
    <2> QED BY <1>6, <2>1, <2>2
  <1>8. AdjCopiesInv'
    BY <1>0, <1>1, <1>3, <1>4 DEF AdjCopiesInv
  <1>9. EntryInv'
    BY <1>0, <1>1 DEF EntryInv, EntryOk
  <1> QED BY <1>7, <1>8, <1>9

\* The metapage update makes the linked id a node.
LEMMA InsertUpdateMetaAdj ==
    ASSUME LaxInv, AdjInv, InsertUpdateMeta
    PROVE  AdjInv'
  <1> USE DEF AdjInv
  <1>0. /\ ins.pc = "meta" /\ meta' = InsertedMeta /\ ins' = InsIdle
        /\ cache' = [cache EXCEPT ![ins.by] =
                       IF ins.cached
                       THEN AppendInsertCacheNode(@, ins.m.count, NewTuple, ins.sel,
                                                  InsertedMeta.entry)
                       ELSE @]
        /\ UNCHANGED <<adj, vac>>
    BY DEF InsertUpdateMeta
  <1>1. /\ ins.m.count = meta.count /\ meta.count \in Nat /\ ins'.pc = "idle"
        /\ ins.sel \subseteq 0..(meta.count - 1) /\ ins.by \in Backends
    BY <1>0, InsFacts, InsViewFacts DEF LaxInv, InvWith, InsInv, InsIdle
  <1>2. meta'.count = meta.count + 1
    BY <1>0, <1>1 DEF InsertedMeta
  <1>3. Linkable' = Linkable /\ Linkable = 0..meta.count
    <2>1. (meta.count + 1) - 1 = meta.count
      BY <1>1
    <2> QED BY <1>0, <1>1, <1>2, <2>1 DEF Linkable
  <1>4. \A s : ListOk(s)' <=> ListOk(s)
    BY <1>3 DEF ListOk
  <1>5. AdjPagesInv'
    <2>1. \A i \in 1..Len(adj) : adj[i].node \in Nat
      BY AdjFacts DEF LaxInv, InvWith, Nodes
    <2> QED BY <1>0, <1>1, <1>2, <1>4, <2>1 DEF AdjPagesInv
  <1>6. ASSUME NEW x \in Backends, NEW k \in DOMAIN cache'[x].adj
        PROVE  cache'[x].adj[k] \subseteq Linkable
    <2>1. cache = [y \in Backends |-> cache[y]] /\ IsCache(cache[x])
      BY DEF LaxInv, InvWith, TypeOK, CacheType
    <2>2. CASE cache'[x] = cache[x]
      BY <2>2 DEF AdjCopiesInv
    <2>3. CASE cache'[x] = AppendInsertCacheNode(cache[x], ins.m.count, NewTuple, ins.sel,
                                                 InsertedMeta.entry)
               /\ cache[x].count = ins.m.count
      <3>1. cache'[x].adj = [j \in DOMAIN cache[x].adj \cup {ins.m.count} |->
                               IF j = ins.m.count THEN ins.sel ELSE cache[x].adj[j]]
        BY <2>1, <2>3 DEF IsCache, AppendInsertCacheNode
      <3>2. CASE k = ins.m.count
        BY <1>1, <1>3, <3>1, <3>2
      <3>3. CASE k # ins.m.count
        BY <3>1, <3>3 DEF AdjCopiesInv
      <3> QED BY <3>2, <3>3
    <2>4. x = ins.by /\ ins.cached => cache[x].count = ins.m.count
      BY <1>0, <1>1 DEF LaxInv, InvWith, InsInv
    <2> QED BY <1>0, <1>1, <2>1, <2>2, <2>3, <2>4
  <1>7. AdjCopiesInv'
    BY <1>0, <1>1, <1>3, <1>4, <1>6 DEF AdjCopiesInv
  <1>8. EntryInv'
    <2>1. /\ ins.m.seeds \subseteq 0..(meta.count - 1)
          /\ meta.count > 0 => ins.m.entry \in 0..(meta.count - 1)
      BY <1>0, <1>1 DEF EntryInv, EntryOk
    <2>2. /\ meta'.seeds = ins.m.seeds /\ meta'.entry \in {meta.count, ins.m.entry}
          /\ meta.count = 0 => meta'.entry = 0
      BY <1>0, <1>1 DEF InsertedMeta
    <2>3. EntryOk(meta)'
      BY <1>1, <1>2, <2>1, <2>2 DEF EntryOk
    <2> QED BY <1>1, <2>3 DEF EntryInv
  <1> QED BY <1>5, <1>7, <1>8

\* VACUUM's steps on its own copy of the graph.
LEMMA VacOnlyAdj ==
    ASSUME AdjInv, UNCHANGED <<adj, meta, ins, cache>>, \A k \in DOMAIN vac'.adj : ListOk(vac'.adj[k])
    PROVE  AdjInv'
  <1> USE DEF AdjInv
  <1>1. Linkable' = Linkable
    BY DEF Linkable
  <1>2. \A s : ListOk(s)' <=> ListOk(s)
    BY <1>1 DEF ListOk
  <1>3. AdjPagesInv'
    BY <1>2 DEF AdjPagesInv
  <1>4. AdjCopiesInv'
    BY <1>1, <1>2 DEF AdjCopiesInv
  <1>5. EntryInv'
    BY DEF EntryInv, EntryOk
  <1> QED BY <1>3, <1>4, <1>5

\* Reading one list.
LEMMA VacuumLoadAdjAdj ==
    ASSUME LaxInv, AdjInv, VacuumLoadAdj
    PROVE  AdjInv'
  <1> DEFINE read == [j \in 0..vac.k |-> IF j = vac.k THEN LoadAdjTuple(vac.k) ELSE vac.adj[j]]
  <1>0. vac.pc = "load" /\ UNCHANGED <<adj, meta, ins, cache>>
    BY DEF VacuumLoadAdj
  <1>1. vac'.adj = read
    BY VacFacts DEF VacuumLoadAdj, LaxInv, InvWith
  <1>2. ASSUME NEW j \in 0..vac.k PROVE ListOk(read[j])
    <2>1. CASE j = vac.k
      BY <2>1, LoadedLists DEF AdjInv
    <2>2. CASE j # vac.k
      <3>1. j \in DOMAIN vac.adj
        BY <2>2, VacFacts DEF LaxInv, InvWith, RepairInv
      <3> QED BY <2>2, <3>1 DEF AdjInv, AdjCopiesInv
    <2> QED BY <2>1, <2>2
  <1> QED BY <1>0, <1>1, <1>2, VacOnlyAdj

\* Writing one repaired list.
LEMMA VacuumWriteAdjAdj ==
    ASSUME LaxInv, AdjInv, VacuumWriteAdj
    PROVE  AdjInv'
  <1> USE DEF AdjInv
  <1>0. vac.pc = "write" /\ UNCHANGED <<meta, ins, cache>>
    BY DEF VacuumWriteAdj
  <1>1. vac'.adj = vac.adj
    BY VacFacts DEF VacuumWriteAdj, LaxInv, InvWith
  <1>2. CASE adj' = adj
    BY <1>0, <1>1, <1>2, VacOnlyAdj DEF AdjCopiesInv
  <1>3. ASSUME NEW k \in vac.upd, adj' = UpdateAdjTuple(FirstAdj(k), vac.adj[k])
        PROVE  AdjInv'
    <2>1. k \in DOMAIN vac.adj
      BY <1>0 DEF LaxInv, InvWith, RepairInv
    <2>2. ListOk(vac.adj[k])
      BY <2>1 DEF AdjCopiesInv
    <2>3. /\ Len(adj') = Len(adj)
          /\ \A i \in 1..Len(adj) : /\ adj'[i].node = adj[i].node
                                    /\ adj'[i].nbrs \in {adj[i].nbrs, vac.adj[k]}
      <3>1. /\ Len(adj) \in Nat
            /\ \A i \in 1..Len(adj) : adj[i] \in [node : Nodes, nbrs : SUBSET Nodes]
        BY AdjFacts DEF LaxInv, InvWith
      <3> QED BY <1>3, <3>1 DEF UpdateAdjTuple
    <2>4. Linkable' = Linkable
      BY <1>0 DEF Linkable
    <2>5. \A s : ListOk(s)' <=> ListOk(s)
      BY <2>4 DEF ListOk
    <2>6. AdjPagesInv'
      BY <1>0, <2>2, <2>3, <2>5 DEF AdjPagesInv
    <2>7. AdjCopiesInv'
      BY <1>0, <1>1, <2>4, <2>5 DEF AdjCopiesInv
    <2>8. EntryInv'
      BY <1>0 DEF EntryInv, EntryOk
    <2> QED BY <2>6, <2>7, <2>8
  <1> QED BY <1>2, <1>3 DEF VacuumWriteAdj

\* What VacuumInstallReciprocal does to the lists: the source's reference to
\* the dead node becomes one to the candidate, and the candidate's list has
\* the source, in a slot it had already, in a replaceable one or in a free one.
LEMMA InstallShape ==
    ASSUME LaxInv, vac.pc = "repair", NEW p \in vac.todo,
           NEW c \in RepairCandidates(p[1], p[2]),
           NEW new \in InstallReciprocal(p[1], p[2], c)
    PROVE  /\ p[2] \in 0..(vac.n - 1) /\ c \in 0..(vac.n - 1) /\ c # p[2]
           /\ VacLive(p[2]) /\ VacLive(c) /\ ~VacLive(p[1])
           /\ DOMAIN vac.adj = 0..(vac.n - 1) /\ DOMAIN new = DOMAIN vac.adj
           /\ p[1] \in vac.adj[p[2]] /\ new[p[2]] = (vac.adj[p[2]] \ {p[1]}) \cup {c}
           /\ \/ new[c] = vac.adj[c] /\ p[2] \in vac.adj[c]
              \/ \E j \in vac.adj[c] : ~VacLive(j) /\ new[c] = (vac.adj[c] \ {j}) \cup {p[2]}
              \/ Cardinality(vac.adj[c]) < M /\ new[c] = vac.adj[c] \cup {p[2]}
           /\ \A k \in DOMAIN vac.adj : k # p[2] /\ k # c => new[k] = vac.adj[k]
  <1> USE DEF LaxInv, InvWith
  <1>1. /\ p[1] \in vac.dead /\ p[2] \in 0..(vac.n - 1) /\ p[2] \notin vac.dead
        /\ p[1] \in 0..(vac.n - 1) /\ vac.n \in Nat /\ DOMAIN vac.adj = 0..(vac.n - 1)
        /\ vac.adj \in [0..(vac.n - 1) -> SUBSET Nodes]
    BY VacFacts DEF RepairInv
  <1>2. c \in 0..(vac.n - 1) /\ c # p[2] /\ VacLive(c)
    <2>1. \A k \in 0..(vac.n - 1) : vac.adj[k] \subseteq Nodes
      BY <1>1
    <2>2. \A j \in Nodes : j < vac.n => j \in 0..(vac.n - 1)
      BY <1>1, BoundsAssumption DEF Nodes
    <2>3. c \in Nodes /\ VacLive(c) /\ c # p[2]
      BY <1>1, <2>1, <2>2 DEF RepairCandidates
    <2> QED BY <2>2, <2>3 DEF VacLive
  <1>3. VacLive(p[2]) /\ ~VacLive(p[1])
    BY <1>1 DEF VacLive
  <1>4. p[1] \in vac.adj[p[2]]
    BY DEF InstallReciprocal
  <1>5. PICK s : /\ new = [vac.adj EXCEPT ![p[2]] = (@ \ {p[1]}) \cup {c}, ![c] = s]
                 /\ \/ s = vac.adj[c] /\ p[2] \in vac.adj[c]
                    \/ \E j \in vac.adj[c] : ~VacLive(j) /\ s = (vac.adj[c] \ {j}) \cup {p[2]}
                    \/ Cardinality(vac.adj[c]) < M /\ s = vac.adj[c] \cup {p[2]}
    BY DEF InstallReciprocal, Replaceable
  <1>6. /\ DOMAIN new = DOMAIN vac.adj /\ new[c] = s
        /\ new[p[2]] = (vac.adj[p[2]] \ {p[1]}) \cup {c}
        /\ \A k \in DOMAIN vac.adj : k # p[2] /\ k # c => new[k] = vac.adj[k]
    BY <1>1, <1>2, <1>5
  <1> QED BY <1>1, <1>2, <1>3, <1>4, <1>5, <1>6

\* The cases of a step of the repair.
LEMMA RepairCases ==
    ASSUME LaxInv, VacuumRepair
    PROVE  /\ vac.pc = "repair" /\ UNCHANGED <<heap, code, adj, meta, ins, cache>>
           /\ \/ vac'.adj = vac.adj
              \/ \E p \in vac.todo : \E c \in RepairCandidates(p[1], p[2]) :
                   vac'.adj \in InstallReciprocal(p[1], p[2], c)
  <1>1. /\ vac.pc = "repair" /\ UNCHANGED <<heap, code, adj, meta, ins, cache>>
    BY DEF VacuumRepair
  <1>2. \/ vac' = [vac EXCEPT !.pc = "write"]
        \/ \E p \in vac.todo : vac' = [vac EXCEPT !.todo = @ \ {p}]
        \/ \E p \in vac.todo :
             \E new \in UNION {InstallReciprocal(p[1], p[2], c) : c \in RepairCandidates(p[1], p[2])} :
               vac' = [vac EXCEPT !.adj = new, !.todo = @ \ {p},
                          !.upd = @ \cup {k \in DOMAIN new : new[k] # vac.adj[k]}]
    BY Zenon DEF VacuumRepair
  <1>3. ASSUME NEW p \in vac.todo,
               NEW new \in UNION {InstallReciprocal(p[1], p[2], c) : c \in RepairCandidates(p[1], p[2])},
               vac' = [vac EXCEPT !.adj = new, !.todo = @ \ {p},
                          !.upd = @ \cup {k \in DOMAIN new : new[k] # vac.adj[k]}]
        PROVE  \E c \in RepairCandidates(p[1], p[2]) : vac'.adj \in InstallReciprocal(p[1], p[2], c)
    <2>1. vac'.adj = new
      BY <1>3, VacFacts DEF LaxInv, InvWith
    <2> QED BY <2>1
  <1>4. CASE vac' = [vac EXCEPT !.pc = "write"] \/ \E p \in vac.todo : vac' = [vac EXCEPT !.todo = @ \ {p}]
    BY <1>1, <1>4, VacFacts DEF LaxInv, InvWith
  <1> QED BY <1>1, <1>2, <1>3, <1>4

\* The repair keeps every list within its bounds: no list is lengthened except
\* into a free slot.
LEMMA VacuumRepairAdj ==
    ASSUME LaxInv, AdjInv, VacuumRepair
    PROVE  AdjInv'
  <1>0. vac.pc = "repair" /\ UNCHANGED <<adj, meta, ins, cache>>
    BY RepairCases
  <1>1. CASE vac'.adj = vac.adj
    BY <1>0, <1>1, VacOnlyAdj DEF AdjInv, AdjCopiesInv
  <1>2. ASSUME NEW p \in vac.todo, NEW c \in RepairCandidates(p[1], p[2]),
               NEW new \in InstallReciprocal(p[1], p[2], c)
        PROVE  \A k \in DOMAIN new : ListOk(new[k])
    <2>0. /\ p[2] \in 0..(vac.n - 1) /\ c \in 0..(vac.n - 1)
          /\ DOMAIN vac.adj = 0..(vac.n - 1) /\ DOMAIN new = DOMAIN vac.adj
      BY <1>0, InstallShape
    <2> TAKE k \in DOMAIN new
    <2>1. /\ p[2] \in 0..(vac.n - 1) /\ c \in 0..(vac.n - 1)
          /\ p[2] \in DOMAIN vac.adj /\ c \in DOMAIN vac.adj /\ k \in DOMAIN vac.adj
      BY <2>0
    <2>2. \A j \in DOMAIN vac.adj : ListOk(vac.adj[j]) /\ IsFiniteSet(vac.adj[j])
      BY ListFinite DEF AdjInv, AdjCopiesInv, ListOk
    <2>3. 0..(vac.n - 1) \subseteq Linkable
      <3>1. vac.n \in Nat /\ meta.count \in Nat /\ vac.n <= meta.count
        BY VacFacts, MetaFacts DEF LaxInv, InvWith, VacInv, TypeOK, PageType
      <3> QED BY <3>1 DEF Linkable
    <2>4. CASE k = p[2]
      <3>1. p[1] \in vac.adj[k] /\ new[k] = (vac.adj[k] \ {p[1]}) \cup {c}
        BY <1>0, <1>2, <2>4, InstallShape
      <3>2. Cardinality(new[k]) <= M
        BY <2>1, <2>2, <3>1, ListReplace DEF ListOk
      <3> QED BY <2>1, <2>2, <2>3, <3>1, <3>2 DEF ListOk
    <2>5. CASE k = c
      <3>1. CASE new[k] = vac.adj[k]
        BY <2>1, <2>2, <3>1
      <3>2. ASSUME NEW j \in vac.adj[k], new[k] = (vac.adj[k] \ {j}) \cup {p[2]}
            PROVE  ListOk(new[k])
        <4>1. Cardinality(new[k]) <= M
          BY <2>1, <2>2, <3>2, ListReplace DEF ListOk
        <4> QED BY <2>1, <2>2, <2>3, <3>2, <4>1 DEF ListOk
      <3>3. CASE Cardinality(vac.adj[k]) < M /\ new[k] = vac.adj[k] \cup {p[2]}
        <4>1. Cardinality(new[k]) <= M
          BY <2>1, <2>2, <3>3, ListAppend
        <4> QED BY <2>1, <2>2, <2>3, <3>3, <4>1 DEF ListOk
      <3> QED BY <1>0, <1>2, <2>5, <3>1, <3>2, <3>3, InstallShape
    <2>6. CASE k # p[2] /\ k # c
      <3>1. new[k] = vac.adj[k]
        BY <1>0, <1>2, <2>1, <2>6, InstallShape
      <3> QED BY <2>1, <2>2, <3>1
    <2> QED BY <2>4, <2>5, <2>6
  <1>3. ASSUME NEW p \in vac.todo, NEW c \in RepairCandidates(p[1], p[2]),
               vac'.adj \in InstallReciprocal(p[1], p[2], c)
        PROVE  AdjInv'
    <2>1. \A k \in DOMAIN vac'.adj : ListOk(vac'.adj[k])
      BY <1>2, <1>3
    <2> QED BY <1>0, <2>1, VacOnlyAdj
  <1> QED BY <1>1, <1>3, RepairCases

\* Entry and seeds are repaired with a node of the graph.
LEMMA VacuumRepairEntriesAdj ==
    ASSUME LaxInv, AdjInv, VacuumRepairEntries
    PROVE  AdjInv'
  <1>0. UNCHANGED <<adj, ins, cache>>
    BY DEF VacuumRepairEntries
  <1>1. vac'.adj = vac.adj
    BY VacFacts DEF VacuumRepairEntries, LaxInv, InvWith
  <1>2. meta \in MetaType /\ meta.count \in Nat /\ vac.n \in Nat /\ vac.n <= meta.count
    BY VacFacts, MetaFacts DEF LaxInv, InvWith, VacInv, TypeOK, PageType
  <1>3. EntryOk(meta)
    BY DEF AdjInv, EntryInv
  <1>4. CASE meta' = meta
    BY <1>0, <1>1, <1>3, <1>4, AdjQuiet DEF EntryOk
  <1>5. ASSUME NEW best \in Nodes, IsBestLiveNode(best, vac.dead, vac.n), meta' = RepairedEntries(best)
        PROVE  AdjInv'
    <2>1. best \in 0..(meta.count - 1) /\ meta.count > 0
      BY <1>2, <1>5 DEF IsBestLiveNode
    <2>2. /\ meta'.count = meta.count
          /\ meta'.entry \in {meta.entry, best}
          /\ meta'.seeds = {IF k \in vac.dead THEN best ELSE k : k \in meta.seeds}
      BY <1>2, <1>5 DEF RepairedEntries, MetaType
    <2>3. meta'.entry \in 0..(meta'.count - 1)
      BY <1>3, <2>1, <2>2 DEF EntryOk
    <2>4. meta'.seeds \subseteq 0..(meta'.count - 1)
      BY <1>3, <2>1, <2>2 DEF EntryOk
    <2>5. EntryOk(meta)'
      BY <2>3, <2>4 DEF EntryOk
    <2> QED BY <1>0, <1>1, <2>2, <2>5, AdjQuiet
  <1> QED BY <1>4, <1>5 DEF VacuumRepairEntries

\* The steps of the heap and the other steps of VACUUM change no list.
LEMMA QuietStepsAdj ==
    ASSUME LaxInv, AdjInv,
           \/ \E t \in Tids : HeapInsert(t) \/ HeapInsertNull(t) \/ HeapDelete(t)
           \/ VacuumCollect \/ VacuumReadMeta \/ VacuumLock \/ VacuumPage \/ VacuumBump
           \/ VacuumReap \/ VacuumFail \/ UNCHANGED vars
    PROVE  AdjInv'
  <1>1. meta \in MetaType /\ EntryOk(meta)
    BY DEF AdjInv, EntryInv, LaxInv, InvWith, TypeOK, PageType
  <1>2. CASE UNCHANGED <<adj, meta, ins, vac, cache>>
    BY <1>1, <1>2, AdjQuiet DEF EntryOk
  <1>3. CASE VacuumCollect \/ VacuumReadMeta \/ VacuumLock \/ VacuumPage
    <2>1. vac'.adj = vac.adj
      BY <1>3, VacFacts
         DEF LaxInv, InvWith, VacuumCollect, VacuumReadMeta, VacuumLock, VacuumPage
    <2>2. UNCHANGED <<adj, meta, ins, cache>>
      BY <1>3 DEF VacuumCollect, VacuumReadMeta, VacuumLock, VacuumPage
    <2> QED BY <1>1, <2>1, <2>2, AdjQuiet DEF EntryOk
  <1>4. CASE VacuumReap \/ VacuumFail
    <2>1. vac'.adj = Nothing /\ UNCHANGED <<adj, meta, ins, cache>>
      BY <1>4 DEF VacuumReap, VacuumFail, VacIdle
    <2> QED BY <1>1, <2>1, AdjQuiet DEF EntryOk
  <1>5. CASE VacuumBump
    <2>1. vac'.adj = Nothing /\ UNCHANGED <<adj, ins, cache>>
      BY <1>5 DEF VacuumBump, VacIdle
    <2>2. meta'.count = meta.count /\ meta'.entry = meta.entry /\ meta'.seeds = meta.seeds
      BY <1>1, <1>5 DEF VacuumBump, MetaType
    <2> QED BY <1>1, <2>1, <2>2, AdjQuiet DEF EntryOk
  <1> QED BY <1>2, <1>3, <1>4, <1>5 DEF HeapInsert, HeapInsertNull, HeapDelete, vars

\* Every step of the writers and a cancelled VACUUM preserve the invariant.
LEMMA AdjInductive == LaxInv /\ AdjInv /\ [Write \/ VacuumFail]_vars => AdjInv'
  <1> SUFFICES ASSUME LaxInv, AdjInv, [Write \/ VacuumFail]_vars PROVE AdjInv'
    OBVIOUS
  <1>1. CASE Write
    BY <1>1, InsertBeginAdj, InsertSelectAdj, InsertLoadAdj, InsertWriteAdj, InsertAppendCodeAdj,
       InsertAppendAdjAdj, InsertUpdateMetaAdj, VacuumLoadAdjAdj, VacuumRepairAdj,
       VacuumWriteAdjAdj, VacuumRepairEntriesAdj, QuietStepsAdj
       DEF Write, InsertStep, VacuumStep
  <1>2. CASE VacuumFail \/ UNCHANGED vars
    BY <1>2, QuietStepsAdj
  <1> QED BY <1>1, <1>2

\* The writers' specification is one of the behaviours LaxInv is about.
LEMMA LaxInvOfWriters == SpecWrite => []LaxInv
  <1>1. [Write \/ VacuumFail]_vars => [Next \/ VacuumFail]_vars
    BY DEF Next
  <1> QED BY <1>1, LaxInvHolds, PTL DEF SpecWrite, SpecVacuumFail

\* Whatever inserts, VACUUM and cancelled VACUUMs did, the deep validator of
\* turbohybrid_validate_index reports no error outside an insert: one code
\* tuple per node, lists of at most M nodes below the count, entry and seeds
\* that exist.
THEOREM ValidatorIsSilent == SpecWrite => []ValidatorOk
  <1>1. LaxInv /\ AdjInv => ValidatorOk
    <2> SUFFICES ASSUME LaxInv, AdjInv, ins.pc = "idle"
                 PROVE  ValidateCodeChain /\ ValidateAdjChain /\ ValidateMeta
      BY DEF ValidatorOk
    <2>1. ValidateCodeChain
      BY ChainValidates DEF LaxInv, CodeChainOk
    <2>2. ValidateAdjChain
      BY DEF ValidateAdjChain, AdjInv, AdjPagesInv, ListOk, Linkable
    <2>3. ValidateMeta
      BY DEF ValidateMeta, AdjInv, EntryInv, EntryOk
    <2> QED BY <2>1, <2>2, <2>3
  <1> QED BY <1>1, InitAdj, AdjInductive, LaxInvOfWriters, PTL DEF SpecWrite

\* One step while VACUUM repairs in memory: no reference to a live node is
\* dropped, and each new edge is live and has its reciprocal.
LEMMA RepairStepSound ==
    ASSUME LaxInv, vac.pc = "repair", [Write \/ VacuumFail]_vars, NEW k \in DOMAIN vac.adj
    PROVE  /\ {j \in vac.adj[k] : VacLive(j)} \subseteq vac'.adj[k]
           /\ \A j \in vac'.adj[k] \ vac.adj[k] : VacLive(j) /\ k \in vac'.adj[j]
  <1>1. CASE vac'.adj = vac.adj
    BY <1>1
  <1>2. ASSUME NEW p \in vac.todo, NEW c \in RepairCandidates(p[1], p[2]),
               vac'.adj \in InstallReciprocal(p[1], p[2], c)
        PROVE  /\ {j \in vac.adj[k] : VacLive(j)} \subseteq vac'.adj[k]
               /\ \A j \in vac'.adj[k] \ vac.adj[k] : VacLive(j) /\ k \in vac'.adj[j]
    <2> DEFINE new == vac'.adj
    <2>1. /\ c # p[2] /\ VacLive(p[2]) /\ VacLive(c) /\ ~VacLive(p[1])
          /\ new[p[2]] = (vac.adj[p[2]] \ {p[1]}) \cup {c}
          /\ \/ new[c] = vac.adj[c] /\ p[2] \in vac.adj[c]
             \/ \E j \in vac.adj[c] : ~VacLive(j) /\ new[c] = (vac.adj[c] \ {j}) \cup {p[2]}
             \/ new[c] = vac.adj[c] \cup {p[2]}
          /\ k # p[2] /\ k # c => new[k] = vac.adj[k]
      BY <1>2, InstallShape, SMTT(30)
    <2> HIDE DEF new
    <2>2. /\ p[2] \in new[c] /\ c \in new[p[2]]
          /\ {j \in vac.adj[c] : VacLive(j)} \subseteq new[c]
          /\ new[c] \ vac.adj[c] \subseteq {p[2]}
      BY <2>1
    <2>3. CASE k = p[2]
      BY <2>1, <2>2, <2>3 DEF new
    <2>4. CASE k = c
      BY <2>1, <2>2, <2>4 DEF new
    <2>5. CASE k # p[2] /\ k # c
      BY <2>1, <2>5 DEF new
    <2> QED BY <2>3, <2>4, <2>5
  <1>3. ASSUME ~VacuumRepair PROVE vac' = vac
    BY <1>3 DEF Write, InsertStep, VacuumStep, VacuumFail, vars, HeapInsert, HeapInsertNull,
       HeapDelete, InsertBegin, InsertSelect, InsertLoad, InsertWrite, InsertAppendCode,
       InsertAppendAdj, InsertUpdateMeta, VacuumCollect, VacuumReadMeta, VacuumLock, VacuumPage,
       VacuumLoadAdj, VacuumWriteAdj, VacuumRepairEntries, VacuumBump, VacuumReap
  <1> QED BY <1>1, <1>2, <1>3, RepairCases

\* RepairAdjacencyForDeadNodes keeps its promise, "only when a reciprocal live
\* edge can be installed", whatever inserts do to the pages meanwhile.
THEOREM RepairIsSound == SpecWrite => RepairSound
  <1>1. LaxInv /\ [Write \/ VacuumFail]_vars =>
          [vac.pc = "repair" => \A k \in DOMAIN vac.adj :
             /\ {j \in vac.adj[k] : VacLive(j)} \subseteq vac'.adj[k]
             /\ \A j \in vac'.adj[k] \ vac.adj[k] : VacLive(j) /\ k \in vac'.adj[j]]_vars
    BY RepairStepSound
  <1> QED BY <1>1, LaxInvOfWriters, PTL DEF SpecWrite, RepairSound

=============================================================================

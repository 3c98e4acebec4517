------------------------ MODULE ParallelBuildProofs ------------------------
(***************************************************************************)
(* Proofs about the parallel CREATE INDEX, for any number of workers, of   *)
(* nodes and of failures.  The invariant Inv of ParallelBuild is           *)
(* inductive: no two participants race for the shared graph, and the index *)
(* holds every row of the scan once.  With it GraphInv is: the lists under *)
(* construction are lists of a graph, which every operation of BuildGraph  *)
(* keeps, and the index written of it is one a search can use.             *)
(***************************************************************************)
EXTENDS ParallelBuild, OrderLemmas, SequenceTheorems

(***************************************************************************)
(* Sorting.                                                                *)
(***************************************************************************)

\* Sorting a set of row addresses lists each of them once.
LEMMA SortedRows ==
    ASSUME NEW S, S \subseteq Nat, IsFiniteSet(S)
    PROVE  /\ InTidOrder(S) \in Seq(S)
           /\ Len(InTidOrder(S)) = Cardinality(S) /\ Cardinality(S) \in Nat
           /\ IsInjective(InTidOrder(S)) /\ Range(InTidOrder(S)) = S
  <1> DEFINE s == InTidOrder(S)
             L == {xy \in S \X S : xy[1] < xy[2]}
  <1>1. \A x, y \in S : <<x, y>> \in L <=> x < y
    OBVIOUS
  <1>2. \A x \in S : {y \in S : <<y, x>> \in L} = {y \in S : y < x}
    BY <1>1
  <1>3. s = RankList(S, L)
    <2>1. s = [i \in 1 .. Cardinality(S) |->
                  CHOOSE x \in S : Cardinality({y \in S : y < x}) = i - 1]
      BY DEF InTidOrder, Sorted
    <2>2. \A i \in 1 .. Cardinality(S) :
             (CHOOSE x \in S : Cardinality({y \in S : y < x}) = i - 1)
              = (CHOOSE x \in S : Cardinality({y \in S : <<y, x>> \in L}) = i - 1)
      <3> HIDE DEF L
      <3> QED BY <1>2, Zenon
    <2> HIDE DEF L
    <2> QED BY <2>1, <2>2, Zenon DEF RankList
  <1>4. /\ \A x \in S : <<x, x>> \notin L
        /\ \A x, y, z \in S : <<x, y>> \in L /\ <<y, z>> \in L => <<x, z>> \in L
        /\ \A x, y \in S : x = y \/ <<x, y>> \in L \/ <<y, x>> \in L
    <2> HIDE DEF L
    <2> QED BY <1>1
  <1>5. /\ s \in [1 .. Cardinality(S) -> S]
        /\ \A i, j \in 1 .. Cardinality(S) : s[i] = s[j] => i = j
        /\ \A x \in S : \E i \in 1 .. Cardinality(S) : s[i] = x
    <2> HIDE DEF L, s
    <2>1. StrictOrder(S, L)
      BY <1>4, Zenon DEF StrictOrder
    <2>2. /\ RankList(S, L) \in [1 .. Cardinality(S) -> S]
          /\ \A i, j \in 1 .. Cardinality(S) : RankList(S, L)[i] = RankList(S, L)[j] => i = j
          /\ \A x \in S : \E i \in 1 .. Cardinality(S) : RankList(S, L)[i] = x
      BY <2>1, OrderedList, Zenon
    <2> QED BY <1>3, <2>2
  <1>6. Cardinality(S) \in Nat
    BY FS_CardinalityType
  <1> HIDE DEF s
  <1>7. s \in Seq(S) /\ Len(s) = Cardinality(S) /\ DOMAIN s = 1 .. Cardinality(S)
    BY <1>5, <1>6
  <1>8. IsInjective(s)
    BY <1>5, <1>7 DEF IsInjective
  <1>9. Range(s) \subseteq S /\ S \subseteq Range(s)
    BY <1>5, <1>7 DEF Range
  <1> QED BY <1>6, <1>7, <1>8, <1>9 DEF s

\* The build order lists the node ids.
LEMMA OrderIsInjective ==
    ASSUME ns \in Seq(Rows \cup {0}), Len(ns) <= Cardinality(Rows) + 1
    PROVE  /\ BuildOrder(Ids(ns)) \in [1 .. Len(ns) -> Ids(ns)]
           /\ IsInjective(BuildOrder(Ids(ns)))
  <1> DEFINE S == Ids(ns)
             L == {xy \in S \X S : Key[xy[1]] < Key[xy[2]]
                                    \/ (Key[xy[1]] = Key[xy[2]] /\ xy[1] < xy[2])}
             s == BuildOrder(S)
  <1>1. Len(ns) \in Nat /\ Cardinality(Rows) \in Nat
    BY FS_CardinalityType, ParallelBuildAssumption
  <1>2. S \in SUBSET (0 .. Cardinality(Rows)) /\ \A x \in S : Key[x] \in Nat /\ x \in Nat
    BY <1>1, ParallelBuildAssumption DEF Ids
  <1>3. IsFiniteSet(S) /\ Cardinality(S) = Len(ns)
    <2>1. IsFiniteSet(0 .. Len(ns) - 1)
          /\ Cardinality(0 .. Len(ns) - 1) = Len(ns)
      <3> DEFINE m == Len(ns) - 1
      <3>1. m \in Int /\ 0 \in Int
        BY <1>1
      <3> HIDE DEF m
      <3>2. /\ IsFiniteSet(0 .. m)
            /\ Cardinality(0 .. m) = IF 0 > m THEN 0 ELSE m - 0 + 1
        BY <3>1, FS_Interval
      <3>3. Cardinality(0 .. m) = m + 1
        BY <3>2, <1>1 DEF m
      <3> QED BY <3>2, <3>3, <1>1 DEF m
    <2> QED BY <1>1, <2>1 DEF Ids
  <1>4. \A x, y \in S : <<x, y>> \in L <=> Key[x] < Key[y] \/ (Key[x] = Key[y] /\ x < y)
    <2> HIDE DEF S
    <2> QED OBVIOUS
  <1>5. \A x \in S : {y \in S : <<y, x>> \in L}
                    = {y \in S : Key[y] < Key[x] \/ (Key[y] = Key[x] /\ y < x)}
    <2> HIDE DEF S, L
    <2> QED BY <1>4
  <1>6. s = RankList(S, L)
    <2>1. s = [i \in 1 .. Cardinality(S) |->
                  CHOOSE x \in S : Cardinality({y \in S : Key[y] < Key[x]
                                                  \/ (Key[y] = Key[x] /\ y < x)}) = i - 1]
      BY DEF BuildOrder, Sorted
    <2>2. \A i \in 1 .. Cardinality(S) :
             (CHOOSE x \in S : Cardinality({y \in S : Key[y] < Key[x]
                                                  \/ (Key[y] = Key[x] /\ y < x)}) = i - 1)
              = (CHOOSE x \in S : Cardinality({y \in S : <<y, x>> \in L}) = i - 1)
      <3> HIDE DEF L, S
      <3> QED BY <1>5, Zenon
    <2> HIDE DEF L, S
    <2> QED BY <2>1, <2>2, Zenon DEF RankList
  <1>7. /\ \A x \in S : <<x, x>> \notin L
        /\ \A x, y, z \in S : <<x, y>> \in L /\ <<y, z>> \in L => <<x, z>> \in L
        /\ \A x, y \in S : x = y \/ <<x, y>> \in L \/ <<y, x>> \in L
    <2> HIDE DEF S, L
    <2>1. \A x, y \in S : Key[x] \in Nat /\ Key[y] \in Nat /\ x \in Nat /\ y \in Nat
      BY <1>2
    <2> QED BY <1>4, <2>1
  <1>8. /\ s \in [1 .. Cardinality(S) -> S]
        /\ \A i, j \in 1 .. Cardinality(S) : s[i] = s[j] => i = j
    <2> HIDE DEF L, S, s
    <2>1. StrictOrder(S, L)
      BY <1>7, Zenon DEF StrictOrder
    <2>2. /\ RankList(S, L) \in [1 .. Cardinality(S) -> S]
          /\ \A i, j \in 1 .. Cardinality(S) : RankList(S, L)[i] = RankList(S, L)[j] => i = j
      BY <1>3, <2>1, OrderedList, Zenon
    <2> QED BY <1>6, <2>2, Zenon
  <1>9. DOMAIN s = 1 .. Len(ns) /\ s \in [1 .. Len(ns) -> S]
    BY <1>3, <1>8
  <1> HIDE DEF s
  <1>10. IsInjective(s)
    BY <1>3, <1>8, <1>9 DEF IsInjective
  <1> QED BY <1>9, <1>10 DEF s

(***************************************************************************)
(* Counting participants.                                                  *)
(***************************************************************************)

\* As many participants as were launched are all of them.
LEMMA CountIsAll ==
    ASSUME NEW S, S \subseteq Launched \cup {leader}, Cardinality(S) >= NParticipants
    PROVE  S = Launched \cup {leader}
  <1> DEFINE T == Launched \cup {leader}
  <1>1. IsFiniteSet(Launched) /\ leader \notin Launched
    <2>1. Launched \in SUBSET Workers
      BY DEF Launched
    <2> QED BY <2>1, FS_Subset, ParallelBuildAssumption
  <1>2. IsFiniteSet(T) /\ Cardinality(T) = NParticipants
    BY <1>1, FS_AddElement DEF NParticipants
  <1>3. S \in SUBSET T
    OBVIOUS
  <1>4. IsFiniteSet(S) /\ Cardinality(S) <= Cardinality(T)
        /\ (Cardinality(T) = Cardinality(S) => T = S)
    BY <1>2, <1>3, FS_Subset
  <1>5. Cardinality(S) \in Nat /\ Cardinality(T) \in Nat
    BY <1>2, <1>4, FS_CardinalityType
  <1> HIDE DEF T
  <1>6. Cardinality(T) = Cardinality(S)
    BY <1>2, <1>4, <1>5
  <1> QED BY <1>4, <1>6 DEF T

\* A barrier that releases finds every participant at it.
LEMMA AllAtBarrier ==
    ASSUME TypeOK, pc[leader] # "none",
           Cardinality({p \in Participants : pc[p] \in {"b0", "b1", "b2", "b3", "b4"}})
              = NParticipants
    PROVE  \A p \in Participants :
              IF pc[p] = "none" THEN p # leader ELSE pc[p] \in {"b0", "b1", "b2", "b3", "b4"}
  <1> DEFINE S == {p \in Participants : pc[p] \in {"b0", "b1", "b2", "b3", "b4"}}
  <1>1. S \subseteq Launched \cup {leader}
    BY DEF Launched, Participants
  <1>2. NParticipants \in Nat
    <2>1. Launched \in SUBSET Workers
      BY DEF Launched
    <2>2. IsFiniteSet(Launched)
      BY <2>1, FS_Subset, ParallelBuildAssumption
    <2>3. Cardinality(Launched) \in Nat
      BY <2>2, FS_CardinalityType
    <2> QED BY <2>3 DEF NParticipants
  <1>3. S = Launched \cup {leader}
    <2> HIDE DEF S
    <2>1. Cardinality(S) >= NParticipants
      BY <1>2 DEF S
    <2> QED BY <1>1, <2>1, CountIsAll
  <1> QED BY <1>3 DEF Launched, Participants

(***************************************************************************)
(* The edge phase.                                                         *)
(***************************************************************************)

\* A step of the edge phase concerns only the invariant of that phase.
LEMMA EdgeStep ==
    ASSUME Inv, InEdges, EdgeUnchanged,
           pc' \in [Participants -> ScanPoints \cup EdgePoints],
           slot' \in [Participants -> Int], cur' \in [Participants -> Int \X Int],
           (EdgeShape /\ SlotsInv)',
           (WarmingUp \/ Planning \/ Linking \/ Applying \/ Publishing \/ Leaving)'
    PROVE  Inv'
  <1>1. TypeOK'
    BY DEF Inv, TypeOK, EdgeUnchanged, ScanPoints, EdgePoints, Gone
  <1>2. phase' = "edges"
    BY DEF InEdges, EdgeUnchanged
  <1>3. ScanShape' /\ EncodeInv'
    BY <1>2 DEF ScanShape, Scanning, EncodeInv
  <1>4. NodesInv'
    BY <1>2 DEF Inv, NodesInv, EdgeUnchanged, InEdges, IsOneScan
  <1>5. EdgesInv'
    BY DEF EdgesInv
  <1> QED BY <1>1, <1>3, <1>4, <1>5 DEF Inv

\* What the invariant says in the edge phase.
LEMMA EdgeFacts ==
    ASSUME Inv, InEdges
    PROVE  /\ EdgeShape /\ SlotsInv /\ TypeOK
           /\ WarmingUp \/ Planning \/ Linking \/ Applying \/ Publishing \/ Leaving
           /\ ns \in Seq(Rows \cup {0}) /\ Len(ns) \in Nat
           /\ leader \in Participants /\ leader \notin Workers /\ Workers \subseteq Participants
  BY ParallelBuildAssumption DEF Inv, EdgesInv, NodesInv, Participants

\* Where a participant stands tells the stretch.
LEMMA StageOf ==
    ASSUME NEW p \in Participants,
           WarmingUp \/ Planning \/ Linking \/ Applying \/ Publishing \/ Leaving
    PROVE  /\ pc[p] \in {"start", "notready", "claimslot", "warmup", "b0"} => WarmingUp
           /\ pc[p] \in {"plan", "b1"} => Planning
           /\ pc[p] \in {"claim", "link", "b2"} => Linking
           /\ pc[p] \in {"apply", "b3"} => Applying
           /\ pc[p] \in {"publish", "b4"} => Publishing
           /\ pc[p] \in {"leave", "wait", "exit"} => Leaving
  BY DEF WarmingUp, Planning, Linking, Applying, Publishing, Leaving, AllAt, Gone, Participants

\* A slot that is claimed is a new one.
LEMMA NewSlot ==
    ASSUME TypeOK, SlotsInv, sh.next \in Nat, NEW p \in Participants,
           slot' = [slot EXCEPT ![p] = sh.next], sh'.next = sh.next + 1,
           \A q \in Participants : q # p => pc'[q] = pc[q]
    PROVE  SlotsInv'
  <1>1. slot'[p] = sh.next /\ \A q \in Participants : q # p => slot'[q] = slot[q]
    BY DEF TypeOK
  <1>2. \A q \in Participants : q # p =>
           /\ slot[q] = None \/ slot[q] \in 0 .. sh.next - 1
           /\ slot[q] = None => pc'[q] \in Gone \cup {"start", "claimslot"}
           /\ \A r \in Participants : r # q /\ slot[r] = slot[q] => slot[q] = None
    BY DEF SlotsInv
  <1>3. sh.next # None /\ sh.next \in 0 .. sh'.next - 1
    BY DEF None
  <1>4. ASSUME NEW q \in Participants
        PROVE  /\ slot'[q] = None \/ slot'[q] \in 0 .. sh'.next - 1
               /\ slot'[q] = None => pc'[q] \in Gone \cup {"start", "claimslot"}
               /\ \A r \in Participants : r # q /\ slot'[r] = slot'[q] => slot'[q] = None
    <2>1. CASE q = p
      <3>1. \A r \in Participants : r # p => slot'[r] # sh.next
        BY <1>1, <1>2, <1>3
      <3> QED BY <1>1, <1>3, <2>1, <3>1
    <2>2. CASE q # p
      <3>1. slot'[q] = slot[q]
        BY <1>1, <2>2
      <3>2. slot'[q] = None \/ slot'[q] \in 0 .. sh'.next - 1
        BY <1>2, <2>2, <3>1
      <3>3. slot'[q] # sh.next
        BY <1>2, <1>3, <2>2, <3>1
      <3> QED BY <1>1, <1>2, <2>2, <3>1, <3>2, <3>3
    <2> QED BY <2>1, <2>2
  <1> QED BY <1>4 DEF SlotsInv, Gone

LEMMA StartEdgeWorkerInv ==
    ASSUME Inv, NEW w \in Workers, StartEdgeWorker(w)
    PROVE  Inv'
  <1> USE DEF InEdges
  <1>1. /\ InEdges /\ pc[w] = "start" /\ EdgeUnchanged /\ cur' = cur
        /\ slot' = [slot EXCEPT ![w] = sh.next]
        /\ sh' = [sh EXCEPT !.next = sh.next + 1]
        /\ pc' = [pc EXCEPT ![w] = IF sh.next <= request THEN "notready" ELSE "failed"]
    BY DEF StartEdgeWorker, ClaimParticipant
  <1>2. /\ EdgeShape /\ SlotsInv /\ TypeOK /\ WarmingUp
        /\ Len(ns) \in Nat /\ leader \in Participants /\ leader \notin Workers
        /\ w \in Participants /\ w # leader
    BY <1>1, EdgeFacts, StageOf DEF Participants
  <1>3. sh.next \in Nat /\ sh'.next = sh.next + 1
    BY <1>1, <1>2 DEF EdgeShape
  <1>4. /\ sh'.b = sh.b /\ sh'.order = sh.order /\ sh'.batchStart = sh.batchStart
        /\ sh'.batchEnd = sh.batchEnd /\ ns' = ns
    BY <1>1, <1>2 DEF EdgeShape, EdgeUnchanged
  <1>5. EdgeShape'
    BY <1>1, <1>2, <1>3, <1>4 DEF EdgeShape, EdgeUnchanged
  <1>6. SlotsInv'
    <2>1. \A q \in Participants : q # w => pc'[q] = pc[q]
      BY <1>1, <1>2 DEF TypeOK
    <2> QED BY <1>1, <1>2, <1>3, <2>1, NewSlot
  <1>7. WarmingUp'
    BY <1>1, <1>2, <1>4 DEF WarmingUp, AllAt, Gone, First, TypeOK
  <1>8. /\ pc' \in [Participants -> ScanPoints \cup EdgePoints]
        /\ slot' \in [Participants -> Int] /\ cur' \in [Participants -> Int \X Int]
    BY <1>1, <1>2, <1>3 DEF TypeOK, ScanPoints, EdgePoints, Gone
  <1> QED BY <1>1, <1>5, <1>6, <1>7, <1>8, EdgeStep

LEMMA SeeReadyInv ==
    ASSUME Inv, NEW w \in Workers, SeeReady(w)
    PROVE  Inv'
  <1> USE DEF InEdges
  <1>1. /\ InEdges /\ pc[w] = "notready" /\ EdgeUnchanged /\ cur' = cur /\ slot' = slot
        /\ sh' = sh /\ ns' = ns /\ pc' = [pc EXCEPT ![w] = "b0"]
    BY DEF SeeReady, EdgeUnchanged
  <1>2. /\ EdgeShape /\ SlotsInv /\ TypeOK /\ WarmingUp
        /\ Len(ns) \in Nat /\ leader \in Participants /\ leader \notin Workers
        /\ w \in Participants /\ w # leader
    BY <1>1, EdgeFacts, StageOf DEF Participants
  <1>5. EdgeShape'
    BY <1>1, <1>2 DEF EdgeShape
  <1>6. SlotsInv'
    BY <1>1, <1>2 DEF SlotsInv, None, Gone, TypeOK
  <1>7. WarmingUp'
    BY <1>1, <1>2 DEF WarmingUp, AllAt, Gone, First, TypeOK
  <1>8. /\ pc' \in [Participants -> ScanPoints \cup EdgePoints]
        /\ slot' \in [Participants -> Int] /\ cur' \in [Participants -> Int \X Int]
    BY <1>1, <1>2 DEF TypeOK, ScanPoints, EdgePoints, Gone
  <1> QED BY <1>1, <1>5, <1>6, <1>7, <1>8, EdgeStep

LEMMA InitBarrierInv ==
    ASSUME Inv, InitBarrier
    PROVE  Inv'
  <1> USE DEF InEdges
  <1>1. /\ InEdges /\ pc[leader] = "start" /\ EdgeUnchanged /\ cur' = cur /\ slot' = slot
        /\ sh' = [sh EXCEPT !.ready = TRUE] /\ ns' = ns
        /\ pc' = [pc EXCEPT ![leader] = "claimslot"]
    BY DEF InitBarrier, EdgeUnchanged
  <1>2. /\ EdgeShape /\ SlotsInv /\ TypeOK /\ WarmingUp
        /\ Len(ns) \in Nat /\ leader \in Participants /\ leader \notin Workers
    BY <1>1, EdgeFacts, StageOf DEF Participants
  <1>4. /\ sh'.b = sh.b /\ sh'.order = sh.order /\ sh'.batchStart = sh.batchStart
        /\ sh'.next = sh.next
    BY <1>1, <1>2 DEF EdgeShape
  <1>5. EdgeShape'
    BY <1>1, <1>2, <1>4 DEF EdgeShape
  <1>6. SlotsInv'
    BY <1>1, <1>2, <1>4 DEF SlotsInv, None, Gone, TypeOK
  <1>7. WarmingUp'
    BY <1>1, <1>2, <1>4 DEF WarmingUp, AllAt, Gone, First, TypeOK, Participants
  <1>8. /\ pc' \in [Participants -> ScanPoints \cup EdgePoints]
        /\ slot' \in [Participants -> Int] /\ cur' \in [Participants -> Int \X Int]
    BY <1>1, <1>2 DEF TypeOK, ScanPoints, EdgePoints, Gone
  <1> QED BY <1>1, <1>5, <1>6, <1>7, <1>8, EdgeStep

LEMMA LeaderClaimsSlotInv ==
    ASSUME Inv, LeaderClaimsSlot
    PROVE  Inv'
  <1> USE DEF InEdges
  <1>1. /\ InEdges /\ pc[leader] = "claimslot" /\ EdgeUnchanged /\ ns' = ns
        /\ cur' = [cur EXCEPT ![leader] = <<0, None>>]
        /\ slot' = [slot EXCEPT ![leader] = sh.next]
        /\ sh' = [sh EXCEPT !.next = sh.next + 1]
        /\ pc' = [pc EXCEPT ![leader] = IF sh.next <= request THEN "warmup" ELSE "failed"]
    BY DEF LeaderClaimsSlot, ClaimParticipant, EdgeUnchanged
  <1>2. /\ EdgeShape /\ SlotsInv /\ TypeOK /\ WarmingUp
        /\ Len(ns) \in Nat /\ leader \in Participants /\ leader \notin Workers
    BY <1>1, EdgeFacts, StageOf DEF Participants
  <1>3. sh.next \in Nat /\ sh'.next = sh.next + 1
    BY <1>1, <1>2 DEF EdgeShape
  <1>4. /\ sh'.b = sh.b /\ sh'.order = sh.order /\ sh'.batchStart = sh.batchStart
        /\ sh'.batchEnd = sh.batchEnd
    BY <1>1, <1>2 DEF EdgeShape
  <1>5. EdgeShape'
    BY <1>1, <1>2, <1>3, <1>4 DEF EdgeShape
  <1>6. SlotsInv'
    <2>1. \A q \in Participants : q # leader => pc'[q] = pc[q]
      BY <1>1, <1>2 DEF TypeOK
    <2> QED BY <1>1, <1>2, <1>3, <2>1, NewSlot
  <1>7. WarmingUp'
    <2>1. sh'.b.ins = {} /\ cur'[leader][1] = 0 /\ pc'[leader] \in {"warmup", "failed"}
      BY <1>1, <1>2, <1>4 DEF WarmingUp, TypeOK
    <2>2. First(0)' = {}
      BY DEF First
    <2>3. \A w \in Workers : pc'[w] = pc[w]
      BY <1>1, <1>2 DEF TypeOK, Participants
    <2>4. AllAt({"start", "claimslot", "failed", "warmup", "b0"}, {"start", "notready", "b0"})'
      BY <1>2, <2>1, <2>3 DEF WarmingUp, AllAt, Gone
    <2>5. 0 \in 0 .. Len(ns')
      BY <1>1, <1>2
    <2> QED BY <2>1, <2>2, <2>4, <2>5 DEF WarmingUp
  <1>8. /\ pc' \in [Participants -> ScanPoints \cup EdgePoints]
        /\ slot' \in [Participants -> Int] /\ cur' \in [Participants -> Int \X Int]
    BY <1>1, <1>2, <1>3 DEF TypeOK, ScanPoints, EdgePoints, Gone, None
  <1> QED BY <1>1, <1>5, <1>6, <1>7, <1>8, EdgeStep

\* Inserting or publishing a node marks that node, and no other, inserted.
LEMMA PublishInserts ==
    ASSUME NEW b, DOMAIN b = {"g", "ins", "entry"}, NEW n
    PROVE  /\ PublishNode(b, n).ins = b.ins \cup {n}
           /\ DOMAIN PublishNode(b, n) = {"g", "ins", "entry"}
           /\ InsertNode(ns, b, n).ins = b.ins \cup {n}
           /\ DOMAIN InsertNode(ns, b, n) = {"g", "ins", "entry"}
  <1>1. ASSUME NEW c, DOMAIN c = {"g", "ins", "entry"}
        PROVE  /\ PublishNode(c, n).ins = c.ins \cup {n}
               /\ DOMAIN PublishNode(c, n) = {"g", "ins", "entry"}
    BY <1>1 DEF PublishNode
  <1> DEFINE linked == [b EXCEPT !.g = BuildNodeLinks(ns, b, n)]
             c == [linked EXCEPT !.g = ApplyNodeBacklinks(ns, linked.g, b.ins, n, 0, 1)]
  <1>2. InsertNode(ns, b, n) = PublishNode(c, n)
    BY DEF InsertNode
  <1>3. DOMAIN c = {"g", "ins", "entry"} /\ c.ins = b.ins
    OBVIOUS
  <1> HIDE DEF c
  <1> QED BY <1>1, <1>2, <1>3

LEMMA FirstGrows ==
    ASSUME NEW k \in Nat
    PROVE  First(k + 1) = First(k) \cup {sh.order[k + 1]}
  <1>1. 1 .. k + 1 = (1 .. k) \cup {k + 1}
    OBVIOUS
  <1> QED BY <1>1 DEF First

LEMMA BuildWarmupInv ==
    ASSUME Inv, BuildWarmup
    PROVE  Inv'
  <1> USE DEF InEdges
  <1> DEFINE at == cur[leader][1]
             n == sh.order[at + 1]
             first == [sh.b EXCEPT !.ins = {n}, !.entry = [id |-> n, level |-> Level[n]]]
             b == IF at = 0 THEN first ELSE InsertNode(ns, sh.b, n)
             more == at < MinOf(Warmup, Len(ns))
  <1>1. /\ InEdges /\ pc[leader] = "warmup" /\ EdgeUnchanged /\ ns' = ns /\ slot' = slot
        /\ IF more
           THEN /\ sh' = [sh EXCEPT !.b = b] /\ pc' = pc
                /\ cur' = [cur EXCEPT ![leader] = <<at + 1, None>>]
           ELSE /\ sh' = [sh EXCEPT !.batchStart = at] /\ cur' = cur
                /\ pc' = [pc EXCEPT ![leader] = "b0"]
    BY DEF BuildWarmup, EdgeUnchanged
  <1>2. /\ EdgeShape /\ SlotsInv /\ TypeOK /\ WarmingUp
        /\ Len(ns) \in Nat /\ leader \in Participants /\ leader \notin Workers
        /\ Workers \subseteq Participants
    BY <1>1, EdgeFacts, StageOf DEF Participants
  <1>3. at \in 0 .. Len(ns) /\ sh.b.ins = First(at) /\ (more => at < Len(ns))
    BY <1>1, <1>2, BuildGraphAssumption DEF WarmingUp, MinOf
  <1>4. DOMAIN sh.b = {"g", "ins", "entry"}
    BY <1>2 DEF EdgeShape
  <1>5. b.ins = First(at + 1) /\ DOMAIN b = {"g", "ins", "entry"}
    <2>1. First(at + 1) = First(at) \cup {n}
      <3>1. at \in Nat
        BY <1>2, <1>3
      <3> HIDE DEF at
      <3> QED BY <3>1, FirstGrows
    <2>2. CASE at = 0
      <3>1. First(at) = {}
        BY <2>2 DEF First
      <3>2. first.ins = {n} /\ DOMAIN first = {"g", "ins", "entry"}
        BY <1>4
      <3> QED BY <2>1, <2>2, <3>1, <3>2
    <2>3. CASE at # 0
      <3> HIDE DEF n, at
      <3> QED BY <1>3, <1>4, <2>1, <2>3, PublishInserts
    <2> QED BY <2>2, <2>3
  <1> HIDE DEF b, at, more
  <1>6. /\ sh'.order = sh.order /\ sh'.next = sh.next
        /\ more => sh'.b = b
        /\ ~more => sh'.b = sh.b /\ sh'.batchStart = at
    BY <1>1, <1>2 DEF EdgeShape
  <1>7. EdgeShape'
    BY <1>1, <1>2, <1>3, <1>5, <1>6 DEF EdgeShape
  <1>8. SlotsInv'
    BY <1>1, <1>2, <1>6 DEF SlotsInv, None, Gone, TypeOK
  <1>9. WarmingUp'
    <2>1. /\ more => pc'[leader] = "warmup" /\ cur'[leader][1] = at + 1
          /\ ~more => pc'[leader] = "b0"
          /\ \A w \in Workers : pc'[w] = pc[w]
      BY <1>1, <1>2 DEF TypeOK
    <2>2. \A k : First(k)' = First(k)
      BY <1>6 DEF First
    <2>3. /\ more => sh'.b.ins = First(at + 1) /\ at + 1 \in 0 .. Len(ns')
          /\ ~more => sh'.b.ins = First(at)
      BY <1>1, <1>2, <1>3, <1>5, <1>6
    <2> QED BY <1>1, <1>2, <1>6, <2>1, <2>2, <2>3 DEF WarmingUp, AllAt
  <1>10. /\ pc' \in [Participants -> ScanPoints \cup EdgePoints]
         /\ slot' \in [Participants -> Int] /\ cur' \in [Participants -> Int \X Int]
    <2>1. <<at + 1, None>> \in Int \X Int
      BY <1>2, <1>3 DEF None
    <2> QED BY <1>1, <1>2, <2>1 DEF TypeOK, ScanPoints, EdgePoints, Gone
  <1> QED BY <1>1, <1>7, <1>8, <1>9, <1>10, EdgeStep

LEMMA PlanBatchInv ==
    ASSUME Inv, PlanBatch
    PROVE  Inv'
  <1> USE DEF InEdges
  <1> DEFINE last == sh.batchStart >= Len(ns)
             end == IF last THEN sh.batchStart
                    ELSE MinOf(sh.batchStart + BatchSize(request), Len(ns))
  <1>1. /\ InEdges /\ pc[leader] = "plan" /\ EdgeUnchanged /\ ns' = ns
        /\ slot' = slot /\ cur' = cur
        /\ sh' = IF last THEN [sh EXCEPT !.edgeDone = TRUE, !.batchEnd = sh.batchStart]
                 ELSE [sh EXCEPT !.batchEnd = end, !.nextOrder = sh.batchStart]
        /\ pc' = [pc EXCEPT ![leader] = "b1"]
    BY DEF PlanBatch, EdgeUnchanged
  <1>2. /\ EdgeShape /\ SlotsInv /\ TypeOK /\ Planning
        /\ Len(ns) \in Nat /\ leader \in Participants /\ leader \notin Workers
        /\ Workers \subseteq Participants
    BY <1>1, EdgeFacts, StageOf DEF Participants
  <1>3. sh.batchStart \in 0 .. Len(ns) /\ end \in sh.batchStart .. Len(ns)
    <2>1. sh.batchStart \in 0 .. Len(ns) /\ request \in Nat
      BY <1>2, ParallelBuildAssumption DEF EdgeShape, TypeOK
    <2>2. BatchSize(request) \in Nat
      <3>1. BatchMax \in Nat /\ BatchPer \in Nat
        BY BuildGraphAssumption
      <3>2. (request + 1) * BatchPer \in Nat
        BY <2>1, <3>1
      <3> QED BY <3>1, <3>2 DEF BatchSize, MinOf
    <2> QED BY <1>2, <2>1, <2>2 DEF MinOf
  <1> HIDE DEF end, last
  <1>4. /\ sh'.b = sh.b /\ sh'.order = sh.order /\ sh'.batchStart = sh.batchStart
        /\ sh'.next = sh.next
        /\ ~last => sh'.batchEnd = end /\ sh'.nextOrder = sh.batchStart
        /\ last => sh'.edgeDone = TRUE
    BY <1>1, <1>2 DEF EdgeShape
  <1>5. EdgeShape'
    BY <1>1, <1>2, <1>3, <1>4 DEF EdgeShape
  <1>6. SlotsInv'
    BY <1>1, <1>2, <1>4 DEF SlotsInv, None, Gone, TypeOK
  <1>7. Planning'
    <2>1. pc'[leader] = "b1" /\ \A w \in Workers : pc'[w] = pc[w]
      BY <1>1, <1>2 DEF TypeOK
    <2>2. AllAt({"plan", "b1"}, {"b1"})'
      BY <1>2, <2>1 DEF Planning, AllAt
    <2>3. sh'.b.ins = First(sh.batchStart)' 
      BY <1>2, <1>4 DEF Planning, First
    <2> QED BY <1>2, <1>3, <1>4, <2>1, <2>2, <2>3 DEF Planning
  <1>8. /\ pc' \in [Participants -> ScanPoints \cup EdgePoints]
        /\ slot' \in [Participants -> Int] /\ cur' \in [Participants -> Int \X Int]
    BY <1>1, <1>2 DEF TypeOK, ScanPoints, EdgePoints, Gone
  <1> QED BY <1>1, <1>5, <1>6, <1>7, <1>8, EdgeStep

LEMMA ClaimNodeInv ==
    ASSUME Inv, NEW p \in Participants, ClaimNode(p)
    PROVE  Inv'
  <1> USE DEF InEdges
  <1> DEFINE more == sh.nextOrder < sh.batchEnd
  <1>1. /\ InEdges /\ pc[p] = "claim" /\ EdgeUnchanged /\ ns' = ns /\ slot' = slot
        /\ sh' = [sh EXCEPT !.nextOrder = sh.nextOrder + 1]
        /\ IF more THEN /\ cur' = [cur EXCEPT ![p] = <<sh.nextOrder, None>>]
                        /\ pc' = [pc EXCEPT ![p] = "link"]
           ELSE cur' = cur /\ pc' = [pc EXCEPT ![p] = "b2"]
    BY DEF ClaimNode, EdgeUnchanged
  <1>2. /\ EdgeShape /\ SlotsInv /\ TypeOK /\ Linking
        /\ Len(ns) \in Nat /\ leader \in Participants /\ leader \notin Workers
        /\ Workers \subseteq Participants
    BY <1>1, EdgeFacts, StageOf DEF Participants
  <1>3. /\ sh.nextOrder \in Nat /\ sh.batchStart \in Nat /\ sh.batchEnd \in Nat
        /\ <<sh.nextOrder, None>> \in Int \X Int
    BY <1>2 DEF EdgeShape, None
  <1>4. /\ sh'.b = sh.b /\ sh'.order = sh.order /\ sh'.batchStart = sh.batchStart
        /\ sh'.next = sh.next /\ sh'.batchEnd = sh.batchEnd
        /\ sh'.nextOrder = sh.nextOrder + 1
    BY <1>1, <1>2 DEF EdgeShape
  <1>5. EdgeShape'
    BY <1>1, <1>2, <1>3, <1>4 DEF EdgeShape
  <1>6. SlotsInv'
    BY <1>1, <1>2, <1>4 DEF SlotsInv, None, Gone, TypeOK
  <1>7. Linking'
    <2>1. /\ more => pc'[p] = "link" /\ cur'[p][1] = sh.nextOrder
          /\ ~more => pc'[p] = "b2"
          /\ \A q \in Participants : q # p => pc'[q] = pc[q] /\ cur'[q] = cur[q]
      BY <1>1, <1>2 DEF TypeOK
    <2>2. AllAt({"claim", "link", "b2"}, {"claim", "link", "b2"})'
      BY <1>2, <2>1 DEF Linking, AllAt, Gone
    <2>3. sh'.b.ins = First(sh.batchStart)'
      BY <1>2, <1>4 DEF Linking, First
    <2>4. sh'.batchStart <= sh'.batchEnd /\ sh'.batchStart <= sh'.nextOrder
      BY <1>2, <1>3, <1>4 DEF Linking
    <2>5. \A q \in Participants : q # p /\ pc[q] = "link" =>
             /\ cur[q][1] \in sh.batchStart .. sh.batchEnd - 1 /\ cur[q][1] < sh.nextOrder
             /\ \A r \in Participants : r # q /\ pc[r] = "link" => cur[r][1] # cur[q][1]
      BY <1>2 DEF Linking
    <2>6. sh.batchStart <= sh.nextOrder
      BY <1>2 DEF Linking
    <2>7. ASSUME NEW q \in Participants, pc'[q] = "link"
          PROVE  /\ cur'[q][1] \in sh'.batchStart .. sh'.batchEnd - 1
                 /\ cur'[q][1] < sh'.nextOrder
                 /\ \A r \in Participants : r # q /\ pc'[r] = "link" => cur'[r][1] # cur'[q][1]
      <3>1. CASE q = p
        <4>1. more /\ cur'[q][1] = sh.nextOrder
          BY <2>1, <2>7, <3>1
        <4>2. \A r \in Participants : r # p /\ pc'[r] = "link" => cur'[r][1] < sh.nextOrder
                                                                 /\ cur'[r][1] \in Int
          BY <1>3, <2>1, <2>5
        <4> QED BY <1>3, <1>4, <2>6, <3>1, <4>1, <4>2
      <3>2. CASE q # p
        <4>1. /\ pc[q] = "link" /\ cur'[q] = cur[q]
              /\ cur[q][1] \in sh.batchStart .. sh.batchEnd - 1 /\ cur[q][1] < sh.nextOrder
          BY <2>1, <2>5, <2>7, <3>2
        <4>2. ASSUME NEW r \in Participants, r # q, pc'[r] = "link"
              PROVE  cur'[r][1] # cur'[q][1]
          <5>1. CASE r = p
            BY <1>3, <2>1, <4>1, <4>2, <5>1
          <5>2. CASE r # p
            BY <2>1, <2>5, <3>2, <4>1, <4>2, <5>2
          <5> QED BY <5>1, <5>2
        <4> QED BY <1>3, <1>4, <4>1, <4>2
      <3> QED BY <3>1, <3>2
    <2> QED BY <2>2, <2>3, <2>4, <2>7 DEF Linking
  <1>8. /\ pc' \in [Participants -> ScanPoints \cup EdgePoints]
        /\ slot' \in [Participants -> Int] /\ cur' \in [Participants -> Int \X Int]
    BY <1>1, <1>2, <1>3 DEF TypeOK, ScanPoints, EdgePoints, Gone
  <1> QED BY <1>1, <1>5, <1>6, <1>7, <1>8, EdgeStep

LEMMA LinkNodeInv ==
    ASSUME Inv, NEW p \in Participants, LinkNode(p)
    PROVE  Inv'
  <1> USE DEF InEdges
  <1> DEFINE n == sh.order[cur[p][1] + 1]
             lists == BuildNodeLinks(ns, sh.b, n)[n]
  <1>1. /\ InEdges /\ pc[p] = "link" /\ EdgeUnchanged /\ ns' = ns /\ slot' = slot /\ cur' = cur
        /\ sh' = [sh EXCEPT !.b.g[n] = lists]
        /\ pc' = [pc EXCEPT ![p] = "claim"]
    BY DEF LinkNode, EdgeUnchanged
  <1> HIDE DEF n, lists
  <1>2. /\ EdgeShape /\ SlotsInv /\ TypeOK /\ Linking
        /\ Len(ns) \in Nat /\ leader \in Participants /\ leader \notin Workers
        /\ Workers \subseteq Participants
    BY <1>1, EdgeFacts, StageOf DEF Participants
  <1>4. /\ sh'.b.ins = sh.b.ins /\ sh'.order = sh.order /\ sh'.batchStart = sh.batchStart
        /\ sh'.next = sh.next /\ sh'.batchEnd = sh.batchEnd /\ DOMAIN sh'.b = DOMAIN sh.b
        /\ sh'.nextOrder = sh.nextOrder /\ sh'.done = sh.done /\ DOMAIN sh' = DOMAIN sh
    BY <1>1, <1>2 DEF EdgeShape
  <1>5. EdgeShape'
    BY <1>1, <1>2, <1>4 DEF EdgeShape
  <1>6. SlotsInv'
    BY <1>1, <1>2, <1>4 DEF SlotsInv, None, Gone, TypeOK
  <1>7. Linking'
    <2>1. /\ pc'[p] = "claim" /\ cur' = cur
          /\ \A q \in Participants : q # p => pc'[q] = pc[q]
      BY <1>1, <1>2 DEF TypeOK
    <2>2. AllAt({"claim", "link", "b2"}, {"claim", "link", "b2"})'
      BY <1>2, <2>1 DEF Linking, AllAt, Gone
    <2>3. sh'.b.ins = First(sh.batchStart)'
      BY <1>2, <1>4 DEF Linking, First
    <2>4. \A q \in Participants : pc'[q] = "link" => q # p /\ pc[q] = "link"
      BY <2>1
    <2> QED BY <1>2, <1>4, <2>1, <2>2, <2>3, <2>4 DEF Linking
  <1>8. /\ pc' \in [Participants -> ScanPoints \cup EdgePoints]
        /\ slot' \in [Participants -> Int] /\ cur' \in [Participants -> Int \X Int]
    BY <1>1, <1>2 DEF TypeOK, ScanPoints, EdgePoints, Gone
  <1> QED BY <1>1, <1>5, <1>6, <1>7, <1>8, EdgeStep

LEMMA ApplyBacklinksInv ==
    ASSUME Inv, NEW p \in Participants, ApplyBacklinks(p)
    PROVE  Inv'
  <1> USE DEF InEdges
  <1> DEFINE more == cur[p][1] < sh.batchEnd
             g == ApplyNodeBacklinks(ns, sh.b.g, sh.b.ins, sh.order[cur[p][1] + 1], slot[p],
                                     NParticipants)
  <1>1. /\ InEdges /\ pc[p] = "apply" /\ EdgeUnchanged /\ ns' = ns /\ slot' = slot
        /\ IF more THEN /\ sh' = [sh EXCEPT !.b.g = g] /\ pc' = pc
                        /\ cur' = [cur EXCEPT ![p] = <<cur[p][1] + 1, None>>]
           ELSE sh' = sh /\ cur' = cur /\ pc' = [pc EXCEPT ![p] = "b3"]
    BY DEF ApplyBacklinks, EdgeUnchanged
  <1> HIDE DEF g
  <1>2. /\ EdgeShape /\ SlotsInv /\ TypeOK /\ Applying
        /\ Len(ns) \in Nat /\ leader \in Participants /\ leader \notin Workers
        /\ Workers \subseteq Participants
    BY <1>1, EdgeFacts, StageOf DEF Participants
  <1>3. /\ cur[p][1] \in sh.batchStart .. sh.batchEnd /\ sh.batchStart \in Nat
        /\ sh.batchEnd \in Nat /\ <<cur[p][1] + 1, None>> \in Int \X Int
    BY <1>1, <1>2 DEF Applying, EdgeShape, None
  <1>4. /\ sh'.b.ins = sh.b.ins /\ sh'.order = sh.order /\ sh'.batchStart = sh.batchStart
        /\ sh'.next = sh.next /\ sh'.batchEnd = sh.batchEnd /\ DOMAIN sh'.b = DOMAIN sh.b
        /\ sh'.nextOrder = sh.nextOrder /\ sh'.done = sh.done /\ DOMAIN sh' = DOMAIN sh
    BY <1>1, <1>2 DEF EdgeShape
  <1>5. EdgeShape'
    BY <1>1, <1>2, <1>4 DEF EdgeShape
  <1>6. SlotsInv'
    BY <1>1, <1>2, <1>4 DEF SlotsInv, None, Gone, TypeOK
  <1>7. Applying'
    <2>1. /\ more => pc'[p] = "apply" /\ cur'[p][1] = cur[p][1] + 1
          /\ ~more => pc'[p] = "b3"
          /\ \A q \in Participants : q # p => pc'[q] = pc[q] /\ cur'[q] = cur[q]
      BY <1>1, <1>2 DEF TypeOK
    <2>2. AllAt({"apply", "b3"}, {"apply", "b3"})'
      BY <1>2, <2>1 DEF Applying, AllAt, Gone
    <2>3. sh'.b.ins = First(sh.batchStart)'
      BY <1>2, <1>4 DEF Applying, First
    <2>4. ASSUME NEW q \in Participants, pc'[q] = "apply"
          PROVE  cur'[q][1] \in sh'.batchStart .. sh'.batchEnd
      <3>1. CASE q = p
        BY <1>3, <1>4, <2>1, <2>4, <3>1
      <3>2. CASE q # p
        BY <1>2, <1>4, <2>1, <2>4, <3>2 DEF Applying
      <3> QED BY <3>1, <3>2
    <2>5. sh'.batchStart <= sh'.batchEnd
      BY <1>2, <1>4 DEF Applying
    <2> QED BY <2>2, <2>3, <2>4, <2>5 DEF Applying
  <1>8. /\ pc' \in [Participants -> ScanPoints \cup EdgePoints]
        /\ slot' \in [Participants -> Int] /\ cur' \in [Participants -> Int \X Int]
    BY <1>1, <1>2, <1>3 DEF TypeOK, ScanPoints, EdgePoints, Gone
  <1> QED BY <1>1, <1>5, <1>6, <1>7, <1>8, EdgeStep

LEMMA PublishBatchInv ==
    ASSUME Inv, PublishBatch
    PROVE  Inv'
  <1> USE DEF InEdges
  <1> DEFINE at == cur[leader][1]
             more == at < sh.batchEnd
             b == PublishNode(sh.b, sh.order[at + 1])
  <1>1. /\ InEdges /\ pc[leader] = "publish" /\ EdgeUnchanged /\ ns' = ns /\ slot' = slot
        /\ IF more THEN /\ sh' = [sh EXCEPT !.b = b] /\ pc' = pc
                        /\ cur' = [cur EXCEPT ![leader] = <<at + 1, None>>]
           ELSE /\ sh' = [sh EXCEPT !.batchStart = sh.batchEnd] /\ cur' = cur
                /\ pc' = [pc EXCEPT ![leader] = "b4"]
    BY DEF PublishBatch, EdgeUnchanged
  <1>2. /\ EdgeShape /\ SlotsInv /\ TypeOK /\ Publishing
        /\ Len(ns) \in Nat /\ leader \in Participants /\ leader \notin Workers
        /\ Workers \subseteq Participants
    BY <1>1, EdgeFacts, StageOf DEF Participants
  <1>3. /\ at \in sh.batchStart .. sh.batchEnd /\ sh.batchStart \in Nat /\ at \in Nat
        /\ sh.batchEnd \in 0 .. Len(ns) /\ sh.b.ins = First(at)
    BY <1>1, <1>2 DEF Publishing, EdgeShape
  <1> HIDE DEF at
  <1>4. b.ins = First(at + 1) /\ DOMAIN b = {"g", "ins", "entry"}
    <2>1. DOMAIN sh.b = {"g", "ins", "entry"}
      BY <1>2 DEF EdgeShape
    <2>2. First(at + 1) = First(at) \cup {sh.order[at + 1]}
      BY <1>3, FirstGrows
    <2>3. /\ b.ins = sh.b.ins \cup {sh.order[at + 1]}
          /\ DOMAIN b = {"g", "ins", "entry"}
      BY <2>1, PublishInserts
    <2> HIDE DEF b
    <2> QED BY <1>3, <2>2, <2>3
  <1> HIDE DEF b
  <1>5. /\ sh'.order = sh.order /\ sh'.next = sh.next /\ sh'.batchEnd = sh.batchEnd
        /\ sh'.nextOrder = sh.nextOrder /\ sh'.done = sh.done /\ DOMAIN sh' = DOMAIN sh
        /\ more => sh'.b = b /\ sh'.batchStart = sh.batchStart
        /\ ~more => sh'.b = sh.b /\ sh'.batchStart = sh.batchEnd
    BY <1>1, <1>2 DEF EdgeShape
  <1>6. EdgeShape'
    BY <1>1, <1>2, <1>3, <1>4, <1>5 DEF EdgeShape
  <1>7. SlotsInv'
    BY <1>1, <1>2, <1>5 DEF SlotsInv, None, Gone, TypeOK
  <1>8. Publishing'
    <2>1. /\ more => pc'[leader] = "publish" /\ cur'[leader][1] = at + 1
          /\ ~more => pc'[leader] = "b4" /\ at = sh.batchEnd
          /\ \A w \in Workers : pc'[w] = pc[w]
      BY <1>1, <1>2, <1>3 DEF TypeOK
    <2>2. AllAt({"publish", "b4"}, {"b4"})'
      BY <1>2, <2>1 DEF Publishing, AllAt
    <2>3. \A k : First(k)' = First(k)
      BY <1>5 DEF First
    <2>4. /\ more => sh'.b.ins = First(at + 1) /\ at + 1 \in sh'.batchStart .. sh'.batchEnd
          /\ ~more => sh'.b.ins = First(sh'.batchStart)
      BY <1>3, <1>4, <1>5, <2>1
    <2>5. sh'.batchStart <= sh'.batchEnd
      BY <1>3, <1>5
    <2> QED BY <2>1, <2>2, <2>3, <2>4, <2>5 DEF Publishing
  <1>9. /\ pc' \in [Participants -> ScanPoints \cup EdgePoints]
        /\ slot' \in [Participants -> Int] /\ cur' \in [Participants -> Int \X Int]
    <2>1. <<at + 1, None>> \in Int \X Int
      BY <1>3 DEF None
    <2> QED BY <1>1, <1>2, <2>1 DEF TypeOK, ScanPoints, EdgePoints, Gone
  <1> QED BY <1>1, <1>6, <1>7, <1>8, <1>9, EdgeStep

LEMMA LeaveEdgesInv ==
    ASSUME Inv, NEW p \in Participants, LeaveEdges(p)
    PROVE  Inv'
  <1> USE DEF InEdges
  <1>1. /\ InEdges /\ pc[p] = "leave" /\ EdgeUnchanged /\ ns' = ns /\ slot' = slot /\ cur' = cur
        /\ sh' = [sh EXCEPT !.done = sh.done + 1]
        /\ pc' = [pc EXCEPT ![p] = IF p = leader THEN "wait" ELSE "exit"]
    BY DEF LeaveEdges, EdgeUnchanged
  <1>2. /\ EdgeShape /\ SlotsInv /\ TypeOK /\ Leaving
        /\ Len(ns) \in Nat /\ leader \in Participants /\ leader \notin Workers
        /\ Workers \subseteq Participants
    BY <1>1, EdgeFacts, StageOf DEF Participants
  <1>4. /\ sh'.b = sh.b /\ sh'.order = sh.order /\ sh'.batchStart = sh.batchStart
        /\ sh'.next = sh.next /\ sh'.batchEnd = sh.batchEnd
        /\ sh'.nextOrder = sh.nextOrder /\ sh'.done = sh.done + 1 /\ DOMAIN sh' = DOMAIN sh
    BY <1>1, <1>2 DEF EdgeShape
  <1>5. EdgeShape'
    BY <1>1, <1>2, <1>4 DEF EdgeShape
  <1>6. SlotsInv'
    BY <1>1, <1>2, <1>4 DEF SlotsInv, None, Gone, TypeOK
  <1>7. Leaving'
    <2>1. /\ pc'[p] = IF p = leader THEN "wait" ELSE "exit"
          /\ \A q \in Participants : q # p => pc'[q] = pc[q]
      BY <1>1, <1>2 DEF TypeOK
    <2> QED BY <1>2, <2>1 DEF Leaving, AllAt
  <1>8. /\ pc' \in [Participants -> ScanPoints \cup EdgePoints]
        /\ slot' \in [Participants -> Int] /\ cur' \in [Participants -> Int \X Int]
    BY <1>1, <1>2 DEF TypeOK, ScanPoints, EdgePoints, Gone
  <1> QED BY <1>1, <1>5, <1>6, <1>7, <1>8, EdgeStep

\* The barrier: everybody was at the same of its points and goes on together.
LEMMA BarrierReleaseInv ==
    ASSUME Inv, BarrierRelease
    PROVE  Inv'
  <1> USE DEF InEdges
  <1> DEFINE points == {"b0", "b1", "b2", "b3", "b4"}
             at == {p \in Participants : pc[p] \in points}
  <1>1. /\ InEdges /\ EdgeUnchanged /\ ns' = ns /\ slot' = slot /\ sh' = sh
        /\ Cardinality(at) = NParticipants
        /\ pc' = [p \in Participants |-> IF p \in at THEN AfterBarrier(p, pc[p]) ELSE pc[p]]
        /\ cur' = [p \in Participants |-> IF p \in at /\ pc[p] \in {"b2", "b3"}
                                          THEN <<sh.batchStart, None>> ELSE cur[p]]
    BY DEF BarrierRelease, EdgeUnchanged
  <1>2. /\ EdgeShape /\ SlotsInv /\ TypeOK
        /\ WarmingUp \/ Planning \/ Linking \/ Applying \/ Publishing \/ Leaving
        /\ Len(ns) \in Nat /\ leader \in Participants /\ leader \notin Workers
        /\ Workers \subseteq Participants /\ Participants = Workers \cup {leader}
    BY <1>1, EdgeFacts DEF Participants
  <1>3. pc[leader] # "none"
    BY <1>2 DEF WarmingUp, Planning, Linking, Applying, Publishing, Leaving, AllAt
  <1>4. \A p \in Participants : IF pc[p] = "none" THEN p # leader ELSE pc[p] \in points
    BY <1>1, <1>2, <1>3, AllAtBarrier
  <1>5. /\ pc[leader] \in points
        /\ \A w \in Workers : pc[w] \in points \cup {"none"}
    BY <1>2, <1>3, <1>4
  <1>6. /\ pc'[leader] = AfterBarrier(leader, pc[leader])
        /\ \A w \in Workers : pc'[w] = IF pc[w] = "none" THEN "none" ELSE AfterBarrier(w, pc[w])
        /\ \A p \in Participants : pc[p] \in {"b2", "b3"} => cur'[p] = <<sh.batchStart, None>>
    BY <1>1, <1>2, <1>5
  <1>7. EdgeShape' /\ \A k : First(k)' = First(k)
    BY <1>1, <1>2 DEF EdgeShape, First
  <1>8. sh.batchStart \in 0 .. Len(ns)
    BY <1>2 DEF EdgeShape
  <1>9. (WarmingUp \/ Planning \/ Linking \/ Applying \/ Publishing \/ Leaving)'
    <2>1. CASE WarmingUp
      <3>1. pc[leader] = "b0" /\ (\A w \in Workers : pc[w] \in {"b0", "none"})
            /\ sh.b.ins = First(sh.batchStart)
        BY <1>5, <2>1 DEF WarmingUp, AllAt, Gone
      <3>2. pc'[leader] = "plan" /\ \A w \in Workers : pc'[w] \in {"b1", "none"}
        BY <1>2, <1>6, <3>1 DEF AfterBarrier
      <3>3. Planning'
        BY <1>1, <1>7, <3>1, <3>2 DEF Planning, AllAt, Gone
      <3> QED BY <3>3
    <2>2. CASE Planning
      <3>1. pc[leader] = "b1" /\ (\A w \in Workers : pc[w] \in {"b1", "none"})
            /\ sh.b.ins = First(sh.batchStart)
        BY <1>5, <2>2 DEF Planning, AllAt, Gone
      <3>2. CASE sh.edgeDone
        <4>1. pc'[leader] = "leave" /\ \A w \in Workers : pc'[w] \in {"leave", "none"}
          BY <1>6, <3>1, <3>2 DEF AfterBarrier
        <4>2. Leaving'
          BY <4>1 DEF Leaving, AllAt, Gone
        <4> QED BY <4>2
      <3>3. CASE ~sh.edgeDone
        <4>1. pc'[leader] = "claim" /\ \A w \in Workers : pc'[w] \in {"claim", "none"}
          BY <1>6, <3>1, <3>3 DEF AfterBarrier
        <4>2. sh.batchStart <= sh.batchEnd /\ sh.batchStart <= sh.nextOrder
          BY <1>8, <2>2, <3>1, <3>3 DEF Planning
        <4>3. \A p \in Participants : pc'[p] # "link"
          BY <1>2, <4>1
        <4>4. Linking'
          BY <1>1, <1>7, <3>1, <4>1, <4>2, <4>3 DEF Linking, AllAt, Gone
        <4> QED BY <4>4
      <3> QED BY <3>2, <3>3
    <2>3. CASE Linking
      <3>1. pc[leader] = "b2" /\ (\A w \in Workers : pc[w] \in {"b2", "none"})
            /\ sh.b.ins = First(sh.batchStart) /\ sh.batchStart <= sh.batchEnd
        BY <1>5, <2>3 DEF Linking, AllAt, Gone
      <3>2. pc'[leader] = "apply" /\ \A w \in Workers : pc'[w] \in {"apply", "none"}
        BY <1>6, <3>1 DEF AfterBarrier
      <3>3. \A p \in Participants : pc'[p] = "apply" => pc[p] = "b2"
        BY <1>2, <1>6, <3>1, <3>2
      <3>4. \A p \in Participants : pc'[p] = "apply" =>
                cur'[p][1] \in sh.batchStart .. sh.batchEnd
        BY <1>2, <1>6, <1>8, <3>1, <3>3 DEF EdgeShape
      <3>5. Applying'
        BY <1>1, <1>7, <3>1, <3>2, <3>4 DEF Applying, AllAt, Gone
      <3> QED BY <3>5
    <2>4. CASE Applying
      <3>1. pc[leader] = "b3" /\ (\A w \in Workers : pc[w] \in {"b3", "none"})
            /\ sh.b.ins = First(sh.batchStart) /\ sh.batchStart <= sh.batchEnd
        BY <1>5, <2>4 DEF Applying, AllAt, Gone
      <3>2. pc'[leader] = "publish" /\ \A w \in Workers : pc'[w] \in {"b4", "none"}
        BY <1>2, <1>6, <3>1 DEF AfterBarrier
      <3>3. cur'[leader][1] = sh.batchStart
        BY <1>2, <1>6, <3>1
      <3>4. sh.batchStart \in sh.batchStart .. sh.batchEnd
        BY <1>2, <1>8, <3>1 DEF EdgeShape
      <3>5. Publishing'
        BY <1>1, <1>7, <3>1, <3>2, <3>3, <3>4 DEF Publishing, AllAt, Gone
      <3> QED BY <3>5
    <2>5. CASE Publishing
      <3>1. pc[leader] = "b4" /\ (\A w \in Workers : pc[w] \in {"b4", "none"})
            /\ sh.b.ins = First(sh.batchStart)
        BY <1>5, <2>5 DEF Publishing, AllAt, Gone
      <3>2. pc'[leader] = "plan" /\ \A w \in Workers : pc'[w] \in {"b1", "none"}
        BY <1>2, <1>6, <3>1 DEF AfterBarrier
      <3>3. Planning'
        BY <1>1, <1>7, <3>1, <3>2 DEF Planning, AllAt, Gone
      <3> QED BY <3>3
    <2>6. CASE Leaving
      BY <1>5, <2>6 DEF Leaving, AllAt
    <2> QED BY <1>2, <2>1, <2>2, <2>3, <2>4, <2>5, <2>6
  <1>10. SlotsInv'
    BY <1>1, <1>2 DEF SlotsInv, None, Gone
  <1>11. pc' \in [Participants -> ScanPoints \cup EdgePoints]
    <2>1. \A p \in Participants : \A b \in points : AfterBarrier(p, b) \in EdgePoints
      BY DEF AfterBarrier, EdgePoints
    <2> QED BY <1>1, <1>2, <2>1 DEF TypeOK
  <1>12. slot' \in [Participants -> Int] /\ cur' \in [Participants -> Int \X Int]
    <2>1. <<sh.batchStart, None>> \in Int \X Int
      BY <1>8, <1>2 DEF None
    <2> QED BY <1>1, <1>2, <2>1 DEF TypeOK
  <1> QED BY <1>1, <1>7, <1>9, <1>10, <1>11, <1>12, EdgeStep

LEMMA EndEdgesInv ==
    ASSUME Inv, EndEdges
    PROVE  Inv'
  <1>1. /\ phase = "edges" /\ phase' = "finish" /\ pc' = [p \in Participants |-> "none"]
        /\ UNCHANGED <<heap, base, outcome, index, concurrent, request, slot, cur, sh, failed, ns>>
    BY DEF EndEdges, InEdges
  <1>2. TypeOK'
    BY <1>1 DEF Inv, TypeOK, ScanPoints, Gone
  <1>3. ScanShape' /\ EncodeInv' /\ EdgesInv'
    BY <1>1 DEF ScanShape, Scanning, EncodeInv, EdgesInv, InEdges
  <1>4. NodesInv'
    BY <1>1 DEF Inv, NodesInv, IsOneScan
  <1> QED BY <1>2, <1>3, <1>4 DEF Inv

(***************************************************************************)
(* Beginning a phase.                                                      *)
(***************************************************************************)

\* A phase without workers.
LEMMA NoWorkersInv ==
    ASSUME Inv, NEW p \in {"scan", "serial"}, NoWorkers(p),
           UNCHANGED <<heap, base, outcome, index, concurrent, request, failed, ns, edges>>,
           outcome = "building", p = "serial" => IsOneScan(ns)
    PROVE  Inv'
  <1>1. /\ phase' = p /\ pc' = [q \in Participants |-> "none"]
        /\ UNCHANGED <<slot, cur, sh>> /\ leader \in Participants
    BY DEF NoWorkers, Participants
  <1>2. TypeOK'
    BY <1>1 DEF Inv, TypeOK, ScanPoints, Gone
  <1>3. ScanShape' /\ EncodeInv' /\ EdgesInv'
    BY <1>1 DEF ScanShape, Scanning, EncodeInv, EdgesInv, InEdges
  <1>4. NodesInv'
    BY <1>1 DEF Inv, NodesInv, IsOneScan
  <1> QED BY <1>2, <1>3, <1>4 DEF Inv

\* What launching workers leaves behind, whatever the phase.
LEMMA LaunchFacts ==
    ASSUME Inv, NEW p \in {"fit", "encode", "edges"}, Launch(p)
    PROVE  /\ phase' = p /\ pc' \in [Participants -> {"start", "none"}] /\ pc'[leader] = "start"
           /\ slot' = [q \in Participants |-> None] /\ cur' = [q \in Participants |-> Nothing]
           /\ slot' \in [Participants -> Int] /\ cur' \in [Participants -> Int \X Int]
           /\ p = "edges" => sh' = InitEdgeShared
           /\ p # "edges" => \E capacity : sh' = InitShared(heap, capacity)
  <1>1. PICK W \in SUBSET Workers :
           /\ phase' = p
           /\ pc' = [q \in Participants |-> IF q = leader \/ q \in W THEN "start" ELSE "none"]
           /\ slot' = [q \in Participants |-> None] /\ cur' = [q \in Participants |-> Nothing]
           /\ sh' = IF p = "edges" THEN InitEdgeShared
                    ELSE InitShared(heap, IF p = "encode"
                                      THEN LET s == sh.fit IN FoldFunction(+, 0, s) ELSE 0)
    BY DEF Launch
  <1>2. /\ p = "edges" => sh' = InitEdgeShared
        /\ p # "edges" => \E capacity : sh' = InitShared(heap, capacity)
    <2> DEFINE c == IF p = "encode" THEN LET s == sh.fit IN FoldFunction(+, 0, s) ELSE 0
    <2>1. sh' = IF p = "edges" THEN InitEdgeShared ELSE InitShared(heap, c)
      BY <1>1
    <2> HIDE DEF c
    <2> QED BY <2>1
  <1>3. leader \in Participants /\ None \in Int /\ Nothing \in Int \X Int
    BY DEF Participants, None, Nothing
  <1> QED BY <1>1, <1>2, <1>3

LEMMA LaunchTypes ==
    ASSUME Inv, NEW p \in {"fit", "encode", "edges"}, Launch(p),
           UNCHANGED <<heap, base, outcome, index, concurrent, request, failed, ns, edges>>,
           outcome = "building", p = "edges" => IsOneScan(ns)
    PROVE  TypeOK' /\ NodesInv'
  <1>1. /\ phase' = p /\ pc' \in [Participants -> {"start", "none"}] /\ pc'[leader] = "start"
        /\ slot' \in [Participants -> Int] /\ cur' \in [Participants -> Int \X Int]
    BY LaunchFacts
  <1>2. TypeOK'
    BY <1>1 DEF Inv, TypeOK, ScanPoints, Gone
  <1>3. NodesInv'
    BY <1>1 DEF Inv, NodesInv, IsOneScan
  <1> QED BY <1>2, <1>3

LEMMA LaunchEdgesInv ==
    ASSUME Inv, Launch("edges"),
           UNCHANGED <<heap, base, outcome, index, concurrent, request, failed, ns, edges>>,
           outcome = "building", IsOneScan(ns)
    PROVE  Inv'
  <1>1. /\ phase' = "edges" /\ pc' \in [Participants -> {"start", "none"}]
        /\ pc'[leader] = "start" /\ slot' = [q \in Participants |-> None]
        /\ sh' = InitEdgeShared
    BY LaunchFacts
  <1>2. TypeOK' /\ NodesInv'
    BY LaunchTypes
  <1>3. ScanShape' /\ EncodeInv'
    BY <1>1 DEF ScanShape, Scanning, EncodeInv
  <1>4. /\ ns \in Seq(Rows \cup {0}) /\ Len(ns) <= Cardinality(Rows) + 1 /\ Len(ns) \in Nat
    BY DEF Inv, NodesInv
  <1>5. /\ BuildOrder(Ids(ns)) \in [1 .. Len(ns) -> Ids(ns)]
        /\ IsInjective(BuildOrder(Ids(ns)))
    BY <1>4, OrderIsInjective
  <1>6. /\ DOMAIN sh' = {"b", "order", "next", "done", "ready", "nextOrder", "batchStart",
                         "batchEnd", "edgeDone"}
        /\ DOMAIN sh'.b = {"g", "ins", "entry"} /\ sh'.b.ins = {}
        /\ sh'.order = BuildOrder(Ids(ns)) /\ sh'.next = 0 /\ sh'.done = 0
        /\ sh'.nextOrder = 0 /\ sh'.batchStart = 0 /\ sh'.batchEnd = 0
    BY <1>1 DEF InitEdgeShared
  <1>7. EdgeShape'
    <2>1. ns' = ns /\ Ids(ns)' = Ids(ns) /\ 0 \in 0 .. Len(ns) /\ 0 \in Nat
      BY <1>4 DEF Ids
    <2> QED BY <1>5, <1>6, <2>1 DEF EdgeShape
  <1>8. SlotsInv'
    BY <1>1 DEF SlotsInv, Gone
  <1>9. WarmingUp'
    BY <1>1, <1>6 DEF WarmingUp, AllAt, Gone, Participants
  <1>10. EdgesInv'
    BY <1>7, <1>8, <1>9 DEF EdgesInv
  <1> QED BY <1>2, <1>3, <1>10 DEF Inv

LEMMA LaunchScanInv ==
    ASSUME Inv, NEW p \in {"fit", "encode"}, Launch(p),
           UNCHANGED <<heap, base, outcome, index, concurrent, request, failed, ns, edges>>,
           outcome = "building"
    PROVE  Inv'
  <1>1. /\ phase' = p /\ pc' \in [Participants -> {"start", "none"}]
        /\ pc'[leader] = "start"
        /\ \E capacity : sh' = InitShared(heap, capacity)
    BY LaunchFacts
  <1>2. TypeOK' /\ NodesInv'
    BY LaunchTypes
  <1>3. PICK capacity : sh' = InitShared(heap, capacity)
    BY <1>1
  <1>4. /\ DOMAIN sh' = {"todo", "next", "done", "fit", "capacity", "records", "overflowed"}
        /\ sh'.todo = heap /\ sh'.next = 0 /\ sh'.done = 0 /\ sh'.records = <<>>
        /\ sh'.overflowed = FALSE
    BY <1>3 DEF InitShared
  <1>5. ScanShape'
    BY <1>4 DEF ScanShape
  <1>6. EdgesInv'
    BY <1>1 DEF EdgesInv, InEdges
  <1>7. EncodeInv'
    <2>1. \A q \in Participants :
             pc'[q] \in ScanPoints \ (IF q = leader THEN {"none", "exit"}
                                      ELSE {"attach", "wait", "merged"})
      BY <1>1 DEF ScanPoints, Gone
    <2>2. EncodeShape' /\ ClaimsInv'
      <3>1. DOMAIN sh'.records = {} /\ sh'.records \in Seq(Rows \cup {0})
        BY <1>4
      <3>2. EncodeShape'
        BY <1>4, <3>1 DEF EncodeShape
      <3>3. \A q \in Participants : pc'[q] # "write"
        BY <1>1
      <3>4. ClaimsInv'
        BY <3>1, <3>3 DEF ClaimsInv
      <3> QED BY <3>2, <3>4
    <2>3. Finished' = {} /\ Cardinality({}) = 0
      BY <1>1, FS_EmptySet DEF Finished
    <2>4. base' \subseteq sh'.todo
      BY <1>4 DEF Inv, TypeOK
    <2>5. NothingLost'
      BY <1>4, <2>3, <2>4 DEF NothingLost
    <2> QED BY <2>1, <2>2, <2>5 DEF EncodeInv
  <1> QED BY <1>2, <1>5, <1>6, <1>7 DEF Inv

(***************************************************************************)
(* The scanning phases.                                                    *)
(***************************************************************************)

\* The next row of a scan is one of the rows left to scan.
LEMMA NextRow ==
    ASSUME NEW S, S \subseteq Rows, S # {}
    PROVE  (CHOOSE r \in S : \A q \in S : r <= q) \in S
  <1>1. S \subseteq Nat
    BY ParallelBuildAssumption
  <1>2. \E r \in S : \A q \in S : r <= q
    BY <1>1, LeastExists
  <1> QED BY <1>2

\* A step of a scanning phase concerns only the invariant of that phase.
LEMMA ScanStep ==
    ASSUME Inv, Scanning, outcome = "building",
           UNCHANGED <<heap, base, outcome, index, concurrent, request, phase, failed, ns, edges>>,
           pc' \in [Participants -> ScanPoints \cup EdgePoints],
           slot' \in [Participants -> Int], cur' \in [Participants -> Int \X Int],
           pc'[leader] = "merged" => pc[leader] = "merged",
           ScanShape', EncodeInv'
    PROVE  Inv'
  <1>1. TypeOK'
    BY DEF Inv, TypeOK
  <1>2. EdgesInv'
    BY DEF Scanning, EdgesInv, InEdges
  <1>3. NodesInv'
    BY DEF Inv, NodesInv, IsOneScan, Scanning
  <1> QED BY <1>1, <1>2, <1>3 DEF Inv

\* What the invariant says in a scanning phase.
LEMMA ScanFacts ==
    ASSUME Inv, Scanning
    PROVE  /\ TypeOK
           /\ DOMAIN sh = {"todo", "next", "done", "fit", "capacity", "records", "overflowed"}
           /\ sh.next \in Nat
           /\ leader \in Participants /\ leader \notin Workers /\ Workers \subseteq Participants
           /\ phase = "encode" =>
                /\ EncodeShape /\ ClaimsInv /\ NothingLost
                /\ \A p \in Participants :
                      pc[p] \in ScanPoints \ (IF p = leader THEN {"none", "exit"}
                                              ELSE {"attach", "wait", "merged"})
  BY ParallelBuildAssumption DEF Inv, ScanShape, EncodeInv, Participants

\* The participants that have finished are finitely many.
LEMMA FinishedFinite == IsFiniteSet(Finished)
  <1>1. IsFiniteSet(Participants)
    BY FS_AddElement, ParallelBuildAssumption DEF Participants
  <1>2. Finished \in SUBSET Participants
    BY DEF Finished
  <1> QED BY <1>1, <1>2, FS_Subset

LEMMA StartScanInv ==
    ASSUME Inv, outcome = "building", NEW p \in Participants, StartScan(p)
    PROVE  Inv'
  <1>1. /\ Scanning /\ pc[p] = "start"
        /\ UNCHANGED <<heap, base, outcome, index, concurrent, request, phase, failed, ns, edges>>
        /\ cur' = cur /\ slot' = [slot EXCEPT ![p] = sh.next]
        /\ sh' = [sh EXCEPT !.next = sh.next + 1]
        /\ pc' = [pc EXCEPT ![p] = IF sh.next <= request THEN "scan" ELSE "failed"]
    BY DEF StartScan, ClaimParticipant
  <1>2. /\ TypeOK /\ sh.next \in Nat /\ leader \in Participants
        /\ DOMAIN sh = {"todo", "next", "done", "fit", "capacity", "records", "overflowed"}
        /\ phase = "encode" =>
             /\ EncodeShape /\ ClaimsInv /\ NothingLost
             /\ \A q \in Participants :
                      pc[q] \in ScanPoints \ (IF q = leader THEN {"none", "exit"}
                                              ELSE {"attach", "wait", "merged"})
    BY <1>1, ScanFacts
  <1>3. /\ pc'[p] \in {"scan", "failed"} /\ \A q \in Participants : q # p => pc'[q] = pc[q]
        /\ pc' \in [Participants -> ScanPoints \cup EdgePoints]
        /\ slot' \in [Participants -> Int] /\ cur' \in [Participants -> Int \X Int]
    BY <1>1, <1>2 DEF TypeOK, ScanPoints, Gone
  <1>4. /\ sh'.todo = sh.todo /\ sh'.done = sh.done /\ sh'.records = sh.records
        /\ sh'.overflowed = sh.overflowed /\ sh'.next = sh.next + 1 /\ DOMAIN sh' = DOMAIN sh
    BY <1>1, <1>2
  <1>5. ScanShape'
    BY <1>2, <1>4 DEF ScanShape
  <1>6. pc'[leader] = "merged" => pc[leader] = "merged"
    BY <1>2, <1>3
  <1>7. Finished' = Finished /\ Pending \subseteq Pending'
    BY <1>1, <1>3 DEF Finished, Pending
  <1>8. EncodeInv'
    <2> SUFFICES ASSUME phase = "encode"
                 PROVE  /\ EncodeShape' /\ ClaimsInv' /\ NothingLost'
                        /\ \A q \in Participants :
                             pc'[q] \in ScanPoints \ (IF q = leader THEN {"none", "exit"}
                                              ELSE {"attach", "wait", "merged"})
      BY <1>1 DEF EncodeInv
    <2>1. EncodeShape'
      BY <1>1, <1>2, <1>4 DEF EncodeShape
    <2>2. ClaimsInv'
      <3>1. \A q \in Participants : pc'[q] = "write" => q # p /\ pc[q] = "write"
        BY <1>3
      <3> QED BY <1>1, <1>2, <1>4, <3>1 DEF ClaimsInv
    <2>3. NothingLost'
      BY <1>1, <1>2, <1>4, <1>7 DEF NothingLost
    <2>4. \A q \in Participants :
             pc'[q] \in ScanPoints \ (IF q = leader THEN {"none", "exit"}
                                              ELSE {"attach", "wait", "merged"})
      BY <1>2, <1>3 DEF ScanPoints, Gone
    <2> QED BY <2>1, <2>2, <2>3, <2>4
  <1> QED BY <1>1, <1>3, <1>5, <1>6, <1>8, ScanStep

LEMMA FitRowInv ==
    ASSUME Inv, outcome = "building", NEW p \in Participants, FitRow(p)
    PROVE  Inv'
  <1> DEFINE r == CHOOSE r \in sh.todo : \A q \in sh.todo : r <= q
  <1>1. /\ Scanning /\ phase = "fit"
        /\ UNCHANGED <<heap, base, outcome, index, concurrent, request, phase, failed, ns, edges>>
        /\ cur' = cur /\ slot' = slot /\ pc' = pc
        /\ sh' = [sh EXCEPT !.todo = sh.todo \ {r},
                            !.fit[slot[p]] = IF r \in Indexable THEN @ + 1 ELSE @]
    BY DEF FitRow, Scanning
  <1> HIDE DEF r
  <1>2. /\ TypeOK /\ sh.next \in Nat
        /\ DOMAIN sh = {"todo", "next", "done", "fit", "capacity", "records", "overflowed"}
    BY <1>1, ScanFacts
  <1>3. DOMAIN sh' = DOMAIN sh /\ sh'.next = sh.next
    BY <1>1, <1>2
  <1>4. ScanShape'
    BY <1>2, <1>3 DEF ScanShape
  <1>5. EncodeInv'
    BY <1>1 DEF EncodeInv
  <1>6. /\ pc' \in [Participants -> ScanPoints \cup EdgePoints]
        /\ slot' \in [Participants -> Int] /\ cur' \in [Participants -> Int \X Int]
    BY <1>1, <1>2 DEF TypeOK
  <1> QED BY <1>1, <1>4, <1>5, <1>6, ScanStep

LEMMA AttachScanInv ==
    ASSUME Inv, outcome = "building", AttachScan
    PROVE  Inv'
  <1>1. /\ Scanning /\ pc[leader] = "attach" /\ pc' = [pc EXCEPT ![leader] = "wait"]
        /\ UNCHANGED <<heap, base, outcome, index, concurrent, request, phase, failed, ns, edges>>
        /\ cur' = cur /\ slot' = slot /\ sh' = sh
    BY DEF AttachScan
  <1>2. /\ TypeOK /\ leader \in Participants
        /\ phase = "encode" =>
             /\ EncodeShape /\ ClaimsInv /\ NothingLost
             /\ \A q \in Participants :
                      pc[q] \in ScanPoints \ (IF q = leader THEN {"none", "exit"}
                                              ELSE {"attach", "wait", "merged"})
    BY <1>1, ScanFacts
  <1>3. /\ pc'[leader] = "wait" /\ \A q \in Participants : q # leader => pc'[q] = pc[q]
        /\ pc' \in [Participants -> ScanPoints \cup EdgePoints]
        /\ slot' \in [Participants -> Int] /\ cur' \in [Participants -> Int \X Int]
    BY <1>1, <1>2 DEF TypeOK, ScanPoints, Gone
  <1>4. ScanShape'
    BY <1>1 DEF Inv, ScanShape, Scanning
  <1>5. Finished' = Finished /\ Pending' = Pending
        /\ \A q \in Participants : pc'[q] = "write" <=> pc[q] = "write"
    BY <1>1, <1>3 DEF Finished, Pending
  <1>6. EncodeInv'
    <2> SUFFICES ASSUME phase = "encode"
                 PROVE  /\ EncodeShape' /\ ClaimsInv' /\ NothingLost'
                        /\ \A q \in Participants :
                             pc'[q] \in ScanPoints \ (IF q = leader THEN {"none", "exit"}
                                              ELSE {"attach", "wait", "merged"})
      BY <1>1 DEF EncodeInv
    <2>1. EncodeShape' /\ ClaimsInv' /\ NothingLost'
      BY <1>1, <1>2, <1>5 DEF EncodeShape, ClaimsInv, NothingLost
    <2>2. \A q \in Participants :
             pc'[q] \in ScanPoints \ (IF q = leader THEN {"none", "exit"}
                                              ELSE {"attach", "wait", "merged"})
      BY <1>2, <1>3 DEF ScanPoints, Gone
    <2> QED BY <2>1, <2>2
  <1> QED BY <1>1, <1>3, <1>4, <1>6, ScanStep

LEMMA FinishScanInv ==
    ASSUME Inv, outcome = "building", NEW p \in Participants, FinishScan(p)
    PROVE  Inv'
  <1>1. /\ Scanning /\ pc[p] = "scan" /\ sh.todo = {}
        /\ UNCHANGED <<heap, base, outcome, index, concurrent, request, phase, failed, ns, edges>>
        /\ cur' = cur /\ slot' = slot /\ sh' = [sh EXCEPT !.done = sh.done + 1]
        /\ pc' = [pc EXCEPT ![p] = IF p = leader THEN "attach" ELSE "exit"]
    BY DEF FinishScan
  <1>2. /\ TypeOK /\ sh.next \in Nat /\ leader \in Participants
        /\ DOMAIN sh = {"todo", "next", "done", "fit", "capacity", "records", "overflowed"}
        /\ phase = "encode" =>
             /\ EncodeShape /\ ClaimsInv /\ NothingLost
             /\ \A q \in Participants :
                      pc[q] \in ScanPoints \ (IF q = leader THEN {"none", "exit"}
                                              ELSE {"attach", "wait", "merged"})
    BY <1>1, ScanFacts
  <1>3. /\ pc'[p] = IF p = leader THEN "attach" ELSE "exit"
        /\ \A q \in Participants : q # p => pc'[q] = pc[q]
        /\ pc' \in [Participants -> ScanPoints \cup EdgePoints]
        /\ slot' \in [Participants -> Int] /\ cur' \in [Participants -> Int \X Int]
    BY <1>1, <1>2 DEF TypeOK, ScanPoints, Gone
  <1>4. /\ sh'.todo = sh.todo /\ sh'.done = sh.done + 1 /\ sh'.records = sh.records
        /\ sh'.overflowed = sh.overflowed /\ sh'.next = sh.next /\ DOMAIN sh' = DOMAIN sh
    BY <1>1, <1>2
  <1>5. ScanShape'
    BY <1>2, <1>4 DEF ScanShape
  <1>6. pc'[leader] = "merged" => pc[leader] = "merged"
    BY <1>2, <1>3
  <1>7. Finished' = Finished \cup {p} /\ p \notin Finished /\ Pending' = Pending
        /\ \A q \in Participants : pc'[q] = "write" <=> pc[q] = "write"
    BY <1>1, <1>3 DEF Finished, Pending
  <1>8. Cardinality(Finished') = Cardinality(Finished) + 1
    BY <1>7, FinishedFinite, FS_AddElement
  <1>9. EncodeInv'
    <2> SUFFICES ASSUME phase = "encode"
                 PROVE  /\ EncodeShape' /\ ClaimsInv' /\ NothingLost'
                        /\ \A q \in Participants :
                             pc'[q] \in ScanPoints \ (IF q = leader THEN {"none", "exit"}
                                              ELSE {"attach", "wait", "merged"})
      BY <1>1 DEF EncodeInv
    <2>1. EncodeShape'
      BY <1>1, <1>2, <1>4 DEF EncodeShape
    <2>2. ClaimsInv'
      BY <1>1, <1>2, <1>4, <1>7 DEF ClaimsInv
    <2>3. NothingLost'
      BY <1>1, <1>2, <1>4, <1>7, <1>8 DEF NothingLost
    <2>4. \A q \in Participants :
             pc'[q] \in ScanPoints \ (IF q = leader THEN {"none", "exit"}
                                              ELSE {"attach", "wait", "merged"})
      BY <1>2, <1>3 DEF ScanPoints, Gone
    <2> QED BY <2>1, <2>2, <2>3, <2>4
  <1> QED BY <1>1, <1>3, <1>5, <1>6, <1>9, ScanStep

LEMMA ClaimRecordInv ==
    ASSUME Inv, outcome = "building", NEW p \in Participants, ClaimRecord(p)
    PROVE  Inv'
  <1> DEFINE r == CHOOSE r \in sh.todo : \A q \in sh.todo : r <= q
             full == Len(sh.records) >= sh.capacity
             takes == r \in Indexable /\ ~full
  <1>1. /\ Scanning /\ phase = "encode" /\ pc[p] = "scan" /\ sh.todo # {}
        /\ UNCHANGED <<heap, base, outcome, index, concurrent, request, phase, failed, ns, edges>>
        /\ slot' = slot
        /\ sh' = [sh EXCEPT !.todo = sh.todo \ {r},
                    !.records = IF takes THEN Append(sh.records, 0) ELSE sh.records,
                    !.overflowed = sh.overflowed \/ (r \in Indexable /\ full)]
        /\ cur' = [cur EXCEPT ![p] = IF takes THEN <<Len(sh.records) + 1, r>> ELSE Nothing]
        /\ pc' = [pc EXCEPT ![p] = IF takes THEN "write" ELSE "scan"]
    BY DEF ClaimRecord, Scanning
  <1>2. /\ TypeOK /\ sh.next \in Nat /\ leader \in Participants
        /\ DOMAIN sh = {"todo", "next", "done", "fit", "capacity", "records", "overflowed"}
        /\ EncodeShape /\ ClaimsInv /\ NothingLost
        /\ \A q \in Participants :
              pc[q] \in ScanPoints \ (IF q = leader THEN {"none", "exit"}
                                      ELSE {"attach", "wait", "merged"})
    BY <1>1, ScanFacts
  <1>3. r \in sh.todo /\ r \in heap /\ r \in Rows /\ r \in Nat \ {0}
    <2>1. sh.todo \subseteq heap /\ heap \subseteq Rows
      BY <1>2 DEF EncodeShape, TypeOK
    <2>2. r \in sh.todo
      BY <1>1, <2>1, NextRow
    <2> QED BY <2>1, <2>2, ParallelBuildAssumption
  <1> DEFINE n == Len(sh.records)
  <1>4. n \in Nat /\ DOMAIN sh.records = 1 .. n
    BY <1>2 DEF EncodeShape
  <1> HIDE DEF r, full, n
  <1>5. /\ sh'.todo = sh.todo \ {r} /\ sh'.done = sh.done /\ sh'.next = sh.next
        /\ DOMAIN sh' = DOMAIN sh
        /\ sh'.overflowed = (sh.overflowed \/ (r \in Indexable /\ full))
        /\ takes => sh'.records = Append(sh.records, 0)
        /\ ~takes => sh'.records = sh.records
    BY <1>1, <1>2
  <1>6. /\ takes => pc'[p] = "write" /\ cur'[p] = <<n + 1, r>>
        /\ ~takes => pc'[p] = "scan"
        /\ \A q \in Participants : q # p => pc'[q] = pc[q] /\ cur'[q] = cur[q]
    BY <1>1, <1>2 DEF TypeOK, n
  <1>7. /\ pc' \in [Participants -> ScanPoints \cup EdgePoints]
        /\ slot' \in [Participants -> Int] /\ cur' \in [Participants -> Int \X Int]
    <2>1. <<n + 1, r>> \in Int \X Int /\ Nothing \in Int \X Int
      BY <1>3, <1>4 DEF Nothing, None
    <2> QED BY <1>1, <1>2, <2>1 DEF TypeOK, ScanPoints, Gone, n
  <1>8. ScanShape'
    BY <1>2, <1>5 DEF ScanShape
  <1>9. pc'[leader] = "merged" => pc[leader] = "merged"
    BY <1>1, <1>2, <1>6
  <1>10. \A q \in Participants : q # p /\ pc[q] = "write" =>
           /\ cur[q][1] \in 1 .. n /\ sh.records[cur[q][1]] = 0
           /\ cur[q][2] \in (heap \cap Indexable) \ sh.todo /\ cur[q][2] # 0
           /\ \A i \in 1 .. n : sh.records[i] # cur[q][2]
           /\ \A s \in Participants : s # q /\ pc[s] = "write" =>
                 cur[s][1] # cur[q][1] /\ cur[s][2] # cur[q][2]
    BY <1>2, <1>4, ParallelBuildAssumption DEF ClaimsInv, TypeOK
  <1>11. \A i \in 1 .. n : sh.records[i] # 0 =>
           /\ sh.records[i] \in (heap \cap Indexable) \ sh.todo
           /\ \A j \in 1 .. n : sh.records[j] = sh.records[i] => j = i
    BY <1>2, <1>4 DEF ClaimsInv
  <1>12. takes => /\ DOMAIN sh'.records = 1 .. n + 1 /\ sh'.records[n + 1] = 0
                  /\ \A i \in 1 .. n : sh'.records[i] = sh.records[i]
                  /\ sh'.records \in Seq(Rows \cup {0})
    <2>1. sh.records \in Seq(Rows \cup {0})
      BY <1>2 DEF EncodeShape
    <2> QED BY <1>4, <1>5, <2>1 DEF n
  <1>13. EncodeShape'
    BY <1>1, <1>2, <1>5, <1>12 DEF EncodeShape
  <1>14. ClaimsInv'
    <2>1. CASE takes
      <3>1. DOMAIN sh'.records = 1 .. n + 1
        BY <1>12, <2>1
      <3>2. ASSUME NEW q \in Participants, pc'[q] = "write"
            PROVE  /\ cur'[q][1] \in DOMAIN sh'.records /\ sh'.records[cur'[q][1]] = 0
                   /\ cur'[q][2] \in (heap \cap Indexable) \ sh'.todo
                   /\ \A i \in DOMAIN sh'.records : sh'.records[i] # cur'[q][2]
                   /\ \A s \in Participants : s # q /\ pc'[s] = "write" =>
                         cur'[s][1] # cur'[q][1] /\ cur'[s][2] # cur'[q][2]
        <4>1. CASE q = p
          <5>1. cur'[q][1] = n + 1 /\ cur'[q][2] = r
            BY <1>6, <2>1, <4>1
          <5>2. \A i \in 1 .. n + 1 : sh'.records[i] # r
            <6>1. \A i \in 1 .. n : sh'.records[i] # r
              BY <1>3, <1>11, <1>12, <2>1
            <6>2. \A i \in 1 .. n + 1 : i \in 1 .. n \/ i = n + 1
              BY <1>4
            <6> QED BY <1>3, <1>12, <2>1, <6>1, <6>2
          <5>3. \A s \in Participants : s # q /\ pc'[s] = "write" =>
                   cur'[s][1] # n + 1 /\ cur'[s][2] # r
            BY <1>3, <1>4, <1>6, <1>10, <4>1
          <5>4. n + 1 \in 1 .. n + 1 /\ sh'.records[n + 1] = 0
            BY <1>4, <1>12, <2>1
          <5>5. r \in (heap \cap Indexable) \ sh'.todo
            BY <1>3, <1>5, <2>1
          <5> QED BY <3>1, <5>1, <5>2, <5>3, <5>4, <5>5
        <4>2. CASE q # p
          <5>1. pc[q] = "write" /\ cur'[q] = cur[q]
            BY <1>6, <3>2, <4>2
          <5>2. cur[q][1] \in 1 .. n + 1 /\ sh'.records[cur[q][1]] = 0
            BY <1>4, <1>10, <1>12, <2>1, <4>2, <5>1
          <5>3. \A i \in 1 .. n + 1 : sh'.records[i] # cur[q][2]
            <6>1. \A i \in 1 .. n + 1 : i \in 1 .. n \/ i = n + 1
              BY <1>4
            <6> QED BY <1>10, <1>12, <2>1, <4>2, <5>1, <6>1
          <5>4. ASSUME NEW s \in Participants, s # q, pc'[s] = "write"
                PROVE  cur'[s][1] # cur[q][1] /\ cur'[s][2] # cur[q][2]
            <6>1. CASE s = p
              <7>1. cur'[s][1] = n + 1 /\ cur'[s][2] = r
                BY <1>6, <2>1, <6>1
              <7> QED BY <1>3, <1>4, <1>10, <4>2, <5>1, <7>1
            <6>2. CASE s # p
              BY <1>6, <1>10, <4>2, <5>1, <5>4, <6>2
            <6> QED BY <6>1, <6>2
          <5>5. cur[q][2] \in (heap \cap Indexable) \ sh'.todo
            BY <1>5, <1>10, <4>2, <5>1
          <5> QED BY <3>1, <5>1, <5>2, <5>3, <5>4, <5>5
        <4> QED BY <4>1, <4>2
      <3>3. ASSUME NEW i \in 1 .. n + 1, sh'.records[i] # 0
            PROVE  /\ sh'.records[i] \in (heap \cap Indexable) \ sh'.todo
                   /\ \A j \in 1 .. n + 1 : sh'.records[j] = sh'.records[i] => j = i
        <4>1. \A j \in 1 .. n + 1 : j \in 1 .. n \/ j = n + 1
          BY <1>4
        <4>2. i \in 1 .. n
          BY <1>12, <2>1, <3>3, <4>1
        <4> QED BY <1>5, <1>11, <1>12, <2>1, <3>3, <4>1, <4>2
      <3> QED BY <1>1, <3>1, <3>2, <3>3 DEF ClaimsInv
    <2>2. CASE ~takes
      <3>1. sh'.records = sh.records /\ sh'.todo \subseteq sh.todo
        BY <1>5, <2>2
      <3>2. \A q \in Participants : pc'[q] = "write" =>
               q # p /\ pc[q] = "write" /\ cur'[q] = cur[q]
        BY <1>6, <2>2
      <3> QED BY <1>1, <1>2, <3>1, <3>2 DEF ClaimsInv
    <2> QED BY <2>1, <2>2
  <1>15. NothingLost'
    <2>1. Finished = {} /\ Finished' = {}
      <3>1. Finished = {}
        BY <1>1, <1>2 DEF NothingLost
      <3>2. \A q \in Participants : pc'[q] \in {"write", "scan"} \/ pc'[q] = pc[q]
        BY <1>6
      <3> QED BY <3>1, <3>2 DEF Finished
    <2>2. \A q \in Pending : q # p /\ q \in Pending' /\ cur'[q] = cur[q]
      BY <1>1, <1>6 DEF Pending
    <2>3. takes => p \in Pending' /\ cur'[p][1] = n + 1 /\ cur'[p][2] = r
      BY <1>6 DEF Pending
    <2>4. /\ \A i \in 1 .. n : sh.records[i] = 0 => \E q \in Pending : cur[q][1] = i
          /\ ~sh.overflowed => \A row \in base \cap Indexable :
                \/ row \in sh.todo
                \/ \E i \in 1 .. n : sh.records[i] = row
                \/ \E q \in Pending : cur[q][2] = row
          /\ sh.done = Cardinality(Finished)
      BY <1>2, <1>4 DEF NothingLost
    <2>5. ASSUME NEW i \in DOMAIN sh'.records, sh'.records[i] = 0
          PROVE  \E q \in Pending' : cur'[q][1] = i
      <3>1. CASE takes /\ i = n + 1
        BY <2>3, <3>1
      <3>2. CASE ~(takes /\ i = n + 1)
        <4>1. i \in 1 .. n /\ sh.records[i] = 0
          BY <1>4, <1>5, <1>12, <2>5, <3>2
        <4>2. PICK q \in Pending : cur[q][1] = i
          BY <2>4, <4>1
        <4> QED BY <2>2, <4>2
      <3> QED BY <3>1, <3>2
    <2>6. ASSUME ~sh'.overflowed, NEW row \in base \cap Indexable
          PROVE  \/ row \in sh'.todo
                 \/ \E i \in DOMAIN sh'.records : sh'.records[i] = row
                 \/ \E q \in Pending' : cur'[q][2] = row
      <3>1. ~sh.overflowed /\ (r \in Indexable => takes)
        BY <1>2, <1>5, <2>6 DEF EncodeShape
      <3>2. CASE row = r
        BY <2>3, <2>6, <3>1, <3>2
      <3>3. CASE row # r /\ row \in sh.todo
        BY <1>5, <3>3
      <3>4. CASE \E i \in 1 .. n : sh.records[i] = row
        <4>1. PICK i \in 1 .. n : sh.records[i] = row
          BY <3>4
        <4>2. i \in DOMAIN sh'.records /\ sh'.records[i] = row
          BY <1>4, <1>5, <1>12, <4>1
        <4> QED BY <4>2
      <3>5. CASE \E q \in Pending : cur[q][2] = row
        <4>1. PICK q \in Pending : cur[q][2] = row
          BY <3>5
        <4> QED BY <2>2, <4>1
      <3> QED BY <2>4, <2>6, <3>1, <3>2, <3>3, <3>4, <3>5
    <2> QED BY <1>1, <1>5, <2>1, <2>4, <2>5, <2>6 DEF NothingLost
  <1>16. \A q \in Participants :
             pc'[q] \in ScanPoints \ (IF q = leader THEN {"none", "exit"}
                                              ELSE {"attach", "wait", "merged"})
    <2>1. pc'[p] \in {"write", "scan"}
      BY <1>6
    <2> QED BY <1>2, <1>6, <2>1 DEF ScanPoints, Gone
  <1>17. EncodeInv'
    BY <1>13, <1>14, <1>15, <1>16 DEF EncodeInv
  <1> QED BY <1>1, <1>7, <1>8, <1>9, <1>17, ScanStep

LEMMA WriteRecordInv ==
    ASSUME Inv, outcome = "building", NEW p \in Participants, WriteRecord(p)
    PROVE  Inv'
  <1> DEFINE at == cur[p][1]
             row == cur[p][2]
  <1>1. /\ Scanning /\ phase = "encode" /\ pc[p] = "write"
        /\ UNCHANGED <<heap, base, outcome, index, concurrent, request, phase, failed, ns, edges>>
        /\ slot' = slot /\ sh' = [sh EXCEPT !.records[at] = row]
        /\ cur' = [cur EXCEPT ![p] = Nothing] /\ pc' = [pc EXCEPT ![p] = "scan"]
    BY DEF WriteRecord, Scanning
  <1>2. /\ TypeOK /\ sh.next \in Nat /\ leader \in Participants
        /\ DOMAIN sh = {"todo", "next", "done", "fit", "capacity", "records", "overflowed"}
        /\ EncodeShape /\ ClaimsInv /\ NothingLost
        /\ \A q \in Participants :
              pc[q] \in ScanPoints \ (IF q = leader THEN {"none", "exit"}
                                      ELSE {"attach", "wait", "merged"})
    BY <1>1, ScanFacts
  <1> DEFINE n == Len(sh.records)
  <1>3. n \in Nat /\ DOMAIN sh.records = 1 .. n
    BY <1>2 DEF EncodeShape
  <1>4. /\ at \in 1 .. n /\ sh.records[at] = 0
        /\ row \in (heap \cap Indexable) \ sh.todo /\ row \in Rows /\ row # 0
        /\ \A i \in 1 .. n : sh.records[i] # row
    BY <1>1, <1>2, <1>3, ParallelBuildAssumption DEF ClaimsInv, TypeOK
  <1>5. /\ sh'.todo = sh.todo /\ sh'.done = sh.done /\ sh'.next = sh.next
        /\ DOMAIN sh' = DOMAIN sh /\ sh'.overflowed = sh.overflowed
        /\ sh'.records = [sh.records EXCEPT ![at] = row]
    BY <1>1, <1>2
  <1> HIDE DEF at, row, n
  <1>6. /\ sh'.records \in Seq(Rows \cup {0}) /\ DOMAIN sh'.records = 1 .. n
        /\ sh'.records[at] = row
        /\ \A i \in 1 .. n : i # at => sh'.records[i] = sh.records[i]
    <2>1. sh.records \in Seq(Rows \cup {0})
      BY <1>2 DEF EncodeShape
    <2> QED BY <1>3, <1>4, <1>5, <2>1
  <1>7. /\ pc'[p] = "scan"
        /\ \A q \in Participants : q # p => pc'[q] = pc[q] /\ cur'[q] = cur[q]
    BY <1>1, <1>2 DEF TypeOK
  <1>8. /\ pc' \in [Participants -> ScanPoints \cup EdgePoints]
        /\ slot' \in [Participants -> Int] /\ cur' \in [Participants -> Int \X Int]
    BY <1>1, <1>2 DEF TypeOK, ScanPoints, Gone, Nothing, None
  <1>9. ScanShape'
    BY <1>2, <1>5 DEF ScanShape
  <1>10. pc'[leader] = "merged" => pc[leader] = "merged"
    BY <1>2, <1>7
  <1>11. \A q \in Participants : q # p /\ pc[q] = "write" =>
           /\ cur[q][1] \in 1 .. n /\ sh.records[cur[q][1]] = 0
           /\ cur[q][2] \in (heap \cap Indexable) \ sh.todo
           /\ \A i \in 1 .. n : sh.records[i] # cur[q][2]
           /\ cur[q][1] # at /\ cur[q][2] # row
           /\ \A s \in Participants : s # q /\ pc[s] = "write" =>
                 cur[s][1] # cur[q][1] /\ cur[s][2] # cur[q][2]
    BY <1>1, <1>2, <1>3 DEF ClaimsInv, at, row
  <1>12. \A i \in 1 .. n : sh.records[i] # 0 =>
           /\ sh.records[i] \in (heap \cap Indexable) \ sh.todo
           /\ \A j \in 1 .. n : sh.records[j] = sh.records[i] => j = i
    BY <1>2, <1>3 DEF ClaimsInv
  <1>13. EncodeShape'
    BY <1>1, <1>2, <1>5, <1>6 DEF EncodeShape
  <1>14. ClaimsInv'
    <2>1. \A q \in Participants : pc'[q] = "write" =>
             q # p /\ pc[q] = "write" /\ cur'[q] = cur[q]
      BY <1>7
    <2>2. ASSUME NEW q \in Participants, pc'[q] = "write"
          PROVE  /\ cur'[q][1] \in DOMAIN sh'.records /\ sh'.records[cur'[q][1]] = 0
                 /\ cur'[q][2] \in (heap \cap Indexable) \ sh'.todo
                 /\ \A i \in DOMAIN sh'.records : sh'.records[i] # cur'[q][2]
                 /\ \A s \in Participants : s # q /\ pc'[s] = "write" =>
                       cur'[s][1] # cur'[q][1] /\ cur'[s][2] # cur'[q][2]
      <3>1. q # p /\ pc[q] = "write" /\ cur'[q] = cur[q]
        BY <2>1, <2>2
      <3>2. \A i \in 1 .. n : sh'.records[i] # cur[q][2]
        BY <1>6, <1>11, <3>1
      <3>3. cur[q][1] \in 1 .. n /\ sh'.records[cur[q][1]] = 0
        BY <1>6, <1>11, <3>1
      <3>4. \A s \in Participants : s # q /\ pc'[s] = "write" =>
                       cur'[s][1] # cur[q][1] /\ cur'[s][2] # cur[q][2]
        BY <1>11, <2>1, <3>1
      <3> QED BY <1>5, <1>6, <1>11, <3>1, <3>2, <3>3, <3>4
    <2>3. ASSUME NEW i \in 1 .. n, sh'.records[i] # 0
          PROVE  /\ sh'.records[i] \in (heap \cap Indexable) \ sh'.todo
                 /\ \A j \in 1 .. n : sh'.records[j] = sh'.records[i] => j = i
      <3>1. CASE i = at
        BY <1>4, <1>5, <1>6, <3>1
      <3>2. CASE i # at
        <4>1. sh'.records[i] = sh.records[i] /\ sh.records[i] # 0
          BY <1>6, <2>3, <3>2
        <4> QED BY <1>4, <1>5, <1>6, <1>12, <4>1
      <3> QED BY <3>1, <3>2
    <2> QED BY <1>1, <1>6, <2>2, <2>3 DEF ClaimsInv
  <1>15. NothingLost'
    <2>1. Finished' = Finished
      BY <1>1, <1>7 DEF Finished
    <2>2. \A q \in Pending : q = p \/ (q \in Pending' /\ cur'[q] = cur[q])
      BY <1>7 DEF Pending
    <2>3. /\ \A i \in 1 .. n : sh.records[i] = 0 => \E q \in Pending : cur[q][1] = i
          /\ ~sh.overflowed => \A r \in base \cap Indexable :
                \/ r \in sh.todo
                \/ \E i \in 1 .. n : sh.records[i] = r
                \/ \E q \in Pending : cur[q][2] = r
          /\ sh.done = Cardinality(Finished) /\ (Finished # {} => sh.todo = {})
      BY <1>2, <1>3 DEF NothingLost
    <2>4. ASSUME NEW i \in 1 .. n, sh'.records[i] = 0
          PROVE  \E q \in Pending' : cur'[q][1] = i
      <3>1. i # at /\ sh.records[i] = 0
        BY <1>4, <1>6, <2>4
      <3>2. PICK q \in Pending : cur[q][1] = i
        BY <2>3, <3>1
      <3>3. q # p
        BY <3>1, <3>2 DEF at
      <3> QED BY <2>2, <3>2, <3>3
    <2>5. ASSUME ~sh'.overflowed, NEW r \in base \cap Indexable
          PROVE  \/ r \in sh'.todo
                 \/ \E i \in 1 .. n : sh'.records[i] = r
                 \/ \E q \in Pending' : cur'[q][2] = r
      <3>1. CASE r \in sh.todo
        BY <1>5, <3>1
      <3>2. CASE \E i \in 1 .. n : sh.records[i] = r
        <4>1. PICK i \in 1 .. n : sh.records[i] = r
          BY <3>2
        <4>2. r # 0
          BY <1>2, <2>5, ParallelBuildAssumption DEF TypeOK
        <4> QED BY <1>4, <1>6, <4>1, <4>2
      <3>3. CASE \E q \in Pending : cur[q][2] = r
        <4>1. PICK q \in Pending : cur[q][2] = r
          BY <3>3
        <4>2. CASE q = p
          BY <1>4, <1>6, <4>1, <4>2 DEF row
        <4>3. CASE q # p
          BY <2>2, <4>1, <4>3
        <4> QED BY <4>2, <4>3
      <3> QED BY <1>5, <2>3, <2>5, <3>1, <3>2, <3>3
    <2>6. /\ \A i \in DOMAIN sh'.records : sh'.records[i] = 0 => \E q \in Pending' : cur'[q][1] = i
          /\ ~sh'.overflowed => \A r \in base' \cap Indexable :
                \/ r \in sh'.todo
                \/ \E i \in DOMAIN sh'.records : sh'.records[i] = r
                \/ \E q \in Pending' : cur'[q][2] = r
      BY <1>1, <1>6, <2>4, <2>5
    <2>7. sh'.done = Cardinality(Finished') /\ (Finished' # {} => sh'.todo = {})
      BY <1>1, <1>5, <2>1, <2>3
    <2> QED BY <2>6, <2>7 DEF NothingLost
  <1>16. \A q \in Participants :
             pc'[q] \in ScanPoints \ (IF q = leader THEN {"none", "exit"}
                                              ELSE {"attach", "wait", "merged"})
    BY <1>2, <1>7 DEF ScanPoints, Gone
  <1>17. EncodeInv'
    BY <1>13, <1>14, <1>15, <1>16 DEF EncodeInv
  <1> QED BY <1>1, <1>8, <1>9, <1>10, <1>17, ScanStep

\* When everybody is done nobody has a record left to write.
LEMMA AreaIsExact ==
    ASSUME Inv, phase = "encode", AllDone, ~sh.overflowed
    PROVE  IsOneScan(sh.records) /\ Range(sh.records) \subseteq Rows
  <1>1. Scanning
    BY DEF Scanning
  <1>2. /\ TypeOK /\ leader \in Participants
        /\ EncodeShape /\ ClaimsInv /\ NothingLost
        /\ \A q \in Participants :
              pc[q] \in ScanPoints \ (IF q = leader THEN {"none", "exit"}
                                      ELSE {"attach", "wait", "merged"})
    BY <1>1, ScanFacts
  <1>3. Finished = Launched \cup {leader}
    <2>1. Finished \subseteq Launched \cup {leader}
      BY DEF Finished, Launched, Participants
    <2>2. Cardinality(Finished) >= NParticipants
      BY <1>2 DEF AllDone, NothingLost
    <2> QED BY <2>1, <2>2, CountIsAll
  <1>4. Pending = {}
    BY <1>3 DEF Pending, Finished, Launched, Participants
  <1>5. sh.todo = {}
    BY <1>2, <1>3 DEF NothingLost
  <1>6. \A i \in DOMAIN sh.records : sh.records[i] # 0
    BY <1>2, <1>4 DEF NothingLost
  <1>7. IsInjective(sh.records) /\ Range(sh.records) \subseteq heap \cap Indexable
    BY <1>2, <1>6 DEF ClaimsInv, IsInjective, Range
  <1>8. base \cap Indexable \subseteq Range(sh.records)
    BY <1>2, <1>4, <1>5 DEF NothingLost, Range
  <1> QED BY <1>2, <1>7, <1>8 DEF IsOneScan, TypeOK

\* A scan that starts in the middle still lists every row once.
LEMMA Rotation ==
    ASSUME NEW S, NEW s \in Seq(S), NEW k \in 0 .. Len(s), IsInjective(s)
    PROVE  LET t == SubSeq(s, k + 1, Len(s)) \o SubSeq(s, 1, k)
           IN  t \in Seq(S) /\ Len(t) = Len(s) /\ IsInjective(t) /\ Range(t) = Range(s)
  <1> DEFINE a == SubSeq(s, k + 1, Len(s))
             b == SubSeq(s, 1, k)
             t == a \o b
             m == Len(s) - k
  <1>1. Len(s) \in Nat /\ k \in Nat /\ m \in Nat /\ DOMAIN s = 1 .. Len(s)
    OBVIOUS
  <1>2. a \in Seq(S) /\ Len(a) = m /\ \A i \in 1 .. m : a[i] = s[k + i]
    <2>1. k + 1 \in Int /\ Len(s) \in Int /\ \A i \in k + 1 .. Len(s) : s[i] \in S
      BY <1>1
    <2>2. /\ a \in Seq(S)
          /\ Len(a) = IF k + 1 <= Len(s) THEN Len(s) - (k + 1) + 1 ELSE 0
          /\ \A i \in 1 .. Len(s) - (k + 1) + 1 : a[i] = s[k + 1 + i - 1]
      BY ONLY <2>1, SubSeqProperties
    <2> HIDE DEF a
    <2>3. \A i \in 1 .. m : i \in 1 .. Len(s) - (k + 1) + 1 /\ k + 1 + i - 1 = k + i
      BY <1>1
    <2>4. Len(a) = m
      <3> DEFINE n == Len(s)
      <3>1. n \in Nat /\ k \in 0 .. n
        BY <1>1
      <3>2. Len(a) = IF k + 1 <= n THEN n - (k + 1) + 1 ELSE 0
        BY <2>2
      <3> HIDE DEF n
      <3>3. CASE k + 1 <= n
        BY <3>1, <3>2, <3>3 DEF n
      <3>4. CASE ~ (k + 1 <= n)
        BY <3>1, <3>2, <3>4 DEF n
      <3> QED BY <3>3, <3>4
    <2>5. \A i \in 1 .. m : a[i] = s[k + i]
      BY <2>2, <2>3
    <2> QED BY <2>2, <2>4, <2>5
  <1>3. b \in Seq(S) /\ Len(b) = k /\ \A i \in 1 .. k : b[i] = s[i]
    <2>1. 1 \in Int /\ k \in Int /\ \A i \in 1 .. k : s[i] \in S
      BY <1>1
    <2>2. /\ b \in Seq(S)
          /\ Len(b) = IF 1 <= k THEN k - 1 + 1 ELSE 0
          /\ \A i \in 1 .. k - 1 + 1 : b[i] = s[1 + i - 1]
      BY ONLY <2>1, SubSeqProperties
    <2> HIDE DEF b
    <2> QED BY <1>1, <2>2
  <1>4. /\ t \in Seq(S) /\ Len(t) = Len(s) /\ DOMAIN t = 1 .. Len(s)
        /\ \A i \in 1 .. m : t[i] = s[k + i]
        /\ \A i \in m + 1 .. Len(s) : t[i] = s[i - m]
    <2> HIDE DEF a, b
    <2>1. /\ t \in Seq(S) /\ Len(t) = Len(a) + Len(b)
          /\ \A i \in 1 .. Len(a) + Len(b) : t[i] = IF i <= Len(a) THEN a[i] ELSE b[i - Len(a)]
      BY <1>2, <1>3, ConcatProperties
    <2> HIDE DEF t
    <2>2. m + k = Len(s) /\ Len(t) = Len(s) /\ DOMAIN t = 1 .. Len(s)
      BY <1>1, <1>2, <1>3, <2>1
    <2>3. \A i \in 1 .. m : t[i] = s[k + i]
      BY <1>1, <1>2, <1>3, <2>1
    <2>4. \A i \in m + 1 .. Len(s) : t[i] = s[i - m]
      <3> SUFFICES ASSUME NEW i \in m + 1 .. Len(s) PROVE t[i] = s[i - m]
        OBVIOUS
      <3>1. i \in 1 .. Len(a) + Len(b) /\ ~ (i <= Len(a)) /\ i - m \in 1 .. k
        BY <1>1, <1>2, <1>3
      <3>2. t[i] = b[i - m]
        BY <1>2, <2>1, <3>1
      <3> QED BY <1>3, <3>1, <3>2
    <2> QED BY <2>1, <2>2, <2>3, <2>4, Zenon
  <1> DEFINE from == [i \in 1 .. Len(s) |-> IF i <= m THEN k + i ELSE i - m]
  <1>5. \A i \in 1 .. Len(s) : from[i] \in 1 .. Len(s) /\ t[i] = s[from[i]]
    <2> HIDE DEF t
    <2> QED BY <1>1, <1>4
  <1>6. \A i, j \in 1 .. Len(s) : from[i] = from[j] => i = j
    BY <1>1
  <1>7. \A j \in 1 .. Len(s) : \E i \in 1 .. Len(s) : from[i] = j
    <2> SUFFICES ASSUME NEW j \in 1 .. Len(s) PROVE \E i \in 1 .. Len(s) : from[i] = j
      OBVIOUS
    <2>1. CASE j > k
      <3>1. j - k \in 1 .. Len(s) /\ from[j - k] = j
        BY <1>1, <2>1
      <3> QED BY <3>1
    <2>2. CASE j <= k
      <3>1. j + m \in 1 .. Len(s) /\ from[j + m] = j
        BY <1>1, <2>2
      <3> QED BY <3>1
    <2> QED BY <1>1, <2>1, <2>2
  <1>a. DOMAIN t = 1 .. Len(s) /\ t \in Seq(S) /\ Len(t) = Len(s)
    BY <1>4
  <1> HIDE DEF t, from
  <1>8. IsInjective(t)
    <2> SUFFICES ASSUME NEW i \in 1 .. Len(s), NEW j \in 1 .. Len(s), t[i] = t[j] PROVE i = j
      BY <1>a DEF IsInjective
    <2>1. s[from[i]] = s[from[j]] /\ from[i] \in DOMAIN s /\ from[j] \in DOMAIN s
      BY <1>1, <1>5
    <2>2. from[i] = from[j]
      BY <2>1 DEF IsInjective
    <2> QED BY <1>6, <2>2
  <1>9. Range(t) = Range(s)
    <2>1. ASSUME NEW x \in Range(t) PROVE x \in Range(s)
      <3>1. PICK i \in 1 .. Len(s) : x = t[i]
        BY <1>a, <2>1 DEF Range
      <3>2. x = s[from[i]] /\ from[i] \in DOMAIN s
        BY <1>1, <1>5, <3>1
      <3> QED BY <3>2 DEF Range
    <2>2. ASSUME NEW x \in Range(s) PROVE x \in Range(t)
      <3>1. PICK j \in 1 .. Len(s) : x = s[j]
        BY <1>1, <2>2 DEF Range
      <3>2. PICK i \in 1 .. Len(s) : from[i] = j
        BY <1>7
      <3>3. x = t[i] /\ i \in DOMAIN t
        BY <1>5, <1>a, <3>1, <3>2
      <3> QED BY <3>3 DEF Range
    <2> QED BY <2>1, <2>2
  <1> QED BY <1>a, <1>8, <1>9 DEF t

\* The leader merges the record area into the nodes.
LEMMA MergeRecordsInv ==
    ASSUME Inv, outcome = "building", MergeRecords
    PROVE  Inv'
  <1>1. /\ phase = "encode" /\ pc[leader] = "wait" /\ AllDone
        /\ pc' = [pc EXCEPT ![leader] = "merged"]
        /\ UNCHANGED <<heap, base, index, concurrent, request, phase, slot, cur, sh, failed, edges>>
        /\ leader \in Participants
    BY DEF MergeRecords, Participants
  <1>2. outcome' \in {"building", "error"} /\ (outcome' # "error" => ~sh.overflowed)
    BY DEF MergeRecords
  <1>3. TypeOK'
    BY <1>1, <1>2 DEF Inv, TypeOK, ScanPoints
  <1>4. ScanShape' /\ EdgesInv'
    BY <1>1 DEF Inv, ScanShape, Scanning, EdgesInv, InEdges
  <1>5. EncodeInv'
    <2>1. pc'[leader] = "merged" /\ \A p \in Participants : p # leader => pc'[p] = pc[p]
      BY <1>1 DEF Inv, TypeOK
    <2>2. Pending' = Pending /\ Finished' = Finished
      BY <1>1, <2>1 DEF Pending, Finished
    <2>3. \A p \in Participants : (pc'[p] = "write") = (pc[p] = "write")
      BY <1>1, <2>1
    <2>4. EncodeShape /\ ClaimsInv /\ NothingLost
      BY <1>1 DEF Inv, EncodeInv
    <2>5. EncodeShape'
      BY <1>1, <2>4 DEF EncodeShape
    <2>6. ClaimsInv'
      BY <1>1, <2>3, <2>4 DEF ClaimsInv
    <2>7. NothingLost'
      BY <1>1, <2>2, <2>4 DEF NothingLost
    <2>8. \A p \in Participants :
             pc'[p] \in ScanPoints \ (IF p = leader THEN {"none", "exit"}
                                      ELSE {"attach", "wait", "merged"})
      BY <1>1, <2>1 DEF Inv, EncodeInv, ScanPoints
    <2> QED BY <2>5, <2>6, <2>7, <2>8 DEF EncodeInv
  <1>6. /\ ns' \in Seq(Rows \cup {0}) /\ Len(ns') <= Cardinality(Rows) + 1
        /\ outcome' # "error" => IsOneScan(ns')
    <2>1. CASE sh.overflowed
      BY <2>1, <1>2 DEF MergeRecords, Inv, NodesInv
    <2>2. CASE ~sh.overflowed
      <3> DEFINE S == Range(sh.records)
      <3>1. ns' = InTidOrder(S)
        BY <2>2 DEF MergeRecords
      <3>2. IsOneScan(sh.records) /\ S \subseteq Rows
        BY <1>1, <2>2, AreaIsExact
      <3>3. S \subseteq Nat /\ IsFiniteSet(S) /\ Cardinality(S) <= Cardinality(Rows)
            /\ Cardinality(Rows) \in Nat
        BY <3>2, ParallelBuildAssumption, FS_Subset, FS_CardinalityType
      <3>4. /\ ns' \in Seq(S) /\ Len(ns') = Cardinality(S) /\ Cardinality(S) \in Nat
            /\ IsInjective(ns') /\ Range(ns') = S
        BY <3>1, <3>3, SortedRows
      <3> HIDE DEF S
      <3>5. IsOneScan(ns')
        BY <3>2, <3>4 DEF IsOneScan, S
      <3>6. ns' \in Seq(Rows \cup {0})
        BY <3>2, <3>4
      <3> QED BY <3>3, <3>4, <3>5, <3>6
    <2> QED BY <2>1, <2>2
  <1>7. NodesInv'
    BY <1>1, <1>2, <1>6 DEF NodesInv, IsOneScan
  <1> QED BY <1>3, <1>4, <1>5, <1>7 DEF Inv

\* The serial scan of the table.
LEMMA SerialScanInv ==
    ASSUME Inv, outcome = "building", SerialScan
    PROVE  Inv'
  <1> DEFINE S == heap \cap Indexable
             all == InTidOrder(S)
  <1>1. /\ phase = "scan" /\ pc' = [pc EXCEPT ![leader] = "merged"]
        /\ UNCHANGED <<heap, base, outcome, index, concurrent, request, phase, slot, cur, sh, failed, edges>>
        /\ \E k \in 0 .. Len(all) : ns' = SubSeq(all, k + 1, Len(all)) \o SubSeq(all, 1, k)
    BY DEF SerialScan
  <1>2. TypeOK'
    BY <1>1 DEF Inv, TypeOK, ScanPoints
  <1>3. ScanShape' /\ EncodeInv' /\ EdgesInv'
    BY <1>1 DEF ScanShape, Scanning, EncodeInv, EdgesInv, InEdges
  <1>4. /\ base \subseteq heap /\ S \subseteq Rows /\ S \subseteq Nat /\ IsFiniteSet(S)
        /\ Cardinality(S) <= Cardinality(Rows) /\ Cardinality(Rows) \in Nat
    BY ParallelBuildAssumption, FS_Subset, FS_CardinalityType DEF Inv, TypeOK
  <1>5. /\ all \in Seq(S) /\ Len(all) = Cardinality(S) /\ Cardinality(S) \in Nat
        /\ IsInjective(all) /\ Range(all) = S
    BY <1>4, SortedRows
  <1> HIDE DEF all
  <1>6. PICK k \in 0 .. Len(all) : ns' = SubSeq(all, k + 1, Len(all)) \o SubSeq(all, 1, k)
    BY <1>1
  <1>7. ns' \in Seq(S) /\ Len(ns') = Len(all) /\ IsInjective(ns') /\ Range(ns') = Range(all)
    BY <1>5, <1>6, Rotation
  <1>8. IsOneScan(ns')
    BY <1>4, <1>5, <1>7 DEF IsOneScan
  <1>9. ns' \in Seq(Rows \cup {0}) /\ Len(ns') <= Cardinality(Rows) + 1
    BY <1>4, <1>5, <1>7
  <1>10. NodesInv'
    BY <1>1, <1>8, <1>9 DEF NodesInv, IsOneScan
  <1> QED BY <1>2, <1>3, <1>10 DEF Inv

(***************************************************************************)
(* From one phase to the next.                                             *)
(***************************************************************************)

LEMMA BeginBuildInv ==
    ASSUME Inv, outcome = "building", BeginBuild
    PROVE  Inv'
  BY LaunchScanInv, NoWorkersInv DEF BeginBuild

LEMMA EndFitInv ==
    ASSUME Inv, outcome = "building", EndFit
    PROVE  Inv'
  BY LaunchScanInv, NoWorkersInv DEF EndFit

LEMMA EndEncodeInv ==
    ASSUME Inv, outcome = "building", EndEncode
    PROVE  Inv'
  <1>1. IsOneScan(ns)
    BY DEF EndEncode, Inv, NodesInv
  <1> QED BY <1>1, LaunchEdgesInv, NoWorkersInv DEF EndEncode

LEMMA EndSerialScanInv ==
    ASSUME Inv, outcome = "building", EndSerialScan
    PROVE  Inv'
  <1>1. IsOneScan(ns)
    BY DEF EndSerialScan, Inv, NodesInv
  <1> QED BY <1>1, LaunchEdgesInv, NoWorkersInv DEF EndSerialScan

LEMMA SerialEdgesInv ==
    ASSUME Inv, outcome = "building", SerialEdges
    PROVE  Inv'
  <1>1. /\ phase = "serial" /\ phase' = "finish"
        /\ UNCHANGED <<heap, base, outcome, index, concurrent, request, pc, slot, cur, sh, failed, ns>>
    BY DEF SerialEdges
  <1>2. TypeOK'
    BY <1>1 DEF Inv, TypeOK
  <1>3. ScanShape' /\ EncodeInv' /\ EdgesInv'
    BY <1>1 DEF ScanShape, Scanning, EncodeInv, EdgesInv, InEdges
  <1>4. NodesInv'
    BY <1>1 DEF Inv, NodesInv, IsOneScan
  <1> QED BY <1>2, <1>3, <1>4 DEF Inv

LEMMA FinishBuildInv ==
    ASSUME Inv, FinishBuild
    PROVE  Inv'
  <1>1. /\ phase = "finish" /\ outcome = "building" /\ outcome' = "done"
        /\ index' = <<WriteIndex(ns, edges)>>
        /\ UNCHANGED <<heap, base, concurrent, request, phase, pc, slot, cur, sh, failed, ns, edges>>
    BY DEF FinishBuild
  <1>2. index'[1].nodes = ns
    <2> DEFINE w == WriteIndex(ns, edges)
    <2>1. w.nodes = ns
      BY DEF WriteIndex
    <2> HIDE DEF w
    <2>2. index' = <<w>>
      BY <1>1 DEF w
    <2> QED BY <2>1, <2>2
  <1>3. TypeOK'
    BY <1>1 DEF Inv, TypeOK
  <1>4. ScanShape' /\ EncodeInv' /\ EdgesInv'
    BY <1>1 DEF ScanShape, Scanning, EncodeInv, EdgesInv, InEdges
  <1>5. NodesInv'
    BY <1>1, <1>2 DEF Inv, NodesInv, IsOneScan
  <1> QED BY <1>3, <1>4, <1>5 DEF Inv

(***************************************************************************)
(* What goes wrong.                                                        *)
(***************************************************************************)

\* A worker that stops, wherever it is, takes nothing back: its claims stay
\* pending and its slot taken.
LEMMA WorkerStops ==
    ASSUME Inv, outcome = "building", NEW w \in Workers,
           NeverStarts(w) \/ WorkerError(w)
    PROVE  Inv'
  <1>1. /\ UNCHANGED <<heap, base, outcome, index, concurrent, request, phase, slot, cur, sh,
                       ns, edges>>
        /\ failed' = failed + 1 /\ pc[w] \notin {"none", "exit"}
    BY DEF NeverStarts, WorkerError
  <1>2. PICK v \in {"never", "failed"} :
           /\ pc' = [pc EXCEPT ![w] = v]
           /\ v = "never" => pc[w] = "start"
    BY DEF NeverStarts, WorkerError
  <1>3. /\ TypeOK /\ w \in Participants /\ w # leader /\ leader \in Participants
        /\ leader \notin Workers /\ Workers \subseteq Participants
    BY ParallelBuildAssumption DEF Inv, Participants
  <1>4. pc'[w] = v /\ \A p \in Participants : p # w => pc'[p] = pc[p]
    BY <1>2, <1>3 DEF TypeOK
  <1>5. TypeOK'
    <2>1. pc' \in [Participants -> ScanPoints \cup EdgePoints]
      BY <1>2, <1>3 DEF TypeOK, ScanPoints, Gone
    <2> QED BY <1>1, <2>1 DEF Inv, TypeOK
  <1>6. ScanShape'
    BY <1>1 DEF Inv, ScanShape, Scanning
  <1>7. NodesInv'
    <2>1. pc'[leader] = pc[leader]
      BY <1>3, <1>4
    <2> QED BY <1>1, <2>1 DEF Inv, NodesInv, IsOneScan
  <1>8. EncodeInv'
    <2> SUFFICES ASSUME phase = "encode" PROVE EncodeInv'
      BY <1>1 DEF EncodeInv
    <2>1. EncodeShape /\ ClaimsInv /\ NothingLost
      BY DEF Inv, EncodeInv
    <2>2. \A p \in Participants :
             pc[p] \in ScanPoints \ (IF p = leader THEN {"none", "exit"}
                                     ELSE {"attach", "wait", "merged"})
      BY DEF Inv, EncodeInv
    <2>3. Finished' = Finished
      BY <1>1, <1>3, <1>4, <2>2 DEF Finished
    <2>4. Pending \subseteq Pending'
      BY <1>4, <1>2 DEF Pending
    <2>5. EncodeShape'
      BY <1>1, <2>1 DEF EncodeShape
    <2>6. ClaimsInv'
      <3>1. \A p \in Participants : pc'[p] = "write" => pc[p] = "write"
        BY <1>4
      <3> QED BY <1>1, <2>1, <3>1 DEF ClaimsInv
    <2>7. NothingLost'
      BY <1>1, <2>1, <2>3, <2>4 DEF NothingLost
    <2>8. \A p \in Participants :
             pc'[p] \in ScanPoints \ (IF p = leader THEN {"none", "exit"}
                                      ELSE {"attach", "wait", "merged"})
      BY <1>3, <1>4, <2>2 DEF ScanPoints, Gone
    <2> QED BY <2>5, <2>6, <2>7, <2>8 DEF EncodeInv
  <1>9. EdgesInv'
    <2> SUFFICES ASSUME InEdges PROVE EdgesInv'
      BY <1>1 DEF EdgesInv, InEdges
    <2>1. /\ EdgeShape /\ SlotsInv
          /\ WarmingUp \/ Planning \/ Linking \/ Applying \/ Publishing \/ Leaving
      BY EdgeFacts
    <2>2. EdgeShape'
      BY <1>1, <2>1 DEF EdgeShape
    <2>3. SlotsInv'
      BY <1>1, <1>4, <2>1 DEF SlotsInv, Gone
    <2>4. /\ pc'[leader] = pc[leader]
          /\ \A q \in Workers : pc'[q] = pc[q] \/ pc'[q] \in Gone
          /\ \A p \in Participants : pc'[p] \in {"link", "apply"} => pc[p] = pc'[p]
      BY <1>2, <1>3, <1>4 DEF Gone
    <2>5. First(sh.batchStart)' = First(sh.batchStart)
          /\ First(cur[leader][1])' = First(cur[leader][1])
      BY <1>1 DEF First
    <2>6. sh' = sh /\ cur' = cur /\ ns' = ns
      BY <1>1
    <2>7. WarmingUp => WarmingUp'
      BY <2>4, <2>5, <2>6 DEF WarmingUp, AllAt
    <2>8. Planning => Planning'
      BY <2>4, <2>5, <2>6 DEF Planning, AllAt
    <2>9. Linking => Linking'
      BY <2>4, <2>5, <2>6 DEF Linking, AllAt
    <2>10. Applying => Applying'
      BY <2>4, <2>5, <2>6 DEF Applying, AllAt
    <2>11. Publishing => Publishing'
      BY <2>4, <2>5, <2>6 DEF Publishing, AllAt
    <2>12. Leaving => Leaving'
      BY <2>4, <2>5, <2>6 DEF Leaving, AllAt
    <2> QED BY <2>1, <2>2, <2>3, <2>7, <2>8, <2>9, <2>10, <2>11, <2>12 DEF EdgesInv
  <1> QED BY <1>5, <1>6, <1>7, <1>8, <1>9 DEF Inv

\* An error ends the build; the promises about a building index lapse.
LEMMA LeaderAbortsInv ==
    ASSUME Inv, LeaderAborts
    PROVE  Inv'
  <1>1. /\ outcome' = "error"
        /\ UNCHANGED <<heap, base, index, concurrent, request, phase, pc, slot, cur, sh, failed,
                       ns, edges>>
    BY DEF LeaderAborts
  <1>2. TypeOK'
    BY <1>1 DEF Inv, TypeOK
  <1>3. ScanShape' /\ EncodeInv'
    BY <1>1 DEF Inv, ScanShape, Scanning, EncodeInv, EncodeShape, ClaimsInv, NothingLost,
                Pending, Finished
  <1>4. NodesInv'
    BY <1>1 DEF Inv, NodesInv
  <1>5. EdgesInv'
    <2>1. First(sh.batchStart)' = First(sh.batchStart)
          /\ First(cur[leader][1])' = First(cur[leader][1])
      BY <1>1 DEF First
    <2> QED BY <1>1, <2>1 DEF Inv, EdgesInv, InEdges, EdgeShape, SlotsInv, WarmingUp, Planning,
                              Linking, Applying, Publishing, Leaving, AllAt
  <1> QED BY <1>2, <1>3, <1>4, <1>5 DEF Inv

\* A row that another session commits does not concern the rows of the scan.
LEMMA CommitRowInv ==
    ASSUME Inv, CommitRow
    PROVE  Inv'
  <1>1. /\ outcome = "building" /\ phase \in {"begin", "fit", "encode", "scan"}
        /\ UNCHANGED <<base, outcome, index, concurrent, request, phase, pc, slot, cur, sh,
                       failed, ns, edges>>
        /\ heap \subseteq heap' /\ heap' \subseteq Rows
    BY DEF CommitRow, Inv, TypeOK
  <1>2. TypeOK'
    BY <1>1 DEF Inv, TypeOK
  <1>3. ScanShape' /\ EdgesInv'
    BY <1>1 DEF Inv, ScanShape, Scanning, EdgesInv, InEdges
  <1>4. EncodeInv'
    <2> SUFFICES ASSUME phase = "encode" PROVE EncodeInv'
      BY <1>1 DEF EncodeInv
    <2>1. EncodeShape /\ ClaimsInv /\ NothingLost
      BY DEF Inv, EncodeInv
    <2>2. EncodeShape'
      BY <1>1, <2>1 DEF EncodeShape
    <2>3. ClaimsInv'
      BY <1>1, <2>1 DEF ClaimsInv
    <2>4. NothingLost'
      BY <1>1, <2>1 DEF NothingLost, Pending, Finished
    <2> QED BY <1>1, <2>2, <2>3, <2>4 DEF Inv, EncodeInv
  <1>5. NodesInv'
    BY <1>1 DEF Inv, NodesInv, IsOneScan
  <1> QED BY <1>2, <1>3, <1>4, <1>5 DEF Inv

LEMMA InitInv == Init => Inv
  <1> SUFFICES ASSUME Init PROVE Inv
    OBVIOUS
  <1>1. TypeOK
    BY ParallelBuildAssumption DEF Init, TypeOK, ScanPoints, Gone, Nothing, None
  <1>2. ScanShape /\ EncodeInv /\ EdgesInv
    BY DEF Init, ScanShape, Scanning, EncodeInv, EdgesInv, InEdges
  <1>3. NodesInv
    <2>1. Cardinality(Rows) \in Nat
      BY ParallelBuildAssumption, FS_CardinalityType
    <2>2. ns = <<>> /\ phase = "begin" /\ outcome = "building"
      BY DEF Init
    <2>3. ns \in Seq(Rows \cup {0}) /\ Len(ns) <= Cardinality(Rows) + 1
      BY <2>1, <2>2
    <2> QED BY <2>2, <2>3 DEF NodesInv
  <1> QED BY <1>1, <1>2, <1>3 DEF Inv

LEMMA InvInductive == Inv /\ [Next]_vars => Inv'
  <1> SUFFICES ASSUME Inv, [Next]_vars PROVE Inv'
    OBVIOUS
  <1>1. CASE CommitRow
    BY <1>1, CommitRowInv
  <1>2. CASE outcome = "building" /\ LeaderStep
    <2>1. CASE BeginBuild
      BY <1>2, <2>1, BeginBuildInv
    <2>2. CASE AttachScan
      BY <1>2, <2>2, AttachScanInv
    <2>3. CASE EndFit
      BY <1>2, <2>3, EndFitInv
    <2>4. CASE MergeRecords
      BY <1>2, <2>4, MergeRecordsInv
    <2>5. CASE EndEncode
      BY <1>2, <2>5, EndEncodeInv
    <2>6. CASE SerialScan
      BY <1>2, <2>6, SerialScanInv
    <2>7. CASE EndSerialScan
      BY <1>2, <2>7, EndSerialScanInv
    <2>8. CASE SerialEdges
      BY <1>2, <2>8, SerialEdgesInv
    <2>9. CASE InitBarrier
      BY <2>9, InitBarrierInv
    <2>10. CASE LeaderClaimsSlot
      BY <2>10, LeaderClaimsSlotInv
    <2>11. CASE BuildWarmup
      BY <2>11, BuildWarmupInv
    <2>12. CASE PlanBatch
      BY <2>12, PlanBatchInv
    <2>13. CASE PublishBatch
      BY <2>13, PublishBatchInv
    <2>14. CASE EndEdges
      BY <2>14, EndEdgesInv
    <2>15. CASE FinishBuild
      BY <2>15, FinishBuildInv
    <2>16. CASE LeaderAborts
      BY <2>16, LeaderAbortsInv
    <2> QED BY <1>2, <2>1, <2>2, <2>3, <2>4, <2>5, <2>6, <2>7, <2>8, <2>9, <2>10, <2>11,
               <2>12, <2>13, <2>14, <2>15, <2>16 DEF LeaderStep
  <1>3. CASE BarrierRelease
    BY <1>3, BarrierReleaseInv
  <1>4. ASSUME NEW p \in Participants, outcome = "building", ParticipantStep(p)
        PROVE  Inv'
    <2>1. CASE StartScan(p)
      BY <1>4, <2>1, StartScanInv
    <2>2. CASE FitRow(p)
      BY <1>4, <2>2, FitRowInv
    <2>3. CASE ClaimRecord(p)
      BY <1>4, <2>3, ClaimRecordInv
    <2>4. CASE WriteRecord(p)
      BY <1>4, <2>4, WriteRecordInv
    <2>5. CASE FinishScan(p)
      BY <1>4, <2>5, FinishScanInv
    <2>6. CASE ClaimNode(p)
      BY <2>6, ClaimNodeInv
    <2>7. CASE LinkNode(p)
      BY <2>7, LinkNodeInv
    <2>8. CASE ApplyBacklinks(p)
      BY <2>8, ApplyBacklinksInv
    <2>9. CASE LeaveEdges(p)
      BY <2>9, LeaveEdgesInv
    <2> QED BY <1>4, <2>1, <2>2, <2>3, <2>4, <2>5, <2>6, <2>7, <2>8, <2>9 DEF ParticipantStep
  <1>5. ASSUME NEW w \in Workers, WorkerStep(w)
        PROVE  Inv'
    BY <1>5, StartEdgeWorkerInv, SeeReadyInv DEF WorkerStep
  <1>6. CASE outcome = "building" /\ Fault
    BY <1>6, WorkerStops DEF Fault
  <1>7. CASE UNCHANGED vars
    <2> USE <1>7 DEF vars
    <2>1. TypeOK' /\ ScanShape' /\ NodesInv'
      BY DEF Inv, TypeOK, ScanShape, Scanning, NodesInv, IsOneScan
    <2>2. EncodeInv'
      BY DEF Inv, EncodeInv, EncodeShape, ClaimsInv, NothingLost, Pending, Finished
    <2>3. EdgesInv'
      <3>1. First(sh.batchStart)' = First(sh.batchStart)
            /\ First(cur[leader][1])' = First(cur[leader][1])
        BY DEF First
      <3> QED BY <3>1 DEF Inv, EdgesInv, InEdges, EdgeShape, SlotsInv, WarmingUp, Planning,
                          Linking, Applying, Publishing, Leaving, AllAt
    <2> QED BY <2>1, <2>2, <2>3 DEF Inv
  <1> QED BY <1>1, <1>2, <1>3, <1>4, <1>5, <1>6, <1>7 DEF Next

(***************************************************************************)
(* Neighbour lists.                                                        *)
(***************************************************************************)

\* A finite set that is not empty has a first and a last element in any order.
LEMMA FirstAndLast ==
    ASSUME NEW S, IsFiniteSet(S), S # {}, NEW L, StrictOrder(S, L)
    PROVE  /\ \E x \in S : \A y \in S : y = x \/ <<x, y>> \in L
           /\ \E x \in S : \A y \in S : y = x \/ <<y, x>> \in L
  <1> DEFINE s == RankList(S, L)
             n == Cardinality(S)
  <1>1. /\ n \in Nat /\ s \in [1 .. n -> S]
        /\ \A x \in S : \E i \in 1 .. n : s[i] = x
        /\ \A i, j \in 1 .. n : i < j => <<s[i], s[j]>> \in L
    BY OrderedList
  <1> HIDE DEF s, n
  <1>2. 1 \in 1 .. n /\ n \in 1 .. n
    BY <1>1
  <1>3. \A y \in S : y = s[1] \/ <<s[1], y>> \in L
    <2> TAKE y \in S
    <2>1. PICK i \in 1 .. n : s[i] = y
      BY <1>1
    <2>2. i = 1 \/ 1 < i
      BY <1>1
    <2> QED BY <1>1, <1>2, <2>1, <2>2
  <1>4. \A y \in S : y = s[n] \/ <<y, s[n]>> \in L
    <2> TAKE y \in S
    <2>1. PICK i \in 1 .. n : s[i] = y
      BY <1>1
    <2>2. i = n \/ i < n
      BY <1>1
    <2> QED BY <1>1, <1>2, <2>1, <2>2
  <1>5. s[1] \in S /\ s[n] \in S
    BY <1>1, <1>2
  <1> QED BY <1>3, <1>4, <1>5

(***************************************************************************)
(* The rows of a build and their nodes.                                    *)
(***************************************************************************)

BuildRows(rows) == rows \in Seq(Rows \cup {0}) /\ Len(rows) <= Cardinality(Rows) + 1

\* The nodes of a build are numbered from 0; their levels and the distances
\* between them are numbers.
LEMMA NodeFacts ==
    ASSUME NEW rows, BuildRows(rows)
    PROVE  /\ Len(rows) \in Nat /\ Ids(rows) = 0 .. Len(rows) - 1
           /\ Ids(rows) \subseteq Nat /\ Ids(rows) \subseteq 0 .. Cardinality(Rows)
           /\ IsFiniteSet(Ids(rows)) /\ Cardinality(Ids(rows)) = Len(rows)
           /\ \A n \in Ids(rows) : Level[n] \in Nat /\ Key[n] \in Nat
           /\ \A n, k \in Ids(rows) : Dist(rows, n, k) \in Int
  <1>1. Len(rows) \in Nat /\ Cardinality(Rows) \in Nat
    BY FS_CardinalityType, ParallelBuildAssumption DEF BuildRows
  <1>2. Ids(rows) \subseteq Nat /\ Ids(rows) \subseteq 0 .. Cardinality(Rows)
    BY <1>1 DEF Ids, BuildRows
  <1>3. IsFiniteSet(0 .. Len(rows) - 1) /\ Cardinality(0 .. Len(rows) - 1) = Len(rows)
    <2> DEFINE m == Len(rows) - 1
    <2>1. m \in Int /\ 0 \in Int
      BY <1>1
    <2>2. IsFiniteSet(0 .. m) /\ Cardinality(0 .. m) = IF 0 > m THEN 0 ELSE m - 0 + 1
      <3> HIDE DEF m
      <3> QED BY <2>1, FS_Interval
    <2> QED BY <1>1, <2>2
  <1>4. \A n \in Ids(rows) : Level[n] \in Nat /\ Key[n] \in Nat
    BY <1>2, ParallelBuildAssumption
  <1>5. \A n \in Ids(rows) : Pos[rows[n + 1]] \in Int
    <2> TAKE n \in Ids(rows)
    <2>1. n + 1 \in 1 .. Len(rows)
      BY <1>1 DEF Ids
    <2>2. rows[n + 1] \in Rows \cup {0}
      BY <1>1, <2>1 DEF BuildRows
    <2> QED BY <2>2, ParallelBuildAssumption
  <1>6. \A n, k \in Ids(rows) : Dist(rows, n, k) \in Int
    BY <1>5 DEF Dist
  <1> QED BY <1>1, <1>2, <1>3, <1>4, <1>6 DEF Ids

\* A list holds at least two neighbours on level 0, and at least one above.
LEMMA ListSizes ==
    ASSUME NEW l
    PROVE  LevelM(l) \in Nat \ {0} /\ LevelM(0) >= 2
  <1>1. M \in Nat \ {0}
    BY BuildGraphAssumption
  <1> QED BY <1>1 DEF LevelM

(***************************************************************************)
(* Building graphs.                                                        *)
(***************************************************************************)

GraphSet(rows) ==
    {g \in [Ids(rows) -> UNION {[0 .. Level[n] -> Seq(Link)] : n \in Ids(rows)}] :
        IsBuildGraph(rows, g)}

\* The graphs of a build as a set.
LEMMA GraphsAreASet ==
    ASSUME NEW rows, NEW g
    PROVE  g \in GraphSet(rows) <=> IsBuildGraph(rows, g)
  <1> SUFFICES ASSUME IsBuildGraph(rows, g)
               PROVE  g \in [Ids(rows) -> UNION {[0 .. Level[n] -> Seq(Link)] : n \in Ids(rows)}]
    BY DEF GraphSet
  <1> DEFINE R == UNION {[0 .. Level[n] -> Seq(Link)] : n \in Ids(rows)}
  <1>1. g = [n \in Ids(rows) |-> g[n]]
    BY DEF IsBuildGraph
  <1>2. \A n \in Ids(rows) : g[n] \in R
    <2> TAKE n \in Ids(rows)
    <2>1. /\ g[n] = [l \in 0 .. Level[n] |-> g[n][l]]
          /\ \A l \in 0 .. Level[n] : g[n][l] \in Seq(Link)
      BY DEF IsBuildGraph, NeighborLists
    <2>2. g[n] \in [0 .. Level[n] -> Seq(Link)]
      BY <2>1
    <2> QED BY <2>2
  <1> HIDE DEF R
  <1>3. g \in [Ids(rows) -> R]
    BY <1>1, <1>2
  <1> QED BY <1>3 DEF R

\* One list is exchanged for another.
LEMMA UpdateList ==
    ASSUME NEW rows, BuildRows(rows), NEW g, IsBuildGraph(rows, g),
           NEW n \in Ids(rows), NEW l \in 0 .. Level[n], NEW list \in NeighborLists(rows, n, l)
    PROVE  /\ IsBuildGraph(rows, [g EXCEPT ![n][l] = list])
           /\ [g EXCEPT ![n][l] = list][n][l] = list
           /\ \A k \in Ids(rows) : \A j \in 0 .. Level[k] :
                 (k # n \/ j # l) => [g EXCEPT ![n][l] = list][k][j] = g[k][j]
  <1> DEFINE h == [g EXCEPT ![n][l] = list]
  <1>1. g = [k \in Ids(rows) |-> g[k]]
    BY DEF IsBuildGraph
  <1>2. \A k \in Ids(rows) : g[k] = [j \in 0 .. Level[k] |-> g[k][j]]
    BY DEF IsBuildGraph
  <1>3. h = [k \in Ids(rows) |-> IF k = n THEN [g[n] EXCEPT ![l] = list] ELSE g[k]]
    BY <1>1
  <1>4. [g[n] EXCEPT ![l] = list] = [j \in 0 .. Level[n] |-> IF j = l THEN list ELSE g[n][j]]
    BY <1>2
  <1> HIDE DEF h
  <1>5. h[n] = [j \in 0 .. Level[n] |-> IF j = l THEN list ELSE g[n][j]]
    BY <1>3, <1>4
  <1>6. \A k \in Ids(rows) : k # n => h[k] = g[k]
    BY <1>3
  <1>7. h[n][l] = list /\ \A j \in 0 .. Level[n] : j # l => h[n][j] = g[n][j]
    BY <1>5
  <1>8. h = [k \in Ids(rows) |-> h[k]]
    BY <1>3
  <1>9. \A k \in Ids(rows) : h[k] = [j \in 0 .. Level[k] |-> h[k][j]]
    <2> TAKE k \in Ids(rows)
    <2>1. CASE k = n
      BY <1>5, <2>1
    <2>2. CASE k # n
      BY <1>2, <1>6, <2>2
    <2> QED BY <2>1, <2>2
  <1>10. \A k \in Ids(rows) : \A j \in 0 .. Level[k] : h[k][j] \in NeighborLists(rows, k, j)
    <2> TAKE k \in Ids(rows)
    <2> TAKE j \in 0 .. Level[k]
    <2>1. g[k][j] \in NeighborLists(rows, k, j)
      BY DEF IsBuildGraph
    <2> QED BY <1>6, <1>7, <2>1
  <1>11. IsBuildGraph(rows, h)
    BY <1>8, <1>9, <1>10 DEF IsBuildGraph
  <1>12. \A k \in Ids(rows) : \A j \in 0 .. Level[k] : (k # n \/ j # l) => h[k][j] = g[k][j]
    BY <1>6, <1>7
  <1> QED BY <1>7, <1>11, <1>12 DEF h

\* A list that may grow by one neighbour.
LEMMA AppendLink ==
    ASSUME NEW rows, NEW n, NEW l, NEW list \in NeighborLists(rows, n, l), Len(list) < LevelM(l),
           NEW it \in Link, it.id # n, HasLevel(rows, it.id, l), it.id \notin ListIds(list)
    PROVE  Append(list, it) \in NeighborLists(rows, n, l)
  <1> DEFINE s == Append(list, it)
  <1>1. list \in Seq(Link) /\ LevelM(l) \in Nat
    BY ListSizes DEF NeighborLists
  <1>2. /\ s \in Seq(Link) /\ Len(s) = Len(list) + 1 /\ DOMAIN s = 1 .. Len(list) + 1
        /\ DOMAIN list = 1 .. Len(list) /\ Len(list) \in Nat
        /\ \A i \in 1 .. Len(list) + 1 : s[i] = IF i = Len(list) + 1 THEN it ELSE list[i]
    BY <1>1
  <1> HIDE DEF s
  <1>3. Len(s) <= LevelM(l)
    BY <1>1, <1>2
  <1>4. \A i \in DOMAIN list : list[i].id # it.id /\ list[i].id # n /\ HasLevel(rows, list[i].id, l)
    BY DEF NeighborLists, ListIds
  <1>5. \A i \in DOMAIN s : i \in DOMAIN list \/ i = Len(list) + 1
    BY <1>2
  <1>6. \A i \in DOMAIN s : s[i].id # n /\ HasLevel(rows, s[i].id, l)
    BY <1>2, <1>4, <1>5
  <1>7. \A i, j \in DOMAIN s : s[j].id = s[i].id => j = i
    <2> TAKE i, j \in DOMAIN s
    <2>1. CASE i \in DOMAIN list /\ j \in DOMAIN list
      <3>1. s[i] = list[i] /\ s[j] = list[j]
        BY <1>2, <2>1
      <3> QED BY <2>1, <3>1 DEF NeighborLists
    <2>2. CASE i = Len(list) + 1 /\ j \in DOMAIN list
      <3>1. s[i] = it /\ s[j] = list[j]
        BY <1>2, <2>2
      <3> QED BY <1>4, <2>2, <3>1
    <2>3. CASE j = Len(list) + 1 /\ i \in DOMAIN list
      <3>1. s[j] = it /\ s[i] = list[i]
        BY <1>2, <2>3
      <3> QED BY <1>4, <2>3, <3>1
    <2> QED BY <1>5, <2>1, <2>2, <2>3
  <1> QED BY <1>2, <1>3, <1>6, <1>7 DEF NeighborLists, s

\* A neighbour exchanged for one that is not in the list.
LEMMA ReplaceLink ==
    ASSUME NEW rows, NEW n, NEW l, NEW list \in NeighborLists(rows, n, l), NEW i,
           NEW it \in Link, it.id # n, HasLevel(rows, it.id, l), it.id \notin ListIds(list)
    PROVE  [list EXCEPT ![i] = it] \in NeighborLists(rows, n, l)
  <1> DEFINE s == [list EXCEPT ![i] = it]
  <1>1. list \in Seq(Link)
    BY DEF NeighborLists
  <1>2. /\ s \in Seq(Link) /\ Len(s) = Len(list) /\ DOMAIN s = DOMAIN list
        /\ \A k \in DOMAIN list : s[k] = IF k = i THEN it ELSE list[k]
    <2>1. Len(list) \in Nat /\ DOMAIN list = 1 .. Len(list) /\ list \in [1 .. Len(list) -> Link]
      BY <1>1
    <2>2. s = [k \in 1 .. Len(list) |-> IF k = i THEN it ELSE list[k]]
      BY <2>1
    <2> HIDE DEF s
    <2>3. s \in [1 .. Len(list) -> Link]
      BY <2>1, <2>2
    <2>4. s \in Seq(Link) /\ Len(s) = Len(list) /\ DOMAIN s = DOMAIN list
      BY <2>1, <2>3
    <2> QED BY <2>1, <2>2, <2>4
  <1> HIDE DEF s
  <1>3. \A k \in DOMAIN list : list[k].id # it.id /\ list[k].id # n /\ HasLevel(rows, list[k].id, l)
    BY DEF NeighborLists, ListIds
  <1>4. \A k \in DOMAIN s : s[k].id # n /\ HasLevel(rows, s[k].id, l)
    BY <1>2, <1>3
  <1>5. \A k, j \in DOMAIN s : s[j].id = s[k].id => j = k
    <2> TAKE k, j \in DOMAIN s
    <2>1. list[j].id = list[k].id => j = k
      BY <1>2 DEF NeighborLists
    <2> QED BY <1>2, <1>3, <2>1
  <1>6. Len(list) <= LevelM(l)
    BY DEF NeighborLists
  <1> QED BY <1>2, <1>4, <1>5, <1>6 DEF NeighborLists, s

\* The empty lists before the first node.
LEMMA EmptyGraphIsOne ==
    ASSUME NEW rows, BuildRows(rows)
    PROVE  IsBuildGraph(rows, EmptyGraph(rows))
  <1> DEFINE g == EmptyGraph(rows)
  <1>1. g = [n \in Ids(rows) |-> [l \in 0 .. Level[n] |-> <<>>]]
    BY DEF EmptyGraph
  <1> HIDE DEF g
  <1>2. \A n, l : <<>> \in NeighborLists(rows, n, l)
    <2> TAKE n, l
    <2>1. <<>> \in Seq(Link) /\ DOMAIN <<>> = {} /\ Len(<<>>) = 0
      OBVIOUS
    <2> QED BY <2>1, ListSizes DEF NeighborLists
  <1>3. \A n \in Ids(rows) : g[n] = [l \in 0 .. Level[n] |-> <<>>]
    BY <1>1
  <1>4. \A n \in Ids(rows) : /\ g[n] = [l \in 0 .. Level[n] |-> g[n][l]]
                             /\ \A l \in 0 .. Level[n] : g[n][l] = <<>>
    BY <1>3
  <1>5. g = [n \in Ids(rows) |-> g[n]]
    BY <1>1
  <1> QED BY <1>2, <1>4, <1>5 DEF IsBuildGraph, g

\* The lists of one node are emptied.
LEMMA ClearNode ==
    ASSUME NEW rows, BuildRows(rows), NEW g, IsBuildGraph(rows, g), NEW n \in Ids(rows)
    PROVE  IsBuildGraph(rows, [g EXCEPT ![n] = [l \in 0 .. Level[n] |-> <<>>]])
  <1> DEFINE e == [l \in 0 .. Level[n] |-> <<>>]
             h == [g EXCEPT ![n] = e]
  <1>1. /\ e = [l \in 0 .. Level[n] |-> e[l]]
        /\ \A l \in 0 .. Level[n] : e[l] \in NeighborLists(rows, n, l)
    <2>1. \A l : <<>> \in NeighborLists(rows, n, l)
      <3> TAKE l
      <3>1. <<>> \in Seq(Link) /\ DOMAIN <<>> = {} /\ Len(<<>>) = 0
        OBVIOUS
      <3> QED BY <3>1, ListSizes DEF NeighborLists
    <2> QED BY <2>1
  <1> HIDE DEF e
  <1>2. g = [k \in Ids(rows) |-> g[k]]
    BY DEF IsBuildGraph
  <1>3. h = [k \in Ids(rows) |-> IF k = n THEN e ELSE g[k]]
    BY <1>2
  <1> HIDE DEF h
  <1>4. h = [k \in Ids(rows) |-> h[k]] /\ h[n] = e /\ \A k \in Ids(rows) : k # n => h[k] = g[k]
    BY <1>3
  <1>5. \A k \in Ids(rows) : /\ h[k] = [l \in 0 .. Level[k] |-> h[k][l]]
                             /\ \A l \in 0 .. Level[k] : h[k][l] \in NeighborLists(rows, k, l)
    <2> TAKE k \in Ids(rows)
    <2>1. CASE k = n
      BY <1>1, <1>4, <2>1
    <2>2. CASE k # n
      BY <1>4, <2>2 DEF IsBuildGraph
    <2> QED BY <2>1, <2>2
  <1>6. IsBuildGraph(rows, h)
    BY <1>4, <1>5 DEF IsBuildGraph
  <1> QED BY <1>6 DEF h, e

(***************************************************************************)
(* Choosing neighbours.                                                    *)
(***************************************************************************)

\* What a list may be chosen from: links to nodes of the level, one per node.
Candidates(rows, l, C) ==
    /\ C \subseteq Link /\ IsFiniteSet(C)
    /\ \A c \in C : HasLevel(rows, c.id, l)
    /\ \A c, d \in C : c.id = d.id => c = d

\* The order of links is one: two links differ in their distance or in their node.
LEMMA LinksAreOrdered ==
    ASSUME NEW S, S \subseteq Link
    PROVE  StrictOrder(S, {xy \in S \X S : FrontierLess(xy[1], xy[2])})
  <1> DEFINE L == {xy \in S \X S : FrontierLess(xy[1], xy[2])}
  <1>1. \A x, y \in S : <<x, y>> \in L <=> FrontierLess(x, y)
    OBVIOUS
  <1> HIDE DEF L
  <1>2. \A x \in S : x.d \in Int /\ x.id \in Int /\ x = [id |-> x.id, d |-> x.d]
    BY DEF Link
  <1>3. \A x, y \in S : x = y \/ FrontierLess(x, y) \/ FrontierLess(y, x)
    <2> TAKE x, y \in S
    <2>1. CASE x.id = y.id /\ x.d = y.d
      BY <1>2, <2>1
    <2>2. CASE x.id # y.id \/ x.d # y.d
      BY <1>2, <2>2 DEF FrontierLess
    <2> QED BY <2>1, <2>2
  <1>4. \A x, y, z \in S : FrontierLess(x, y) /\ FrontierLess(y, z) => FrontierLess(x, z)
    BY <1>2 DEF FrontierLess
  <1>5. \A x \in S : ~FrontierLess(x, x)
    BY <1>2 DEF FrontierLess
  <1>6. StrictOrder(S, L)
    BY <1>1, <1>3, <1>4, <1>5, Zenon DEF StrictOrder
  <1> QED BY <1>6 DEF L

\* Sorting links by distance lists each of them once.
LEMMA SortedLinks ==
    ASSUME NEW S, S \subseteq Link, IsFiniteSet(S)
    PROVE  LET s == Sorted(S, FrontierLess)
           IN  /\ s \in Seq(S) /\ Len(s) \in Nat /\ DOMAIN s = 1 .. Len(s)
               /\ \A i, j \in DOMAIN s : s[i] = s[j] => i = j
               /\ \A x \in S : \E i \in DOMAIN s : s[i] = x
  <1> DEFINE L == {xy \in S \X S : FrontierLess(xy[1], xy[2])}
             s == Sorted(S, FrontierLess)
  <1>1. \A x, y \in S : <<x, y>> \in L <=> FrontierLess(x, y)
    OBVIOUS
  <1>2. \A x \in S : {y \in S : <<y, x>> \in L} = {y \in S : FrontierLess(y, x)}
    BY <1>1
  <1>3. s = RankList(S, L)
    <2>1. s = [i \in 1 .. Cardinality(S) |->
                  CHOOSE x \in S : Cardinality({y \in S : FrontierLess(y, x)}) = i - 1]
      BY DEF Sorted
    <2>2. \A i \in 1 .. Cardinality(S) :
             (CHOOSE x \in S : Cardinality({y \in S : FrontierLess(y, x)}) = i - 1)
              = (CHOOSE x \in S : Cardinality({y \in S : <<y, x>> \in L}) = i - 1)
      <3> HIDE DEF L
      <3> QED BY <1>2, Zenon
    <2> HIDE DEF L
    <2> QED BY <2>1, <2>2, Zenon DEF RankList
  <1>4. StrictOrder(S, L)
    BY LinksAreOrdered
  <1> HIDE DEF s, L
  <1>5. /\ Cardinality(S) \in Nat /\ s \in [1 .. Cardinality(S) -> S]
        /\ \A i, j \in 1 .. Cardinality(S) : s[i] = s[j] => i = j
        /\ \A x \in S : \E i \in 1 .. Cardinality(S) : s[i] = x
    <2>1. /\ Cardinality(S) \in Nat /\ RankList(S, L) \in [1 .. Cardinality(S) -> S]
          /\ \A i, j \in 1 .. Cardinality(S) : RankList(S, L)[i] = RankList(S, L)[j] => i = j
          /\ \A x \in S : \E i \in 1 .. Cardinality(S) : RankList(S, L)[i] = x
      BY ONLY IsFiniteSet(S), <1>4, OrderedList
    <2> QED BY <1>3, <2>1
  <1>6. s \in Seq(S) /\ Len(s) = Cardinality(S) /\ DOMAIN s = 1 .. Cardinality(S)
    BY <1>5
  <1> QED BY <1>5, <1>6 DEF s

\* The first loop chooses distinct nodes, not more than fit.
LEMMA DiverseIsList ==
    ASSUME NEW rows, NEW n, NEW l, NEW cs \in Seq(Link),
           \A i \in DOMAIN cs : cs[i].id # n /\ HasLevel(rows, cs[i].id, l),
           \A i, j \in DOMAIN cs : cs[i].id = cs[j].id => i = j
    PROVE  Diverse(rows, l, cs) \in NeighborLists(rows, n, l)
  <1> DEFINE Step(i, x) == TakeDiverse(rows, l, x, cs[i])
             Stage(i) == {x \in NeighborLists(rows, n, l) :
                             \A j \in DOMAIN x : \E k \in 1 .. i : x[j] = cs[k]}
             first == <<>>
             U == [i \in 0 .. Len(cs) |-> Stage(i)]
             G == [i \in 1 .. Len(cs) |-> [x \in Stage(i - 1) |-> Step(i, x)]]
             All == UNION {Stage(i) : i \in 0 .. Len(cs)}
             Def(h) == [i \in 0 .. Len(cs) |-> IF i = 0 THEN first ELSE Step(i, h[i - 1])]
             loop == CHOOSE h : h = Def(h)
  <1>1. Len(cs) \in Nat /\ DOMAIN cs = 1 .. Len(cs) /\ \A i \in 1 .. Len(cs) : cs[i] \in Link
    OBVIOUS
  <1>2. first \in Stage(0)
    <2>1. <<>> \in Seq(Link) /\ DOMAIN <<>> = {} /\ Len(<<>>) = 0
      OBVIOUS
    <2> QED BY <2>1, ListSizes DEF NeighborLists
  <1>3. ASSUME NEW i \in 1 .. Len(cs), NEW x \in Stage(i - 1)
        PROVE  Step(i, x) \in Stage(i)
    <2>1. x \in NeighborLists(rows, n, l) /\ x \in Seq(Link)
      BY DEF NeighborLists
    <2>2. \A j \in DOMAIN x : \E k \in 1 .. i - 1 : x[j] = cs[k]
      OBVIOUS
    <2>3. \A k \in 1 .. i - 1 : k \in 1 .. i /\ k \in DOMAIN cs /\ k # i
      BY <1>1
    <2>4. i \in DOMAIN cs /\ i \in 1 .. i
      BY <1>1
    <2>5. x \in Stage(i)
      BY <2>1, <2>2, <2>3
    <2>6. ASSUME Len(x) < LevelM(l)
          PROVE  Append(x, cs[i]) \in Stage(i)
      <3>1. cs[i].id \notin ListIds(x)
        <4> SUFFICES ASSUME NEW j \in DOMAIN x, x[j].id = cs[i].id PROVE FALSE
          BY DEF ListIds
        <4>1. PICK k \in 1 .. i - 1 : x[j] = cs[k]
          BY <2>2
        <4> QED BY <2>3, <2>4, <4>1
      <3>2. Append(x, cs[i]) \in NeighborLists(rows, n, l)
        <4>1. cs[i] \in Link /\ cs[i].id # n /\ HasLevel(rows, cs[i].id, l)
          BY <1>1, <2>4
        <4> HIDE DEF Stage
        <4> QED BY ONLY <2>1, <2>6, <3>1, <4>1, AppendLink
      <3>3. \A j \in DOMAIN Append(x, cs[i]) : \E k \in 1 .. i : Append(x, cs[i])[j] = cs[k]
        <4> TAKE j \in DOMAIN Append(x, cs[i])
        <4>1. /\ DOMAIN x = 1 .. Len(x) /\ Len(x) \in Nat /\ j \in 1 .. Len(x) + 1
              /\ Append(x, cs[i])[j] = IF j = Len(x) + 1 THEN cs[i] ELSE x[j]
          BY <1>1, <2>1, <2>4
        <4>2. CASE j = Len(x) + 1
          BY <2>4, <4>1, <4>2
        <4>3. CASE j # Len(x) + 1
          <5>1. j \in DOMAIN x
            BY <4>1, <4>3
          <5>2. PICK k \in 1 .. i - 1 : x[j] = cs[k]
            BY <2>2, <5>1
          <5> QED BY <2>3, <4>1, <4>3, <5>2
        <4> QED BY <4>2, <4>3
      <3> QED BY <3>2, <3>3
    <2> HIDE DEF Stage
    <2> QED BY <2>5, <2>6 DEF TakeDiverse
  <1>4. Stages(All, Len(cs), U, first, G)
    <2>1. /\ \A i \in 0 .. Len(cs) : U[i] = Stage(i) /\ Stage(i) \subseteq All
          /\ \A i \in 1 .. Len(cs) : i \in 0 .. Len(cs) /\ i - 1 \in 0 .. Len(cs)
          /\ \A i \in 1 .. Len(cs) : G[i] = [x \in Stage(i - 1) |-> Step(i, x)]
      <3> HIDE DEF Stage, Step
      <3> QED BY <1>1
    <2> HIDE DEF Stage, Step, first, All, G
    <2>2. \A i \in 1 .. Len(cs) : G[i] \in [U[i - 1] -> U[i]]
      <3>1. \A i \in 1 .. Len(cs) : [x \in Stage(i - 1) |-> Step(i, x)] \in [Stage(i - 1) -> Stage(i)]
        BY <1>3
      <3> QED BY <2>1, <3>1
    <2>3. U \in [0 .. Len(cs) -> SUBSET All]
      BY <2>1
    <2>4. first \in U[0]
      BY <1>1, <1>2, <2>1
    <2> QED BY <1>1, <2>2, <2>3, <2>4 DEF Stages
  <1>5. \A i \in 0 .. Len(cs) : loop[i] \in Stage(i)
    <2> HIDE DEF Stage, Step, first, All, U, G
    <2>1. PICK h : Staged(Len(cs), U, first, G, h)
      BY ONLY <1>4, StagesExist
    <2>2. \A i \in 1 .. Len(cs) : h[i - 1] \in Stage(i - 1) /\ h[i] = Step(i, h[i - 1])
      <3> TAKE i \in 1 .. Len(cs)
      <3>1. i \in 0 .. Len(cs) /\ i - 1 \in 0 .. Len(cs) /\ U[i - 1] = Stage(i - 1)
        BY <1>1 DEF U
      <3>2. h[i - 1] \in Stage(i - 1)
        BY <2>1, <3>1 DEF Staged
      <3>3. G[i] = [x \in Stage(i - 1) |-> Step(i, x)]
        BY DEF G
      <3>4. h[i] = G[i][h[i - 1]]
        BY <2>1 DEF Staged
      <3> QED BY <3>2, <3>3, <3>4
    <2>3. h = Def(h)
      <3>1. \A i \in 0 .. Len(cs) : h[i] = IF i = 0 THEN first ELSE Step(i, h[i - 1])
        <4> TAKE i \in 0 .. Len(cs)
        <4>1. i # 0 => i \in 1 .. Len(cs)
          BY <1>1
        <4> QED BY <2>1, <2>2, <4>1 DEF Staged
      <3> QED BY <2>1, <3>1 DEF Staged
    <2>4. loop = Def(loop)
      <3> HIDE DEF Def
      <3> QED BY <2>3
    <2> HIDE DEF loop
    <2>5. \A i \in 0 .. Len(cs) : loop[i] = IF i = 0 THEN first ELSE Step(i, loop[i - 1])
      BY <2>4
    <2>6. loop[0] = first /\ \A i \in 1 .. Len(cs) : loop[i] = Step(i, loop[i - 1])
      BY <1>1, <2>5
    <2> HIDE DEF Def
    <2>7. \A i \in 1 .. Len(cs) : loop[i - 1] \in U[i - 1] => loop[i] \in U[i]
      <3> SUFFICES ASSUME NEW i \in 1 .. Len(cs), loop[i - 1] \in U[i - 1] PROVE loop[i] \in U[i]
        OBVIOUS
      <3>1. U[i - 1] = Stage(i - 1) /\ U[i] = Stage(i)
        BY <1>1 DEF U
      <3>2. loop[i - 1] \in Stage(i - 1)
        BY <3>1
      <3> QED BY <1>3, <2>6, <3>1, <3>2
    <2>8. loop[0] \in U[0]
      BY <1>1, <1>2, <2>6 DEF U
    <2>9. \A i \in 0 .. Len(cs) : loop[i] \in U[i]
      BY <1>1, <2>7, <2>8, PlacesStay
    <2> QED BY <2>9 DEF U
  <1>6. Diverse(rows, l, cs) = loop[Len(cs)]
    <2> HIDE DEF Stage, U, G, All
    <2> QED BY DEF Diverse
  <1>7. loop[Len(cs)] \in Stage(Len(cs))
    <2> HIDE DEF loop, Stage
    <2> QED BY <1>1, <1>5
  <1> QED BY <1>6, <1>7

\* The second loop completes the list.
LEMMA FillUpIsList ==
    ASSUME NEW rows, NEW n, NEW l, NEW cs \in Seq(Link),
           \A i \in DOMAIN cs : cs[i].id # n /\ HasLevel(rows, cs[i].id, l),
           NEW list \in NeighborLists(rows, n, l)
    PROVE  FillUp(l, list, cs) \in NeighborLists(rows, n, l)
  <1> DEFINE Step(i, x) == TakeRest(l, x, cs[i])
             Stage(i) == NeighborLists(rows, n, l)
             first == list
             U == [i \in 0 .. Len(cs) |-> Stage(i)]
             G == [i \in 1 .. Len(cs) |-> [x \in Stage(i - 1) |-> Step(i, x)]]
             All == UNION {Stage(i) : i \in 0 .. Len(cs)}
             Def(h) == [i \in 0 .. Len(cs) |-> IF i = 0 THEN first ELSE Step(i, h[i - 1])]
             loop == CHOOSE h : h = Def(h)
  <1>1. Len(cs) \in Nat /\ DOMAIN cs = 1 .. Len(cs) /\ \A i \in 1 .. Len(cs) : cs[i] \in Link
    OBVIOUS
  <1>2. first \in Stage(0)
    OBVIOUS
  <1>3. ASSUME NEW i \in 1 .. Len(cs), NEW x \in Stage(i - 1)
        PROVE  Step(i, x) \in Stage(i)
    <2>1. cs[i] \in Link /\ cs[i].id # n /\ HasLevel(rows, cs[i].id, l)
      BY <1>1
    <2>2. x \in NeighborLists(rows, n, l)
      OBVIOUS
    <2>3. ASSUME Len(x) < LevelM(l), cs[i].id \notin ListIds(x)
          PROVE  Append(x, cs[i]) \in NeighborLists(rows, n, l)
      <3> HIDE DEF Stage
      <3> QED BY ONLY <2>1, <2>2, <2>3, AppendLink
    <2> QED BY <2>2, <2>3 DEF TakeRest
  <1>4. Stages(All, Len(cs), U, first, G)
    <2>1. /\ \A i \in 0 .. Len(cs) : U[i] = Stage(i) /\ Stage(i) \subseteq All
          /\ \A i \in 1 .. Len(cs) : i \in 0 .. Len(cs) /\ i - 1 \in 0 .. Len(cs)
          /\ \A i \in 1 .. Len(cs) : G[i] = [x \in Stage(i - 1) |-> Step(i, x)]
      <3> HIDE DEF Stage, Step
      <3> QED BY <1>1
    <2> HIDE DEF Stage, Step, first, All, G
    <2>2. \A i \in 1 .. Len(cs) : G[i] \in [U[i - 1] -> U[i]]
      <3>1. \A i \in 1 .. Len(cs) : [x \in Stage(i - 1) |-> Step(i, x)] \in [Stage(i - 1) -> Stage(i)]
        BY <1>3
      <3> QED BY <2>1, <3>1
    <2>3. U \in [0 .. Len(cs) -> SUBSET All]
      BY <2>1
    <2>4. first \in U[0]
      BY <1>1, <1>2, <2>1
    <2> QED BY <1>1, <2>2, <2>3, <2>4 DEF Stages
  <1>5. \A i \in 0 .. Len(cs) : loop[i] \in Stage(i)
    <2> HIDE DEF Stage, Step, first, All, U, G
    <2>1. PICK h : Staged(Len(cs), U, first, G, h)
      BY ONLY <1>4, StagesExist
    <2>2. \A i \in 1 .. Len(cs) : h[i - 1] \in Stage(i - 1) /\ h[i] = Step(i, h[i - 1])
      <3> TAKE i \in 1 .. Len(cs)
      <3>1. i \in 0 .. Len(cs) /\ i - 1 \in 0 .. Len(cs) /\ U[i - 1] = Stage(i - 1)
        BY <1>1 DEF U
      <3>2. h[i - 1] \in Stage(i - 1)
        BY <2>1, <3>1 DEF Staged
      <3>3. G[i] = [x \in Stage(i - 1) |-> Step(i, x)]
        BY DEF G
      <3>4. h[i] = G[i][h[i - 1]]
        BY <2>1 DEF Staged
      <3> QED BY <3>2, <3>3, <3>4
    <2>3. h = Def(h)
      <3>1. \A i \in 0 .. Len(cs) : h[i] = IF i = 0 THEN first ELSE Step(i, h[i - 1])
        <4> TAKE i \in 0 .. Len(cs)
        <4>1. i # 0 => i \in 1 .. Len(cs)
          BY <1>1
        <4> QED BY <2>1, <2>2, <4>1 DEF Staged
      <3> QED BY <2>1, <3>1 DEF Staged
    <2>4. loop = Def(loop)
      <3> HIDE DEF Def
      <3> QED BY <2>3
    <2> HIDE DEF loop
    <2>5. \A i \in 0 .. Len(cs) : loop[i] = IF i = 0 THEN first ELSE Step(i, loop[i - 1])
      BY <2>4
    <2>6. loop[0] = first /\ \A i \in 1 .. Len(cs) : loop[i] = Step(i, loop[i - 1])
      BY <1>1, <2>5
    <2> HIDE DEF Def
    <2>7. \A i \in 1 .. Len(cs) : loop[i - 1] \in U[i - 1] => loop[i] \in U[i]
      <3> SUFFICES ASSUME NEW i \in 1 .. Len(cs), loop[i - 1] \in U[i - 1] PROVE loop[i] \in U[i]
        OBVIOUS
      <3>1. U[i - 1] = Stage(i - 1) /\ U[i] = Stage(i)
        BY <1>1 DEF U
      <3>2. loop[i - 1] \in Stage(i - 1)
        BY <3>1
      <3> QED BY <1>3, <2>6, <3>1, <3>2
    <2>8. loop[0] \in U[0]
      BY <1>1, <1>2, <2>6 DEF U
    <2>9. \A i \in 0 .. Len(cs) : loop[i] \in U[i]
      BY <1>1, <2>7, <2>8, PlacesStay
    <2> QED BY <2>9 DEF U
  <1>6. FillUp(l, list, cs) = loop[Len(cs)]
    <2> HIDE DEF Stage, U, G, All
    <2> QED BY DEF FillUp
  <1>7. loop[Len(cs)] \in Stage(Len(cs))
    <2> HIDE DEF loop, Stage
    <2> QED BY <1>1, <1>5
  <1> QED BY <1>6, <1>7

\* What SelectNeighbors chooses is a neighbour list.
LEMMA SelectIsList ==
    ASSUME NEW rows, NEW n, NEW l, NEW C, Candidates(rows, l, C)
    PROVE  SelectNeighbors(rows, n, C, l) \in NeighborLists(rows, n, l)
  <1> DEFINE S == {c \in C : c.id # n}
             cs == Sorted(S, FrontierLess)
  <1>1. S \subseteq Link /\ IsFiniteSet(S)
    BY FS_Subset DEF Candidates
  <1>2. \A c \in S : c.id # n /\ HasLevel(rows, c.id, l)
    BY DEF Candidates
  <1>3. \A c, d \in S : c.id = d.id => c = d
    BY DEF Candidates
  <1> HIDE DEF S
  <1>4. /\ cs \in Seq(S) /\ Len(cs) \in Nat /\ DOMAIN cs = 1 .. Len(cs)
        /\ \A i, j \in DOMAIN cs : cs[i] = cs[j] => i = j
    BY <1>1, SortedLinks
  <1> HIDE DEF cs
  <1>5. cs \in Seq(Link) /\ \A i \in DOMAIN cs : cs[i] \in S
    BY <1>1, <1>4
  <1>6. /\ \A i \in DOMAIN cs : cs[i].id # n /\ HasLevel(rows, cs[i].id, l)
        /\ \A i, j \in DOMAIN cs : cs[i].id = cs[j].id => i = j
    BY <1>2, <1>3, <1>4, <1>5
  <1>7. Diverse(rows, l, cs) \in NeighborLists(rows, n, l)
    BY <1>5, <1>6, DiverseIsList
  <1>8. FillUp(l, Diverse(rows, l, cs), cs) \in NeighborLists(rows, n, l)
    <2>1. PICK first \in NeighborLists(rows, n, l) : first = Diverse(rows, l, cs)
      BY <1>7
    <2>2. FillUp(l, first, cs) \in NeighborLists(rows, n, l)
      BY ONLY <1>5, <1>6, <2>1, FillUpIsList
    <2> QED BY <2>1, <2>2
  <1> QED BY <1>8 DEF SelectNeighbors, S, cs

\* A list that has become too long is chosen again.
LEMMA PruneIsList ==
    ASSUME NEW rows, NEW n, NEW l, NEW list \in Seq(Link),
           \A i \in DOMAIN list : list[i].id # n /\ HasLevel(rows, list[i].id, l),
           \A i, j \in DOMAIN list : list[j].id = list[i].id => j = i
    PROVE  PruneNeighbors(rows, n, list, l) \in NeighborLists(rows, n, l)
  <1>1. CASE Len(list) <= LevelM(l)
    <2>1. list \in NeighborLists(rows, n, l)
      BY <1>1 DEF NeighborLists
    <2> QED BY <1>1, <2>1 DEF PruneNeighbors
  <1>2. CASE ~(Len(list) <= LevelM(l))
    <2> DEFINE C == {list[i] : i \in DOMAIN list}
    <2>1. IsFiniteSet(C)
      <3>1. IsFiniteSet(1 .. Len(list)) /\ DOMAIN list = 1 .. Len(list)
        BY FS_Interval
      <3>2. IsFiniteSet(DOMAIN list)
        BY <3>1
      <3> QED BY ONLY <3>2, ImageIsFinite
    <2>2. C \subseteq Link /\ \A c \in C : HasLevel(rows, c.id, l)
      OBVIOUS
    <2>3. \A c, d \in C : c.id = d.id => c = d
      OBVIOUS
    <2>4. Candidates(rows, l, C)
      BY <2>1, <2>2, <2>3 DEF Candidates
    <2>5. SelectNeighbors(rows, n, C, l) \in NeighborLists(rows, n, l)
      <3> HIDE DEF C
      <3> QED BY <2>4, SelectIsList
    <2> QED BY <1>2, <2>5 DEF PruneNeighbors
  <1> QED BY <1>1, <1>2

\* Linking a node keeps the lists.
LEMMA AddNeighborKeeps ==
    ASSUME NEW rows, BuildRows(rows), NEW g, IsBuildGraph(rows, g),
           NEW src, NEW dst, NEW l, NEW d \in Int
    PROVE  IsBuildGraph(rows, AddNeighbor(rows, g, src, dst, l, d))
  <1>1. CASE ~CanLink(rows, g, src, dst, l)
    BY <1>1 DEF AddNeighbor
  <1>2. CASE CanLink(rows, g, src, dst, l)
    <2> DEFINE list == g[src][l]
               item == [id |-> dst, d |-> d]
               worst == WorstOf(list, DOMAIN list)
               new == IF Len(list) < LevelM(l) THEN Append(list, item)
                      ELSE IF ~FastEdges THEN PruneNeighbors(rows, src, Append(list, item), l)
                      ELSE IF d < list[worst].d THEN [list EXCEPT ![worst] = item]
                      ELSE list
    <2>1. /\ src \in Ids(rows) /\ l \in 0 .. Level[src] /\ HasLevel(rows, dst, l)
          /\ src # dst /\ dst \notin ListIds(list)
      BY <1>2 DEF CanLink, HasLevel
    <2>2. dst \in Int /\ item \in Link /\ item.id = dst
      <3>1. dst \in Nat
        BY <2>1, NodeFacts DEF HasLevel
      <3> QED BY <3>1 DEF Link
    <2>3. list \in NeighborLists(rows, src, l)
      BY <2>1 DEF IsBuildGraph
    <2> HIDE DEF list, item
    <2>4. Len(list) < LevelM(l) => Append(list, item) \in NeighborLists(rows, src, l)
      BY <2>1, <2>2, <2>3, AppendLink
    <2>5. PruneNeighbors(rows, src, Append(list, item), l) \in NeighborLists(rows, src, l)
      <3> DEFINE s == Append(list, item)
      <3>1. list \in Seq(Link) /\ Len(list) \in Nat /\ DOMAIN list = 1 .. Len(list)
        BY <2>3 DEF NeighborLists
      <3>2. /\ s \in Seq(Link) /\ DOMAIN s = 1 .. Len(list) + 1
            /\ \A i \in 1 .. Len(list) + 1 : s[i] = IF i = Len(list) + 1 THEN item ELSE list[i]
        BY <2>2, <3>1
      <3> HIDE DEF s
      <3>3. /\ \A i \in DOMAIN list : list[i].id # src /\ HasLevel(rows, list[i].id, l)
                                      /\ list[i].id # item.id
            /\ \A i, j \in DOMAIN list : list[j].id = list[i].id => j = i
        BY <2>1, <2>2, <2>3 DEF NeighborLists, ListIds
      <3>4. \A i \in DOMAIN s : /\ i = Len(list) + 1 => s[i] = item
                                /\ i # Len(list) + 1 => i \in DOMAIN list /\ s[i] = list[i]
        BY <3>1, <3>2
      <3>5. \A i \in DOMAIN s : s[i].id # src /\ HasLevel(rows, s[i].id, l)
        BY <2>1, <2>2, <3>3, <3>4
      <3>6. \A i, j \in DOMAIN s : s[j].id = s[i].id => j = i
        BY <3>3, <3>4
      <3>7. PruneNeighbors(rows, src, s, l) \in NeighborLists(rows, src, l)
        BY ONLY <3>2, <3>5, <3>6, PruneIsList
      <3> QED BY <3>7 DEF s
    <2>6. [list EXCEPT ![worst] = item] \in NeighborLists(rows, src, l)
      <3> HIDE DEF worst
      <3> QED BY <2>1, <2>2, <2>3, ReplaceLink
    <2>7. new \in NeighborLists(rows, src, l)
      <3> HIDE DEF worst
      <3> QED BY <2>3, <2>4, <2>5, <2>6
    <2>8. AddNeighbor(rows, g, src, dst, l, d) = [g EXCEPT ![src][l] = new]
      BY <1>2 DEF AddNeighbor, list, item
    <2> HIDE DEF new
    <2>9. IsBuildGraph(rows, [g EXCEPT ![src][l] = new])
      BY <2>1, <2>7, UpdateList
    <2> QED BY <2>8, <2>9
  <1> QED BY <1>1, <1>2

LEMMA AddIfRoomKeeps ==
    ASSUME NEW rows, BuildRows(rows), NEW g, IsBuildGraph(rows, g), NEW src, NEW dst, NEW l
    PROVE  IsBuildGraph(rows, AddNeighborIfRoom(rows, g, src, dst, l))
  <1>1. CASE ~(CanLink(rows, g, src, dst, l) /\ Len(g[src][l]) < LevelM(l))
    BY <1>1 DEF AddNeighborIfRoom
  <1>2. CASE CanLink(rows, g, src, dst, l) /\ Len(g[src][l]) < LevelM(l)
    <2> DEFINE list == g[src][l]
               item == Item(rows, src, dst)
    <2>1. /\ src \in Ids(rows) /\ l \in 0 .. Level[src] /\ HasLevel(rows, dst, l)
          /\ src # dst /\ dst \notin ListIds(list) /\ dst \in Ids(rows)
      BY <1>2 DEF CanLink, HasLevel
    <2>2. item \in Link /\ item.id = dst
      <3>1. dst \in Nat /\ Dist(rows, src, dst) \in Int
        BY <2>1, NodeFacts
      <3> QED BY <3>1 DEF Link, Item
    <2>3. list \in NeighborLists(rows, src, l)
      BY <2>1 DEF IsBuildGraph
    <2>4. AddNeighborIfRoom(rows, g, src, dst, l) = [g EXCEPT ![src][l] = Append(list, item)]
      <3>1. \A s : [g EXCEPT ![src][l] = Append(@, s)] = [g EXCEPT ![src][l] = Append(list, s)]
        OBVIOUS
      <3> QED BY <1>2, <3>1 DEF AddNeighborIfRoom
    <2> HIDE DEF item
    <2>5. Append(list, item) \in NeighborLists(rows, src, l)
      <3>1. Len(list) < LevelM(l)
        BY <1>2
      <3> HIDE DEF list
      <3> QED BY <2>1, <2>2, <2>3, <3>1, AppendLink
    <2>6. IsBuildGraph(rows, [g EXCEPT ![src][l] = Append(list, item)])
      <3> HIDE DEF list
      <3> QED BY <2>1, <2>5, UpdateList
    <2> QED BY <2>4, <2>6
  <1> QED BY <1>1, <1>2

(***************************************************************************)
(* Searching.                                                              *)
(***************************************************************************)

\* The nodes of a level with their distances from q.
LevelPoints(rows, q, l) == {Item(rows, q, k) : k \in {k \in Ids(rows) : HasLevel(rows, k, l)}}

LEMMA PointFacts ==
    ASSUME NEW rows, BuildRows(rows), NEW q \in Ids(rows), NEW l
    PROVE  /\ LevelPoints(rows, q, l) \subseteq Link /\ IsFiniteSet(LevelPoints(rows, q, l))
           /\ \A x \in LevelPoints(rows, q, l) :
                 x.id \in Ids(rows) /\ x = Item(rows, q, x.id) /\ HasLevel(rows, x.id, l)
           /\ \A k \in Ids(rows) : HasLevel(rows, k, l) => Item(rows, q, k) \in LevelPoints(rows, q, l)
           /\ \A C \in SUBSET LevelPoints(rows, q, l) : Candidates(rows, l, C)
  <1> DEFINE X == LevelPoints(rows, q, l)
             K == {k \in Ids(rows) : HasLevel(rows, k, l)}
  <1>1. \A x \in X : x.id \in Ids(rows) /\ x = Item(rows, q, x.id) /\ HasLevel(rows, x.id, l)
    BY DEF LevelPoints, Item
  <1>2. \A k \in Ids(rows) : HasLevel(rows, k, l) => Item(rows, q, k) \in X
    BY DEF LevelPoints
  <1>3. IsFiniteSet(X)
    <2> DEFINE f == [k \in K |-> Item(rows, q, k)]
    <2>1. IsFiniteSet(K)
      BY NodeFacts, FS_Subset
    <2>2. X = {f[k] : k \in K}
      BY DEF LevelPoints
    <2> HIDE DEF f, K
    <2> QED BY <2>1, <2>2, ImageIsFinite
  <1>4. X \subseteq Link
    <2>1. \A k \in Ids(rows) : k \in Int /\ Dist(rows, q, k) \in Int
      BY NodeFacts
    <2>2. \A k \in Ids(rows) : Item(rows, q, k) \in Link
      BY <2>1 DEF Item, Link
    <2> QED BY <1>1, <2>2
  <1> HIDE DEF X
  <1>5. \A C \in SUBSET X : Candidates(rows, l, C)
    <2> TAKE C \in SUBSET X
    <2>1. IsFiniteSet(C)
      BY <1>3, FS_Subset
    <2>2. \A c, d \in C : c.id = d.id => c = d
      BY <1>1
    <2> QED BY <1>1, <1>4, <2>1, <2>2 DEF Candidates
  <1> QED BY <1>1, <1>2, <1>3, <1>4, <1>5 DEF X

\* One greedy step stays on a node of the build.
LEMMA GreedyStepStays ==
    ASSUME NEW rows, BuildRows(rows), NEW g, IsBuildGraph(rows, g), NEW ins,
           NEW q \in Ids(rows), NEW l, NEW k \in Ids(rows)
    PROVE  \E n \in Ids(rows) :
              GreedyStep(rows, g, ins, q, l, Item(rows, q, k)) = Item(rows, q, n)
  <1> DEFINE c == Item(rows, q, k)
             list == g[c.id][l]
             At(i) == Dist(rows, q, list[i].id)
             near == {i \in DOMAIN list : list[i].id \in ins /\ HasLevel(rows, list[i].id, l)}
             first == CHOOSE i \in near :
                         \A j \in near : At(i) < At(j) \/ (At(i) = At(j) /\ i <= j)
             moves == HasLevel(rows, c.id, l) /\ \E i \in near : At(i) < c.d
  <1>1. c.id = k
    BY DEF Item
  <1>2. CASE ~moves
    <2>1. GreedyStep(rows, g, ins, q, l, c) = c
      BY <1>2, Zenon DEF GreedyStep
    <2> QED BY <2>1
  <1>3. CASE moves
    <2>1. GreedyStep(rows, g, ins, q, l, c) = Item(rows, q, list[first].id)
      BY <1>3, Zenon DEF GreedyStep
    <2>2. list \in Seq(Link)
      <3>1. l \in 0 .. Level[k]
        BY <1>1, <1>3 DEF HasLevel
      <3> QED BY <1>1, <3>1 DEF IsBuildGraph, NeighborLists
    <2>3. near # {}
      BY <1>3
    <2> HIDE DEF list, c
    <2>4. near \subseteq 1 .. Len(list) /\ Len(list) \in Nat
      BY <2>2
    <2>5. \A i \in near : At(i) \in Int /\ i \in Nat /\ list[i].id \in Ids(rows)
      <3> TAKE i \in near
      <3>1. list[i].id \in Ids(rows)
        BY DEF HasLevel
      <3>2. i \in Nat
        BY <2>4
      <3> QED BY <3>1, <3>2, NodeFacts
    <2> DEFINE L == {xy \in near \X near : At(xy[1]) < At(xy[2])
                                            \/ (At(xy[1]) = At(xy[2]) /\ xy[1] < xy[2])}
    <2> HIDE DEF At, near
    <2>6. \A x, y \in near : <<x, y>> \in L <=> At(x) < At(y) \/ (At(x) = At(y) /\ x < y)
      OBVIOUS
    <2> HIDE DEF L
    <2>7. StrictOrder(near, L)
      <3>1. \A x \in near : <<x, x>> \notin L
        BY <2>5, <2>6
      <3>2. \A x, y, z \in near : <<x, y>> \in L /\ <<y, z>> \in L => <<x, z>> \in L
        BY <2>5, <2>6
      <3>3. \A x, y \in near : x = y \/ <<x, y>> \in L \/ <<y, x>> \in L
        <4> TAKE x, y \in near
        <4>1. At(x) \in Int /\ At(y) \in Int /\ x \in Nat /\ y \in Nat
          BY <2>5
        <4>2. x = y \/ x < y \/ y < x
          BY <4>1
        <4>3. At(x) < At(y) \/ At(x) = At(y) \/ At(y) < At(x)
          BY <4>1
        <4> QED BY <2>6, <4>2, <4>3
      <3> QED BY <3>1, <3>2, <3>3 DEF StrictOrder
    <2>8. IsFiniteSet(near)
      <3>1. IsFiniteSet(1 .. Len(list))
        BY <2>4, FS_Interval
      <3> QED BY <2>4, <3>1, FS_Subset
    <2>9. PICK x \in near : \A y \in near : y = x \/ <<x, y>> \in L
      BY <2>3, <2>7, <2>8, FirstAndLast
    <2>10. \A j \in near : At(x) < At(j) \/ (At(x) = At(j) /\ x <= j)
      <3> TAKE j \in near
      <3>1. At(x) \in Int /\ At(j) \in Int /\ x \in Nat /\ j \in Nat
        BY <2>5
      <3>2. CASE j = x
        BY <3>1, <3>2
      <3>3. CASE <<x, j>> \in L
        <4>1. At(x) < At(j) \/ (At(x) = At(j) /\ x < j)
          BY <2>6, <3>3
        <4> QED BY <3>1, <4>1
      <3> QED BY <2>9, <3>2, <3>3
    <2>11. first \in near
      BY <2>10
    <2> HIDE DEF first
    <2> QED BY <2>1, <2>5, <2>11 DEF c
  <1> QED BY <1>2, <1>3

Points(rows, q) == {Item(rows, q, k) : k \in Ids(rows)}

LEMMA GreedyStays ==
    ASSUME NEW rows, BuildRows(rows), NEW g, IsBuildGraph(rows, g), NEW ins,
           NEW q \in Ids(rows), NEW l, NEW start \in Ids(rows)
    PROVE  GreedySearch(rows, g, ins, q, start, l) \in Points(rows, q)
  <1> DEFINE Step(i, x) == GreedyStep(rows, g, ins, q, l, x)
             Stage(i) == Points(rows, q)
             first == Item(rows, q, start)
             U == [i \in 0 .. Len(rows) |-> Stage(i)]
             G == [i \in 1 .. Len(rows) |-> [x \in Stage(i - 1) |-> Step(i, x)]]
             All == UNION {Stage(i) : i \in 0 .. Len(rows)}
             Def(h) == [i \in 0 .. Len(rows) |-> IF i = 0 THEN first ELSE Step(i, h[i - 1])]
             loop == CHOOSE h : h = Def(h)
  <1>1. Len(rows) \in Nat
    BY NodeFacts
  <1>2. first \in Stage(0)
    BY DEF Points
  <1>3. ASSUME NEW i \in 1 .. Len(rows), NEW x \in Stage(i - 1)
        PROVE  Step(i, x) \in Stage(i)
    <2>1. PICK k \in Ids(rows) : x = Item(rows, q, k)
      BY DEF Points
    <2>2. \E n \in Ids(rows) : GreedyStep(rows, g, ins, q, l, Item(rows, q, k)) = Item(rows, q, n)
      BY GreedyStepStays
    <2> QED BY <2>1, <2>2 DEF Points
  <1>4. Stages(All, Len(rows), U, first, G)
    <2>1. /\ \A i \in 0 .. Len(rows) : U[i] = Stage(i) /\ Stage(i) \subseteq All
          /\ \A i \in 1 .. Len(rows) : i \in 0 .. Len(rows) /\ i - 1 \in 0 .. Len(rows)
          /\ \A i \in 1 .. Len(rows) : G[i] = [x \in Stage(i - 1) |-> Step(i, x)]
      <3> HIDE DEF Stage, Step
      <3> QED BY <1>1
    <2> HIDE DEF Stage, Step, first, All, G
    <2>2. \A i \in 1 .. Len(rows) : G[i] \in [U[i - 1] -> U[i]]
      <3>1. \A i \in 1 .. Len(rows) : [x \in Stage(i - 1) |-> Step(i, x)] \in [Stage(i - 1) -> Stage(i)]
        BY <1>3
      <3> QED BY <2>1, <3>1
    <2>3. U \in [0 .. Len(rows) -> SUBSET All]
      BY <2>1
    <2>4. first \in U[0]
      BY <1>1, <1>2, <2>1
    <2> QED BY <1>1, <2>2, <2>3, <2>4 DEF Stages
  <1>5. \A i \in 0 .. Len(rows) : loop[i] \in Stage(i)
    <2> HIDE DEF Stage, Step, first, All, U, G
    <2>1. PICK h : Staged(Len(rows), U, first, G, h)
      BY ONLY <1>4, StagesExist
    <2>2. \A i \in 1 .. Len(rows) : h[i - 1] \in Stage(i - 1) /\ h[i] = Step(i, h[i - 1])
      <3> TAKE i \in 1 .. Len(rows)
      <3>1. i \in 0 .. Len(rows) /\ i - 1 \in 0 .. Len(rows) /\ U[i - 1] = Stage(i - 1)
        BY <1>1 DEF U
      <3>2. h[i - 1] \in Stage(i - 1)
        BY <2>1, <3>1 DEF Staged
      <3>3. G[i] = [x \in Stage(i - 1) |-> Step(i, x)]
        BY DEF G
      <3>4. h[i] = G[i][h[i - 1]]
        BY <2>1 DEF Staged
      <3> QED BY <3>2, <3>3, <3>4
    <2>3. h = Def(h)
      <3>1. \A i \in 0 .. Len(rows) : h[i] = IF i = 0 THEN first ELSE Step(i, h[i - 1])
        <4> TAKE i \in 0 .. Len(rows)
        <4>1. i # 0 => i \in 1 .. Len(rows)
          BY <1>1
        <4> QED BY <2>1, <2>2, <4>1 DEF Staged
      <3> QED BY <2>1, <3>1 DEF Staged
    <2>4. loop = Def(loop)
      <3> HIDE DEF Def
      <3> QED BY <2>3
    <2> HIDE DEF loop
    <2>5. \A i \in 0 .. Len(rows) : loop[i] = IF i = 0 THEN first ELSE Step(i, loop[i - 1])
      BY <2>4
    <2>6. loop[0] = first /\ \A i \in 1 .. Len(rows) : loop[i] = Step(i, loop[i - 1])
      BY <1>1, <2>5
    <2> HIDE DEF Def
    <2>7. \A i \in 1 .. Len(rows) : loop[i - 1] \in U[i - 1] => loop[i] \in U[i]
      <3> SUFFICES ASSUME NEW i \in 1 .. Len(rows), loop[i - 1] \in U[i - 1] PROVE loop[i] \in U[i]
        OBVIOUS
      <3>1. U[i - 1] = Stage(i - 1) /\ U[i] = Stage(i)
        BY <1>1 DEF U
      <3>2. loop[i - 1] \in Stage(i - 1)
        BY <3>1
      <3> QED BY <1>3, <2>6, <3>1, <3>2
    <2>8. loop[0] \in U[0]
      BY <1>1, <1>2, <2>6 DEF U
    <2>9. \A i \in 0 .. Len(rows) : loop[i] \in U[i]
      BY <1>1, <2>7, <2>8, PlacesStay
    <2> QED BY <2>9 DEF U
  <1>6. GreedySearch(rows, g, ins, q, start, l) = loop[Len(rows)]
    <2> HIDE DEF Stage, U, G, All
    <2> QED BY DEF GreedySearch
  <1>7. loop[Len(rows)] \in Stage(Len(rows))
    <2> HIDE DEF loop, Stage
    <2> QED BY <1>1, <1>5
  <1> QED BY <1>6, <1>7

\* What the best-first search holds: nodes of the level; at least one is kept.
SearchStates(rows, q, l) ==
    {s \in [front : SUBSET LevelPoints(rows, q, l), near : SUBSET LevelPoints(rows, q, l),
            seen : SUBSET Ids(rows)] : s.near # {}}

LEMMA VisitStays ==
    ASSUME NEW rows, BuildRows(rows), NEW ins, NEW q \in Ids(rows), NEW l, NEW ef,
           NEW s \in SearchStates(rows, q, l), NEW n
    PROVE  VisitNeighbor(rows, ins, q, l, ef, s, n) \in SearchStates(rows, q, l)
  <1> DEFINE X == LevelPoints(rows, q, l)
             near == OfferNearest(s.near, ef, Item(rows, q, n))
  <1>1. s \in [front : SUBSET X, near : SUBSET X, seen : SUBSET Ids(rows)] /\ s.near # {}
    BY DEF SearchStates
  <1>2. CASE n \notin ins \/ n \in s.seen \/ ~HasLevel(rows, n, l)
    BY <1>2 DEF VisitNeighbor
  <1>3. CASE ~(n \notin ins \/ n \in s.seen \/ ~HasLevel(rows, n, l))
    <2>1. n \in Ids(rows) /\ Item(rows, q, n) \in X
      <3>1. HasLevel(rows, n, l) /\ n \in Ids(rows)
        BY <1>3 DEF HasLevel
      <3> QED BY <3>1, PointFacts
    <2> HIDE DEF X
    <2>2. near \subseteq X /\ near # {}
      BY <1>1, <2>1 DEF OfferNearest
    <2> HIDE DEF near
    <2>3. VisitNeighbor(rows, ins, q, l, ef, s, n) =
            [front |-> IF Item(rows, q, n) \in near THEN s.front \cup {Item(rows, q, n)} ELSE s.front,
             near |-> near, seen |-> s.seen \cup {n}]
      BY <1>3 DEF VisitNeighbor, near
    <2>4. /\ (IF Item(rows, q, n) \in near THEN s.front \cup {Item(rows, q, n)} ELSE s.front) \subseteq X
          /\ s.seen \cup {n} \subseteq Ids(rows)
      BY <1>1, <2>1
    <2> QED BY <2>2, <2>3, <2>4 DEF SearchStates, X
  <1> QED BY <1>2, <1>3

LEMMA VisitsStay ==
    ASSUME NEW rows, BuildRows(rows), NEW ins, NEW q \in Ids(rows), NEW l, NEW ef,
           NEW s \in SearchStates(rows, q, l), NEW list \in Seq(Link)
    PROVE  VisitNeighbors(rows, ins, q, l, ef, s, list) \in SearchStates(rows, q, l)
  <1> DEFINE Step(i, x) == VisitNeighbor(rows, ins, q, l, ef, x, list[i].id)
             Stage(i) == SearchStates(rows, q, l)
             first == s
             U == [i \in 0 .. Len(list) |-> Stage(i)]
             G == [i \in 1 .. Len(list) |-> [x \in Stage(i - 1) |-> Step(i, x)]]
             All == UNION {Stage(i) : i \in 0 .. Len(list)}
             Def(h) == [i \in 0 .. Len(list) |-> IF i = 0 THEN first ELSE Step(i, h[i - 1])]
             loop == CHOOSE h : h = Def(h)
  <1>1. Len(list) \in Nat
    OBVIOUS
  <1>2. first \in Stage(0)
    OBVIOUS
  <1>3. ASSUME NEW i \in 1 .. Len(list), NEW x \in Stage(i - 1)
        PROVE  Step(i, x) \in Stage(i)
    BY VisitStays
  <1>4. Stages(All, Len(list), U, first, G)
    <2>1. /\ \A i \in 0 .. Len(list) : U[i] = Stage(i) /\ Stage(i) \subseteq All
          /\ \A i \in 1 .. Len(list) : i \in 0 .. Len(list) /\ i - 1 \in 0 .. Len(list)
          /\ \A i \in 1 .. Len(list) : G[i] = [x \in Stage(i - 1) |-> Step(i, x)]
      <3> HIDE DEF Stage, Step
      <3> QED BY <1>1
    <2> HIDE DEF Stage, Step, first, All, G
    <2>2. \A i \in 1 .. Len(list) : G[i] \in [U[i - 1] -> U[i]]
      <3>1. \A i \in 1 .. Len(list) : [x \in Stage(i - 1) |-> Step(i, x)] \in [Stage(i - 1) -> Stage(i)]
        BY <1>3
      <3> QED BY <2>1, <3>1
    <2>3. U \in [0 .. Len(list) -> SUBSET All]
      BY <2>1
    <2>4. first \in U[0]
      BY <1>1, <1>2, <2>1
    <2> QED BY <1>1, <2>2, <2>3, <2>4 DEF Stages
  <1>5. \A i \in 0 .. Len(list) : loop[i] \in Stage(i)
    <2> HIDE DEF Stage, Step, first, All, U, G
    <2>1. PICK h : Staged(Len(list), U, first, G, h)
      BY ONLY <1>4, StagesExist
    <2>2. \A i \in 1 .. Len(list) : h[i - 1] \in Stage(i - 1) /\ h[i] = Step(i, h[i - 1])
      <3> TAKE i \in 1 .. Len(list)
      <3>1. i \in 0 .. Len(list) /\ i - 1 \in 0 .. Len(list) /\ U[i - 1] = Stage(i - 1)
        BY <1>1 DEF U
      <3>2. h[i - 1] \in Stage(i - 1)
        BY <2>1, <3>1 DEF Staged
      <3>3. G[i] = [x \in Stage(i - 1) |-> Step(i, x)]
        BY DEF G
      <3>4. h[i] = G[i][h[i - 1]]
        BY <2>1 DEF Staged
      <3> QED BY <3>2, <3>3, <3>4
    <2>3. h = Def(h)
      <3>1. \A i \in 0 .. Len(list) : h[i] = IF i = 0 THEN first ELSE Step(i, h[i - 1])
        <4> TAKE i \in 0 .. Len(list)
        <4>1. i # 0 => i \in 1 .. Len(list)
          BY <1>1
        <4> QED BY <2>1, <2>2, <4>1 DEF Staged
      <3> QED BY <2>1, <3>1 DEF Staged
    <2>4. loop = Def(loop)
      <3> HIDE DEF Def
      <3> QED BY <2>3
    <2> HIDE DEF loop
    <2>5. \A i \in 0 .. Len(list) : loop[i] = IF i = 0 THEN first ELSE Step(i, loop[i - 1])
      BY <2>4
    <2>6. loop[0] = first /\ \A i \in 1 .. Len(list) : loop[i] = Step(i, loop[i - 1])
      BY <1>1, <2>5
    <2> HIDE DEF Def
    <2>7. \A i \in 1 .. Len(list) : loop[i - 1] \in U[i - 1] => loop[i] \in U[i]
      <3> SUFFICES ASSUME NEW i \in 1 .. Len(list), loop[i - 1] \in U[i - 1] PROVE loop[i] \in U[i]
        OBVIOUS
      <3>1. U[i - 1] = Stage(i - 1) /\ U[i] = Stage(i)
        BY <1>1 DEF U
      <3>2. loop[i - 1] \in Stage(i - 1)
        BY <3>1
      <3> QED BY <1>3, <2>6, <3>1, <3>2
    <2>8. loop[0] \in U[0]
      BY <1>1, <1>2, <2>6 DEF U
    <2>9. \A i \in 0 .. Len(list) : loop[i] \in U[i]
      BY <1>1, <2>7, <2>8, PlacesStay
    <2> QED BY <2>9 DEF U
  <1>6. VisitNeighbors(rows, ins, q, l, ef, s, list) = loop[Len(list)]
    <2> HIDE DEF Stage, U, G, All
    <2> QED BY DEF VisitNeighbors
  <1>7. loop[Len(list)] \in Stage(Len(list))
    <2> HIDE DEF loop, Stage
    <2> QED BY <1>1, <1>5
  <1> QED BY <1>6, <1>7

LEMMA ExpandStays ==
    ASSUME NEW rows, BuildRows(rows), NEW g, IsBuildGraph(rows, g), NEW ins,
           NEW q \in Ids(rows), NEW l, NEW ef, NEW s \in SearchStates(rows, q, l)
    PROVE  ExpandClosest(rows, g, ins, q, l, ef, s) \in SearchStates(rows, q, l)
  <1> DEFINE item == CHOOSE x \in s.front : \A y \in s.front : y = x \/ FrontierLess(x, y)
             rest == [s EXCEPT !.front = @ \ {item}]
             none == [s EXCEPT !.front = {}]
  <1> HIDE DEF item
  <1>1. rest \in SearchStates(rows, q, l) /\ none \in SearchStates(rows, q, l)
    BY DEF SearchStates
  <1> HIDE DEF rest, none
  <1>2. ASSUME HasLevel(rows, item.id, l)
        PROVE  VisitNeighbors(rows, ins, q, l, ef, rest, g[item.id][l]) \in SearchStates(rows, q, l)
    <2>1. item.id \in Ids(rows) /\ l \in 0 .. Level[item.id]
      BY <1>2 DEF HasLevel
    <2>2. g[item.id][l] \in Seq(Link)
      BY <2>1 DEF IsBuildGraph, NeighborLists
    <2> QED BY <1>1, <2>2, VisitsStay
  <1> QED BY <1>1, <1>2 DEF ExpandClosest, rest, none, item

\* The search finds nodes of the level, and at least one.
LEMMA SearchFinds ==
    ASSUME NEW rows, BuildRows(rows), NEW g, IsBuildGraph(rows, g), NEW ins,
           NEW q \in Ids(rows), NEW l, NEW ef, NEW start \in LevelPoints(rows, q, l)
    PROVE  LET near == SearchLayer(rows, g, ins, q, start, l, ef)
           IN  near \subseteq LevelPoints(rows, q, l) /\ near # {}
  <1> DEFINE Step(i, x) == ExpandClosest(rows, g, ins, q, l, ef, x)
             Stage(i) == SearchStates(rows, q, l)
             first == [front |-> {start}, near |-> {start}, seen |-> {start.id}]
             U == [i \in 0 .. Len(rows) |-> Stage(i)]
             G == [i \in 1 .. Len(rows) |-> [x \in Stage(i - 1) |-> Step(i, x)]]
             All == UNION {Stage(i) : i \in 0 .. Len(rows)}
             Def(h) == [i \in 0 .. Len(rows) |-> IF i = 0 THEN first ELSE Step(i, h[i - 1])]
             loop == CHOOSE h : h = Def(h)
  <1>1. Len(rows) \in Nat
    BY NodeFacts
  <1>2. first \in Stage(0)
    <2>1. start.id \in Ids(rows)
      BY PointFacts
    <2> QED BY <2>1 DEF SearchStates
  <1>3. ASSUME NEW i \in 1 .. Len(rows), NEW x \in Stage(i - 1)
        PROVE  Step(i, x) \in Stage(i)
    BY ExpandStays
  <1>4. Stages(All, Len(rows), U, first, G)
    <2>1. /\ \A i \in 0 .. Len(rows) : U[i] = Stage(i) /\ Stage(i) \subseteq All
          /\ \A i \in 1 .. Len(rows) : i \in 0 .. Len(rows) /\ i - 1 \in 0 .. Len(rows)
          /\ \A i \in 1 .. Len(rows) : G[i] = [x \in Stage(i - 1) |-> Step(i, x)]
      <3> HIDE DEF Stage, Step
      <3> QED BY <1>1
    <2> HIDE DEF Stage, Step, first, All, G
    <2>2. \A i \in 1 .. Len(rows) : G[i] \in [U[i - 1] -> U[i]]
      <3>1. \A i \in 1 .. Len(rows) : [x \in Stage(i - 1) |-> Step(i, x)] \in [Stage(i - 1) -> Stage(i)]
        BY <1>3
      <3> QED BY <2>1, <3>1
    <2>3. U \in [0 .. Len(rows) -> SUBSET All]
      BY <2>1
    <2>4. first \in U[0]
      BY <1>1, <1>2, <2>1
    <2> QED BY <1>1, <2>2, <2>3, <2>4 DEF Stages
  <1>5. \A i \in 0 .. Len(rows) : loop[i] \in Stage(i)
    <2> HIDE DEF Stage, Step, first, All, U, G
    <2>1. PICK h : Staged(Len(rows), U, first, G, h)
      BY ONLY <1>4, StagesExist
    <2>2. \A i \in 1 .. Len(rows) : h[i - 1] \in Stage(i - 1) /\ h[i] = Step(i, h[i - 1])
      <3> TAKE i \in 1 .. Len(rows)
      <3>1. i \in 0 .. Len(rows) /\ i - 1 \in 0 .. Len(rows) /\ U[i - 1] = Stage(i - 1)
        BY <1>1 DEF U
      <3>2. h[i - 1] \in Stage(i - 1)
        BY <2>1, <3>1 DEF Staged
      <3>3. G[i] = [x \in Stage(i - 1) |-> Step(i, x)]
        BY DEF G
      <3>4. h[i] = G[i][h[i - 1]]
        BY <2>1 DEF Staged
      <3> QED BY <3>2, <3>3, <3>4
    <2>3. h = Def(h)
      <3>1. \A i \in 0 .. Len(rows) : h[i] = IF i = 0 THEN first ELSE Step(i, h[i - 1])
        <4> TAKE i \in 0 .. Len(rows)
        <4>1. i # 0 => i \in 1 .. Len(rows)
          BY <1>1
        <4> QED BY <2>1, <2>2, <4>1 DEF Staged
      <3> QED BY <2>1, <3>1 DEF Staged
    <2>4. loop = Def(loop)
      <3> HIDE DEF Def
      <3> QED BY <2>3
    <2> HIDE DEF loop
    <2>5. \A i \in 0 .. Len(rows) : loop[i] = IF i = 0 THEN first ELSE Step(i, loop[i - 1])
      BY <2>4
    <2>6. loop[0] = first /\ \A i \in 1 .. Len(rows) : loop[i] = Step(i, loop[i - 1])
      BY <1>1, <2>5
    <2> HIDE DEF Def
    <2>7. \A i \in 1 .. Len(rows) : loop[i - 1] \in U[i - 1] => loop[i] \in U[i]
      <3> SUFFICES ASSUME NEW i \in 1 .. Len(rows), loop[i - 1] \in U[i - 1] PROVE loop[i] \in U[i]
        OBVIOUS
      <3>1. U[i - 1] = Stage(i - 1) /\ U[i] = Stage(i)
        BY <1>1 DEF U
      <3>2. loop[i - 1] \in Stage(i - 1)
        BY <3>1
      <3> QED BY <1>3, <2>6, <3>1, <3>2
    <2>8. loop[0] \in U[0]
      BY <1>1, <1>2, <2>6 DEF U
    <2>9. \A i \in 0 .. Len(rows) : loop[i] \in U[i]
      BY <1>1, <2>7, <2>8, PlacesStay
    <2> QED BY <2>9 DEF U
  <1>6. SearchLayer(rows, g, ins, q, start, l, ef) = loop[Len(rows)].near
    <2> HIDE DEF Stage, U, G, All
    <2> QED BY DEF SearchLayer
  <1>7. loop[Len(rows)] \in Stage(Len(rows))
    <2> HIDE DEF loop, Stage
    <2> QED BY <1>1, <1>5
  <1>8. loop[Len(rows)] \in SearchStates(rows, q, l)
    <2> HIDE DEF loop
    <2> QED BY <1>7
  <1> HIDE DEF loop
  <1> QED BY <1>6, <1>8 DEF SearchStates

(***************************************************************************)
(* Inserting a node.                                                       *)
(***************************************************************************)

\* Of links there is a closest one.
LEMMA ClosestLink ==
    ASSUME NEW S, S \subseteq Link, IsFiniteSet(S), S # {}
    PROVE  \E x \in S : \A y \in S : y = x \/ FrontierLess(x, y)
  <1> DEFINE L == {xy \in S \X S : FrontierLess(xy[1], xy[2])}
  <1>1. StrictOrder(S, L)
    BY LinksAreOrdered
  <1>2. \A x, y \in S : <<x, y>> \in L <=> FrontierLess(x, y)
    OBVIOUS
  <1> HIDE DEF L
  <1>3. PICK x \in S : \A y \in S : y = x \/ <<x, y>> \in L
    BY <1>1, FirstAndLast
  <1> QED BY <1>2, <1>3

\* Descending ends on a node of the build.
LEMMA DescendStays ==
    ASSUME NEW rows, BuildRows(rows), NEW g, IsBuildGraph(rows, g), NEW ins,
           NEW n \in Ids(rows), NEW from, from.id \in Ids(rows), from.level \in Nat, NEW to \in Nat
    PROVE  Descend(rows, g, ins, n, from, to) \in Points(rows, n)
  <1> DEFINE N == MaxOf(0, from.level - to)
             Step(i, x) == IF HasLevel(rows, x.id, from.level - i + 1)
                           THEN GreedySearch(rows, g, ins, n, x.id, from.level - i + 1) ELSE x
             Stage(i) == Points(rows, n)
             first == Item(rows, n, from.id)
             U == [i \in 0 .. N |-> Stage(i)]
             G == [i \in 1 .. N |-> [x \in Stage(i - 1) |-> Step(i, x)]]
             All == UNION {Stage(i) : i \in 0 .. N}
             Def(h) == [i \in 0 .. N |-> IF i = 0 THEN first ELSE Step(i, h[i - 1])]
             loop == CHOOSE h : h = Def(h)
  <1>1. N \in Nat
    BY DEF MaxOf
  <1>2. first \in Stage(0)
    BY DEF Points
  <1>3. ASSUME NEW i \in 1 .. N, NEW x \in Stage(i - 1)
        PROVE  Step(i, x) \in Stage(i)
    <2>1. x.id \in Ids(rows)
      BY DEF Points, Item
    <2> QED BY <2>1, GreedyStays
  <1>4. Descend(rows, g, ins, n, from, to) = loop[N]
    <2> HIDE DEF Stage, U, G, All
    <2> QED BY DEF Descend
  <1> HIDE DEF N
  <1>5. Stages(All, N, U, first, G)
    <2>1. /\ \A i \in 0 .. N : U[i] = Stage(i) /\ Stage(i) \subseteq All
          /\ \A i \in 1 .. N : i \in 0 .. N /\ i - 1 \in 0 .. N
          /\ \A i \in 1 .. N : G[i] = [x \in Stage(i - 1) |-> Step(i, x)]
      <3> HIDE DEF Stage, Step
      <3> QED BY <1>1
    <2> HIDE DEF Stage, Step, first, All, G
    <2>2. \A i \in 1 .. N : G[i] \in [U[i - 1] -> U[i]]
      <3>1. \A i \in 1 .. N : [x \in Stage(i - 1) |-> Step(i, x)] \in [Stage(i - 1) -> Stage(i)]
        BY <1>3
      <3> QED BY <2>1, <3>1
    <2>3. U \in [0 .. N -> SUBSET All]
      BY <2>1
    <2>4. first \in U[0]
      BY <1>1, <1>2, <2>1
    <2> QED BY <1>1, <2>2, <2>3, <2>4 DEF Stages
  <1>6. \A i \in 0 .. N : loop[i] \in Stage(i)
    <2> HIDE DEF Stage, Step, first, All, U, G
    <2>1. PICK h : Staged(N, U, first, G, h)
      BY ONLY <1>5, StagesExist
    <2>2. \A i \in 1 .. N : h[i - 1] \in Stage(i - 1) /\ h[i] = Step(i, h[i - 1])
      <3> TAKE i \in 1 .. N
      <3>1. i \in 0 .. N /\ i - 1 \in 0 .. N /\ U[i - 1] = Stage(i - 1)
        BY <1>1 DEF U
      <3>2. h[i - 1] \in Stage(i - 1)
        BY <2>1, <3>1 DEF Staged
      <3>3. G[i] = [x \in Stage(i - 1) |-> Step(i, x)]
        BY DEF G
      <3>4. h[i] = G[i][h[i - 1]]
        BY <2>1 DEF Staged
      <3> QED BY <3>2, <3>3, <3>4
    <2>3. h = Def(h)
      <3>1. \A i \in 0 .. N : h[i] = IF i = 0 THEN first ELSE Step(i, h[i - 1])
        <4> TAKE i \in 0 .. N
        <4>1. i # 0 => i \in 1 .. N
          BY <1>1
        <4> QED BY <2>1, <2>2, <4>1 DEF Staged
      <3> QED BY <2>1, <3>1 DEF Staged
    <2>4. loop = Def(loop)
      <3> HIDE DEF Def
      <3> QED BY <2>3
    <2> HIDE DEF loop
    <2>5. \A i \in 0 .. N : loop[i] = IF i = 0 THEN first ELSE Step(i, loop[i - 1])
      BY <2>4
    <2>6. loop[0] = first /\ \A i \in 1 .. N : loop[i] = Step(i, loop[i - 1])
      BY <1>1, <2>5
    <2> HIDE DEF Def
    <2>7. \A i \in 1 .. N : loop[i - 1] \in U[i - 1] => loop[i] \in U[i]
      <3> SUFFICES ASSUME NEW i \in 1 .. N, loop[i - 1] \in U[i - 1] PROVE loop[i] \in U[i]
        OBVIOUS
      <3>1. U[i - 1] = Stage(i - 1) /\ U[i] = Stage(i)
        BY <1>1 DEF U
      <3>2. loop[i - 1] \in Stage(i - 1)
        BY <3>1
      <3> QED BY <1>3, <2>6, <3>1, <3>2
    <2>8. loop[0] \in U[0]
      BY <1>1, <1>2, <2>6 DEF U
    <2>9. \A i \in 0 .. N : loop[i] \in U[i]
      BY <1>1, <2>7, <2>8, PlacesStay
    <2> QED BY <2>9 DEF U
  <1>7. loop[N] \in Stage(N)
    <2> HIDE DEF loop, Stage
    <2> QED BY <1>1, <1>6
  <1> QED BY <1>4, <1>7

LinkStates(rows, n) == [g : GraphSet(rows), e : Points(rows, n)]

\* One level more is linked.
LEMMA LinkLevelStays ==
    ASSUME NEW rows, BuildRows(rows), NEW ins, NEW n \in Ids(rows), NEW l \in 0 .. Level[n],
           NEW s \in LinkStates(rows, n)
    PROVE  LinkLevel(rows, ins, n, l, s) \in LinkStates(rows, n)
  <1> DEFINE near == SearchLayer(rows, s.g, ins, n, s.e, l, Ef)
             e == CHOOSE x \in near : \A y \in near : y = x \/ FrontierLess(x, y)
             list == SelectNeighbors(rows, n, near, l)
  <1>1. IsBuildGraph(rows, s.g) /\ s.e \in Points(rows, n)
    BY GraphsAreASet DEF LinkStates
  <1>2. CASE ~HasLevel(rows, s.e.id, l)
    BY <1>2 DEF LinkLevel
  <1>3. CASE HasLevel(rows, s.e.id, l)
    <2>1. s.e \in LevelPoints(rows, n, l)
      <3>1. PICK k \in Ids(rows) : s.e = Item(rows, n, k)
        BY <1>1 DEF Points
      <3>2. s.e.id = k
        BY <3>1 DEF Item
      <3> QED BY <1>3, <3>1, <3>2, PointFacts
    <2>2. LinkLevel(rows, ins, n, l, s) = [g |-> [s.g EXCEPT ![n][l] = list], e |-> e]
      BY <1>3 DEF LinkLevel
    <2>3. near \subseteq LevelPoints(rows, n, l) /\ near # {}
      BY <1>1, <2>1, SearchFinds
    <2> HIDE DEF near
    <2>4. Candidates(rows, l, near)
      BY <2>3, PointFacts
    <2>5. list \in NeighborLists(rows, n, l)
      BY <2>4, SelectIsList
    <2>6. e \in near
      <3>1. \E x \in near : \A y \in near : y = x \/ FrontierLess(x, y)
        BY <2>3, <2>4, ClosestLink DEF Candidates
      <3> QED BY <3>1
    <2> HIDE DEF e, list
    <2>7. e \in Points(rows, n)
      <3>1. e \in LevelPoints(rows, n, l)
        BY <2>3, <2>6
      <3> QED BY <3>1 DEF LevelPoints, Points
    <2>8. IsBuildGraph(rows, [s.g EXCEPT ![n][l] = list])
      <3>1. PICK h : h = s.g
        OBVIOUS
      <3>2. IsBuildGraph(rows, h)
        BY <1>1, <3>1
      <3>3. IsBuildGraph(rows, [h EXCEPT ![n][l] = list])
        BY <2>5, <3>2, UpdateList
      <3> QED BY <3>1, <3>3
    <2> QED BY <2>2, <2>7, <2>8, GraphsAreASet DEF LinkStates
  <1> QED BY <1>2, <1>3

LEMMA LinkLevelsStay ==
    ASSUME NEW rows, BuildRows(rows), NEW ins, NEW n \in Ids(rows), NEW top \in 0 .. Level[n],
           NEW s \in LinkStates(rows, n)
    PROVE  LinkLevels(rows, ins, n, top, s) \in LinkStates(rows, n)
  <1> DEFINE N == top + 1
             Step(i, x) == LinkLevel(rows, ins, n, top - i + 1, x)
             Stage(i) == LinkStates(rows, n)
             first == s
             U == [i \in 0 .. N |-> Stage(i)]
             G == [i \in 1 .. N |-> [x \in Stage(i - 1) |-> Step(i, x)]]
             All == UNION {Stage(i) : i \in 0 .. N}
             Def(h) == [i \in 0 .. N |-> IF i = 0 THEN first ELSE Step(i, h[i - 1])]
             loop == CHOOSE h : h = Def(h)
  <1>1. N \in Nat /\ Level[n] \in Nat
    BY NodeFacts
  <1>2. first \in Stage(0)
    OBVIOUS
  <1>3. ASSUME NEW i \in 1 .. N, NEW x \in Stage(i - 1)
        PROVE  Step(i, x) \in Stage(i)
    <2>1. top - i + 1 \in 0 .. Level[n]
      BY <1>1
    <2> QED BY <2>1, LinkLevelStays
  <1>4. LinkLevels(rows, ins, n, top, s) = loop[N]
    <2> HIDE DEF Stage, U, G, All
    <2> QED BY DEF LinkLevels
  <1> HIDE DEF N
  <1>5. Stages(All, N, U, first, G)
    <2>1. /\ \A i \in 0 .. N : U[i] = Stage(i) /\ Stage(i) \subseteq All
          /\ \A i \in 1 .. N : i \in 0 .. N /\ i - 1 \in 0 .. N
          /\ \A i \in 1 .. N : G[i] = [x \in Stage(i - 1) |-> Step(i, x)]
      <3> HIDE DEF Stage, Step
      <3> QED BY <1>1
    <2> HIDE DEF Stage, Step, first, All, G
    <2>2. \A i \in 1 .. N : G[i] \in [U[i - 1] -> U[i]]
      <3>1. \A i \in 1 .. N : [x \in Stage(i - 1) |-> Step(i, x)] \in [Stage(i - 1) -> Stage(i)]
        BY <1>3
      <3> QED BY <2>1, <3>1
    <2>3. U \in [0 .. N -> SUBSET All]
      BY <2>1
    <2>4. first \in U[0]
      BY <1>1, <1>2, <2>1
    <2> QED BY <1>1, <2>2, <2>3, <2>4 DEF Stages
  <1>6. \A i \in 0 .. N : loop[i] \in Stage(i)
    <2> HIDE DEF Stage, Step, first, All, U, G
    <2>1. PICK h : Staged(N, U, first, G, h)
      BY ONLY <1>5, StagesExist
    <2>2. \A i \in 1 .. N : h[i - 1] \in Stage(i - 1) /\ h[i] = Step(i, h[i - 1])
      <3> TAKE i \in 1 .. N
      <3>1. i \in 0 .. N /\ i - 1 \in 0 .. N /\ U[i - 1] = Stage(i - 1)
        BY <1>1 DEF U
      <3>2. h[i - 1] \in Stage(i - 1)
        BY <2>1, <3>1 DEF Staged
      <3>3. G[i] = [x \in Stage(i - 1) |-> Step(i, x)]
        BY DEF G
      <3>4. h[i] = G[i][h[i - 1]]
        BY <2>1 DEF Staged
      <3> QED BY <3>2, <3>3, <3>4
    <2>3. h = Def(h)
      <3>1. \A i \in 0 .. N : h[i] = IF i = 0 THEN first ELSE Step(i, h[i - 1])
        <4> TAKE i \in 0 .. N
        <4>1. i # 0 => i \in 1 .. N
          BY <1>1
        <4> QED BY <2>1, <2>2, <4>1 DEF Staged
      <3> QED BY <2>1, <3>1 DEF Staged
    <2>4. loop = Def(loop)
      <3> HIDE DEF Def
      <3> QED BY <2>3
    <2> HIDE DEF loop
    <2>5. \A i \in 0 .. N : loop[i] = IF i = 0 THEN first ELSE Step(i, loop[i - 1])
      BY <2>4
    <2>6. loop[0] = first /\ \A i \in 1 .. N : loop[i] = Step(i, loop[i - 1])
      BY <1>1, <2>5
    <2> HIDE DEF Def
    <2>7. \A i \in 1 .. N : loop[i - 1] \in U[i - 1] => loop[i] \in U[i]
      <3> SUFFICES ASSUME NEW i \in 1 .. N, loop[i - 1] \in U[i - 1] PROVE loop[i] \in U[i]
        OBVIOUS
      <3>1. U[i - 1] = Stage(i - 1) /\ U[i] = Stage(i)
        BY <1>1 DEF U
      <3>2. loop[i - 1] \in Stage(i - 1)
        BY <3>1
      <3> QED BY <1>3, <2>6, <3>1, <3>2
    <2>8. loop[0] \in U[0]
      BY <1>1, <1>2, <2>6 DEF U
    <2>9. \A i \in 0 .. N : loop[i] \in U[i]
      BY <1>1, <2>7, <2>8, PlacesStay
    <2> QED BY <2>9 DEF U
  <1>7. loop[N] \in Stage(N)
    <2> HIDE DEF loop, Stage
    <2> QED BY <1>1, <1>6
  <1> QED BY <1>4, <1>7

\* Where a search may start: nowhere, or at a node with its level.
StartsAt(rows, entry) ==
    entry = NoEntry \/ (entry.id \in Ids(rows) /\ entry.level \in Nat)

\* Building the lists of a node keeps the graph.
LEMMA BuildLinksKeeps ==
    ASSUME NEW rows, BuildRows(rows), NEW b, IsBuildGraph(rows, b.g), StartsAt(rows, b.entry),
           NEW n \in Ids(rows)
    PROVE  IsBuildGraph(rows, BuildNodeLinks(rows, b, n))
  <1> DEFINE g0 == [b.g EXCEPT ![n] = [l \in 0 .. Level[n] |-> <<>>]]
             top == MinOf(Level[n], b.entry.level)
             s == [g |-> g0, e |-> Descend(rows, g0, b.ins, n, b.entry, Level[n])]
  <1>1. IsBuildGraph(rows, g0)
    <2>1. PICK h : h = b.g
      OBVIOUS
    <2>2. IsBuildGraph(rows, h)
      BY <2>1
    <2>3. IsBuildGraph(rows, [h EXCEPT ![n] = [l \in 0 .. Level[n] |-> <<>>]])
      BY <2>2, ClearNode
    <2> QED BY <2>1, <2>3
  <1> HIDE DEF g0
  <1>2. CASE b.entry = NoEntry
    BY <1>1, <1>2 DEF BuildNodeLinks, g0
  <1>3. CASE b.entry # NoEntry
    <2>1. b.entry.id \in Ids(rows) /\ b.entry.level \in Nat /\ Level[n] \in Nat
      BY <1>3, NodeFacts DEF StartsAt
    <2>2. top \in 0 .. Level[n]
      BY <2>1 DEF MinOf
    <2>3. Descend(rows, g0, b.ins, n, b.entry, Level[n]) \in Points(rows, n)
      BY <1>1, <2>1, DescendStays
    <2>4. s \in LinkStates(rows, n)
      <3>1. g0 \in GraphSet(rows)
        BY <1>1, GraphsAreASet
      <3> QED BY <2>3, <3>1 DEF LinkStates
    <2> HIDE DEF s, top
    <2>5. LinkLevels(rows, b.ins, n, top, s) \in LinkStates(rows, n)
      BY <2>2, <2>4, LinkLevelsStay
    <2>6. BuildNodeLinks(rows, b, n) = LinkLevels(rows, b.ins, n, top, s).g
      BY <1>3 DEF BuildNodeLinks, s, top, g0
    <2> QED BY <2>5, <2>6, GraphsAreASet DEF LinkStates
  <1> QED BY <1>2, <1>3

\* Adding the links back keeps the graph: on one level ...
LEMMA LevelBacklinksKeep ==
    ASSUME NEW rows, BuildRows(rows), NEW ins, NEW n, NEW shard, NEW shards, NEW l,
           NEW g, IsBuildGraph(rows, g), NEW list \in Seq(Link)
    PROVE  IsBuildGraph(rows, LevelBacklinks(rows, ins, n, shard, shards, l, g, list))
  <1> DEFINE Step(i, x) == AddBacklink(rows, ins, n, shard, shards, l, x, list[i])
             Stage(i) == GraphSet(rows)
             first == g
             U == [i \in 0 .. Len(list) |-> Stage(i)]
             G == [i \in 1 .. Len(list) |-> [x \in Stage(i - 1) |-> Step(i, x)]]
             All == UNION {Stage(i) : i \in 0 .. Len(list)}
             Def(h) == [i \in 0 .. Len(list) |-> IF i = 0 THEN first ELSE Step(i, h[i - 1])]
             loop == CHOOSE h : h = Def(h)
  <1>1. Len(list) \in Nat
    OBVIOUS
  <1>2. first \in Stage(0)
    BY GraphsAreASet
  <1>3. ASSUME NEW i \in 1 .. Len(list), NEW x \in Stage(i - 1)
        PROVE  Step(i, x) \in Stage(i)
    <2>1. IsBuildGraph(rows, x)
      BY GraphsAreASet
    <2>2. list[i] \in Link
      OBVIOUS
    <2>3. list[i].d \in Int
      BY <2>2 DEF Link
    <2>4. IsBuildGraph(rows, AddNeighbor(rows, x, list[i].id, n, l, list[i].d))
      BY <2>1, <2>3, AddNeighborKeeps
    <2> QED BY <2>1, <2>4, GraphsAreASet DEF AddBacklink
  <1>4. Stages(All, Len(list), U, first, G)
    <2>1. /\ \A i \in 0 .. Len(list) : U[i] = Stage(i) /\ Stage(i) \subseteq All
          /\ \A i \in 1 .. Len(list) : i \in 0 .. Len(list) /\ i - 1 \in 0 .. Len(list)
          /\ \A i \in 1 .. Len(list) : G[i] = [x \in Stage(i - 1) |-> Step(i, x)]
      <3> HIDE DEF Stage, Step
      <3> QED BY <1>1
    <2> HIDE DEF Stage, Step, first, All, G
    <2>2. \A i \in 1 .. Len(list) : G[i] \in [U[i - 1] -> U[i]]
      <3>1. \A i \in 1 .. Len(list) : [x \in Stage(i - 1) |-> Step(i, x)] \in [Stage(i - 1) -> Stage(i)]
        BY <1>3
      <3> QED BY <2>1, <3>1
    <2>3. U \in [0 .. Len(list) -> SUBSET All]
      BY <2>1
    <2>4. first \in U[0]
      BY <1>1, <1>2, <2>1
    <2> QED BY <1>1, <2>2, <2>3, <2>4 DEF Stages
  <1>5. \A i \in 0 .. Len(list) : loop[i] \in Stage(i)
    <2> HIDE DEF Stage, Step, first, All, U, G
    <2>1. PICK h : Staged(Len(list), U, first, G, h)
      BY ONLY <1>4, StagesExist
    <2>2. \A i \in 1 .. Len(list) : h[i - 1] \in Stage(i - 1) /\ h[i] = Step(i, h[i - 1])
      <3> TAKE i \in 1 .. Len(list)
      <3>1. i \in 0 .. Len(list) /\ i - 1 \in 0 .. Len(list) /\ U[i - 1] = Stage(i - 1)
        BY <1>1 DEF U
      <3>2. h[i - 1] \in Stage(i - 1)
        BY <2>1, <3>1 DEF Staged
      <3>3. G[i] = [x \in Stage(i - 1) |-> Step(i, x)]
        BY DEF G
      <3>4. h[i] = G[i][h[i - 1]]
        BY <2>1 DEF Staged
      <3> QED BY <3>2, <3>3, <3>4
    <2>3. h = Def(h)
      <3>1. \A i \in 0 .. Len(list) : h[i] = IF i = 0 THEN first ELSE Step(i, h[i - 1])
        <4> TAKE i \in 0 .. Len(list)
        <4>1. i # 0 => i \in 1 .. Len(list)
          BY <1>1
        <4> QED BY <2>1, <2>2, <4>1 DEF Staged
      <3> QED BY <2>1, <3>1 DEF Staged
    <2>4. loop = Def(loop)
      <3> HIDE DEF Def
      <3> QED BY <2>3
    <2> HIDE DEF loop
    <2>5. \A i \in 0 .. Len(list) : loop[i] = IF i = 0 THEN first ELSE Step(i, loop[i - 1])
      BY <2>4
    <2>6. loop[0] = first /\ \A i \in 1 .. Len(list) : loop[i] = Step(i, loop[i - 1])
      BY <1>1, <2>5
    <2> HIDE DEF Def
    <2>7. \A i \in 1 .. Len(list) : loop[i - 1] \in U[i - 1] => loop[i] \in U[i]
      <3> SUFFICES ASSUME NEW i \in 1 .. Len(list), loop[i - 1] \in U[i - 1] PROVE loop[i] \in U[i]
        OBVIOUS
      <3>1. U[i - 1] = Stage(i - 1) /\ U[i] = Stage(i)
        BY <1>1 DEF U
      <3>2. loop[i - 1] \in Stage(i - 1)
        BY <3>1
      <3> QED BY <1>3, <2>6, <3>1, <3>2
    <2>8. loop[0] \in U[0]
      BY <1>1, <1>2, <2>6 DEF U
    <2>9. \A i \in 0 .. Len(list) : loop[i] \in U[i]
      BY <1>1, <2>7, <2>8, PlacesStay
    <2> QED BY <2>9 DEF U
  <1>6. LevelBacklinks(rows, ins, n, shard, shards, l, g, list) = loop[Len(list)]
    <2> HIDE DEF Stage, U, G, All
    <2> QED BY DEF LevelBacklinks
  <1>7. loop[Len(list)] \in GraphSet(rows)
    <2> HIDE DEF loop
    <2> QED BY <1>1, <1>5
  <1> QED BY <1>6, <1>7, GraphsAreASet

\* ... and on all of them.
LEMMA BacklinksKeep ==
    ASSUME NEW rows, BuildRows(rows), NEW g, IsBuildGraph(rows, g), NEW ins,
           NEW n \in Ids(rows), NEW shard, NEW shards
    PROVE  IsBuildGraph(rows, ApplyNodeBacklinks(rows, g, ins, n, shard, shards))
  <1> DEFINE N == Level[n] + 1
             Step(i, x) == LevelBacklinks(rows, ins, n, shard, shards, i - 1, x, g[n][i - 1])
             Stage(i) == GraphSet(rows)
             first == g
             U == [i \in 0 .. N |-> Stage(i)]
             G == [i \in 1 .. N |-> [x \in Stage(i - 1) |-> Step(i, x)]]
             All == UNION {Stage(i) : i \in 0 .. N}
             Def(h) == [i \in 0 .. N |-> IF i = 0 THEN first ELSE Step(i, h[i - 1])]
             loop == CHOOSE h : h = Def(h)
  <1>1. N \in Nat /\ Level[n] \in Nat
    BY NodeFacts
  <1>2. first \in Stage(0)
    BY GraphsAreASet
  <1>3. ASSUME NEW i \in 1 .. N, NEW x \in Stage(i - 1)
        PROVE  Step(i, x) \in Stage(i)
    <2>1. IsBuildGraph(rows, x)
      BY GraphsAreASet
    <2>2. i - 1 \in 0 .. Level[n]
      BY <1>1
    <2>3. g[n][i - 1] \in Seq(Link)
      BY <2>2 DEF IsBuildGraph, NeighborLists
    <2>4. IsBuildGraph(rows, LevelBacklinks(rows, ins, n, shard, shards, i - 1, x, g[n][i - 1]))
      BY <2>1, <2>3, LevelBacklinksKeep
    <2> QED BY <2>4, GraphsAreASet
  <1>4. ApplyNodeBacklinks(rows, g, ins, n, shard, shards) = loop[N]
    <2> HIDE DEF Stage, U, G, All
    <2> QED BY DEF ApplyNodeBacklinks
  <1> HIDE DEF N
  <1>5. Stages(All, N, U, first, G)
    <2>1. /\ \A i \in 0 .. N : U[i] = Stage(i) /\ Stage(i) \subseteq All
          /\ \A i \in 1 .. N : i \in 0 .. N /\ i - 1 \in 0 .. N
          /\ \A i \in 1 .. N : G[i] = [x \in Stage(i - 1) |-> Step(i, x)]
      <3> HIDE DEF Stage, Step
      <3> QED BY <1>1
    <2> HIDE DEF Stage, Step, first, All, G
    <2>2. \A i \in 1 .. N : G[i] \in [U[i - 1] -> U[i]]
      <3>1. \A i \in 1 .. N : [x \in Stage(i - 1) |-> Step(i, x)] \in [Stage(i - 1) -> Stage(i)]
        BY <1>3
      <3> QED BY <2>1, <3>1
    <2>3. U \in [0 .. N -> SUBSET All]
      BY <2>1
    <2>4. first \in U[0]
      BY <1>1, <1>2, <2>1
    <2> QED BY <1>1, <2>2, <2>3, <2>4 DEF Stages
  <1>6. \A i \in 0 .. N : loop[i] \in Stage(i)
    <2> HIDE DEF Stage, Step, first, All, U, G
    <2>1. PICK h : Staged(N, U, first, G, h)
      BY ONLY <1>5, StagesExist
    <2>2. \A i \in 1 .. N : h[i - 1] \in Stage(i - 1) /\ h[i] = Step(i, h[i - 1])
      <3> TAKE i \in 1 .. N
      <3>1. i \in 0 .. N /\ i - 1 \in 0 .. N /\ U[i - 1] = Stage(i - 1)
        BY <1>1 DEF U
      <3>2. h[i - 1] \in Stage(i - 1)
        BY <2>1, <3>1 DEF Staged
      <3>3. G[i] = [x \in Stage(i - 1) |-> Step(i, x)]
        BY DEF G
      <3>4. h[i] = G[i][h[i - 1]]
        BY <2>1 DEF Staged
      <3> QED BY <3>2, <3>3, <3>4
    <2>3. h = Def(h)
      <3>1. \A i \in 0 .. N : h[i] = IF i = 0 THEN first ELSE Step(i, h[i - 1])
        <4> TAKE i \in 0 .. N
        <4>1. i # 0 => i \in 1 .. N
          BY <1>1
        <4> QED BY <2>1, <2>2, <4>1 DEF Staged
      <3> QED BY <2>1, <3>1 DEF Staged
    <2>4. loop = Def(loop)
      <3> HIDE DEF Def
      <3> QED BY <2>3
    <2> HIDE DEF loop
    <2>5. \A i \in 0 .. N : loop[i] = IF i = 0 THEN first ELSE Step(i, loop[i - 1])
      BY <2>4
    <2>6. loop[0] = first /\ \A i \in 1 .. N : loop[i] = Step(i, loop[i - 1])
      BY <1>1, <2>5
    <2> HIDE DEF Def
    <2>7. \A i \in 1 .. N : loop[i - 1] \in U[i - 1] => loop[i] \in U[i]
      <3> SUFFICES ASSUME NEW i \in 1 .. N, loop[i - 1] \in U[i - 1] PROVE loop[i] \in U[i]
        OBVIOUS
      <3>1. U[i - 1] = Stage(i - 1) /\ U[i] = Stage(i)
        BY <1>1 DEF U
      <3>2. loop[i - 1] \in Stage(i - 1)
        BY <3>1
      <3> QED BY <1>3, <2>6, <3>1, <3>2
    <2>8. loop[0] \in U[0]
      BY <1>1, <1>2, <2>6 DEF U
    <2>9. \A i \in 0 .. N : loop[i] \in U[i]
      BY <1>1, <2>7, <2>8, PlacesStay
    <2> QED BY <2>9 DEF U
  <1>7. loop[N] \in GraphSet(rows)
    <2> HIDE DEF loop
    <2> QED BY <1>1, <1>6
  <1> QED BY <1>4, <1>7, GraphsAreASet


LEMMA EntryStarts ==
    ASSUME NEW rows, BuildRows(rows), NEW S \in SUBSET Ids(rows), NEW entry, IsEntryOf(S, entry)
    PROVE  /\ StartsAt(rows, entry)
           /\ entry.level \in Int
           /\ entry = [id |-> entry.id, level |-> entry.level]
  <1>1. CASE S = {}
    BY <1>1 DEF IsEntryOf, StartsAt, NoEntry
  <1>2. CASE S # {}
    <2>1. entry.id \in S /\ entry = [id |-> entry.id, level |-> Level[entry.id]]
      BY <1>2 DEF IsEntryOf
    <2>2. entry.level = Level[entry.id] /\ entry.id \in Ids(rows)
      BY <2>1
    <2>3. entry.level \in Nat
      BY <2>2, NodeFacts
    <2> QED BY <2>1, <2>2, <2>3 DEF StartsAt
  <1> QED BY <1>1, <1>2

\* The entry is exchanged only for a node of a higher level.
LEMMA PublishKeeps ==
    ASSUME NEW rows, BuildRows(rows), NEW b, Building(rows, b), NEW n \in Ids(rows)
    PROVE  Building(rows, PublishNode(b, n)) /\ PublishNode(b, n).ins = b.ins \cup {n}
           /\ PublishNode(b, n).g = b.g
  <1> DEFINE c == PublishNode(b, n)
             e == IF Level[n] > b.entry.level THEN [id |-> n, level |-> Level[n]] ELSE b.entry
  <1>1. c = [g |-> b.g, ins |-> b.ins \cup {n}, entry |-> e]
    <2>1. c = [b EXCEPT !.ins = b.ins \cup {n}, !.entry = e]
      BY DEF PublishNode
    <2>2. b = [g |-> b.g, ins |-> b.ins, entry |-> b.entry]
      BY DEF Building
    <2> HIDE DEF c, e
    <2>3. PICK x, y, z : x = b.g /\ y = b.ins /\ z = b.entry
      OBVIOUS
    <2>4. b = [g |-> x, ins |-> y, entry |-> z]
      BY <2>2, <2>3
    <2>5. c = [[g |-> x, ins |-> y, entry |-> z] EXCEPT !.ins = y \cup {n}, !.entry = e]
      BY <2>1, <2>3, <2>4
    <2>6. c = [g |-> x, ins |-> y \cup {n}, entry |-> e]
      BY ONLY <2>5
    <2> QED BY <2>3, <2>6
  <1>2. /\ \A k \in Ids(rows) : Level[k] \in Nat
        /\ b.ins \subseteq Ids(rows) /\ IsEntryOf(b.ins, b.entry) /\ b.entry.level \in Int
    BY NodeFacts, EntryStarts DEF Building
  <1>3. IsEntryOf(b.ins \cup {n}, e)
    <2>1. CASE b.ins = {}
      <3>1. b.entry.level = -1
        BY <1>2, <2>1 DEF IsEntryOf, NoEntry
      <3>2. e = [id |-> n, level |-> Level[n]]
        BY <1>2, <3>1
      <3> QED BY <1>2, <2>1, <3>2 DEF IsEntryOf
    <2>2. CASE b.ins # {} /\ Level[n] > b.entry.level
      <3>1. e = [id |-> n, level |-> Level[n]]
        BY <2>2
      <3>2. \A k \in b.ins : Level[k] <= b.entry.level
        BY <1>2, <2>2 DEF IsEntryOf
      <3>3. \A k \in b.ins \cup {n} : Level[k] <= Level[n]
        BY <1>2, <2>2, <3>2
      <3> QED BY <3>1, <3>3 DEF IsEntryOf
    <2>3. CASE b.ins # {} /\ ~(Level[n] > b.entry.level)
      <3>1. e = b.entry
        BY <2>3
      <3>2. /\ b.entry.id \in b.ins /\ b.entry = [id |-> b.entry.id, level |-> Level[b.entry.id]]
            /\ \A k \in b.ins : Level[k] <= b.entry.level
        BY <1>2, <2>3 DEF IsEntryOf
      <3>3. Level[n] <= b.entry.level
        BY <1>2, <2>3
      <3> QED BY <3>1, <3>2, <3>3 DEF IsEntryOf
    <2> QED BY <2>1, <2>2, <2>3
  <1> HIDE DEF c, e
  <1>4. c.g = b.g /\ c.ins = b.ins \cup {n} /\ c.entry = e
    BY <1>1
  <1>5. Building(rows, c)
    BY <1>1, <1>2, <1>3, <1>4 DEF Building
  <1> QED BY <1>4, <1>5 DEF c

\* A node is inserted.
LEMMA InsertKeeps ==
    ASSUME NEW rows, BuildRows(rows), NEW b, Building(rows, b), NEW n \in Ids(rows)
    PROVE  Building(rows, InsertNode(rows, b, n)) /\ InsertNode(rows, b, n).ins = b.ins \cup {n}
  <1> DEFINE g1 == BuildNodeLinks(rows, b, n)
             g2 == ApplyNodeBacklinks(rows, g1, b.ins, n, 0, 1)
             c == [g |-> g2, ins |-> b.ins, entry |-> b.entry]
  <1>1. b = [g |-> b.g, ins |-> b.ins, entry |-> b.entry] /\ IsBuildGraph(rows, b.g)
        /\ StartsAt(rows, b.entry) /\ b.ins \subseteq Ids(rows) /\ IsEntryOf(b.ins, b.entry)
    BY EntryStarts DEF Building
  <1>2. IsBuildGraph(rows, g1)
    BY <1>1, BuildLinksKeeps
  <1> HIDE DEF g1
  <1>3. IsBuildGraph(rows, g2)
    BY <1>2, BacklinksKeep
  <1> HIDE DEF g2
  <1>4. InsertNode(rows, b, n) = PublishNode(c, n)
    <2>1. [b EXCEPT !.g = g1] = [g |-> g1, ins |-> b.ins, entry |-> b.entry]
      BY <1>1
    <2>2. InsertNode(rows, b, n)
            = PublishNode([[b EXCEPT !.g = g1] EXCEPT !.g = ApplyNodeBacklinks(rows, @, b.ins, n, 0, 1)], n)
      BY DEF InsertNode, g1
    <2>3. PICK r : r = [b EXCEPT !.g = g1]
      OBVIOUS
    <2>4. r = [g |-> g1, ins |-> b.ins, entry |-> b.entry]
      BY <2>1, <2>3
    <2>5. [r EXCEPT !.g = ApplyNodeBacklinks(rows, @, b.ins, n, 0, 1)]
            = [g |-> ApplyNodeBacklinks(rows, r.g, b.ins, n, 0, 1), ins |-> b.ins, entry |-> b.entry]
      BY <2>4
    <2>6. r.g = g1
      BY <2>4
    <2>7. [r EXCEPT !.g = ApplyNodeBacklinks(rows, @, b.ins, n, 0, 1)] = c
      BY <2>5, <2>6 DEF g2
    <2> QED BY <2>2, <2>3, <2>7
  <1>5. c.g = g2 /\ c.ins = b.ins /\ c.entry = b.entry /\ Building(rows, c)
    BY <1>1, <1>3 DEF Building
  <1> HIDE DEF c
  <1> QED BY <1>4, <1>5, PublishKeeps

(***************************************************************************)
(* The serial builder.                                                     *)
(***************************************************************************)

\* The hash order lists the nodes of a range once each.
LEMMA BuildOrderLists ==
    ASSUME NEW rows, BuildRows(rows), NEW S \in SUBSET Ids(rows)
    PROVE  /\ Cardinality(S) \in Nat /\ BuildOrder(S) \in [1 .. Cardinality(S) -> S]
           /\ \A x \in S : \E i \in 1 .. Cardinality(S) : BuildOrder(S)[i] = x
  <1> DEFINE L == {xy \in S \X S : Key[xy[1]] < Key[xy[2]]
                                    \/ (Key[xy[1]] = Key[xy[2]] /\ xy[1] < xy[2])}
             s == BuildOrder(S)
  <1>1. IsFiniteSet(S) /\ \A x \in S : Key[x] \in Nat /\ x \in Nat
    BY NodeFacts, FS_Subset
  <1>2. \A x, y \in S : <<x, y>> \in L <=> Key[x] < Key[y] \/ (Key[x] = Key[y] /\ x < y)
    OBVIOUS
  <1>3. \A x \in S : {y \in S : <<y, x>> \in L}
                       = {y \in S : Key[y] < Key[x] \/ (Key[y] = Key[x] /\ y < x)}
    BY <1>2
  <1>4. s = RankList(S, L)
    <2>1. s = [i \in 1 .. Cardinality(S) |->
                 CHOOSE x \in S : Cardinality({y \in S : Key[y] < Key[x]
                                                  \/ (Key[y] = Key[x] /\ y < x)}) = i - 1]
      BY DEF BuildOrder, Sorted
    <2>2. \A i \in 1 .. Cardinality(S) :
             (CHOOSE x \in S : Cardinality({y \in S : Key[y] < Key[x]
                                                  \/ (Key[y] = Key[x] /\ y < x)}) = i - 1)
              = (CHOOSE x \in S : Cardinality({y \in S : <<y, x>> \in L}) = i - 1)
      <3> HIDE DEF L
      <3> QED BY <1>3, Zenon
    <2> HIDE DEF L
    <2> QED BY <2>1, <2>2, Zenon DEF RankList
  <1> HIDE DEF L, s
  <1>5. StrictOrder(S, L)
    <2>1. \A x \in S : <<x, x>> \notin L
      BY <1>1, <1>2
    <2>2. \A x, y, z \in S : <<x, y>> \in L /\ <<y, z>> \in L => <<x, z>> \in L
      BY <1>1, <1>2
    <2>3. \A x, y \in S : x = y \/ <<x, y>> \in L \/ <<y, x>> \in L
      <3> TAKE x, y \in S
      <3>1. x = y \/ x < y \/ y < x
        BY <1>1
      <3>2. Key[x] < Key[y] \/ Key[x] = Key[y] \/ Key[y] < Key[x]
        BY <1>1
      <3> QED BY <1>2, <3>1, <3>2
    <2> QED BY <2>1, <2>2, <2>3 DEF StrictOrder
  <1>6. /\ Cardinality(S) \in Nat /\ RankList(S, L) \in [1 .. Cardinality(S) -> S]
        /\ \A x \in S : \E i \in 1 .. Cardinality(S) : RankList(S, L)[i] = x
    BY ONLY <1>1, <1>5, OrderedList
  <1> QED BY <1>4, <1>6 DEF s

\* Linking a duplicate to its predecessor keeps the graph.
LEMMA AdjacentKeeps ==
    ASSUME NEW rows, BuildRows(rows), NEW b, Building(rows, b),
           NEW n \in Ids(rows), n - 1 \in Ids(rows)
    PROVE  Building(rows, LinkAdjacent(rows, b, n)) /\ LinkAdjacent(rows, b, n).ins = b.ins
  <1> DEFINE list == <<Item(rows, n, n - 1)>>
             h == [b.g EXCEPT ![n][0] = list]
             g == AddNeighborIfRoom(rows, h, n - 1, n, 0)
             c == LinkAdjacent(rows, b, n)
  <1>1. n \in Nat /\ n - 1 \in Nat /\ n # n - 1 /\ 0 \in 0 .. Level[n] /\ HasLevel(rows, n - 1, 0)
        /\ Dist(rows, n, n - 1) \in Int
    BY NodeFacts DEF HasLevel
  <1>2. list \in NeighborLists(rows, n, 0)
    <2> DEFINE it == Item(rows, n, n - 1)
    <2>1. it \in Link /\ it.id = n - 1
      BY <1>1 DEF Item, Link
    <2> HIDE DEF it
    <2>2. <<it>> \in Seq(Link) /\ Len(<<it>>) = 1 /\ DOMAIN <<it>> = {1} /\ <<it>>[1] = it
      BY <2>1
    <2>3. 1 <= LevelM(0)
      BY ListSizes
    <2>4. <<it>> \in NeighborLists(rows, n, 0)
      BY <1>1, <2>1, <2>2, <2>3 DEF NeighborLists
    <2> QED BY <2>4 DEF it
  <1> HIDE DEF list
  <1>3. IsBuildGraph(rows, h)
    <2>1. PICK x : x = b.g
      OBVIOUS
    <2>2. IsBuildGraph(rows, x)
      BY <2>1 DEF Building
    <2>3. IsBuildGraph(rows, [x EXCEPT ![n][0] = list])
      BY <1>1, <1>2, <2>2, UpdateList
    <2> QED BY <2>1, <2>3
  <1>4. c = [b EXCEPT !.g = AddNeighborIfRoom(rows, [@ EXCEPT ![n][0] = list], n - 1, n, 0)]
    BY DEF LinkAdjacent, list
  <1>5. c = [g |-> g, ins |-> b.ins, entry |-> b.entry]
    <2> HIDE DEF c
    <2>1. PICK x, y, z : x = b.g /\ y = b.ins /\ z = b.entry
      OBVIOUS
    <2>2. b = [g |-> x, ins |-> y, entry |-> z]
      BY <2>1 DEF Building
    <2>3. PICK f : f = AddNeighborIfRoom(rows, [x EXCEPT ![n][0] = list], n - 1, n, 0)
      OBVIOUS
    <2>4. c = [[g |-> x, ins |-> y, entry |-> z] EXCEPT !.g = f]
      BY <1>4, <2>1, <2>2, <2>3
    <2>5. c = [g |-> f, ins |-> y, entry |-> z]
      BY ONLY <2>4
    <2> QED BY <2>1, <2>3, <2>5
  <1> HIDE DEF h
  <1>6. IsBuildGraph(rows, g)
    BY <1>3, AddIfRoomKeeps
  <1> HIDE DEF g, c
  <1>7. c.g = g /\ c.ins = b.ins /\ c.entry = b.entry
    BY <1>5
  <1>8. Building(rows, c)
    BY <1>5, <1>6, <1>7 DEF Building
  <1> QED BY <1>7, <1>8 DEF c

\* Inserting a node of a range.
LEMMA InsertInRangeKeeps ==
    ASSUME NEW rows, BuildRows(rows), NEW lo \in Nat, NEW runs, NEW b, Building(rows, b),
           NEW n \in Ids(rows)
    PROVE  LET c == InsertInRange(rows, lo, runs, b, n)
           IN  Building(rows, c) /\ c.ins = b.ins \cup {n}
  <1>1. CASE runs /\ n > lo /\ (n - 1) \in b.ins
    <2> DEFINE c == LinkAdjacent(rows, b, n)
    <2>1. n - 1 \in Ids(rows)
      BY <1>1 DEF Building
    <2>2. Building(rows, c) /\ c.ins = b.ins
      BY <2>1, AdjacentKeeps
    <2> HIDE DEF c
    <2>3. Building(rows, PublishNode(c, n)) /\ PublishNode(c, n).ins = b.ins \cup {n}
      BY <2>2, PublishKeeps
    <2> QED BY <1>1, <2>3 DEF InsertInRange, c
  <1>2. CASE ~(runs /\ n > lo /\ (n - 1) \in b.ins)
    <2>1. InsertInRange(rows, lo, runs, b, n) = InsertNode(rows, b, n)
      BY <1>2 DEF InsertInRange
    <2> QED BY <2>1, InsertKeeps
  <1> QED BY <1>1, <1>2

EntrySet(rows) == {NoEntry} \cup {[id |-> k, level |-> Level[k]] : k \in Ids(rows)}
BuildSet(rows) ==
    {b \in [g : GraphSet(rows), ins : SUBSET Ids(rows), entry : EntrySet(rows)] :
        IsEntryOf(b.ins, b.entry)}

LEMMA EntriesAreASet ==
    ASSUME NEW rows, NEW S \in SUBSET Ids(rows), NEW entry, IsEntryOf(S, entry)
    PROVE  entry \in EntrySet(rows)
  BY DEF IsEntryOf, EntrySet

\* The graphs under construction as a set.
LEMMA BuildingsAreASet ==
    ASSUME NEW rows, NEW b
    PROVE  b \in BuildSet(rows) <=> Building(rows, b)
  <1>1. ASSUME Building(rows, b) PROVE b \in BuildSet(rows)
    <2>1. b.g \in GraphSet(rows) /\ b.ins \in SUBSET Ids(rows) /\ b.entry \in EntrySet(rows)
      BY <1>1, GraphsAreASet, EntriesAreASet DEF Building
    <2> QED BY <1>1, <2>1 DEF Building, BuildSet
  <1>2. ASSUME b \in BuildSet(rows) PROVE Building(rows, b)
    <2>1. b.g \in GraphSet(rows) /\ b.ins \subseteq Ids(rows) /\ IsEntryOf(b.ins, b.entry)
          /\ b = [g |-> b.g, ins |-> b.ins, entry |-> b.entry]
      BY <1>2 DEF BuildSet
    <2> QED BY <2>1, GraphsAreASet DEF Building
  <1> QED BY <1>1, <1>2

\* A range of nodes is built: its nodes are inserted and the lists kept.
LEMMA RangeIsBuilt ==
    ASSUME NEW rows, BuildRows(rows), NEW g, IsBuildGraph(rows, g),
           NEW lo \in Nat, NEW hi \in Nat, lo < hi, hi <= Len(rows)
    PROVE  LET b == BuildEdgesRange(rows, g, lo, hi)
           IN  Building(rows, b) /\ b.ins = lo .. hi - 1
  <1> DEFINE runs == AdjacentDuplicates(rows, lo, hi) > (hi - lo) \div 2
             order == IF runs THEN [i \in 1 .. hi - lo |-> lo + i - 1]
                      ELSE BuildOrder(lo .. hi - 1)
             N == hi - lo - 1
             empty == [g |-> g, ins |-> {}, entry |-> NoEntry]
             Step(i, x) == InsertInRange(rows, lo, runs, x, order[i + 1])
             Stage(i) == {x \in BuildSet(rows) : x.ins = {order[j] : j \in 1 .. i + 1}}
             first == PublishNode(empty, order[1])
             U == [i \in 0 .. N |-> Stage(i)]
             G == [i \in 1 .. N |-> [x \in Stage(i - 1) |-> Step(i, x)]]
             All == UNION {Stage(i) : i \in 0 .. N}
             Def(h) == [i \in 0 .. N |-> IF i = 0 THEN first ELSE Step(i, h[i - 1])]
             loop == CHOOSE h : h = Def(h)
  <1>1. N \in Nat /\ hi - lo \in Nat /\ N + 1 = hi - lo /\ \A i \in 0 .. N : i + 1 \in 1 .. hi - lo
    OBVIOUS
  <1>2. lo .. hi - 1 \subseteq Ids(rows)
    BY NodeFacts
  <1>3. /\ order \in [1 .. hi - lo -> lo .. hi - 1]
        /\ \A x \in lo .. hi - 1 : \E i \in 1 .. hi - lo : order[i] = x
    <2>1. CASE runs
      <3>1. order = [i \in 1 .. hi - lo |-> lo + i - 1]
        BY <2>1
      <3> HIDE DEF order
      <3>2. \A x \in lo .. hi - 1 : x - lo + 1 \in 1 .. hi - lo /\ order[x - lo + 1] = x
        BY <3>1
      <3> QED BY <3>1, <3>2
    <2>2. CASE ~runs
      <3> DEFINE S == lo .. hi - 1
                 s == BuildOrder(S)
      <3>1. order = s
        BY <2>2
      <3>2. /\ Cardinality(S) \in Nat /\ s \in [1 .. Cardinality(S) -> S]
            /\ \A x \in S : \E i \in 1 .. Cardinality(S) : s[i] = x
        <4> HIDE DEF S
        <4>1. S \in SUBSET Ids(rows)
          BY <1>2 DEF S
        <4> QED BY <4>1, BuildOrderLists
      <3>3. Cardinality(S) = hi - lo
        <4> DEFINE m == hi - 1
        <4>1. m \in Int /\ lo \in Int
          OBVIOUS
        <4>2. Cardinality(lo .. m) = IF lo > m THEN 0 ELSE m - lo + 1
          <5> HIDE DEF m
          <5> QED BY <4>1, FS_Interval
        <4> QED BY <4>2
      <3> HIDE DEF order, s
      <3>4. order \in [1 .. hi - lo -> S] /\ \A x \in S : \E i \in 1 .. hi - lo : order[i] = x
        BY <3>1, <3>2, <3>3
      <3> QED BY <3>4
    <2> QED BY <2>1, <2>2
  <1>4. BuildEdgesRange(rows, g, lo, hi) = loop[N]
    <2> HIDE DEF Stage, U, G, All
    <2> QED BY DEF BuildEdgesRange
  <1> HIDE DEF order, runs
  <1>5. \A i \in 1 .. hi - lo : order[i] \in Ids(rows)
    BY <1>2, <1>3
  <1>6. first \in Stage(0)
    <2>1. Building(rows, empty) /\ empty.ins = {}
      BY DEF Building, IsEntryOf
    <2> HIDE DEF empty
    <2>2. order[1] \in Ids(rows)
      BY <1>1, <1>5
    <2>3. Building(rows, first) /\ first.ins = {order[1]}
      BY <2>1, <2>2, PublishKeeps
    <2> HIDE DEF first
    <2>4. {order[j] : j \in 1 .. 0 + 1} = {order[1]}
      OBVIOUS
    <2> QED BY <2>3, <2>4, BuildingsAreASet
  <1>7. ASSUME NEW i \in 1 .. N, NEW x \in Stage(i - 1)
        PROVE  Step(i, x) \in Stage(i)
    <2> DEFINE c == InsertInRange(rows, lo, runs, x, order[i + 1])
    <2>1. Building(rows, x) /\ x.ins = {order[j] : j \in 1 .. i - 1 + 1}
      BY BuildingsAreASet
    <2>2. order[i + 1] \in Ids(rows)
      BY <1>1, <1>5
    <2>3. Building(rows, c) /\ c.ins = x.ins \cup {order[i + 1]}
      <3>1. PICK m : m = order[i + 1]
        OBVIOUS
      <3>2. PICK r : r = runs
        OBVIOUS
      <3>3. BuildRows(rows) /\ lo \in Nat /\ m \in Ids(rows) /\ Building(rows, x)
        BY <2>1, <2>2, <3>1
      <3>4. /\ Building(rows, InsertInRange(rows, lo, r, x, m))
            /\ InsertInRange(rows, lo, r, x, m).ins = x.ins \cup {m}
        BY ONLY <3>3, InsertInRangeKeeps
      <3> QED BY <3>1, <3>2, <3>4
    <2> HIDE DEF c, Stage
    <2>4. {order[j] : j \in 1 .. i - 1 + 1} \cup {order[i + 1]} = {order[j] : j \in 1 .. i + 1}
      <3>1. 1 .. i + 1 = (1 .. i - 1 + 1) \cup {i + 1}
        BY <1>1
      <3> QED BY <3>1
    <2>5. c \in BuildSet(rows) /\ c.ins = {order[j] : j \in 1 .. i + 1}
      BY <2>1, <2>3, <2>4, BuildingsAreASet
    <2> QED BY <2>5 DEF Stage, c
  <1> HIDE DEF N, empty
  <1>8. Stages(All, N, U, first, G)
    <2>1. /\ \A i \in 0 .. N : U[i] = Stage(i) /\ Stage(i) \subseteq All
          /\ \A i \in 1 .. N : i \in 0 .. N /\ i - 1 \in 0 .. N
          /\ \A i \in 1 .. N : G[i] = [x \in Stage(i - 1) |-> Step(i, x)]
      <3> HIDE DEF Stage, Step
      <3> QED BY <1>1
    <2> HIDE DEF Stage, Step, first, All, G
    <2>2. \A i \in 1 .. N : G[i] \in [U[i - 1] -> U[i]]
      <3>1. \A i \in 1 .. N : [x \in Stage(i - 1) |-> Step(i, x)] \in [Stage(i - 1) -> Stage(i)]
        BY <1>7
      <3> QED BY <2>1, <3>1
    <2>3. U \in [0 .. N -> SUBSET All]
      BY <2>1
    <2>4. first \in U[0]
      BY <1>1, <1>6, <2>1
    <2> QED BY <1>1, <2>2, <2>3, <2>4 DEF Stages
  <1>9. \A i \in 0 .. N : loop[i] \in Stage(i)
    <2> HIDE DEF Stage, Step, first, All, U, G
    <2>1. PICK h : Staged(N, U, first, G, h)
      BY ONLY <1>8, StagesExist
    <2>2. \A i \in 1 .. N : h[i - 1] \in Stage(i - 1) /\ h[i] = Step(i, h[i - 1])
      <3> TAKE i \in 1 .. N
      <3>1. i \in 0 .. N /\ i - 1 \in 0 .. N /\ U[i - 1] = Stage(i - 1)
        BY <1>1 DEF U
      <3>2. h[i - 1] \in Stage(i - 1)
        BY <2>1, <3>1 DEF Staged
      <3>3. G[i] = [x \in Stage(i - 1) |-> Step(i, x)]
        BY DEF G
      <3>4. h[i] = G[i][h[i - 1]]
        BY <2>1 DEF Staged
      <3> QED BY <3>2, <3>3, <3>4
    <2>3. h = Def(h)
      <3>1. \A i \in 0 .. N : h[i] = IF i = 0 THEN first ELSE Step(i, h[i - 1])
        <4> TAKE i \in 0 .. N
        <4>1. i # 0 => i \in 1 .. N
          BY <1>1
        <4> QED BY <2>1, <2>2, <4>1 DEF Staged
      <3> QED BY <2>1, <3>1 DEF Staged
    <2>4. loop = Def(loop)
      <3> HIDE DEF Def
      <3> QED BY <2>3
    <2> HIDE DEF loop
    <2>5. \A i \in 0 .. N : loop[i] = IF i = 0 THEN first ELSE Step(i, loop[i - 1])
      BY <2>4
    <2>6. loop[0] = first /\ \A i \in 1 .. N : loop[i] = Step(i, loop[i - 1])
      BY <1>1, <2>5
    <2> HIDE DEF Def
    <2>7. \A i \in 1 .. N : loop[i - 1] \in U[i - 1] => loop[i] \in U[i]
      <3> SUFFICES ASSUME NEW i \in 1 .. N, loop[i - 1] \in U[i - 1] PROVE loop[i] \in U[i]
        OBVIOUS
      <3>1. U[i - 1] = Stage(i - 1) /\ U[i] = Stage(i)
        BY <1>1 DEF U
      <3>2. loop[i - 1] \in Stage(i - 1)
        BY <3>1
      <3> QED BY <1>7, <2>6, <3>1, <3>2
    <2>8. loop[0] \in U[0]
      BY <1>1, <1>6, <2>6 DEF U
    <2>9. \A i \in 0 .. N : loop[i] \in U[i]
      BY <1>1, <2>7, <2>8, PlacesStay
    <2> QED BY <2>9 DEF U
  <1>10. loop[N] \in BuildSet(rows) /\ loop[N].ins = {order[j] : j \in 1 .. N + 1}
    <2> HIDE DEF loop
    <2> QED BY <1>1, <1>9
  <1>11. {order[j] : j \in 1 .. N + 1} = lo .. hi - 1
    BY <1>1, <1>3
  <1> HIDE DEF loop
  <1> QED BY <1>4, <1>10, <1>11, BuildingsAreASet

\* The segments follow each other, none of them empty, and cover the nodes.
LEMMA SegmentsCover ==
    ASSUME NEW rows, BuildRows(rows), rows # <<>>
    PROVE  /\ SegmentCount(rows) \in 1 .. Len(rows)
           /\ SegmentStart(rows, 0) = 0 /\ SegmentStart(rows, SegmentCount(rows)) = Len(rows)
           /\ \A k \in 0 .. SegmentCount(rows) : SegmentStart(rows, k) \in Nat
           /\ \A k \in 0 .. SegmentCount(rows) - 1 :
                 /\ SegmentStart(rows, k) < SegmentStart(rows, k + 1)
                 /\ SegmentStart(rows, k + 1) <= Len(rows)
  <1> DEFINE N == Len(rows)
             c == SegmentCount(rows)
             w == N \div c
             r == N % c
  <1>1. N \in Nat /\ N >= 1
    <2>1. rows \in Seq(Rows \cup {0})
      BY DEF BuildRows
    <2> QED BY <2>1
  <1>2. c \in 1 .. N
    <2>1. Segments \in Nat
      BY BuildGraphAssumption
    <2> QED BY <1>1, <2>1 DEF SegmentCount, MaxOf, MinOf
  <1>3. \A k : SegmentStart(rows, k) = k * w + MinOf(k, r)
    BY DEF SegmentStart
  <1> HIDE DEF N, c
  <1>4. w \in Nat /\ w >= 1 /\ r \in 0 .. c - 1
    BY <1>1, <1>2
  <1>5. r = N - c * w
    BY <1>1, <1>2
  <1> HIDE DEF w, r
  <1>6. c \in Nat /\ c * w \in Nat /\ N = c * w + r
    <2>1. c * w \in Int /\ c * w >= 0 /\ c \in Nat
      BY <1>2, <1>4
    <2>2. PICK p \in Nat : p = c * w
      BY <2>1
    <2> QED BY <1>1, <1>4, <1>5, <2>1, <2>2
  <1>7. \A k \in Nat : k <= c => k * w \in Nat
    BY <1>4
  <1>8. \A k \in Nat : k < c => (k + 1) * w = k * w + w /\ (k + 1) * w <= c * w
    <2> SUFFICES ASSUME NEW k \in Nat, k < c PROVE (k + 1) * w = k * w + w /\ (k + 1) * w <= c * w
      OBVIOUS
    <2>1. (k + 1) * w = k * w + w
      BY <1>4
    <2>2. (k + 1) * w <= c * w
      BY <1>4, <1>6
    <2> QED BY <2>1, <2>2
  <1>9. SegmentStart(rows, 0) = 0
    <2>1. 0 * w = 0
      BY <1>4
    <2> QED BY <1>3, <1>4, <2>1 DEF MinOf
  <1>10. SegmentStart(rows, c) = N
    BY <1>3, <1>4, <1>6 DEF MinOf
  <1>11. \A k \in 0 .. c : SegmentStart(rows, k) \in Nat
    <2> TAKE k \in 0 .. c
    <2>1. k * w \in Nat /\ MinOf(k, r) \in Nat
      BY <1>4, <1>6, <1>7 DEF MinOf
    <2> QED BY <1>3, <2>1
  <1>12. \A k \in 0 .. c - 1 : SegmentStart(rows, k) < SegmentStart(rows, k + 1)
                               /\ SegmentStart(rows, k + 1) <= N
    <2> TAKE k \in 0 .. c - 1
    <2>1. k \in Nat /\ k < c
      BY <1>6
    <2>2. PICK x \in Nat : x = k * w
      <3>1. k * w \in Nat
        BY <1>6, <1>7, <2>1
      <3> QED BY <3>1
    <2>3. PICK y \in Nat : y = c * w
      BY <1>6
    <2>4. (k + 1) * w = x + w /\ x + w <= y
      BY <1>8, <2>1, <2>2, <2>3
    <2>5. SegmentStart(rows, k) = x + MinOf(k, r) /\ SegmentStart(rows, k + 1) = x + w + MinOf(k + 1, r)
      BY <1>3, <2>2, <2>4
    <2>6. MinOf(k, r) \in Nat /\ MinOf(k + 1, r) \in Nat /\ MinOf(k, r) <= MinOf(k + 1, r)
          /\ MinOf(k + 1, r) <= r
      BY <1>4, <2>1 DEF MinOf
    <2>7. N = y + r
      BY <1>6, <2>3
    <2> QED BY <1>4, <2>4, <2>5, <2>6, <2>7
  <1> QED BY <1>2, <1>9, <1>10, <1>11, <1>12 DEF N, c

EdgeSet(rows) == [g : GraphSet(rows), entry : EntrySet(rows), segments : Int]

\* One segment more.
LEMMA AddSegmentKeeps ==
    ASSUME NEW rows, BuildRows(rows), rows # <<>>, NEW k \in 0 .. SegmentCount(rows) - 1,
           NEW e \in EdgeSet(rows), IsEntryOf(0 .. SegmentStart(rows, k) - 1, e.entry)
    PROVE  LET f == AddSegment(rows, e, k)
           IN  f \in EdgeSet(rows) /\ IsEntryOf(0 .. SegmentStart(rows, k + 1) - 1, f.entry)
  <1> DEFINE lo == SegmentStart(rows, k)
             hi == SegmentStart(rows, k + 1)
             b == BuildEdgesRange(rows, e.g, lo, hi)
             entry == IF SegmentCount(rows) <= 1 \/ b.entry.level > e.entry.level
                      THEN b.entry ELSE e.entry
  <1>1. /\ SegmentCount(rows) \in 1 .. Len(rows) /\ Len(rows) \in Nat
        /\ lo \in Nat /\ hi \in Nat /\ lo < hi /\ hi <= Len(rows)
    <2>1. SegmentCount(rows) \in 1 .. Len(rows) /\ Len(rows) \in Nat
      BY SegmentsCover, NodeFacts
    <2>2. k \in 0 .. SegmentCount(rows) /\ k + 1 \in 0 .. SegmentCount(rows)
      BY <2>1
    <2> QED BY <2>1, <2>2, SegmentsCover
  <1>2. SegmentCount(rows) <= 1 => lo = 0
    <2>1. SegmentCount(rows) <= 1 => k = 0
      BY <1>1
    <2> QED BY <2>1, SegmentsCover
  <1>3. AddSegment(rows, e, k) = [g |-> b.g, segments |-> SegmentCount(rows), entry |-> entry]
    BY DEF AddSegment
  <1>4. IsBuildGraph(rows, e.g)
    BY GraphsAreASet DEF EdgeSet
  <1> HIDE DEF lo, hi
  <1>5. Building(rows, b) /\ b.ins = lo .. hi - 1
    BY <1>1, <1>4, RangeIsBuilt
  <1> HIDE DEF b
  <1>6. /\ lo .. hi - 1 \subseteq Ids(rows) /\ 0 .. lo - 1 \subseteq Ids(rows)
        /\ 0 .. hi - 1 \subseteq Ids(rows)
    BY <1>1 DEF Ids
  <1>7. /\ b.entry.id \in lo .. hi - 1
        /\ b.entry = [id |-> b.entry.id, level |-> Level[b.entry.id]]
        /\ \A n \in lo .. hi - 1 : Level[n] <= b.entry.level
    <2>1. IsEntryOf(lo .. hi - 1, b.entry) /\ lo \in lo .. hi - 1
      BY <1>1, <1>5 DEF Building
    <2> QED BY <2>1 DEF IsEntryOf
  <1>8. b.entry.level \in Nat /\ e.entry.level \in Int
    <2>1. b.entry.level = Level[b.entry.id] /\ b.entry.id \in Ids(rows)
      BY <1>6, <1>7
    <2>2. 0 .. lo - 1 \in SUBSET Ids(rows) /\ IsEntryOf(0 .. lo - 1, e.entry)
      BY <1>6 DEF lo
    <2> QED BY <2>1, <2>2, NodeFacts, EntryStarts
  <1>9. \A n \in 0 .. hi - 1 : n \in 0 .. lo - 1 \/ n \in lo .. hi - 1
    BY <1>1
  <1>10. lo - 1 \in Int /\ hi - 1 \in Int /\ 0 \in 0 .. hi - 1 /\ lo .. hi - 1 \subseteq 0 .. hi - 1
         /\ 0 .. lo - 1 \subseteq 0 .. hi - 1
    BY <1>1
  <1>11. \A n \in Ids(rows) : Level[n] \in Nat
    BY NodeFacts
  <1>12. IsEntryOf(0 .. lo - 1, e.entry)
    BY DEF lo
  <1>13. IsEntryOf(0 .. hi - 1, entry)
    <2>1. CASE lo = 0
      <3>1. 0 .. lo - 1 = {}
        BY <2>1
      <3>2. e.entry.level = -1
        BY <1>12, <3>1 DEF IsEntryOf, NoEntry
      <3>3. entry = b.entry
        BY <1>8, <3>2
      <3> QED BY <1>7, <1>10, <2>1, <3>3 DEF IsEntryOf
    <2>2. CASE lo # 0 /\ b.entry.level > e.entry.level
      <3>1. entry = b.entry
        BY <2>2
      <3>2. 0 .. lo - 1 # {}
        <4>1. 0 \in 0 .. lo - 1
          BY <1>1, <2>2
        <4> QED BY <4>1
      <3>3. \A n \in 0 .. lo - 1 : Level[n] <= e.entry.level
        BY <1>12, <3>2 DEF IsEntryOf
      <3>4. \A n \in 0 .. hi - 1 : Level[n] <= b.entry.level
        BY <1>6, <1>7, <1>8, <1>9, <1>11, <2>2, <3>3
      <3> QED BY <1>7, <1>10, <3>1, <3>4 DEF IsEntryOf
    <2>3. CASE lo # 0 /\ ~(b.entry.level > e.entry.level)
      <3>1. entry = e.entry
        BY <1>1, <1>2, <2>3
      <3>2. 0 .. lo - 1 # {}
        <4>1. 0 \in 0 .. lo - 1
          BY <1>1, <2>3
        <4> QED BY <4>1
      <3>3. /\ \A n \in 0 .. lo - 1 : Level[n] <= e.entry.level
            /\ e.entry.id \in 0 .. lo - 1 /\ e.entry = [id |-> e.entry.id, level |-> Level[e.entry.id]]
        BY <1>12, <3>2 DEF IsEntryOf
      <3>4. \A n \in 0 .. hi - 1 : Level[n] <= e.entry.level
        BY <1>6, <1>7, <1>8, <1>9, <1>11, <2>3, <3>3
      <3> QED BY <1>10, <3>1, <3>3, <3>4 DEF IsEntryOf
    <2> QED BY <2>1, <2>2, <2>3
  <1> HIDE DEF entry
  <1>14. entry \in EntrySet(rows)
    BY <1>6, <1>13, EntriesAreASet
  <1>15. b.g \in GraphSet(rows)
    BY <1>5, GraphsAreASet DEF Building
  <1>16. SegmentCount(rows) \in Int
    BY <1>1
  <1>17. AddSegment(rows, e, k) \in EdgeSet(rows)
    BY <1>3, <1>14, <1>15, <1>16 DEF EdgeSet
  <1> QED BY <1>3, <1>13, <1>17 DEF hi


\* The serial builder, with any number of segments.
LEMMA SerialEdgesBuilt ==
    ASSUME NEW rows, BuildRows(rows)
    PROVE  EdgesOf(rows, BuildEdges(rows))
  <1> DEFINE none == [g |-> EmptyGraph(rows), segments |-> 1, entry |-> NoEntry]
             N == SegmentCount(rows)
             Step(i, x) == AddSegment(rows, x, i - 1)
             Stage(i) == {x \in EdgeSet(rows) : IsEntryOf(0 .. SegmentStart(rows, i) - 1, x.entry)}
             first == none
             U == [i \in 0 .. N |-> Stage(i)]
             G == [i \in 1 .. N |-> [x \in Stage(i - 1) |-> Step(i, x)]]
             All == UNION {Stage(i) : i \in 0 .. N}
             Def(h) == [i \in 0 .. N |-> IF i = 0 THEN first ELSE Step(i, h[i - 1])]
             loop == CHOOSE h : h = Def(h)
  <1>1. none \in EdgeSet(rows)
    BY EmptyGraphIsOne, GraphsAreASet DEF EdgeSet, EntrySet
  <1>2. CASE rows = <<>>
    <2>1. BuildEdges(rows) = none
      BY <1>2 DEF BuildEdges
    <2>2. Ids(rows) = {}
      BY <1>2 DEF Ids
    <2> QED BY <2>1, <2>2, EmptyGraphIsOne DEF EdgesOf, IsEntryOf
  <1>3. CASE rows # <<>>
    <2>1. Len(rows) \in Nat /\ N \in 1 .. Len(rows) /\ SegmentStart(rows, 0) = 0
          /\ SegmentStart(rows, N) = Len(rows)
      BY <1>3, NodeFacts, SegmentsCover
    <2>2. N \in Nat
      BY <2>1
    <2>3. first \in Stage(0)
      <3>1. 0 .. SegmentStart(rows, 0) - 1 = {}
        BY <2>1
      <3> QED BY <1>1, <3>1 DEF IsEntryOf
    <2>4. ASSUME NEW i \in 1 .. N, NEW x \in Stage(i - 1)
          PROVE  Step(i, x) \in Stage(i)
      <3>1. i - 1 \in 0 .. SegmentCount(rows) - 1 /\ i - 1 + 1 = i
        BY <2>1
      <3>2. x \in EdgeSet(rows) /\ IsEntryOf(0 .. SegmentStart(rows, i - 1) - 1, x.entry)
        OBVIOUS
      <3> HIDE DEF Stage
      <3>3. /\ AddSegment(rows, x, i - 1) \in EdgeSet(rows)
            /\ IsEntryOf(0 .. SegmentStart(rows, i - 1 + 1) - 1, AddSegment(rows, x, i - 1).entry)
        BY <1>3, <3>1, <3>2, AddSegmentKeeps
      <3> QED BY <3>1, <3>3 DEF Stage
    <2>5. BuildEdges(rows) = loop[N]
      <3> HIDE DEF Stage, U, G, All
      <3> QED BY <1>3 DEF BuildEdges
    <2> HIDE DEF N
    <2>6. Stages(All, N, U, first, G)
      <3>1. /\ \A i \in 0 .. N : U[i] = Stage(i) /\ Stage(i) \subseteq All
            /\ \A i \in 1 .. N : i \in 0 .. N /\ i - 1 \in 0 .. N
            /\ \A i \in 1 .. N : G[i] = [x \in Stage(i - 1) |-> Step(i, x)]
        <4> HIDE DEF Stage, Step
        <4> QED BY <2>2
      <3> HIDE DEF Stage, Step, first, All, G
      <3>2. \A i \in 1 .. N : G[i] \in [U[i - 1] -> U[i]]
        <4>1. \A i \in 1 .. N : [x \in Stage(i - 1) |-> Step(i, x)] \in [Stage(i - 1) -> Stage(i)]
          BY <2>4
        <4> QED BY <3>1, <4>1
      <3>3. U \in [0 .. N -> SUBSET All]
        BY <3>1
      <3>4. first \in U[0]
        BY <2>2, <2>3, <3>1
      <3> QED BY <2>2, <3>2, <3>3, <3>4 DEF Stages
    <2>7. \A i \in 0 .. N : loop[i] \in Stage(i)
      <3> HIDE DEF Stage, Step, first, All, U, G
      <3>1. PICK h : Staged(N, U, first, G, h)
        BY ONLY <2>6, StagesExist
      <3>2. \A i \in 1 .. N : h[i - 1] \in Stage(i - 1) /\ h[i] = Step(i, h[i - 1])
        <4> TAKE i \in 1 .. N
        <4>1. i \in 0 .. N /\ i - 1 \in 0 .. N /\ U[i - 1] = Stage(i - 1)
          BY <2>2 DEF U
        <4>2. h[i - 1] \in Stage(i - 1)
          BY <3>1, <4>1 DEF Staged
        <4>3. G[i] = [x \in Stage(i - 1) |-> Step(i, x)]
          BY DEF G
        <4>4. h[i] = G[i][h[i - 1]]
          BY <3>1 DEF Staged
        <4> QED BY <4>2, <4>3, <4>4
      <3>3. h = Def(h)
        <4>1. \A i \in 0 .. N : h[i] = IF i = 0 THEN first ELSE Step(i, h[i - 1])
          <5> TAKE i \in 0 .. N
          <5>1. i # 0 => i \in 1 .. N
            BY <2>2
          <5> QED BY <3>1, <3>2, <5>1 DEF Staged
        <4> QED BY <3>1, <4>1 DEF Staged
      <3>4. loop = Def(loop)
        <4> HIDE DEF Def
        <4> QED BY <3>3
      <3> HIDE DEF loop
      <3>5. \A i \in 0 .. N : loop[i] = IF i = 0 THEN first ELSE Step(i, loop[i - 1])
        BY <3>4
      <3>6. loop[0] = first /\ \A i \in 1 .. N : loop[i] = Step(i, loop[i - 1])
        BY <2>2, <3>5
      <3> HIDE DEF Def
      <3>7. \A i \in 1 .. N : loop[i - 1] \in U[i - 1] => loop[i] \in U[i]
        <4> SUFFICES ASSUME NEW i \in 1 .. N, loop[i - 1] \in U[i - 1] PROVE loop[i] \in U[i]
          OBVIOUS
        <4>1. U[i - 1] = Stage(i - 1) /\ U[i] = Stage(i)
          BY <2>2 DEF U
        <4>2. loop[i - 1] \in Stage(i - 1)
          BY <4>1
        <4> QED BY <2>4, <3>6, <4>1, <4>2
      <3>8. loop[0] \in U[0]
        BY <2>2, <2>3, <3>6 DEF U
      <3>9. \A i \in 0 .. N : loop[i] \in U[i]
        BY <2>2, <3>7, <3>8, PlacesStay
      <3> QED BY <3>9 DEF U
    <2>8. loop[N] \in EdgeSet(rows) /\ IsEntryOf(0 .. SegmentStart(rows, N) - 1, loop[N].entry)
      <3> HIDE DEF loop
      <3> QED BY <2>2, <2>7
    <2> HIDE DEF loop
    <2> QED BY <2>1, <2>5, <2>8, GraphsAreASet DEF EdgesOf, EdgeSet, Ids
  <1> QED BY <1>2, <1>3

(***************************************************************************)
(* The level-0 backbone.                                                   *)
(***************************************************************************)

\* A full list has a neighbour that is not of the backbone, and a worst one.
LEMMA FreeSlot ==
    ASSUME NEW rows, BuildRows(rows), NEW src \in Ids(rows), NEW dst \in Ids(rows),
           IsBackbone(rows, src, dst), NEW list \in NeighborLists(rows, src, 0),
           dst \notin ListIds(list), ~(Len(list) < LevelM(0)),
           NEW free, free = {i \in DOMAIN list : ~IsBackbone(rows, src, list[i].id)}
    PROVE  WorstOf(list, free) \in free /\ free # {}
  <1>1. /\ list \in Seq(Link) /\ Len(list) \in Nat /\ DOMAIN list = 1 .. Len(list)
        /\ \A i \in DOMAIN list :
              /\ list[i].id # src /\ list[i].id \in Int /\ list[i].d \in Int
              /\ \A j \in DOMAIN list : list[j].id = list[i].id => j = i
    <2>1. list \in Seq(Link) /\ \A i \in DOMAIN list : list[i] \in Link
      BY DEF NeighborLists
    <2>2. \A i \in DOMAIN list :
              /\ list[i].id # src
              /\ \A j \in DOMAIN list : list[j].id = list[i].id => j = i
      BY DEF NeighborLists
    <2>3. \A i \in DOMAIN list : list[i].id \in Int /\ list[i].d \in Int
      BY <2>1 DEF Link
    <2> QED BY <2>1, <2>2, <2>3
  <1>2. 1 \in DOMAIN list /\ 2 \in DOMAIN list
    BY <1>1, ListSizes
  <1>3. free # {}
    <2> SUFFICES ASSUME free = {} PROVE FALSE
      OBVIOUS
    <2>1. IsBackbone(rows, src, list[1].id) /\ IsBackbone(rows, src, list[2].id)
      BY <1>2
    <2>2. list[1].id # dst /\ list[2].id # dst /\ list[1].id # list[2].id
      <3>1. 1 # 2 /\ list[1].id # dst /\ list[2].id # dst
        BY <1>2 DEF ListIds
      <3> QED BY <1>1, <1>2, <3>1
    <2>3. src \in Int /\ dst \in Int
      BY NodeFacts
    <2> QED BY <1>1, <1>2, <2>1, <2>2, <2>3 DEF IsBackbone
  <1> DEFINE L == {ij \in free \X free : list[ij[2]].d < list[ij[1]].d
                                          \/ (list[ij[2]].d = list[ij[1]].d /\ ij[1] < ij[2])}
  <1>4. free \subseteq 1 .. Len(list)
    BY <1>1
  <1>5. IsFiniteSet(free)
    <2>1. IsFiniteSet(1 .. Len(list))
      BY <1>1, FS_Interval
    <2> QED BY <1>4, <2>1, FS_Subset
  <1>6. \A i, j \in free : <<i, j>> \in L <=> list[j].d < list[i].d \/ (list[j].d = list[i].d /\ i < j)
    OBVIOUS
  <1>7. \A i \in free : i \in Int /\ list[i].d \in Int
    BY <1>1
  <1> HIDE DEF L
  <1>8. StrictOrder(free, L)
    <2>1. \A x \in free : <<x, x>> \notin L
      BY <1>6, <1>7
    <2>2. \A x, y, z \in free : <<x, y>> \in L /\ <<y, z>> \in L => <<x, z>> \in L
      BY <1>6, <1>7
    <2>3. \A x, y \in free : x = y \/ <<x, y>> \in L \/ <<y, x>> \in L
      <3> TAKE x, y \in free
      <3>1. x = y \/ x < y \/ y < x
        BY <1>7
      <3>2. list[x].d < list[y].d \/ list[x].d = list[y].d \/ list[y].d < list[x].d
        BY <1>7
      <3> QED BY <1>6, <3>1, <3>2
    <2> QED BY <2>1, <2>2, <2>3 DEF StrictOrder
  <1>9. PICK i \in free : \A j \in free : j = i \/ <<i, j>> \in L
    BY <1>3, <1>5, <1>8, FirstAndLast
  <1>10. \A j \in free : list[j].d < list[i].d \/ (list[j].d = list[i].d /\ i <= j)
    <2> TAKE j \in free
    <2>1. CASE j = i
      BY <1>7, <2>1
    <2>2. CASE <<i, j>> \in L
      BY <1>6, <1>7, <2>2
    <2> QED BY <1>9, <2>1, <2>2
  <1>11. WorstOf(list, free) \in free
    BY <1>10 DEF WorstOf
  <1> QED BY <1>3, <1>11

\* The backbone links of a node.
BackboneIds(rows, n, list) == {k \in ListIds(list) : IsBackbone(rows, n, k)}

\* Forcing a backbone link keeps the graph, the links of the backbone and all
\* other lists, and makes the link.
LEMMA ForceKeeps ==
    ASSUME NEW rows, BuildRows(rows), NEW g, IsBuildGraph(rows, g),
           NEW src \in Ids(rows), NEW dst \in Ids(rows), IsBackbone(rows, src, dst)
    PROVE  LET h == ForceNeighbor(rows, g, src, dst)
           IN  /\ IsBuildGraph(rows, h) /\ dst \in ListIds(h[src][0])
               /\ \A n \in Ids(rows) :
                     BackboneIds(rows, n, g[n][0]) \subseteq BackboneIds(rows, n, h[n][0])
  <1> DEFINE list == g[src][0]
             free == {i \in DOMAIN list : ~IsBackbone(rows, src, list[i].id)}
             worst == IF free = {} THEN 1 ELSE WorstOf(list, free)
             item == [id |-> dst, d |-> DblMax]
             new == IF Len(list) < LevelM(0) THEN Append(list, item)
                    ELSE [list EXCEPT ![worst] = item]
             h == ForceNeighbor(rows, g, src, dst)
  <1>1. /\ src # dst /\ HasLevel(rows, src, 0) /\ HasLevel(rows, dst, 0) /\ 0 \in 0 .. Level[src]
        /\ \A n \in Ids(rows) : 0 \in 0 .. Level[n]
    BY NodeFacts DEF IsBackbone, HasLevel
  <1>2. list \in NeighborLists(rows, src, 0)
    BY <1>1 DEF IsBuildGraph
  <1>3. CASE ~CanLink(rows, g, src, dst, 0)
    <2>1. dst \in ListIds(g[src][0])
      BY <1>1, <1>3 DEF CanLink
    <2>2. h = g
      BY <1>3 DEF ForceNeighbor
    <2> QED BY <2>1, <2>2
  <1>4. CASE CanLink(rows, g, src, dst, 0)
    <2>1. h = [g EXCEPT ![src][0] = new]
      BY <1>4 DEF ForceNeighbor
    <2>2. item \in Link /\ item.id = dst /\ item.id # src /\ HasLevel(rows, item.id, 0)
          /\ item.id \notin ListIds(list)
      <3>1. dst \in Int
        BY NodeFacts
      <3>2. dst \notin ListIds(list)
        BY <1>4 DEF CanLink
      <3> QED BY <1>1, <3>1, <3>2 DEF Link, DblMax
    <2>3. list \in Seq(Link) /\ Len(list) \in Nat /\ DOMAIN list = 1 .. Len(list)
          /\ Len(list) <= LevelM(0)
      BY <1>2 DEF NeighborLists
    <2> HIDE DEF item, h
    <2>4. /\ new \in NeighborLists(rows, src, 0) /\ dst \in ListIds(new)
          /\ BackboneIds(rows, src, list) \subseteq BackboneIds(rows, src, new)
      <3>1. CASE Len(list) < LevelM(0)
        <4> DEFINE s == Append(list, item)
        <4>1. s \in NeighborLists(rows, src, 0)
          BY <1>2, <2>2, <3>1, AppendLink
        <4>2. /\ DOMAIN s = 1 .. Len(list) + 1 /\ Len(list) + 1 \in DOMAIN s
              /\ s[Len(list) + 1] = item
              /\ \A i \in DOMAIN list : i \in DOMAIN s /\ s[i] = list[i]
          BY <2>2, <2>3
        <4> HIDE DEF s
        <4>3. dst \in ListIds(s) /\ ListIds(list) \subseteq ListIds(s)
          BY <2>2, <4>2 DEF ListIds
        <4>4. new = s
          BY <3>1 DEF s
        <4> HIDE DEF new
        <4> QED BY <4>1, <4>3, <4>4 DEF BackboneIds
      <3>2. CASE ~(Len(list) < LevelM(0))
        <4> DEFINE s == [list EXCEPT ![worst] = item]
        <4>1. free # {} /\ WorstOf(list, free) \in free
          <5>1. dst \notin ListIds(list)
            BY <2>2
          <5>2. PICK f : f = free
            OBVIOUS
          <5>3. PICK t : t = list
            OBVIOUS
          <5>4. f = {i \in DOMAIN t : ~IsBackbone(rows, src, t[i].id)}
            BY <5>2, <5>3
          <5>5. WorstOf(t, f) \in f /\ f # {}
            BY <1>2, <3>2, <5>1, <5>3, <5>4, FreeSlot
          <5> QED BY <5>2, <5>3, <5>5
        <4>2. worst \in DOMAIN list /\ ~IsBackbone(rows, src, list[worst].id)
          BY <4>1
        <4> HIDE DEF worst, list
        <4>3. s \in NeighborLists(rows, src, 0)
          BY <1>2, <2>2, ReplaceLink
        <4>4. /\ DOMAIN s = DOMAIN list /\ s[worst] = item
              /\ \A i \in DOMAIN list : i # worst => s[i] = list[i]
          BY <4>2
        <4> HIDE DEF s
        <4>5. dst \in ListIds(s)
          BY <2>2, <4>2, <4>4 DEF ListIds
        <4>6. BackboneIds(rows, src, list) \subseteq BackboneIds(rows, src, s)
          <5> SUFFICES ASSUME NEW i \in DOMAIN list, IsBackbone(rows, src, list[i].id)
                       PROVE  list[i].id \in ListIds(s)
            BY DEF BackboneIds, ListIds
          <5>1. i # worst
            BY <4>2
          <5> QED BY <4>4, <5>1 DEF ListIds
        <4>7. new = s
          BY <3>2 DEF s
        <4> HIDE DEF new
        <4> QED BY <4>3, <4>5, <4>6, <4>7
      <3> QED BY <3>1, <3>2
    <2> HIDE DEF new, list
    <2>5. /\ IsBuildGraph(rows, h) /\ h[src][0] = new
          /\ \A k \in Ids(rows) : k # src => h[k][0] = g[k][0]
      <3>1. PICK t \in NeighborLists(rows, src, 0) : t = new
        BY <2>4
      <3>2. h = [g EXCEPT ![src][0] = t]
        BY <2>1, <3>1
      <3>3. /\ IsBuildGraph(rows, h) /\ h[src][0] = t
            /\ \A k \in Ids(rows) : \A j \in 0 .. Level[k] :
                  (k # src \/ j # 0) => h[k][j] = g[k][j]
        <4>1. BuildRows(rows) /\ IsBuildGraph(rows, g) /\ src \in Ids(rows) /\ 0 \in 0 .. Level[src]
              /\ t \in NeighborLists(rows, src, 0)
          BY <1>1
        <4>2. /\ IsBuildGraph(rows, [g EXCEPT ![src][0] = t])
              /\ [g EXCEPT ![src][0] = t][src][0] = t
              /\ \A k \in Ids(rows) : \A j \in 0 .. Level[k] :
                    (k # src \/ j # 0) => [g EXCEPT ![src][0] = t][k][j] = g[k][j]
          BY ONLY <4>1, UpdateList
        <4> QED BY <3>2, <4>2
      <3> QED BY <1>1, <3>1, <3>3
    <2>6. \A n \in Ids(rows) : BackboneIds(rows, n, g[n][0]) \subseteq BackboneIds(rows, n, h[n][0])
      <3> TAKE n \in Ids(rows)
      <3>1. CASE n = src
        BY <2>4, <2>5, <3>1 DEF list
      <3>2. CASE n # src
        BY <2>5, <3>2
      <3> QED BY <3>1, <3>2
    <2> QED BY <2>4, <2>5, <2>6 DEF h
  <1> QED BY <1>3, <1>4

\* Both links between a node and its predecessor.
LEMMA ConnectKeeps ==
    ASSUME NEW rows, BuildRows(rows), NEW g, IsBuildGraph(rows, g),
           NEW n \in Ids(rows), n - 1 \in Ids(rows)
    PROVE  LET h == ConnectNeighbors(rows, g, n)
           IN  /\ IsBuildGraph(rows, h)
               /\ n - 1 \in BackboneIds(rows, n, h[n][0]) /\ n \in BackboneIds(rows, n - 1, h[n - 1][0])
               /\ \A k \in Ids(rows) :
                     BackboneIds(rows, k, g[k][0]) \subseteq BackboneIds(rows, k, h[k][0])
  <1> DEFINE f == ForceNeighbor(rows, g, n - 1, n)
             h == ForceNeighbor(rows, f, n, n - 1)
  <1>1. n \in Nat /\ IsBackbone(rows, n - 1, n) /\ IsBackbone(rows, n, n - 1)
    BY NodeFacts DEF IsBackbone
  <1>2. /\ IsBuildGraph(rows, f) /\ n \in ListIds(f[n - 1][0])
        /\ \A k \in Ids(rows) :
              BackboneIds(rows, k, g[k][0]) \subseteq BackboneIds(rows, k, f[k][0])
    BY <1>1, ForceKeeps
  <1> HIDE DEF f
  <1>3. /\ IsBuildGraph(rows, h) /\ n - 1 \in ListIds(h[n][0])
        /\ \A k \in Ids(rows) :
              BackboneIds(rows, k, f[k][0]) \subseteq BackboneIds(rows, k, h[k][0])
    BY <1>1, <1>2, ForceKeeps
  <1> HIDE DEF h
  <1>4. n \in BackboneIds(rows, n - 1, f[n - 1][0]) /\ n - 1 \in BackboneIds(rows, n, h[n][0])
    BY <1>1, <1>2, <1>3 DEF BackboneIds
  <1>5. ConnectNeighbors(rows, g, n) = h
    BY DEF ConnectNeighbors, f, h
  <1> HIDE DEF h
  <1>6. \A k \in Ids(rows) : BackboneIds(rows, k, g[k][0]) \subseteq BackboneIds(rows, k, h[k][0])
    BY <1>2, <1>3
  <1>7. n \in BackboneIds(rows, n - 1, h[n - 1][0])
    BY <1>3, <1>4
  <1> QED BY <1>3, <1>4, <1>5, <1>6, <1>7

\* The nodes up to i are linked to their neighbours in the scan.
Connected(rows, g, i) ==
    \A k \in 1 .. i : /\ k - 1 \in BackboneIds(rows, k, g[k][0])
                      /\ k \in BackboneIds(rows, k - 1, g[k - 1][0])

LEMMA BackboneConnects ==
    ASSUME NEW rows, BuildRows(rows), NEW g, IsBuildGraph(rows, g)
    PROVE  LET h == EnsureLevel0Backbone(rows, g)
           IN  /\ IsBuildGraph(rows, h)
               /\ \A n \in Ids(rows) : \A k \in {n - 1, n + 1} \cap Ids(rows) : k \in ListIds(h[n][0])
  <1> DEFINE N == Len(rows) - 1
             Step(i, x) == ConnectNeighbors(rows, x, i)
             Stage(i) == {x \in GraphSet(rows) : Connected(rows, x, i)}
             first == g
             U == [i \in 0 .. N |-> Stage(i)]
             G == [i \in 1 .. N |-> [x \in Stage(i - 1) |-> Step(i, x)]]
             All == UNION {Stage(i) : i \in 0 .. N}
             Def(h) == [i \in 0 .. N |-> IF i = 0 THEN first ELSE Step(i, h[i - 1])]
             loop == CHOOSE h : h = Def(h)
  <1>1. CASE rows = <<>>
    <2>1. Ids(rows) = {} /\ EnsureLevel0Backbone(rows, g) = g
      BY <1>1 DEF Ids, EnsureLevel0Backbone
    <2> QED BY <2>1
  <1>2. CASE rows # <<>>
    <2>1. N \in Nat /\ Ids(rows) = 0 .. N
      <3>1. rows \in Seq(Rows \cup {0}) /\ Len(rows) \in Nat /\ Len(rows) # 0
        BY <1>2 DEF BuildRows
      <3> QED BY <3>1 DEF Ids
    <2>2. first \in Stage(0)
      BY GraphsAreASet DEF Connected
    <2>3. ASSUME NEW i \in 1 .. N, NEW x \in Stage(i - 1)
          PROVE  Step(i, x) \in Stage(i)
      <3> DEFINE h == ConnectNeighbors(rows, x, i)
      <3>1. i \in Ids(rows) /\ i - 1 \in Ids(rows)
        BY <2>1
      <3>2. IsBuildGraph(rows, x) /\ Connected(rows, x, i - 1)
        BY GraphsAreASet
      <3>3. /\ IsBuildGraph(rows, h)
            /\ i - 1 \in BackboneIds(rows, i, h[i][0]) /\ i \in BackboneIds(rows, i - 1, h[i - 1][0])
            /\ \A k \in Ids(rows) :
                  BackboneIds(rows, k, x[k][0]) \subseteq BackboneIds(rows, k, h[k][0])
        BY <3>1, <3>2, ConnectKeeps
      <3> HIDE DEF h
      <3>4. Connected(rows, h, i)
        <4> SUFFICES ASSUME NEW k \in 1 .. i
                     PROVE  /\ k - 1 \in BackboneIds(rows, k, h[k][0])
                            /\ k \in BackboneIds(rows, k - 1, h[k - 1][0])
          BY DEF Connected
        <4>1. CASE k = i
          BY <3>3, <4>1
        <4>2. CASE k # i
          <5>1. k \in 1 .. i - 1 /\ k \in Ids(rows) /\ k - 1 \in Ids(rows)
            BY <2>1, <4>2
          <5>2. /\ k - 1 \in BackboneIds(rows, k, x[k][0])
                /\ k \in BackboneIds(rows, k - 1, x[k - 1][0])
            BY <3>2, <5>1 DEF Connected
          <5> QED BY <3>3, <5>1, <5>2
        <4> QED BY <4>1, <4>2
      <3>5. h \in Stage(i)
        BY <3>3, <3>4, GraphsAreASet
      <3> QED BY <3>5 DEF h
    <2>4. EnsureLevel0Backbone(rows, g) = loop[N]
      <3> HIDE DEF Stage, U, G, All
      <3> QED BY <1>2 DEF EnsureLevel0Backbone
    <2> HIDE DEF N
    <2>5. Stages(All, N, U, first, G)
      <3>1. /\ \A i \in 0 .. N : U[i] = Stage(i) /\ Stage(i) \subseteq All
            /\ \A i \in 1 .. N : i \in 0 .. N /\ i - 1 \in 0 .. N
            /\ \A i \in 1 .. N : G[i] = [x \in Stage(i - 1) |-> Step(i, x)]
        <4> HIDE DEF Stage, Step
        <4> QED BY <2>1
      <3> HIDE DEF Stage, Step, first, All, G
      <3>2. \A i \in 1 .. N : G[i] \in [U[i - 1] -> U[i]]
        <4>1. \A i \in 1 .. N : [x \in Stage(i - 1) |-> Step(i, x)] \in [Stage(i - 1) -> Stage(i)]
          BY <2>3
        <4> QED BY <3>1, <4>1
      <3>3. U \in [0 .. N -> SUBSET All]
        BY <3>1
      <3>4. first \in U[0]
        BY <2>1, <2>2, <3>1
      <3> QED BY <2>1, <3>2, <3>3, <3>4 DEF Stages
    <2>6. \A i \in 0 .. N : loop[i] \in Stage(i)
      <3> HIDE DEF Stage, Step, first, All, U, G
      <3>1. PICK h : Staged(N, U, first, G, h)
        BY ONLY <2>5, StagesExist
      <3>2. \A i \in 1 .. N : h[i - 1] \in Stage(i - 1) /\ h[i] = Step(i, h[i - 1])
        <4> TAKE i \in 1 .. N
        <4>1. i \in 0 .. N /\ i - 1 \in 0 .. N /\ U[i - 1] = Stage(i - 1)
          BY <2>1 DEF U
        <4>2. h[i - 1] \in Stage(i - 1)
          BY <3>1, <4>1 DEF Staged
        <4>3. G[i] = [x \in Stage(i - 1) |-> Step(i, x)]
          BY DEF G
        <4>4. h[i] = G[i][h[i - 1]]
          BY <3>1 DEF Staged
        <4> QED BY <4>2, <4>3, <4>4
      <3>3. h = Def(h)
        <4>1. \A i \in 0 .. N : h[i] = IF i = 0 THEN first ELSE Step(i, h[i - 1])
          <5> TAKE i \in 0 .. N
          <5>1. i # 0 => i \in 1 .. N
            BY <2>1
          <5> QED BY <3>1, <3>2, <5>1 DEF Staged
        <4> QED BY <3>1, <4>1 DEF Staged
      <3>4. loop = Def(loop)
        <4> HIDE DEF Def
        <4> QED BY <3>3
      <3> HIDE DEF loop
      <3>5. \A i \in 0 .. N : loop[i] = IF i = 0 THEN first ELSE Step(i, loop[i - 1])
        BY <3>4
      <3>6. loop[0] = first /\ \A i \in 1 .. N : loop[i] = Step(i, loop[i - 1])
        BY <2>1, <3>5
      <3> HIDE DEF Def
      <3>7. \A i \in 1 .. N : loop[i - 1] \in U[i - 1] => loop[i] \in U[i]
        <4> SUFFICES ASSUME NEW i \in 1 .. N, loop[i - 1] \in U[i - 1] PROVE loop[i] \in U[i]
          OBVIOUS
        <4>1. U[i - 1] = Stage(i - 1) /\ U[i] = Stage(i)
          BY <2>1 DEF U
        <4>2. loop[i - 1] \in Stage(i - 1)
          BY <4>1
        <4> QED BY <2>3, <3>6, <4>1, <4>2
      <3>8. loop[0] \in U[0]
        BY <2>1, <2>2, <3>6 DEF U
      <3>9. \A i \in 0 .. N : loop[i] \in U[i]
        BY <2>1, <3>7, <3>8, PlacesStay
      <3> QED BY <3>9 DEF U
    <2>7. loop[N] \in GraphSet(rows) /\ Connected(rows, loop[N], N)
      <3> HIDE DEF loop
      <3> QED BY <2>1, <2>6
    <2> HIDE DEF loop
    <2>8. \A n \in Ids(rows) : \A k \in {n - 1, n + 1} \cap Ids(rows) : k \in ListIds(loop[N][n][0])
      <3> SUFFICES ASSUME NEW n \in Ids(rows), NEW k \in {n - 1, n + 1} \cap Ids(rows)
                   PROVE  k \in ListIds(loop[N][n][0])
        OBVIOUS
      <3>1. CASE k = n - 1
        <4>1. n \in 1 .. N
          BY <2>1, <3>1
        <4> QED BY <2>7, <3>1, <4>1 DEF Connected, BackboneIds
      <3>2. CASE k = n + 1
        <4>1. k \in 1 .. N /\ k - 1 = n
          BY <2>1, <3>2
        <4>2. k \in BackboneIds(rows, n, loop[N][n][0])
          BY <2>7, <4>1 DEF Connected
        <4> QED BY <4>2 DEF BackboneIds
      <3> QED BY <3>1, <3>2
    <2> QED BY <2>4, <2>7, <2>8, GraphsAreASet
  <1> QED BY <1>1, <1>2

(***************************************************************************)
(* The routing entries.                                                    *)
(***************************************************************************)

\* The table of the nodes below i: the highest of them, all of them while there
\* is room.
RoutingTable(rows, entry, i, table) ==
    /\ table \subseteq {n \in 0 .. i - 1 : Level[n] > 0}
    /\ \A k \in 0 .. i - 1 : k \notin table /\ k # entry.id =>
          /\ \A n \in table : Level[k] <= Level[n]
          /\ Cardinality(table) < MaxRouting => Level[k] <= 0

\* A full table has a lowest entry.
LEMMA LowestEntry ==
    ASSUME NEW S, IsFiniteSet(S), S # {}, \A n \in S : n \in Int /\ Level[n] \in Int,
           NEW worst, worst = CHOOSE a \in S : \A b \in S : a = b \/ RoutingLower(a, b)
    PROVE  worst \in S /\ \A b \in S : worst = b \/ RoutingLower(worst, b)
  <1> DEFINE L == {ab \in S \X S : RoutingLower(ab[1], ab[2])}
  <1>1. \A a, b \in S : <<a, b>> \in L <=> RoutingLower(a, b)
    OBVIOUS
  <1> HIDE DEF L
  <1>2. StrictOrder(S, L)
    <2>1. \A x \in S : <<x, x>> \notin L
      BY <1>1 DEF RoutingLower
    <2>2. \A x, y, z \in S : <<x, y>> \in L /\ <<y, z>> \in L => <<x, z>> \in L
      BY <1>1 DEF RoutingLower
    <2>3. \A x, y \in S : x = y \/ <<x, y>> \in L \/ <<y, x>> \in L
      <3> TAKE x, y \in S
      <3>1. x = y \/ x < y \/ y < x
        OBVIOUS
      <3>2. Level[x] < Level[y] \/ Level[x] = Level[y] \/ Level[y] < Level[x]
        OBVIOUS
      <3> QED BY <1>1, <3>1, <3>2 DEF RoutingLower
    <2> QED BY <2>1, <2>2, <2>3 DEF StrictOrder
  <1>3. \E a \in S : \A b \in S : b = a \/ <<a, b>> \in L
    BY <1>2, FirstAndLast
  <1>4. \E a \in S : \A b \in S : a = b \/ RoutingLower(a, b)
    BY <1>1, <1>3
  <1> QED BY <1>4

\* Offering the next node.
LEMMA OfferKeeps ==
    ASSUME NEW rows, BuildRows(rows), NEW entry, NEW i \in 1 .. Len(rows),
           NEW table, RoutingTable(rows, entry, i - 1, table),
           i - 1 # entry.id, Level[i - 1] > 0
    PROVE  RoutingTable(rows, entry, i, OfferRoutingEntry(table, i - 1))
  <1> DEFINE n == i - 1
             worst == CHOOSE a \in table : \A b \in table : a = b \/ RoutingLower(a, b)
             new == OfferRoutingEntry(table, n)
  <1>1. /\ Len(rows) \in Nat /\ n \in Nat /\ n \in Ids(rows) /\ 0 .. i - 1 \subseteq Ids(rows)
        /\ \A k \in 0 .. i - 1 : k \in Int /\ Level[k] \in Nat
    BY NodeFacts
  <1>2. \A k \in 0 .. i - 1 : k = n \/ k \in 0 .. n - 1
    BY <1>1
  <1>3. 0 .. n - 1 \subseteq 0 .. i - 1 /\ n \in 0 .. i - 1 /\ n \notin 0 .. n - 1
    BY <1>1
  <1>4. /\ table \subseteq 0 .. n - 1 /\ \A k \in table : Level[k] > 0
        /\ \A k \in 0 .. n - 1 : k \notin table /\ k # entry.id =>
              /\ \A m \in table : Level[k] <= Level[m]
              /\ Cardinality(table) < MaxRouting => Level[k] <= 0
    BY DEF RoutingTable
  <1>5. n # entry.id /\ Level[n] > 0
    OBVIOUS
  <1>6. table \subseteq Ids(rows) /\ IsFiniteSet(table) /\ Cardinality(table) \in Nat
    <2>1. table \subseteq Ids(rows)
      BY <1>1, <1>3, <1>4
    <2>2. IsFiniteSet(table)
      BY <2>1, NodeFacts, FS_Subset
    <2> QED BY <2>1, <2>2, FS_CardinalityType
  <1> HIDE DEF n, worst
  <1>7. CASE Cardinality(table) < MaxRouting
    <2>1. new = table \cup {n}
      BY <1>7 DEF OfferRoutingEntry
    <2> HIDE DEF new
    <2>2. \A k \in 0 .. i - 1 : k \notin new /\ k # entry.id =>
             k \in 0 .. n - 1 /\ k \notin table /\ Level[k] <= 0
      BY <1>2, <1>4, <1>7, <2>1
    <2>3. new \subseteq {m \in 0 .. i - 1 : Level[m] > 0}
      BY <1>3, <1>4, <1>5, <2>1
    <2>4. \A k \in 0 .. i - 1, m \in new : Level[k] <= 0 => Level[k] <= Level[m]
      BY <1>1, <2>3
    <2>5. RoutingTable(rows, entry, i, new)
      BY <2>2, <2>3, <2>4 DEF RoutingTable
    <2> QED BY <2>5 DEF new, n
  <1>8. CASE ~(Cardinality(table) < MaxRouting)
    <2>1. table # {}
      <3>1. MaxRouting \in Nat /\ MaxRouting >= 1 /\ Cardinality({}) = 0
        BY BuildGraphAssumption, FS_EmptySet
      <3>2. Cardinality({}) < MaxRouting
        BY <3>1
      <3> QED BY <1>8, <3>2
    <2>2. \A m \in table : m \in Int /\ Level[m] \in Int
      BY <1>1, <1>3, <1>4
    <2>3. worst \in table /\ \A b \in table : worst = b \/ RoutingLower(worst, b)
      BY <1>6, <2>1, <2>2, LowestEntry DEF worst
    <2>4. \A b \in table : Level[worst] <= Level[b]
      BY <2>2, <2>3 DEF RoutingLower
    <2>5. CASE RoutingLower(worst, n)
      <3>1. new = (table \ {worst}) \cup {n}
        BY <1>8, <2>5 DEF OfferRoutingEntry, worst
      <3>2. Level[worst] <= Level[n] /\ Level[worst] \in Int /\ Level[n] \in Int
        BY <1>1, <1>3, <2>2, <2>3, <2>5 DEF RoutingLower
      <3>3. Cardinality(new) = Cardinality(table)
        <4>1. IsFiniteSet(table \ {worst}) /\ Cardinality(table \ {worst}) = Cardinality(table) - 1
          BY <1>6, <2>3, FS_RemoveElement
        <4>2. n \notin table \ {worst}
          BY <1>3, <1>4
        <4>3. Cardinality(new) = Cardinality(table \ {worst}) + 1
          BY <3>1, <4>1, <4>2, FS_AddElement
        <4> QED BY <1>6, <4>1, <4>3
      <3> HIDE DEF new
      <3>4. new \subseteq {m \in 0 .. i - 1 : Level[m] > 0}
        BY <1>3, <1>4, <1>5, <3>1
      <3>5. \A m \in new : Level[worst] <= Level[m] /\ Level[m] \in Int
        BY <1>1, <2>2, <2>4, <3>1, <3>2
      <3>6. \A k \in 0 .. i - 1 : k \notin new /\ k # entry.id => Level[k] <= Level[worst]
        <4> SUFFICES ASSUME NEW k \in 0 .. i - 1, k \notin new, k # entry.id
                     PROVE  Level[k] <= Level[worst]
          OBVIOUS
        <4>1. k = worst \/ (k \in 0 .. n - 1 /\ k \notin table)
          BY <1>2, <3>1
        <4> QED BY <1>4, <2>3, <3>2, <4>1
      <3>7. \A k \in 0 .. i - 1 : k \notin new /\ k # entry.id => \A m \in new : Level[k] <= Level[m]
        BY <1>1, <3>2, <3>5, <3>6
      <3>8. RoutingTable(rows, entry, i, new)
        BY <1>8, <3>3, <3>4, <3>7 DEF RoutingTable
      <3> QED BY <3>8 DEF new, n
    <2>6. CASE ~RoutingLower(worst, n)
      <3>1. new = table
        BY <1>8, <2>6 DEF OfferRoutingEntry, worst
      <3> HIDE DEF new
      <3>2. Level[n] <= Level[worst] /\ Level[worst] \in Int /\ Level[n] \in Int
        BY <1>1, <1>3, <2>2, <2>3, <2>6 DEF RoutingLower
      <3>3. \A m \in table : Level[n] <= Level[m]
        BY <2>2, <2>4, <3>2
      <3>4. \A k \in 0 .. i - 1 : k \notin new /\ k # entry.id => \A m \in new : Level[k] <= Level[m]
        BY <1>2, <1>4, <3>1, <3>3
      <3>5. new \subseteq {m \in 0 .. i - 1 : Level[m] > 0}
        BY <1>3, <1>4, <3>1
      <3>6. RoutingTable(rows, entry, i, new)
        BY <1>8, <3>1, <3>4, <3>5 DEF RoutingTable
      <3> QED BY <3>6 DEF new, n
    <2> QED BY <2>5, <2>6
  <1> QED BY <1>7, <1>8

\* A node that is not offered has no level above 0.
LEMMA SkipKeeps ==
    ASSUME NEW rows, BuildRows(rows), NEW entry, NEW i \in 1 .. Len(rows),
           NEW table, RoutingTable(rows, entry, i - 1, table),
           i - 1 = entry.id \/ Level[i - 1] <= 0
    PROVE  RoutingTable(rows, entry, i, table)
  <1>1. /\ Len(rows) \in Nat /\ 0 .. i - 1 \subseteq Ids(rows)
        /\ \A k \in 0 .. i - 1 : k \in Int /\ Level[k] \in Nat
    BY NodeFacts
  <1>2. \A k \in 0 .. i - 1 : k = i - 1 \/ k \in 0 .. i - 1 - 1
    BY <1>1
  <1>3. table \subseteq {n \in 0 .. i - 1 : Level[n] > 0}
    BY DEF RoutingTable
  <1>4. \A k \in 0 .. i - 1, n \in table : Level[k] <= 0 => Level[k] <= Level[n]
    BY <1>1, <1>3
  <1> QED BY <1>2, <1>3, <1>4 DEF RoutingTable

\* The routing entries are the highest nodes besides the entry.
LEMMA RoutingIsHighest ==
    ASSUME NEW rows, BuildRows(rows), NEW entry
    PROVE  \A n \in RoutingEntries(rows, entry) :
              \A k \in Ids(rows) \ (RoutingEntries(rows, entry) \cup {entry.id}) :
                 Level[n] > 0 /\ Level[k] <= Level[n]
  <1> DEFINE N == Len(rows)
             Step(i, x) == IF i - 1 = entry.id \/ Level[i - 1] <= 0 THEN x
                           ELSE OfferRoutingEntry(x, i - 1)
             Stage(i) == {x \in SUBSET Ids(rows) : RoutingTable(rows, entry, i, x)}
             first == {}
             U == [i \in 0 .. N |-> Stage(i)]
             G == [i \in 1 .. N |-> [x \in Stage(i - 1) |-> Step(i, x)]]
             All == UNION {Stage(i) : i \in 0 .. N}
             Def(h) == [i \in 0 .. N |-> IF i = 0 THEN first ELSE Step(i, h[i - 1])]
             loop == CHOOSE h : h = Def(h)
  <1>1. CASE entry.id \notin Ids(rows)
    <2>1. RoutingEntries(rows, entry) = {}
      BY <1>1 DEF RoutingEntries
    <2> QED BY <2>1
  <1>2. CASE entry.id \in Ids(rows)
    <2>1. N \in Nat /\ Ids(rows) = 0 .. N - 1
      BY NodeFacts
    <2>2. first \in Stage(0)
      <3>1. 0 .. 0 - 1 = {}
        OBVIOUS
      <3> QED BY <3>1 DEF RoutingTable
    <2>3. ASSUME NEW i \in 1 .. N, NEW x \in Stage(i - 1)
          PROVE  Step(i, x) \in Stage(i)
      <3> DEFINE y == Step(i, x)
      <3>1. RoutingTable(rows, entry, i - 1, x)
        OBVIOUS
      <3>2. RoutingTable(rows, entry, i, y)
        <4>1. CASE i - 1 = entry.id \/ Level[i - 1] <= 0
          BY <3>1, <4>1, SkipKeeps
        <4>2. CASE ~(i - 1 = entry.id \/ Level[i - 1] <= 0)
          <5>1. i - 1 \in Ids(rows)
            BY <2>1
          <5>2. Level[i - 1] > 0
            BY <4>2, <5>1, NodeFacts
          <5>3. y = OfferRoutingEntry(x, i - 1)
            BY <4>2
          <5> QED BY <3>1, <4>2, <5>2, <5>3, OfferKeeps
        <4> QED BY <4>1, <4>2
      <3> HIDE DEF y
      <3>3. y \in SUBSET Ids(rows)
        <4>1. y \subseteq 0 .. i - 1
          BY <3>2 DEF RoutingTable
        <4> QED BY <2>1, <4>1
      <3> QED BY <3>2, <3>3 DEF y
    <2>4. RoutingEntries(rows, entry) = loop[N]
      <3> HIDE DEF Stage, U, G, All
      <3> QED BY <1>2 DEF RoutingEntries
    <2> HIDE DEF N
    <2>5. Stages(All, N, U, first, G)
      <3>1. /\ \A i \in 0 .. N : U[i] = Stage(i) /\ Stage(i) \subseteq All
            /\ \A i \in 1 .. N : i \in 0 .. N /\ i - 1 \in 0 .. N
            /\ \A i \in 1 .. N : G[i] = [x \in Stage(i - 1) |-> Step(i, x)]
        <4> HIDE DEF Stage, Step
        <4> QED BY <2>1
      <3> HIDE DEF Stage, Step, first, All, G
      <3>2. \A i \in 1 .. N : G[i] \in [U[i - 1] -> U[i]]
        <4>1. \A i \in 1 .. N : [x \in Stage(i - 1) |-> Step(i, x)] \in [Stage(i - 1) -> Stage(i)]
          BY <2>3
        <4> QED BY <3>1, <4>1
      <3>3. U \in [0 .. N -> SUBSET All]
        BY <3>1
      <3>4. first \in U[0]
        BY <2>1, <2>2, <3>1
      <3> QED BY <2>1, <3>2, <3>3, <3>4 DEF Stages
    <2>6. \A i \in 0 .. N : loop[i] \in Stage(i)
      <3> HIDE DEF Stage, Step, first, All, U, G
      <3>1. PICK h : Staged(N, U, first, G, h)
        BY ONLY <2>5, StagesExist
      <3>2. \A i \in 1 .. N : h[i - 1] \in Stage(i - 1) /\ h[i] = Step(i, h[i - 1])
        <4> TAKE i \in 1 .. N
        <4>1. i \in 0 .. N /\ i - 1 \in 0 .. N /\ U[i - 1] = Stage(i - 1)
          BY <2>1 DEF U
        <4>2. h[i - 1] \in Stage(i - 1)
          BY <3>1, <4>1 DEF Staged
        <4>3. G[i] = [x \in Stage(i - 1) |-> Step(i, x)]
          BY DEF G
        <4>4. h[i] = G[i][h[i - 1]]
          BY <3>1 DEF Staged
        <4> QED BY <4>2, <4>3, <4>4
      <3>3. h = Def(h)
        <4>1. \A i \in 0 .. N : h[i] = IF i = 0 THEN first ELSE Step(i, h[i - 1])
          <5> TAKE i \in 0 .. N
          <5>1. i # 0 => i \in 1 .. N
            BY <2>1
          <5> QED BY <3>1, <3>2, <5>1 DEF Staged
        <4> QED BY <3>1, <4>1 DEF Staged
      <3>4. loop = Def(loop)
        <4> HIDE DEF Def
        <4> QED BY <3>3
      <3> HIDE DEF loop
      <3>5. \A i \in 0 .. N : loop[i] = IF i = 0 THEN first ELSE Step(i, loop[i - 1])
        BY <3>4
      <3>6. loop[0] = first /\ \A i \in 1 .. N : loop[i] = Step(i, loop[i - 1])
        BY <2>1, <3>5
      <3> HIDE DEF Def
      <3>7. \A i \in 1 .. N : loop[i - 1] \in U[i - 1] => loop[i] \in U[i]
        <4> SUFFICES ASSUME NEW i \in 1 .. N, loop[i - 1] \in U[i - 1] PROVE loop[i] \in U[i]
          OBVIOUS
        <4>1. U[i - 1] = Stage(i - 1) /\ U[i] = Stage(i)
          BY <2>1 DEF U
        <4>2. loop[i - 1] \in Stage(i - 1)
          BY <4>1
        <4> QED BY <2>3, <3>6, <4>1, <4>2
      <3>8. loop[0] \in U[0]
        BY <2>1, <2>2, <3>6 DEF U
      <3>9. \A i \in 0 .. N : loop[i] \in U[i]
        BY <2>1, <3>7, <3>8, PlacesStay
      <3> QED BY <3>9 DEF U
    <2>7. RoutingTable(rows, entry, N, loop[N])
      <3> HIDE DEF loop
      <3> QED BY <2>1, <2>6
    <2> HIDE DEF loop
    <2> QED BY <2>1, <2>4, <2>7 DEF RoutingTable
  <1> QED BY <1>1, <1>2

(***************************************************************************)
(* The entry sidecar.                                                      *)
(***************************************************************************)

SidecarLists(rows, target) ==
    {s \in Seq(Ids(rows)) :
        Len(s) <= target /\ \A i, j \in DOMAIN s : s[i] = s[j] => i = j}

LEMMA SidecarAddKeeps ==
    ASSUME NEW rows, NEW target \in Nat, NEW s \in SidecarLists(rows, target),
           NEW n \in Ids(rows)
    PROVE  LET t == SidecarAdd(s, n, target)
           IN  /\ t \in SidecarLists(rows, target) /\ Len(s) <= Len(t)
               /\ \A i \in DOMAIN s : i \in DOMAIN t /\ t[i] = s[i]
               /\ Len(t) < target => \E i \in DOMAIN t : t[i] = n
  <1>1. /\ s \in Seq(Ids(rows)) /\ Len(s) \in Nat /\ DOMAIN s = 1 .. Len(s) /\ Len(s) <= target
        /\ \A i, j \in DOMAIN s : s[i] = s[j] => i = j
    BY DEF SidecarLists
  <1>2. CASE Len(s) < target /\ \A i \in DOMAIN s : s[i] # n
    <2> DEFINE t == Append(s, n)
    <2>1. /\ t \in Seq(Ids(rows)) /\ Len(t) = Len(s) + 1 /\ DOMAIN t = 1 .. Len(s) + 1
          /\ t[Len(s) + 1] = n /\ \A i \in DOMAIN s : t[i] = s[i]
      BY <1>1
    <2> HIDE DEF t
    <2>2. \A i \in DOMAIN t : i = Len(s) + 1 \/ i \in DOMAIN s
      BY <1>1, <2>1
    <2>3. \A i, j \in DOMAIN t : t[i] = t[j] => i = j
      BY <1>1, <1>2, <2>1, <2>2
    <2>4. Len(t) <= target /\ Len(s) <= Len(t) /\ Len(s) + 1 \in DOMAIN t
      BY <1>1, <1>2, <2>1
    <2>5. t \in SidecarLists(rows, target)
      BY <2>1, <2>3, <2>4 DEF SidecarLists
    <2>6. \A i \in DOMAIN s : i \in DOMAIN t
      BY <1>1, <2>1
    <2>7. SidecarAdd(s, n, target) = t
      BY <1>2 DEF SidecarAdd, t
    <2> QED BY <2>1, <2>4, <2>5, <2>6, <2>7
  <1>3. CASE ~(Len(s) < target /\ \A i \in DOMAIN s : s[i] # n)
    <2>1. SidecarAdd(s, n, target) = s
      BY <1>3 DEF SidecarAdd
    <2> QED BY <1>1, <1>3, <2>1
  <1> QED BY <1>2, <1>3

\* A list that does not end full holds every node that was added.
LEMMA SidecarAddAllKeeps ==
    ASSUME NEW rows, NEW target \in Nat, NEW s \in SidecarLists(rows, target),
           NEW nodes, NEW N \in Nat, Len(nodes) = N, \A i \in 1 .. N : nodes[i] \in Ids(rows)
    PROVE  LET t == SidecarAddAll(s, nodes, target)
           IN  /\ t \in SidecarLists(rows, target)
               /\ Len(t) < target => \A i \in 1 .. N : \E j \in DOMAIN t : t[j] = nodes[i]
  <1> DEFINE Step(i, x) == SidecarAdd(x, nodes[i], target)
             Stage(i) == {x \in SidecarLists(rows, target) :
                             Len(x) < target => \A m \in 1 .. i : \E j \in DOMAIN x : x[j] = nodes[m]}
             first == s
             U == [i \in 0 .. N |-> Stage(i)]
             G == [i \in 1 .. N |-> [x \in Stage(i - 1) |-> Step(i, x)]]
             All == UNION {Stage(i) : i \in 0 .. N}
             Def(h) == [i \in 0 .. N |-> IF i = 0 THEN first ELSE Step(i, h[i - 1])]
             loop == CHOOSE h : h = Def(h)
  <1>1. N \in Nat
    OBVIOUS
  <1>2. first \in Stage(0)
    OBVIOUS
  <1>3. ASSUME NEW i \in 1 .. N, NEW x \in Stage(i - 1)
        PROVE  Step(i, x) \in Stage(i)
    <2> DEFINE y == SidecarAdd(x, nodes[i], target)
    <2>1. nodes[i] \in Ids(rows) /\ x \in SidecarLists(rows, target)
      OBVIOUS
    <2>2. Len(x) < target => \A m \in 1 .. i - 1 : \E j \in DOMAIN x : x[j] = nodes[m]
      OBVIOUS
    <2>3. /\ y \in SidecarLists(rows, target) /\ Len(x) <= Len(y)
          /\ \A j \in DOMAIN x : j \in DOMAIN y /\ y[j] = x[j]
          /\ Len(y) < target => \E j \in DOMAIN y : y[j] = nodes[i]
      BY <2>1, SidecarAddKeeps
    <2> HIDE DEF y, Stage
    <2>4. Len(x) \in Nat /\ Len(y) \in Nat
      BY <2>1, <2>3 DEF SidecarLists
    <2>5. ASSUME Len(y) < target, NEW m \in 1 .. i PROVE \E j \in DOMAIN y : y[j] = nodes[m]
      <3>1. CASE m = i
        BY <2>3, <2>5, <3>1
      <3>2. CASE m # i
        <4>1. m \in 1 .. i - 1 /\ Len(x) < target
          BY <2>3, <2>4, <2>5, <3>2
        <4>2. PICK j \in DOMAIN x : x[j] = nodes[m]
          BY <2>2, <4>1
        <4> QED BY <2>3, <4>2
      <3> QED BY <3>1, <3>2
    <2>6. y \in Stage(i)
      BY <2>3, <2>5 DEF Stage
    <2> QED BY <2>6 DEF y
  <1>4. SidecarAddAll(s, nodes, target) = loop[N]
    <2> HIDE DEF Stage, U, G, All
    <2> QED BY DEF SidecarAddAll
  <1>5. Stages(All, N, U, first, G)
    <2>1. /\ \A i \in 0 .. N : U[i] = Stage(i) /\ Stage(i) \subseteq All
          /\ \A i \in 1 .. N : i \in 0 .. N /\ i - 1 \in 0 .. N
          /\ \A i \in 1 .. N : G[i] = [x \in Stage(i - 1) |-> Step(i, x)]
      <3> HIDE DEF Stage, Step
      <3> QED BY <1>1
    <2> HIDE DEF Stage, Step, first, All, G
    <2>2. \A i \in 1 .. N : G[i] \in [U[i - 1] -> U[i]]
      <3>1. \A i \in 1 .. N : [x \in Stage(i - 1) |-> Step(i, x)] \in [Stage(i - 1) -> Stage(i)]
        BY <1>3
      <3> QED BY <2>1, <3>1
    <2>3. U \in [0 .. N -> SUBSET All]
      BY <2>1
    <2>4. first \in U[0]
      BY <1>1, <1>2, <2>1
    <2> QED BY <1>1, <2>2, <2>3, <2>4 DEF Stages
  <1>6. \A i \in 0 .. N : loop[i] \in Stage(i)
    <2> HIDE DEF Stage, Step, first, All, U, G
    <2>1. PICK h : Staged(N, U, first, G, h)
      BY ONLY <1>5, StagesExist
    <2>2. \A i \in 1 .. N : h[i - 1] \in Stage(i - 1) /\ h[i] = Step(i, h[i - 1])
      <3> TAKE i \in 1 .. N
      <3>1. i \in 0 .. N /\ i - 1 \in 0 .. N /\ U[i - 1] = Stage(i - 1)
        BY <1>1 DEF U
      <3>2. h[i - 1] \in Stage(i - 1)
        BY <2>1, <3>1 DEF Staged
      <3>3. G[i] = [x \in Stage(i - 1) |-> Step(i, x)]
        BY DEF G
      <3>4. h[i] = G[i][h[i - 1]]
        BY <2>1 DEF Staged
      <3> QED BY <3>2, <3>3, <3>4
    <2>3. h = Def(h)
      <3>1. \A i \in 0 .. N : h[i] = IF i = 0 THEN first ELSE Step(i, h[i - 1])
        <4> TAKE i \in 0 .. N
        <4>1. i # 0 => i \in 1 .. N
          BY <1>1
        <4> QED BY <2>1, <2>2, <4>1 DEF Staged
      <3> QED BY <2>1, <3>1 DEF Staged
    <2>4. loop = Def(loop)
      <3> HIDE DEF Def
      <3> QED BY <2>3
    <2> HIDE DEF loop
    <2>5. \A i \in 0 .. N : loop[i] = IF i = 0 THEN first ELSE Step(i, loop[i - 1])
      BY <2>4
    <2>6. loop[0] = first /\ \A i \in 1 .. N : loop[i] = Step(i, loop[i - 1])
      BY <1>1, <2>5
    <2> HIDE DEF Def
    <2>7. \A i \in 1 .. N : loop[i - 1] \in U[i - 1] => loop[i] \in U[i]
      <3> SUFFICES ASSUME NEW i \in 1 .. N, loop[i - 1] \in U[i - 1] PROVE loop[i] \in U[i]
        OBVIOUS
      <3>1. U[i - 1] = Stage(i - 1) /\ U[i] = Stage(i)
        BY <1>1 DEF U
      <3>2. loop[i - 1] \in Stage(i - 1)
        BY <3>1
      <3> QED BY <1>3, <2>6, <3>1, <3>2
    <2>8. loop[0] \in U[0]
      BY <1>1, <1>2, <2>6 DEF U
    <2>9. \A i \in 0 .. N : loop[i] \in U[i]
      BY <1>1, <2>7, <2>8, PlacesStay
    <2> QED BY <2>9 DEF U
  <1>7. loop[N] \in Stage(N)
    <2> HIDE DEF loop, Stage
    <2> QED BY <1>6
  <1> HIDE DEF loop
  <1> QED BY <1>4, <1>7

\* A list of all nodes is as long as the table.
LEMMA AllListed ==
    ASSUME NEW rows, BuildRows(rows), NEW target \in Nat, target <= Len(rows),
           NEW s \in SidecarLists(rows, target),
           \A n \in Ids(rows) : \E i \in DOMAIN s : s[i] = n
    PROVE  Len(s) = target
  <1>1. /\ Len(s) \in Nat /\ DOMAIN s = 1 .. Len(s) /\ Len(s) <= target
        /\ s \in [1 .. Len(s) -> Ids(rows)]
    BY DEF SidecarLists
  <1>2. s \in Surjection(1 .. Len(s), Ids(rows))
    BY <1>1 DEF Surjection
  <1>3. IsFiniteSet(1 .. Len(s)) /\ Cardinality(1 .. Len(s)) = Len(s)
    <2> DEFINE m == Len(s)
    <2>1. 1 \in Int /\ m \in Int /\ m >= 0
      BY <1>1
    <2>2. IsFiniteSet(1 .. m) /\ Cardinality(1 .. m) = IF 1 > m THEN 0 ELSE m - 1 + 1
      <3> HIDE DEF m
      <3> QED BY <2>1, FS_Interval
    <2> QED BY <2>1, <2>2
  <1>4. Cardinality(Ids(rows)) <= Len(s)
    BY <1>2, <1>3, FS_Surjection
  <1>5. Cardinality(Ids(rows)) = Len(rows) /\ Len(rows) \in Nat
    BY NodeFacts
  <1>6. PICK k \in Nat : k = Len(s)
    BY <1>1, Zenon
  <1>7. PICK m \in Nat : m = Len(rows)
    BY <1>5
  <1>8. m <= k /\ target <= m /\ k <= target
    BY <1>1, <1>4, <1>5, <1>6, <1>7
  <1>9. k = target
    BY <1>8
  <1> QED BY <1>6, <1>9

\* How far a node is from the representatives is a number.
LEMMA GapIsNumber ==
    ASSUME NEW rows, BuildRows(rows), NEW target, NEW s \in SidecarLists(rows, target),
           Len(s) >= 1, NEW n \in Ids(rows)
    PROVE  Gap(rows, s, n) \in Int
  <1> DEFINE f == [i \in DOMAIN s |-> Dist(rows, n, s[i])]
             ds == {Dist(rows, n, s[i]) : i \in DOMAIN s}
             L == {de \in ds \X ds : de[1] < de[2]}
  <1>1. Len(s) \in Nat /\ DOMAIN s = 1 .. Len(s) /\ \A i \in DOMAIN s : s[i] \in Ids(rows)
    BY DEF SidecarLists
  <1>2. ds \subseteq Int /\ ds # {}
    <2>1. 1 \in DOMAIN s
      BY <1>1
    <2>2. Dist(rows, n, s[1]) \in ds
      BY <2>1
    <2> QED BY <1>1, <2>2, NodeFacts
  <1>3. IsFiniteSet(ds)
    <2>1. IsFiniteSet(DOMAIN s)
      BY <1>1, FS_Interval
    <2>2. IsFiniteSet({f[i] : i \in DOMAIN s})
      <3> HIDE DEF f
      <3> QED BY <2>1, ImageIsFinite
    <2>3. {f[i] : i \in DOMAIN s} = ds
      OBVIOUS
    <2> QED BY <2>2, <2>3
  <1>4. \A d, e \in ds : <<d, e>> \in L <=> d < e
    OBVIOUS
  <1> HIDE DEF L
  <1>5. Gap(rows, s, n) = CHOOSE d \in ds : \A e \in ds : d <= e
    BY DEF Gap
  <1> HIDE DEF ds
  <1>6. StrictOrder(ds, L)
    BY <1>2, <1>4 DEF StrictOrder
  <1>7. \E d \in ds : \A e \in ds : e = d \/ <<d, e>> \in L
    BY <1>2, <1>3, <1>6, FirstAndLast
  <1>8. \E d \in ds : \A e \in ds : d <= e
    <2>1. PICK d \in ds : \A e \in ds : e = d \/ <<d, e>> \in L
      BY <1>7
    <2>2. ASSUME NEW e \in ds PROVE d <= e
      <3>1. d \in Int /\ e \in Int
        BY <1>2
      <3>2. e = d \/ d < e
        BY <1>4, <2>1
      <3> QED BY <3>1, <3>2
    <2> QED BY <2>2
  <1>9. (CHOOSE d \in ds : \A e \in ds : d <= e) \in ds
    BY <1>8
  <1> QED BY <1>2, <1>5, <1>9

\* The farthest node is one more, until the list is full.
LEMMA FarthestKeeps ==
    ASSUME NEW rows, BuildRows(rows), NEW target \in Nat, target <= Len(rows),
           NEW s \in SidecarLists(rows, target), Len(s) >= 1
    PROVE  LET t == AddFarthest(rows, s, target)
           IN  t \in SidecarLists(rows, target)
               /\ (Len(s) < target => Len(t) = Len(s) + 1) /\ (Len(s) = target => t = s)
  <1> DEFINE left == {n \in Ids(rows) : \A i \in DOMAIN s : s[i] # n}
             L == {no \in left \X left : Gap(rows, s, no[1]) > Gap(rows, s, no[2])
                      \/ (Gap(rows, s, no[1]) = Gap(rows, s, no[2]) /\ no[1] < no[2])}
             far == CHOOSE n \in left : \A o \in left :
                      Gap(rows, s, n) > Gap(rows, s, o) \/ (Gap(rows, s, n) = Gap(rows, s, o) /\ n <= o)
  <1>1. Len(s) \in Nat /\ DOMAIN s = 1 .. Len(s) /\ Len(s) <= target /\ s \in Seq(Ids(rows))
    BY DEF SidecarLists
  <1>2. CASE Len(s) = target
    <2>1. AddFarthest(rows, s, target) = s
      BY <1>1, <1>2 DEF AddFarthest
    <2> QED BY <1>1, <1>2, <2>1
  <1>3. CASE Len(s) < target
    <2>1. left # {}
      <3> SUFFICES ASSUME left = {} PROVE FALSE
        OBVIOUS
      <3>1. \A n \in Ids(rows) : \E i \in DOMAIN s : s[i] = n
        OBVIOUS
      <3>2. Len(s) = target
        BY <3>1, AllListed
      <3> QED BY <1>1, <1>3, <3>2
    <2>2. IsFiniteSet(left) /\ left \subseteq Ids(rows)
      BY NodeFacts, FS_Subset
    <2>3. \A n, o \in left : <<n, o>> \in L <=> Gap(rows, s, n) > Gap(rows, s, o)
                                                 \/ (Gap(rows, s, n) = Gap(rows, s, o) /\ n < o)
      OBVIOUS
    <2>4. \A n \in left : n \in Int /\ Gap(rows, s, n) \in Int
      BY <2>2, NodeFacts, GapIsNumber
    <2>5. \A n \in left : n \in Ids(rows) /\ \A i \in DOMAIN s : s[i] # n
      OBVIOUS
    <2>6. AddFarthest(rows, s, target) = Append(s, far)
      BY <1>1, <1>3, <2>1 DEF AddFarthest
    <2> HIDE DEF L, left
    <2>7. StrictOrder(left, L)
      <3>1. \A x \in left : <<x, x>> \notin L
        BY <2>3, <2>4
      <3>2. \A x, y, z \in left : <<x, y>> \in L /\ <<y, z>> \in L => <<x, z>> \in L
        BY <2>3, <2>4
      <3>3. \A x, y \in left : x = y \/ <<x, y>> \in L \/ <<y, x>> \in L
        <4> TAKE x, y \in left
        <4>1. x = y \/ x < y \/ y < x
          BY <2>4
        <4>2. Gap(rows, s, x) > Gap(rows, s, y) \/ Gap(rows, s, x) = Gap(rows, s, y)
              \/ Gap(rows, s, y) > Gap(rows, s, x)
          BY <2>4
        <4> QED BY <2>3, <4>1, <4>2
      <3> QED BY <3>1, <3>2, <3>3 DEF StrictOrder
    <2>8. PICK n \in left : \A o \in left : o = n \/ <<n, o>> \in L
      BY <2>1, <2>2, <2>7, FirstAndLast
    <2>9. \A o \in left : Gap(rows, s, n) > Gap(rows, s, o)
                            \/ (Gap(rows, s, n) = Gap(rows, s, o) /\ n <= o)
      <3> TAKE o \in left
      <3>1. CASE o = n
        BY <2>4, <3>1
      <3>2. CASE <<n, o>> \in L
        BY <2>3, <2>4, <3>2
      <3> QED BY <2>8, <3>1, <3>2
    <2>10. far \in left
      BY <2>9
    <2> HIDE DEF far
    <2>11. far \in Ids(rows) /\ \A i \in DOMAIN s : s[i] # far
      BY <2>5, <2>10
    <2>12. Append(s, far) = SidecarAdd(s, far, target)
      BY <1>3, <2>11 DEF SidecarAdd
    <2>13. SidecarAdd(s, far, target) \in SidecarLists(rows, target)
      BY <2>11, SidecarAddKeeps
    <2>14. Len(Append(s, far)) = Len(s) + 1
      BY <1>1, <2>11
    <2>15. Len(s) # target
      <3>1. PICK k \in Nat : k = Len(s)
        BY <1>1, Zenon
      <3>2. k < target
        BY <1>3, <3>1
      <3>3. k # target
        BY <3>2
      <3> QED BY <3>1, <3>3
    <2> QED BY <1>3, <2>6, <2>12, <2>13, <2>14, <2>15
  <1>4. Len(s) = target \/ Len(s) < target
    <2>1. PICK k \in Nat : k = Len(s)
      BY <1>1, Zenon
    <2>2. k <= target
      BY <1>1, <2>1
    <2>3. k = target \/ k < target
      BY <2>2
    <2> QED BY <2>1, <2>3
  <1> QED BY <1>2, <1>3, <1>4

LEMMA SidecarFarthestFull ==
    ASSUME NEW rows, BuildRows(rows), NEW target \in Nat, target >= 1, target <= Len(rows),
           NEW s \in SidecarLists(rows, target), NEW entry, entry.id \in Ids(rows)
    PROVE  LET t == SidecarFarthest(rows, s, entry, target)
           IN  t \in SidecarLists(rows, target) /\ Len(t) = target
  <1> DEFINE Step(i, x) == AddFarthest(rows, x, target)
             Stage(i) == {x \in SidecarLists(rows, target) : Len(x) >= 1 /\ Len(x) >= i}
             first == IF s # <<>> THEN s ELSE SidecarAdd(s, entry.id, target)
             U == [i \in 0 .. target |-> Stage(i)]
             G == [i \in 1 .. target |-> [x \in Stage(i - 1) |-> Step(i, x)]]
             All == UNION {Stage(i) : i \in 0 .. target}
             Def(h) == [i \in 0 .. target |-> IF i = 0 THEN first ELSE Step(i, h[i - 1])]
             loop == CHOOSE h : h = Def(h)
  <1>1. target \in Nat
    OBVIOUS
  <1>2. first \in Stage(0)
    <2>1. s \in Seq(Ids(rows)) /\ Len(s) \in Nat
      BY DEF SidecarLists
    <2>2. CASE s # <<>>
      <3>1. Len(s) >= 1
        BY <2>1, <2>2
      <3> QED BY <2>1, <2>2, <3>1
    <2>3. CASE s = <<>>
      <3> DEFINE t == SidecarAdd(s, entry.id, target)
      <3>1. t \in SidecarLists(rows, target)
        BY SidecarAddKeeps
      <3>2. t = Append(s, entry.id)
        BY <2>3 DEF SidecarAdd
      <3>3. Len(t) = 1
        BY <2>3, <3>2
      <3>4. first = t
        BY <2>3
      <3> HIDE DEF t
      <3>5. t \in SidecarLists(rows, target) /\ Len(t) >= 1 /\ Len(t) >= 0
        BY <3>1, <3>3
      <3>6. t \in Stage(0)
        BY <3>5
      <3> HIDE DEF first, Stage
      <3> QED BY <3>4, <3>6
    <2> QED BY <2>2, <2>3
  <1>3. ASSUME NEW i \in 1 .. target, NEW x \in Stage(i - 1)
        PROVE  Step(i, x) \in Stage(i)
    <2> DEFINE y == AddFarthest(rows, x, target)
    <2>1. x \in SidecarLists(rows, target) /\ Len(x) >= 1 /\ Len(x) >= i - 1
          /\ Len(x) \in Nat /\ Len(x) <= target
      BY DEF SidecarLists
    <2>2. y \in SidecarLists(rows, target)
          /\ (Len(x) < target => Len(y) = Len(x) + 1) /\ (Len(x) = target => y = x)
      BY <2>1, FarthestKeeps
    <2> HIDE DEF y, Stage
    <2>3. Len(y) >= 1 /\ Len(y) >= i
      BY <2>1, <2>2
    <2>4. y \in Stage(i)
      BY <2>2, <2>3 DEF Stage
    <2> QED BY <2>4 DEF y
  <1>4. SidecarFarthest(rows, s, entry, target) = loop[target]
    <2> HIDE DEF Stage, U, G, All
    <2> QED BY DEF SidecarFarthest
  <1>5. Stages(All, target, U, first, G)
    <2>1. /\ \A i \in 0 .. target : U[i] = Stage(i) /\ Stage(i) \subseteq All
          /\ \A i \in 1 .. target : i \in 0 .. target /\ i - 1 \in 0 .. target
          /\ \A i \in 1 .. target : G[i] = [x \in Stage(i - 1) |-> Step(i, x)]
      <3> HIDE DEF Stage, Step
      <3> QED BY <1>1
    <2> HIDE DEF Stage, Step, first, All, G
    <2>2. \A i \in 1 .. target : G[i] \in [U[i - 1] -> U[i]]
      <3>1. \A i \in 1 .. target : [x \in Stage(i - 1) |-> Step(i, x)] \in [Stage(i - 1) -> Stage(i)]
        BY <1>3
      <3> QED BY <2>1, <3>1
    <2>3. U \in [0 .. target -> SUBSET All]
      BY <2>1
    <2>4. first \in U[0]
      BY <1>1, <1>2, <2>1
    <2> QED BY <1>1, <2>2, <2>3, <2>4 DEF Stages
  <1>6. \A i \in 0 .. target : loop[i] \in Stage(i)
    <2> HIDE DEF Stage, Step, first, All, U, G
    <2>1. PICK h : Staged(target, U, first, G, h)
      BY ONLY <1>5, StagesExist
    <2>2. \A i \in 1 .. target : h[i - 1] \in Stage(i - 1) /\ h[i] = Step(i, h[i - 1])
      <3> TAKE i \in 1 .. target
      <3>1. i \in 0 .. target /\ i - 1 \in 0 .. target /\ U[i - 1] = Stage(i - 1)
        BY <1>1 DEF U
      <3>2. h[i - 1] \in Stage(i - 1)
        BY <2>1, <3>1 DEF Staged
      <3>3. G[i] = [x \in Stage(i - 1) |-> Step(i, x)]
        BY DEF G
      <3>4. h[i] = G[i][h[i - 1]]
        BY <2>1 DEF Staged
      <3> QED BY <3>2, <3>3, <3>4
    <2>3. h = Def(h)
      <3>1. \A i \in 0 .. target : h[i] = IF i = 0 THEN first ELSE Step(i, h[i - 1])
        <4> TAKE i \in 0 .. target
        <4>1. i # 0 => i \in 1 .. target
          BY <1>1
        <4> QED BY <2>1, <2>2, <4>1 DEF Staged
      <3> QED BY <2>1, <3>1 DEF Staged
    <2>4. loop = Def(loop)
      <3> HIDE DEF Def
      <3> QED BY <2>3
    <2> HIDE DEF loop
    <2>5. \A i \in 0 .. target : loop[i] = IF i = 0 THEN first ELSE Step(i, loop[i - 1])
      BY <2>4
    <2>6. loop[0] = first /\ \A i \in 1 .. target : loop[i] = Step(i, loop[i - 1])
      BY <1>1, <2>5
    <2> HIDE DEF Def
    <2>7. \A i \in 1 .. target : loop[i - 1] \in U[i - 1] => loop[i] \in U[i]
      <3> SUFFICES ASSUME NEW i \in 1 .. target, loop[i - 1] \in U[i - 1] PROVE loop[i] \in U[i]
        OBVIOUS
      <3>1. U[i - 1] = Stage(i - 1) /\ U[i] = Stage(i)
        BY <1>1 DEF U
      <3>2. loop[i - 1] \in Stage(i - 1)
        BY <3>1
      <3> QED BY <1>3, <2>6, <3>1, <3>2
    <2>8. loop[0] \in U[0]
      BY <1>1, <1>2, <2>6 DEF U
    <2>9. \A i \in 0 .. target : loop[i] \in U[i]
      BY <1>1, <2>7, <2>8, PlacesStay
    <2> QED BY <2>9 DEF U
  <1>7. loop[target] \in Stage(target)
    <2> HIDE DEF loop, Stage
    <2> QED BY <1>6
  <1> HIDE DEF loop
  <1>8. Len(loop[target]) \in Nat /\ Len(loop[target]) <= target
    BY <1>7 DEF SidecarLists
  <1> QED BY <1>4, <1>7, <1>8

\* A list of the elements of a set, each once.
Listing(s, S) ==
    /\ s \in Seq(S) /\ Len(s) \in Nat /\ DOMAIN s = 1 .. Len(s)
    /\ \A i, j \in DOMAIN s : s[i] = s[j] => i = j
    /\ \A x \in S : \E i \in DOMAIN s : s[i] = x

LEMMA RanksAreAListing ==
    ASSUME NEW S, IsFiniteSet(S), NEW L, StrictOrder(S, L), NEW s, s = RankList(S, L)
    PROVE  Listing(s, S)
  <1>1. /\ Cardinality(S) \in Nat /\ s \in [1 .. Cardinality(S) -> S]
        /\ \A i, j \in 1 .. Cardinality(S) : s[i] = s[j] => i = j
        /\ \A x \in S : \E i \in 1 .. Cardinality(S) : s[i] = x
    BY OrderedList
  <1>2. s \in Seq(S) /\ Len(s) = Cardinality(S) /\ DOMAIN s = 1 .. Cardinality(S)
    BY <1>1
  <1> QED BY <1>1, <1>2 DEF Listing

\* The residues of the keys are the buckets.
LEMMA Residues ==
    ASSUME NEW rows, BuildRows(rows), NEW target \in Nat \ {0}
    PROVE  \A n \in Ids(rows) : /\ n \in Int /\ Key[n] \in Int /\ Level[n] \in Int
                                /\ Key[n] % target \in 0 .. target - 1
  <1> TAKE n \in Ids(rows)
  <1>1. n \in Nat /\ Key[n] \in Nat /\ Level[n] \in Nat
    BY NodeFacts
  <1>2. PICK k \in Nat : k = Key[n]
    BY <1>1
  <1>3. k % target \in 0 .. target - 1
    OBVIOUS
  <1> QED BY <1>1, <1>2, <1>3

\* Every bucket has at most one winner.
LEMMA OneWinner ==
    ASSUME NEW rows, BuildRows(rows), NEW target \in Nat \ {0}, NEW byLevel \in BOOLEAN
    PROVE  /\ BucketWinners(rows, target, byLevel) \subseteq Ids(rows)
           /\ IsFiniteSet(BucketWinners(rows, target, byLevel))
           /\ \A x, y \in BucketWinners(rows, target, byLevel) :
                 Key[x] % target = Key[y] % target => x = y
  <1> DEFINE bucket(i) == {n \in Ids(rows) : Key[n] % target = i}
             Better(a, b) ==
                \/ byLevel /\ Level[a] > Level[b]
                \/ (byLevel => Level[a] = Level[b])
                   /\ (Key[a] < Key[b] \/ (Key[a] = Key[b] /\ a < b))
             win(i) == CHOOSE n \in bucket(i) : \A k \in bucket(i) : k = n \/ Better(n, k)
             W == BucketWinners(rows, target, byLevel)
  <1>1. W = {win(i) : i \in {i \in 0 .. target - 1 : bucket(i) # {}}}
    BY DEF BucketWinners
  <1>2. ASSUME NEW i \in 0 .. target - 1, bucket(i) # {}
        PROVE  win(i) \in bucket(i)
    <2> DEFINE S == bucket(i)
               L == {ab \in S \X S : Better(ab[1], ab[2])}
    <2>1. IsFiniteSet(S) /\ S \subseteq Ids(rows)
      BY NodeFacts, FS_Subset
    <2>2. \A a \in S : a \in Int /\ Key[a] \in Int /\ Level[a] \in Int
      BY <2>1, Residues
    <2>3. \A a, b \in S : <<a, b>> \in L <=> Better(a, b)
      OBVIOUS
    <2> HIDE DEF S, L
    <2>4. StrictOrder(S, L)
      <3>1. CASE byLevel = TRUE
        <4>1. \A a, b \in S : <<a, b>> \in L <=>
                 \/ Level[a] > Level[b]
                 \/ Level[a] = Level[b] /\ (Key[a] < Key[b] \/ (Key[a] = Key[b] /\ a < b))
          <5> TAKE a, b \in S
          <5>1. Better(a, b) <=>
                   \/ Level[a] > Level[b]
                   \/ Level[a] = Level[b] /\ (Key[a] < Key[b] \/ (Key[a] = Key[b] /\ a < b))
            BY <3>1
          <5> HIDE DEF Better
          <5> QED BY <2>3, <5>1
        <4> HIDE DEF Better
        <4>2. \A x \in S : <<x, x>> \notin L
          BY <2>2, <4>1
        <4>3. \A x, y, z \in S : <<x, y>> \in L /\ <<y, z>> \in L => <<x, z>> \in L
          BY <2>2, <4>1
        <4>4. \A x, y \in S : x = y \/ <<x, y>> \in L \/ <<y, x>> \in L
          <5> TAKE x, y \in S
          <5>1. x = y \/ x < y \/ y < x
            BY <2>2
          <5>2. Key[x] < Key[y] \/ Key[x] = Key[y] \/ Key[y] < Key[x]
            BY <2>2
          <5>3. Level[x] > Level[y] \/ Level[x] = Level[y] \/ Level[y] > Level[x]
            BY <2>2
          <5> QED BY <4>1, <5>1, <5>2, <5>3
        <4> QED BY <4>2, <4>3, <4>4 DEF StrictOrder
      <3>2. CASE byLevel = FALSE
        <4>1. \A a, b \in S : <<a, b>> \in L <=> Key[a] < Key[b] \/ (Key[a] = Key[b] /\ a < b)
          <5> TAKE a, b \in S
          <5>1. Better(a, b) <=> Key[a] < Key[b] \/ (Key[a] = Key[b] /\ a < b)
            BY <3>2
          <5> HIDE DEF Better
          <5> QED BY <2>3, <5>1
        <4> HIDE DEF Better
        <4>2. \A x \in S : <<x, x>> \notin L
          BY <2>2, <4>1
        <4>3. \A x, y, z \in S : <<x, y>> \in L /\ <<y, z>> \in L => <<x, z>> \in L
          BY <2>2, <4>1
        <4>4. \A x, y \in S : x = y \/ <<x, y>> \in L \/ <<y, x>> \in L
          <5> TAKE x, y \in S
          <5>1. x = y \/ x < y \/ y < x
            BY <2>2
          <5>2. Key[x] < Key[y] \/ Key[x] = Key[y] \/ Key[y] < Key[x]
            BY <2>2
          <5> QED BY <4>1, <5>1, <5>2
        <4> QED BY <4>2, <4>3, <4>4 DEF StrictOrder
      <3> QED BY <3>1, <3>2
    <2>5. S # {}
      BY <1>2 DEF S
    <2>6. PICK n \in S : \A k \in S : k = n \/ <<n, k>> \in L
      BY <2>1, <2>4, <2>5, FirstAndLast
    <2> HIDE DEF Better
    <2>7. \A k \in S : k = n \/ Better(n, k)
      BY <2>3, <2>6
    <2> QED BY <2>7 DEF S
  <1> HIDE DEF win, W
  <1>3. \A x \in W : \E i \in 0 .. target - 1 : x = win(i) /\ x \in Ids(rows) /\ Key[x] % target = i
    <2> TAKE x \in W
    <2>1. PICK i \in 0 .. target - 1 : bucket(i) # {} /\ x = win(i)
      BY <1>1
    <2>2. x \in bucket(i)
      BY <1>2, <2>1
    <2> QED BY <2>1, <2>2
  <1>4. W \subseteq Ids(rows) /\ \A x, y \in W : Key[x] % target = Key[y] % target => x = y
    BY <1>3
  <1>5. IsFiniteSet(W)
    BY <1>4, NodeFacts, FS_Subset
  <1> QED BY <1>4, <1>5 DEF W

\* The hash sidecar: the winners, by their buckets.
LEMMA HashListing ==
    ASSUME NEW rows, BuildRows(rows), NEW target \in Nat \ {0}
    PROVE  Listing(SidecarHash(rows, target), BucketWinners(rows, target, FALSE))
  <1> DEFINE W == BucketWinners(rows, target, FALSE)
             s == SidecarHash(rows, target)
             L == {ab \in W \X W : Key[ab[1]] % target < Key[ab[2]] % target}
  <1>1. /\ W \subseteq Ids(rows) /\ IsFiniteSet(W)
        /\ \A x, y \in W : Key[x] % target = Key[y] % target => x = y
    BY OneWinner
  <1>2. s = [i \in 1 .. Cardinality(W) |->
                CHOOSE x \in W : Cardinality({y \in W : Key[y] % target < Key[x] % target}) = i - 1]
    BY DEF SidecarHash, Sorted
  <1> HIDE DEF W, s
  <1>3. \A a, b \in W : <<a, b>> \in L <=> Key[a] % target < Key[b] % target
    OBVIOUS
  <1>4. \A x \in W : {y \in W : <<y, x>> \in L} = {y \in W : Key[y] % target < Key[x] % target}
    BY <1>3
  <1> HIDE DEF L
  <1>5. s = RankList(W, L)
    <2> DEFINE at(i) == CHOOSE x \in W : Cardinality({y \in W : Key[y] % target < Key[x] % target}) = i - 1
               ranked(i) == CHOOSE x \in W : Cardinality({y \in W : <<y, x>> \in L}) = i - 1
    <2>1. \A i \in 1 .. Cardinality(W) : at(i) = ranked(i)
      BY <1>4, Zenon
    <2>2. s = [i \in 1 .. Cardinality(W) |-> at(i)]
      BY <1>2
    <2>3. RankList(W, L) = [i \in 1 .. Cardinality(W) |-> ranked(i)]
      BY DEF RankList
    <2> HIDE DEF at, ranked
    <2> QED BY <2>1, <2>2, <2>3
  <1>6. StrictOrder(W, L)
    <2>1. \A a \in W : Key[a] % target \in Int
      BY <1>1, Residues
    <2>2. \A x \in W : <<x, x>> \notin L
      BY <1>3, <2>1
    <2>3. \A x, y, z \in W : <<x, y>> \in L /\ <<y, z>> \in L => <<x, z>> \in L
      BY <1>3, <2>1
    <2>4. \A x, y \in W : x = y \/ <<x, y>> \in L \/ <<y, x>> \in L
      <3> TAKE x, y \in W
      <3>1. Key[x] % target < Key[y] % target \/ Key[x] % target = Key[y] % target
            \/ Key[y] % target < Key[x] % target
        BY <2>1
      <3> QED BY <1>1, <1>3, <3>1
    <2> QED BY <2>2, <2>3, <2>4 DEF StrictOrder
  <1>7. Listing(s, W)
    BY <1>1, <1>5, <1>6, RanksAreAListing
  <1> QED BY <1>7 DEF s, W

\* The sidecar of the highest levels is full.
LEMMA LevelCoveringFull ==
    ASSUME NEW rows, BuildRows(rows), NEW target \in Nat \ {0}, target <= Len(rows)
    PROVE  LET t == SidecarLevelCovering(rows, <<>>, target)
           IN  t \in SidecarLists(rows, target) /\ Len(t) = target
  <1> DEFINE W == BucketWinners(rows, target, TRUE)
             R == Ids(rows)
             LW == {ab \in W \X W : Level[ab[1]] > Level[ab[2]]
                       \/ (Level[ab[1]] = Level[ab[2]] /\ Key[ab[1]] % target < Key[ab[2]] % target)}
             LR == {ab \in R \X R : Level[ab[1]] > Level[ab[2]]
                       \/ (Level[ab[1]] = Level[ab[2]] /\ ab[1] < ab[2])}
             winners == [i \in 1 .. Cardinality(W) |->
                CHOOSE x \in W : Cardinality({y \in W : Level[y] > Level[x]
                    \/ (Level[y] = Level[x] /\ Key[y] % target < Key[x] % target)}) = i - 1]
             rest == [i \in 1 .. Cardinality(R) |->
                CHOOSE x \in R : Cardinality({y \in R : Level[y] > Level[x]
                    \/ (Level[y] = Level[x] /\ y < x)}) = i - 1]
             s == SidecarAddAll(<<>>, winners, target)
             t == SidecarAddAll(s, rest, target)
  <1>1. SidecarLevelCovering(rows, <<>>, target) = t
    BY DEF SidecarLevelCovering, Sorted
  <1>2. /\ W \subseteq R /\ IsFiniteSet(W)
        /\ \A x, y \in W : Key[x] % target = Key[y] % target => x = y
    BY OneWinner
  <1>3. \A a \in R : a \in Int /\ Level[a] \in Int /\ Key[a] % target \in Int
    BY Residues
  <1> HIDE DEF W
  <1>4. Listing(winners, W)
    <2>1. \A a, b \in W : <<a, b>> \in LW <=>
             Level[a] > Level[b] \/ (Level[a] = Level[b] /\ Key[a] % target < Key[b] % target)
      OBVIOUS
    <2>2. \A x \in W : {y \in W : <<y, x>> \in LW}
             = {y \in W : Level[y] > Level[x]
                             \/ (Level[y] = Level[x] /\ Key[y] % target < Key[x] % target)}
      BY <2>1
    <2> HIDE DEF LW
    <2>3. winners = RankList(W, LW)
      <3> DEFINE at(i) == CHOOSE x \in W : Cardinality({y \in W : Level[y] > Level[x]
                             \/ (Level[y] = Level[x] /\ Key[y] % target < Key[x] % target)}) = i - 1
                 ranked(i) == CHOOSE x \in W : Cardinality({y \in W : <<y, x>> \in LW}) = i - 1
      <3>1. \A i \in 1 .. Cardinality(W) : at(i) = ranked(i)
        BY <2>2, Zenon
      <3>2. winners = [i \in 1 .. Cardinality(W) |-> at(i)]
        OBVIOUS
      <3>3. RankList(W, LW) = [i \in 1 .. Cardinality(W) |-> ranked(i)]
        BY DEF RankList
      <3> HIDE DEF at, ranked, winners
      <3> QED BY <3>1, <3>2, <3>3
    <2> HIDE DEF winners
    <2>4. StrictOrder(W, LW)
      <3>1. \A x \in W : <<x, x>> \notin LW
        BY <1>2, <1>3, <2>1
      <3>2. \A x, y, z \in W : <<x, y>> \in LW /\ <<y, z>> \in LW => <<x, z>> \in LW
        BY <1>2, <1>3, <2>1
      <3>3. \A x, y \in W : x = y \/ <<x, y>> \in LW \/ <<y, x>> \in LW
        <4> TAKE x, y \in W
        <4>1. Key[x] % target < Key[y] % target \/ Key[x] % target = Key[y] % target
              \/ Key[y] % target < Key[x] % target
          BY <1>2, <1>3
        <4>2. Level[x] > Level[y] \/ Level[x] = Level[y] \/ Level[y] > Level[x]
          BY <1>2, <1>3
        <4> QED BY <1>2, <2>1, <4>1, <4>2
      <3> QED BY <3>1, <3>2, <3>3 DEF StrictOrder
    <2> QED BY <1>2, <2>3, <2>4, RanksAreAListing
  <1>5. Listing(rest, R)
    <2>1. \A a, b \in R : <<a, b>> \in LR <=>
             Level[a] > Level[b] \/ (Level[a] = Level[b] /\ a < b)
      OBVIOUS
    <2>2. \A x \in R : {y \in R : <<y, x>> \in LR}
             = {y \in R : Level[y] > Level[x] \/ (Level[y] = Level[x] /\ y < x)}
      BY <2>1
    <2>3. IsFiniteSet(R)
      BY NodeFacts
    <2> HIDE DEF LR, R
    <2>4. rest = RankList(R, LR)
      <3> DEFINE at(i) == CHOOSE x \in R : Cardinality({y \in R : Level[y] > Level[x]
                             \/ (Level[y] = Level[x] /\ y < x)}) = i - 1
                 ranked(i) == CHOOSE x \in R : Cardinality({y \in R : <<y, x>> \in LR}) = i - 1
      <3>1. \A i \in 1 .. Cardinality(R) : at(i) = ranked(i)
        BY <2>2, Zenon
      <3>2. rest = [i \in 1 .. Cardinality(R) |-> at(i)]
        OBVIOUS
      <3>3. RankList(R, LR) = [i \in 1 .. Cardinality(R) |-> ranked(i)]
        BY DEF RankList
      <3> HIDE DEF at, ranked, rest
      <3> QED BY <3>1, <3>2, <3>3
    <2> HIDE DEF rest
    <2>5. StrictOrder(R, LR)
      <3>1. \A x \in R : <<x, x>> \notin LR
        BY <1>3, <2>1
      <3>2. \A x, y, z \in R : <<x, y>> \in LR /\ <<y, z>> \in LR => <<x, z>> \in LR
        BY <1>3, <2>1
      <3>3. \A x, y \in R : x = y \/ <<x, y>> \in LR \/ <<y, x>> \in LR
        <4> TAKE x, y \in R
        <4>1. x = y \/ x < y \/ y < x
          BY <1>3
        <4>2. Level[x] > Level[y] \/ Level[x] = Level[y] \/ Level[y] > Level[x]
          BY <1>3
        <4> QED BY <2>1, <4>1, <4>2
      <3> QED BY <3>1, <3>2, <3>3 DEF StrictOrder
    <2> QED BY <2>3, <2>4, <2>5, RanksAreAListing
  <1> HIDE DEF winners, rest, LW, LR
  <1>6. s \in SidecarLists(rows, target)
    <2>1. <<>> \in SidecarLists(rows, target)
      BY DEF SidecarLists
    <2>2. PICK N \in Nat : N = Len(winners)
      BY <1>4 DEF Listing
    <2>3. \A i \in 1 .. N : winners[i] \in Ids(rows)
      BY <1>2, <1>4, <2>2 DEF Listing
    <2> QED BY <2>1, <2>2, <2>3, SidecarAddAllKeeps
  <1> HIDE DEF s
  <1>7. PICK N \in Nat : N = Len(rest)
    BY <1>5 DEF Listing
  <1>8. \A i \in 1 .. N : rest[i] \in Ids(rows)
    BY <1>5, <1>7 DEF Listing
  <1>9. /\ t \in SidecarLists(rows, target)
        /\ Len(t) < target => \A i \in 1 .. N : \E j \in DOMAIN t : t[j] = rest[i]
    BY <1>6, <1>7, <1>8, SidecarAddAllKeeps
  <1> HIDE DEF t
  <1>10. Len(t) = target
    <2>1. PICK k \in Nat : k = Len(t) /\ k <= target
      BY <1>9 DEF SidecarLists
    <2>2. CASE k < target
      <3>1. \A n \in Ids(rows) : \E i \in DOMAIN t : t[i] = n
        <4> TAKE n \in Ids(rows)
        <4>1. PICK i \in DOMAIN rest : rest[i] = n
          BY <1>5 DEF Listing
        <4>2. i \in 1 .. N
          BY <1>5, <1>7, <4>1 DEF Listing
        <4> QED BY <1>9, <2>1, <2>2, <4>1, <4>2
      <3> QED BY <1>9, <3>1, AllListed
    <2>3. CASE k = target
      BY <2>1, <2>3
    <2> QED BY <2>1, <2>2, <2>3
  <1> QED BY <1>1, <1>9, <1>10

\* The sidecar holds distinct nodes, as many as there may be unless it is one of
\* hash buckets.
LEMMA SidecarIsFull ==
    ASSUME NEW rows, BuildRows(rows), NEW entry, rows # <<>> => entry.id \in Ids(rows)
    PROVE  LET s == EntrySidecar(rows, entry)
           IN  /\ s \in Seq(Ids(rows)) /\ \A i, j \in DOMAIN s : s[i] = s[j] => i = j
               /\ Strategy # "hash" => Len(s) = MinOf(Representatives, Len(rows))
  <1> DEFINE target == MinOf(Representatives, Len(rows))
             quarter == MaxOf(1, target \div 4)
             s == EntrySidecar(rows, entry)
  <1>1. target \in Nat /\ target <= Len(rows) /\ Len(rows) \in Nat
    BY NodeFacts, BuildGraphAssumption DEF MinOf
  <1>2. CASE target = 0
    <2>1. s = <<>>
      BY <1>2 DEF EntrySidecar
    <2> QED BY <1>2, <2>1
  <1>3. CASE target # 0
    <2>1. rows # <<>>
      <3>1. Len(<<>>) = 0
        OBVIOUS
      <3> QED BY <1>1, <1>3, <3>1
    <2>2. entry.id \in Ids(rows)
      BY <2>1
    <2>3. target \in Nat \ {0} /\ target >= 1
      BY <1>1, <1>3
    <2>4. quarter \in Nat \ {0} /\ quarter <= target
      <3> HIDE DEF target
      <3>1. target \div 4 \in Nat /\ target \div 4 <= target
        BY <2>3
      <3> QED BY <2>3, <3>1 DEF MaxOf
    <2>5. s = CASE Strategy = "hash"     -> SidecarHash(rows, target)
                [] Strategy = "farthest" -> SidecarFarthest(rows, <<>>, entry, target)
                [] Strategy = "level"    -> SidecarLevelCovering(rows, <<>>, target)
                [] Strategy = "hybrid"   ->
                      SidecarFarthest(rows, SidecarLevelCovering(rows, <<>>, quarter), entry, target)
      BY <1>3 DEF EntrySidecar
    <2> HIDE DEF target, quarter, s
    <2>6. \A x \in SidecarLists(rows, target) : x \in Seq(Ids(rows)) /\ \A i, j \in DOMAIN x : x[i] = x[j] => i = j
      BY DEF SidecarLists
    <2>7. CASE Strategy = "hash"
      <3>1. s = SidecarHash(rows, target)
        BY <2>5, <2>7
      <3>2. Listing(s, BucketWinners(rows, target, FALSE)) /\ BucketWinners(rows, target, FALSE) \subseteq Ids(rows)
        BY <2>3, <3>1, HashListing, OneWinner
      <3>3. s \in Seq(Ids(rows)) /\ \A i, j \in DOMAIN s : s[i] = s[j] => i = j
        <4>1. PICK W : W = BucketWinners(rows, target, FALSE)
          OBVIOUS
        <4>2. s \in Seq(W) /\ W \subseteq Ids(rows)
          BY <3>2, <4>1 DEF Listing
        <4>3. s \in Seq(Ids(rows))
          BY <4>2
        <4>4. \A i, j \in DOMAIN s : s[i] = s[j] => i = j
          BY <3>2 DEF Listing
        <4> QED BY <4>3, <4>4
      <3> QED BY <2>7, <3>3 DEF s
    <2>8. CASE Strategy = "farthest"
      <3>1. s = SidecarFarthest(rows, <<>>, entry, target)
        BY <2>5, <2>8
      <3>2. <<>> \in SidecarLists(rows, target)
        BY <1>1 DEF SidecarLists
      <3>3. s \in SidecarLists(rows, target) /\ Len(s) = target
        BY <1>1, <2>2, <2>3, <3>1, <3>2, SidecarFarthestFull
      <3> QED BY <2>6, <3>3 DEF s, target
    <2>9. CASE Strategy = "level"
      <3>1. s = SidecarLevelCovering(rows, <<>>, target)
        BY <2>5, <2>9
      <3>2. s \in SidecarLists(rows, target) /\ Len(s) = target
        BY <1>1, <2>3, <3>1, LevelCoveringFull
      <3> QED BY <2>6, <3>2 DEF s, target
    <2>10. CASE Strategy = "hybrid"
      <3> DEFINE q == SidecarLevelCovering(rows, <<>>, quarter)
      <3>1. s = SidecarFarthest(rows, q, entry, target)
        BY <2>5, <2>10
      <3>2. q \in SidecarLists(rows, quarter)
        <4>1. quarter <= Len(rows)
          BY <1>1, <2>4
        <4> QED BY <2>4, <4>1, LevelCoveringFull
      <3> HIDE DEF q
      <3>3. q \in SidecarLists(rows, target)
        <4>1. q \in Seq(Ids(rows)) /\ Len(q) \in Nat /\ Len(q) <= quarter
              /\ \A i, j \in DOMAIN q : q[i] = q[j] => i = j
          BY <3>2 DEF SidecarLists
        <4>2. PICK k \in Nat : k = Len(q)
          BY <4>1
        <4>3. k <= target
          BY <1>1, <2>4, <4>1, <4>2
        <4> QED BY <4>1, <4>2, <4>3 DEF SidecarLists
      <3>4. s \in SidecarLists(rows, target) /\ Len(s) = target
        BY <1>1, <2>2, <2>3, <3>1, <3>3, SidecarFarthestFull
      <3> QED BY <2>6, <3>4 DEF s, target
    <2>11. Strategy \in {"hash", "farthest", "level", "hybrid"}
      BY BuildGraphAssumption
    <2> QED BY <2>7, <2>8, <2>9, <2>10, <2>11
  <1> QED BY <1>2, <1>3

(***************************************************************************)
(* The index that is written.                                              *)
(***************************************************************************)

\* The ids of a list of links.
LEMMA IdsOfLinks ==
    ASSUME NEW rows, NEW n, NEW l, NEW list \in NeighborLists(rows, n, l)
    PROVE  LET ids == [i \in DOMAIN list |-> list[i].id]
           IN  /\ Len(ids) <= LevelM(l) /\ IsInjective(ids) /\ Range(ids) = ListIds(list)
               /\ \A k \in Range(ids) : k # n /\ HasLevel(rows, k, l)
  <1> DEFINE ids == [i \in DOMAIN list |-> list[i].id]
  <1>1. /\ list \in Seq(Link) /\ Len(list) \in Nat /\ DOMAIN list = 1 .. Len(list)
        /\ Len(list) <= LevelM(l)
        /\ \A i \in DOMAIN list :
              /\ list[i].id # n /\ HasLevel(rows, list[i].id, l)
              /\ \A j \in DOMAIN list : list[j].id = list[i].id => j = i
    BY DEF NeighborLists
  <1>2. \A i \in 1 .. Len(list) : list[i].id \in Int
    <2>1. \A i \in 1 .. Len(list) : list[i] \in Link
      BY <1>1
    <2> QED BY <2>1 DEF Link
  <1>3. DOMAIN ids = DOMAIN list /\ \A i \in DOMAIN list : ids[i] = list[i].id
    OBVIOUS
  <1>4. ids \in Seq(Int) /\ Len(ids) = Len(list)
    BY <1>1, <1>2
  <1> HIDE DEF ids
  <1>5. IsInjective(ids)
    BY <1>1, <1>3 DEF IsInjective
  <1>6. Range(ids) = ListIds(list)
    BY <1>3 DEF Range, ListIds
  <1>7. \A k \in ListIds(list) : k # n /\ HasLevel(rows, k, l)
    BY <1>1 DEF ListIds
  <1> QED BY <1>1, <1>4, <1>5, <1>6, <1>7 DEF ids

\* What is written of the edges of a build is an index a search can use.
LEMMA WrittenIsUsable ==
    ASSUME NEW rows, BuildRows(rows), NEW e, EdgesOf(rows, e)
    PROVE  Wellformed(WriteIndex(rows, e)) /\ WriteIndex(rows, e).nodes = rows
  <1> DEFINE ix == WriteIndex(rows, e)
             g == IF Backbone /\ e.segments <= 1 THEN EnsureLevel0Backbone(rows, e.g) ELSE e.g
             R == RoutingEntries(rows, e.entry)
             s == EntrySidecar(rows, e.entry)
             list(n, l) == [i \in DOMAIN g[n][l] |-> g[n][l][i].id]
  <1>1. IsBuildGraph(rows, e.g) /\ IsEntryOf(Ids(rows), e.entry)
    BY DEF EdgesOf
  <1>2. IsBuildGraph(rows, g)
    BY <1>1, BackboneConnects
  <1>3. Backbone /\ e.segments <= 1 =>
           \A n \in Ids(rows) : \A k \in {n - 1, n + 1} \cap Ids(rows) : k \in ListIds(g[n][0])
    <2> SUFFICES ASSUME Backbone, e.segments <= 1
                 PROVE  \A n \in Ids(rows) : \A k \in {n - 1, n + 1} \cap Ids(rows) :
                           k \in ListIds(g[n][0])
      OBVIOUS
    <2>1. g = EnsureLevel0Backbone(rows, e.g)
      OBVIOUS
    <2> HIDE DEF g
    <2> QED BY <1>1, <2>1, BackboneConnects
  <1> HIDE DEF g
  <1>4. \A n \in Ids(rows) : \A l \in 0 .. Level[n] : g[n][l] \in NeighborLists(rows, n, l)
    BY <1>2 DEF IsBuildGraph
  <1>5. \A n \in Ids(rows) : \A l \in 0 .. Level[n] :
           /\ Len(list(n, l)) <= LevelM(l) /\ IsInjective(list(n, l))
           /\ Range(list(n, l)) = ListIds(g[n][l])
           /\ \A k \in Range(list(n, l)) : k # n /\ HasLevel(rows, k, l)
    <2> TAKE n \in Ids(rows)
    <2> TAKE l \in 0 .. Level[n]
    <2>1. PICK t \in NeighborLists(rows, n, l) : t = g[n][l]
      BY <1>4
    <2> DEFINE ids == [i \in DOMAIN t |-> t[i].id]
    <2>2. /\ Len(ids) <= LevelM(l) /\ IsInjective(ids) /\ Range(ids) = ListIds(t)
          /\ \A k \in Range(ids) : k # n /\ HasLevel(rows, k, l)
      <3>1. t \in NeighborLists(rows, n, l)
        OBVIOUS
      <3> QED BY ONLY <3>1, IdsOfLinks
    <2>3. ids = list(n, l)
      BY <2>1
    <2> HIDE DEF ids, list
    <2> QED BY <2>1, <2>2, <2>3
  <1>6. Ids(rows) # {} =>
           /\ e.entry.id \in Ids(rows) /\ e.entry.level = Level[e.entry.id]
           /\ \A n \in Ids(rows) : Level[n] <= e.entry.level
    <2> SUFFICES ASSUME Ids(rows) # {}
                 PROVE  /\ e.entry.id \in Ids(rows) /\ e.entry.level = Level[e.entry.id]
                        /\ \A n \in Ids(rows) : Level[n] <= e.entry.level
      OBVIOUS
    <2>1. PICK x : x = e.entry
      OBVIOUS
    <2>2. PICK k \in Ids(rows) : x.id = k
      BY <1>1, <2>1 DEF IsEntryOf
    <2>3. x = [id |-> k, level |-> Level[k]] /\ \A n \in Ids(rows) : Level[n] <= x.level
      BY <1>1, <2>1, <2>2 DEF IsEntryOf
    <2> QED BY <2>1, <2>2, <2>3
  <1>7. \A n \in R : \A k \in Ids(rows) \ (R \cup {e.entry.id}) : Level[n] > 0 /\ Level[k] <= Level[n]
    BY RoutingIsHighest
  <1>8. /\ s \in Seq(Ids(rows)) /\ \A i, j \in DOMAIN s : s[i] = s[j] => i = j
        /\ Strategy # "hash" => Len(s) = MinOf(Representatives, Len(rows))
    <2>1. rows # <<>> => e.entry.id \in Ids(rows)
      <3>1. rows # <<>> => Ids(rows) # {}
        <4> SUFFICES ASSUME rows # <<>> PROVE Ids(rows) # {}
          OBVIOUS
        <4>1. rows \in Seq(Rows \cup {0}) /\ Len(rows) \in Nat /\ Len(rows) # 0
          BY DEF BuildRows
        <4>2. 0 \in Ids(rows)
          BY <4>1 DEF Ids
        <4> QED BY <4>2
      <3> QED BY <1>6, <3>1
    <2> QED BY <2>1, SidecarIsFull
  <1>9. ix = [nodes |-> rows,
              adj |-> [n \in Ids(rows) |-> [l \in 0 .. Level[n] |-> list(n, l)]],
              entry |-> e.entry, segments |-> e.segments, routing |-> R, sidecar |-> s]
    BY DEF WriteIndex, g
  <1> HIDE DEF ix, list, R, s
  <1>10. /\ ix.nodes = rows /\ ix.entry = e.entry /\ ix.segments = e.segments
         /\ ix.routing = R /\ ix.sidecar = s
         /\ \A n \in Ids(rows) : \A l \in 0 .. Level[n] : ix.adj[n][l] = list(n, l)
    BY <1>9
  <1>11. IsInjective(s) /\ Range(s) \subseteq Ids(rows)
    <2>1. IsInjective(s)
      BY <1>8 DEF IsInjective
    <2>2. \A i \in DOMAIN s : s[i] \in Ids(rows)
      BY <1>8
    <2>3. Range(s) \subseteq Ids(rows)
      BY <2>2 DEF Range
    <2> QED BY <2>1, <2>3
  <1>12. \A n \in Ids(rows) : 0 \in 0 .. Level[n]
    BY NodeFacts
  <1>13. Backbone /\ e.segments <= 1 =>
            \A n \in Ids(rows) : \A k \in {n - 1, n + 1} \cap Ids(rows) : k \in Range(list(n, 0))
    BY <1>3, <1>5, <1>12
  <1>14. \A n \in Ids(rows) : \A l \in 0 .. Level[n] :
            /\ Len(ix.adj[n][l]) <= LevelM(l) /\ IsInjective(ix.adj[n][l])
            /\ \A k \in Range(ix.adj[n][l]) : k # n /\ HasLevel(rows, k, l)
    BY <1>5, <1>10
  <1>15. Backbone /\ ix.segments <= 1 =>
            \A n \in Ids(rows) : \A k \in {n - 1, n + 1} \cap Ids(rows) : k \in Range(ix.adj[n][0])
    BY <1>10, <1>12, <1>13
  <1>16. Strategy # "hash" => Len(ix.sidecar) = MinOf(Representatives, Len(rows))
    BY <1>8, <1>10
  <1>17. \A n \in ix.routing : \A k \in Ids(rows) \ (ix.routing \cup {ix.entry.id}) :
            Level[n] > 0 /\ Level[k] <= Level[n]
    BY <1>7, <1>10
  <1>18. Ids(rows) # {} =>
           /\ ix.entry.id \in Ids(rows) /\ ix.entry.level = Level[ix.entry.id]
           /\ \A n \in Ids(rows) : Level[n] <= ix.entry.level
    BY <1>6, <1>10
  <1>19. IsInjective(ix.sidecar) /\ Range(ix.sidecar) \subseteq Ids(rows)
    BY <1>10, <1>11
  <1>20. Wellformed(ix)
    BY <1>10, <1>14, <1>15, <1>16, <1>17, <1>18, <1>19 DEF Wellformed
  <1> QED BY <1>10, <1>20 DEF ix

(***************************************************************************)
(* The graph of a parallel build.                                          *)
(***************************************************************************)

LEMMA BuildIsOfRows ==
    ASSUME Inv
    PROVE  BuildRows(ns)
  BY DEF Inv, NodesInv, BuildRows

\* What the invariant of the graph says in the edge phase.
LEMMA GraphFacts ==
    ASSUME Inv, GraphInv, InEdges
    PROVE  /\ Building(ns, sh.b) /\ LeaveInv /\ BuildRows(ns)
           /\ sh.order \in [1 .. Len(ns) -> Ids(ns)] /\ IsInjective(sh.order)
           /\ Len(ns) \in Nat /\ EdgeShape /\ TypeOK
           /\ WarmingUp \/ Planning \/ Linking \/ Applying \/ Publishing \/ Leaving
           /\ leader \in Participants /\ leader \notin Workers /\ Workers \subseteq Participants
  BY BuildIsOfRows, EdgeFacts DEF GraphInv, EdgeShape

\* A step outside the edge phase and the end.
LEMMA OtherPhase ==
    ASSUME phase' \notin {"edges", "finish"}, outcome' # "done"
    PROVE  GraphInv'
  BY DEF GraphInv, InEdges

\* A step that leaves the graph alone; participants may fail in it.
LEMMA SameGraph ==
    ASSUME GraphInv, UNCHANGED <<phase, sh, ns, edges, index>>, outcome' = "done" => outcome = "done",
           \A p \in Participants : pc'[p] = pc[p] \/ pc'[p] \in Gone
    PROVE  GraphInv'
  <1>1. InEdges' => Building(ns, sh.b)' /\ LeaveInv'
    <2> SUFFICES ASSUME InEdges PROVE Building(ns, sh.b)' /\ LeaveInv'
      BY DEF InEdges
    <2>1. Building(ns, sh.b) /\ LeaveInv
      BY DEF GraphInv
    <2>2. LeaveInv'
      <3>1. sh' = sh /\ ns' = ns
        OBVIOUS
      <3>2. \A p \in Participants : pc'[p] \in {"leave", "wait", "exit"} => pc'[p] = pc[p]
        BY DEF Gone
      <3> QED BY <2>1, <3>1, <3>2 DEF LeaveInv
    <2> QED BY <2>1, <2>2
  <1>2. (phase = "finish" => EdgesOf(ns, edges))' /\ (outcome = "done" => Wellformed(index[1]))'
    BY DEF GraphInv
  <1> QED BY <1>1, <1>2 DEF GraphInv

\* A participant that is working has not been told to leave, nor has any other.
LEMMA BusyStep ==
    ASSUME Inv, GraphInv, InEdges, EdgeUnchanged, NEW p \in Participants,
           pc[p] \notin {"b1", "leave", "wait", "exit"} \cup Gone,
           NEW v, v \notin {"leave", "wait", "exit"}, pc' = pc \/ pc' = [pc EXCEPT ![p] = v],
           sh'.edgeDone = sh.edgeDone, Building(ns, sh'.b)
    PROVE  GraphInv'
  <1>1. ns' = ns /\ edges' = edges /\ phase' = "edges" /\ outcome' = outcome /\ index' = index
    BY DEF EdgeUnchanged, InEdges
  <1>2. LeaveInv /\ TypeOK
    BY GraphFacts
  <1>3. sh.edgeDone = FALSE /\ \A q \in Participants : pc[q] \notin {"leave", "wait", "exit"}
    BY <1>2 DEF LeaveInv
  <1>4. \A q \in Participants : pc'[q] \notin {"leave", "wait", "exit"}
    <2> TAKE q \in Participants
    <2>1. pc'[q] = pc[q] \/ pc'[q] = v
      BY <1>2 DEF TypeOK
    <2> QED BY <1>3, <2>1
  <1>5. LeaveInv'
    <2>1. sh'.edgeDone = FALSE
      BY <1>3
    <2> QED BY <1>4, <2>1 DEF LeaveInv
  <1>6. Building(ns, sh.b)'
    BY <1>1
  <1>7. (phase = "finish" => EdgesOf(ns, edges))' /\ (outcome = "done" => Wellformed(index[1]))'
    BY <1>1 DEF GraphInv
  <1> QED BY <1>5, <1>6, <1>7 DEF GraphInv

\* The steps that do not touch the graph.
LEMMA ClaimGraph ==
    ASSUME Inv, GraphInv,
           \/ \E w \in Workers : StartEdgeWorker(w) \/ SeeReady(w)
           \/ InitBarrier \/ LeaderClaimsSlot \/ \E p \in Participants : ClaimNode(p)
    PROVE  GraphInv'
  <1> DEFINE points == {"start", "notready", "claimslot", "claim"}
  <1>1. InEdges /\ EdgeUnchanged
    BY DEF StartEdgeWorker, SeeReady, InitBarrier, LeaderClaimsSlot, ClaimNode, EdgeUnchanged
  <1>2. /\ Building(ns, sh.b) /\ EdgeShape /\ leader \in Participants /\ Workers \subseteq Participants
    BY <1>1, GraphFacts
  <1>3. ASSUME NEW p \in Participants, NEW v, v \notin {"leave", "wait", "exit"}, pc[p] \in points,
               pc' = [pc EXCEPT ![p] = v], sh'.b = sh.b, sh'.edgeDone = sh.edgeDone
        PROVE  GraphInv'
    <2>1. pc[p] \notin {"b1", "leave", "wait", "exit"} \cup Gone
      BY <1>3 DEF Gone
    <2>2. Building(ns, sh'.b)
      BY <1>2, <1>3
    <2> QED BY <1>1, <1>3, <2>1, <2>2, BusyStep
  <1>4. DOMAIN sh = {"b", "order", "next", "done", "ready", "nextOrder", "batchStart",
                     "batchEnd", "edgeDone"}
    BY <1>2 DEF EdgeShape
  <1>5. ASSUME NEW p \in Participants, NEW next \in {"notready", "warmup"}, pc[p] \in points,
               ClaimParticipant(p, next)
        PROVE  GraphInv'
    <2>1. PICK v : v = IF sh.next <= request THEN next ELSE "failed"
      OBVIOUS
    <2>2. pc' = [pc EXCEPT ![p] = v] /\ sh' = [sh EXCEPT !.next = @ + 1]
      BY <1>5, <2>1 DEF ClaimParticipant
    <2>3. sh'.b = sh.b /\ sh'.edgeDone = sh.edgeDone
      BY <1>4, <2>2
    <2>4. v \notin {"leave", "wait", "exit"}
      BY <2>1
    <2> HIDE DEF points
    <2> QED BY <1>3, <1>5, <2>2, <2>3, <2>4
  <1>6. CASE \E w \in Workers : StartEdgeWorker(w)
    <2>1. PICK w \in Workers : StartEdgeWorker(w)
      BY <1>6
    <2>2. w \in Participants /\ pc[w] \in points /\ ClaimParticipant(w, "notready")
      BY <1>2, <2>1 DEF StartEdgeWorker
    <2> HIDE DEF points
    <2> QED BY <1>5, <2>2
  <1>7. CASE \E w \in Workers : SeeReady(w)
    <2>1. PICK w \in Workers : SeeReady(w)
      BY <1>7
    <2>2. w \in Participants /\ pc[w] \in points /\ pc' = [pc EXCEPT ![w] = "b0"] /\ sh' = sh
      BY <1>2, <2>1 DEF SeeReady
    <2> HIDE DEF points
    <2> QED BY <1>3, <2>2
  <1>8. CASE InitBarrier
    <2>1. /\ pc[leader] \in points /\ pc' = [pc EXCEPT ![leader] = "claimslot"]
          /\ sh' = [sh EXCEPT !.ready = TRUE]
      BY <1>8 DEF InitBarrier
    <2>2. sh'.b = sh.b /\ sh'.edgeDone = sh.edgeDone
      BY <1>4, <2>1
    <2> HIDE DEF points
    <2> QED BY <1>2, <1>3, <2>1, <2>2
  <1>9. CASE LeaderClaimsSlot
    <2>1. pc[leader] \in points /\ ClaimParticipant(leader, "warmup")
      BY <1>9 DEF LeaderClaimsSlot
    <2> HIDE DEF points
    <2> QED BY <1>2, <1>5, <2>1
  <1>10. CASE \E p \in Participants : ClaimNode(p)
    <2>1. PICK p \in Participants : ClaimNode(p)
      BY <1>10
    <2>2. PICK v \in {"link", "b2"} : pc' = [pc EXCEPT ![p] = v]
      BY <2>1 DEF ClaimNode
    <2>3. pc[p] \in points /\ sh' = [sh EXCEPT !.nextOrder = @ + 1]
      BY <2>1 DEF ClaimNode
    <2>4. sh'.b = sh.b /\ sh'.edgeDone = sh.edgeDone
      BY <1>4, <2>3
    <2> HIDE DEF points
    <2> QED BY <1>3, <2>2, <2>3, <2>4
  <1> QED BY <1>6, <1>7, <1>8, <1>9, <1>10

\* The leader inserts the first nodes.
LEMMA WarmupGraph ==
    ASSUME Inv, GraphInv, BuildWarmup
    PROVE  GraphInv'
  <1> DEFINE at == cur[leader][1]
             n == sh.order[at + 1]
             first == [sh.b EXCEPT !.ins = {n}, !.entry = [id |-> n, level |-> Level[n]]]
             b == IF at = 0 THEN first ELSE InsertNode(ns, sh.b, n)
             more == at < MinOf(Warmup, Len(ns))
  <1>1. /\ InEdges /\ pc[leader] = "warmup" /\ EdgeUnchanged
        /\ IF more
           THEN sh' = [sh EXCEPT !.b = b] /\ pc' = pc
           ELSE sh' = [sh EXCEPT !.batchStart = at] /\ pc' = [pc EXCEPT ![leader] = "b0"]
    BY DEF BuildWarmup, EdgeUnchanged
  <1>2. /\ Building(ns, sh.b) /\ EdgeShape /\ BuildRows(ns) /\ leader \in Participants
        /\ sh.order \in [1 .. Len(ns) -> Ids(ns)] /\ Len(ns) \in Nat /\ WarmingUp
    BY <1>1, GraphFacts, StageOf
  <1>3. at \in 0 .. Len(ns) /\ (more => at < Len(ns))
    BY <1>1, <1>2, BuildGraphAssumption DEF WarmingUp, MinOf
  <1>4. more => n \in Ids(ns)
    BY <1>2, <1>3
  <1>5. DOMAIN sh = {"b", "order", "next", "done", "ready", "nextOrder", "batchStart",
                     "batchEnd", "edgeDone"}
    BY <1>2 DEF EdgeShape
  <1>6. more => Building(ns, b)
    <2> SUFFICES ASSUME more PROVE Building(ns, b)
      OBVIOUS
    <2>1. CASE at = 0
      <3>1. PICK k \in Ids(ns) : k = n
        BY <1>4
      <3>2. PICK x, y, z : x = sh.b.g /\ y = sh.b.ins /\ z = sh.b.entry
        OBVIOUS
      <3>3. sh.b = [g |-> x, ins |-> y, entry |-> z] /\ IsBuildGraph(ns, x)
        BY <1>2, <3>2 DEF Building
      <3>4. b = [[g |-> x, ins |-> y, entry |-> z] EXCEPT !.ins = {k},
                                                          !.entry = [id |-> k, level |-> Level[k]]]
        BY <2>1, <3>1, <3>3
      <3>5. b = [g |-> x, ins |-> {k}, entry |-> [id |-> k, level |-> Level[k]]]
        BY ONLY <3>4
      <3> HIDE DEF b
      <3>6. Level[k] \in Nat
        BY <1>2, NodeFacts
      <3>7. IsEntryOf({k}, [id |-> k, level |-> Level[k]])
        BY <3>6 DEF IsEntryOf
      <3> QED BY <3>3, <3>5, <3>7 DEF Building
    <2>2. CASE at # 0
      <3>1. b = InsertNode(ns, sh.b, n)
        BY <2>2
      <3> HIDE DEF b, n, at, more
      <3>2. n \in Ids(ns)
        BY <1>4
      <3> QED BY <1>2, <3>1, <3>2, InsertKeeps
    <2> QED BY <2>1, <2>2
  <1> HIDE DEF b, at, more
  <1>7. sh'.edgeDone = sh.edgeDone /\ Building(ns, sh'.b)
    BY <1>1, <1>2, <1>5, <1>6
  <1>8. pc[leader] \notin {"b1", "leave", "wait", "exit"} \cup Gone
    BY <1>1 DEF Gone
  <1>9. pc' = pc \/ pc' = [pc EXCEPT ![leader] = "b0"]
    BY <1>1
  <1>10. EdgeUnchanged /\ InEdges /\ leader \in Participants
    BY <1>1, <1>2
  <1>11. PICK v : v = "b0"
    OBVIOUS
  <1>12. v \notin {"leave", "wait", "exit"} /\ (pc' = pc \/ pc' = [pc EXCEPT ![leader] = v])
    BY <1>9, <1>11
  <1> QED BY ONLY Inv, GraphInv, <1>7, <1>8, <1>10, <1>12, BusyStep

\* The leader plans a batch, or sees that every node is inserted.
LEMMA PlanGraph ==
    ASSUME Inv, GraphInv, PlanBatch
    PROVE  GraphInv'
  <1>1. /\ InEdges /\ pc[leader] = "plan" /\ EdgeUnchanged /\ pc' = [pc EXCEPT ![leader] = "b1"]
        /\ sh' = IF sh.batchStart >= Len(ns)
                 THEN [sh EXCEPT !.edgeDone = TRUE, !.batchEnd = sh.batchStart]
                 ELSE [sh EXCEPT !.batchEnd = MinOf(sh.batchStart + BatchSize(request), Len(ns)),
                                 !.nextOrder = sh.batchStart]
    BY DEF PlanBatch, EdgeUnchanged
  <1>2. /\ Building(ns, sh.b) /\ EdgeShape /\ BuildRows(ns) /\ leader \in Participants
        /\ sh.order \in [1 .. Len(ns) -> Ids(ns)] /\ IsInjective(sh.order)
        /\ Len(ns) \in Nat /\ Planning /\ LeaveInv /\ TypeOK
    BY <1>1, GraphFacts, StageOf
  <1>3. DOMAIN sh = {"b", "order", "next", "done", "ready", "nextOrder", "batchStart",
                     "batchEnd", "edgeDone"}
    BY <1>2 DEF EdgeShape
  <1>4. pc[leader] \notin {"b1", "leave", "wait", "exit"} \cup Gone
    BY <1>1 DEF Gone
  <1>5. CASE ~(sh.batchStart >= Len(ns))
    <2>1. sh'.edgeDone = sh.edgeDone /\ sh'.b = sh.b
      BY <1>1, <1>3, <1>5
    <2>2. Building(ns, sh'.b)
      BY <1>2, <2>1
    <2> QED BY <1>1, <1>2, <1>4, <2>1, <2>2, BusyStep, Zenon
  <1>6. CASE sh.batchStart >= Len(ns)
    <2>1. sh'.edgeDone = TRUE /\ sh'.b = sh.b
      BY <1>1, <1>3, <1>6
    <2>2. sh.batchStart = Len(ns)
      BY <1>2, <1>6 DEF EdgeShape
    <2>3. sh.b.ins = First(Len(ns))
      BY <1>2, <2>2 DEF Planning
    <2>4. First(Len(ns)) = Ids(ns)
      <3> DEFINE N == Len(ns)
      <3>1. sh.order \in Injection(1 .. N, Ids(ns))
        BY <1>2 DEF Injection, IsInjective
      <3>2. IsFiniteSet(Ids(ns)) /\ Cardinality(Ids(ns)) = N
        BY <1>2, NodeFacts
      <3>3. Cardinality(1 .. N) = N
        <4>1. 1 \in Int /\ N \in Int /\ N >= 0
          BY <1>2
        <4> HIDE DEF N
        <4>2. Cardinality(1 .. N) = IF 1 > N THEN 0 ELSE N - 1 + 1
          BY <4>1, FS_Interval
        <4> QED BY <4>1, <4>2
      <3> HIDE DEF N
      <3>4. sh.order \in Surjection(1 .. N, Ids(ns))
        BY <3>1, <3>2, <3>3, FS_Injection
      <3>5. sh.order \in [1 .. N -> Ids(ns)] /\ \A k \in Ids(ns) : \E i \in 1 .. N : sh.order[i] = k
        BY <3>4 DEF Surjection
      <3>6. First(N) = Ids(ns)
        BY <3>5 DEF First
      <3> QED BY <3>6 DEF N
    <2>5. /\ ns' = ns /\ edges' = edges /\ phase' = "edges" /\ outcome' = outcome /\ index' = index
      BY <1>1 DEF EdgeUnchanged, InEdges
    <2>6. \A p \in Participants : pc'[p] \in {"b1", "leave", "wait", "exit"} \cup Gone
      <3> TAKE p \in Participants
      <3>1. CASE p = leader
        BY <1>1, <1>2, <3>1 DEF TypeOK
      <3>2. CASE p # leader
        <4>1. pc'[p] = pc[p] /\ p \in Workers
          BY <1>1, <1>2, <3>2 DEF TypeOK, Participants
        <4> QED BY <1>2, <4>1 DEF Planning, AllAt
      <3> QED BY <3>1, <3>2
    <2>7. LeaveInv'
      <3>1. sh'.b.ins = Ids(ns')
        BY <2>1, <2>3, <2>4, <2>5
      <3> QED BY <2>1, <2>6, <3>1 DEF LeaveInv
    <2>8. Building(ns, sh.b)'
      BY <1>2, <2>1, <2>5
    <2>9. (phase = "finish" => EdgesOf(ns, edges))' /\ (outcome = "done" => Wellformed(index[1]))'
      BY <2>5 DEF GraphInv
    <2> QED BY <2>7, <2>8, <2>9 DEF GraphInv
  <1> QED BY <1>5, <1>6

\* The shared record of the edge phase with another graph in it.
LEMMA OtherGraph ==
    ASSUME NEW s, NEW b, b = [g |-> b.g, ins |-> b.ins, entry |-> b.entry],
           DOMAIN s = {"b", "order", "next", "done", "ready", "nextOrder", "batchStart",
                       "batchEnd", "edgeDone"}, s.b = b, NEW g
    PROVE  LET t == [s EXCEPT !.b.g = g]
           IN  t.edgeDone = s.edgeDone /\ t.b = [g |-> g, ins |-> b.ins, entry |-> b.entry]
  <1>1. PICK x, y, z : x = b.g /\ y = b.ins /\ z = b.entry
    OBVIOUS
  <1>2. s.b = [g |-> x, ins |-> y, entry |-> z]
    BY <1>1
  <1>3. [s EXCEPT !.b.g = g].edgeDone = s.edgeDone
    OBVIOUS
  <1>4. [s EXCEPT !.b.g = g].b = [s.b EXCEPT !.g = g]
    OBVIOUS
  <1>5. [s.b EXCEPT !.g = g] = [g |-> g, ins |-> y, entry |-> z]
    BY <1>2
  <1> QED BY <1>1, <1>3, <1>4, <1>5

\* A graph under construction with the lists of one node exchanged.
LEMMA ReplaceNode ==
    ASSUME NEW rows, NEW g, IsBuildGraph(rows, g), NEW h, IsBuildGraph(rows, h),
           NEW n \in Ids(rows)
    PROVE  IsBuildGraph(rows, [g EXCEPT ![n] = h[n]])
  <1> DEFINE f == [g EXCEPT ![n] = h[n]]
  <1>1. f = [k \in Ids(rows) |-> IF k = n THEN h[n] ELSE g[k]]
    BY DEF IsBuildGraph
  <1> HIDE DEF f
  <1>2. f = [k \in Ids(rows) |-> f[k]]
    BY <1>1
  <1>3. ASSUME NEW k \in Ids(rows)
        PROVE  /\ f[k] = [l \in 0 .. Level[k] |-> f[k][l]]
               /\ \A l \in 0 .. Level[k] : f[k][l] \in NeighborLists(rows, k, l)
    <2>1. f[k] = h[k] \/ f[k] = g[k]
      BY <1>1, <1>3
    <2>2. ASSUME NEW x, IsBuildGraph(rows, x)
          PROVE  /\ x[k] = [l \in 0 .. Level[k] |-> x[k][l]]
                 /\ \A l \in 0 .. Level[k] : x[k][l] \in NeighborLists(rows, k, l)
      BY <1>3, <2>2 DEF IsBuildGraph
    <2>3. CASE f[k] = h[k]
      BY <2>2, <2>3
    <2>4. CASE f[k] = g[k]
      BY <2>2, <2>4
    <2> QED BY <2>1, <2>3, <2>4
  <1>4. IsBuildGraph(rows, f)
    BY <1>2, <1>3 DEF IsBuildGraph
  <1> QED BY <1>4 DEF f

\* A participant writes the lists of a node of the batch.
LEMMA LinkGraph ==
    ASSUME Inv, GraphInv, NEW p \in Participants, LinkNode(p)
    PROVE  GraphInv'
  <1> DEFINE n == sh.order[cur[p][1] + 1]
             h == BuildNodeLinks(ns, sh.b, n)
             g == [sh.b.g EXCEPT ![n] = h[n]]
  <1>1. /\ InEdges /\ pc[p] = "link" /\ EdgeUnchanged /\ pc' = [pc EXCEPT ![p] = "claim"]
        /\ sh' = [sh EXCEPT !.b.g[n] = h[n]]
    BY DEF LinkNode, EdgeUnchanged
  <1>2. /\ Building(ns, sh.b) /\ EdgeShape /\ BuildRows(ns) /\ Linking
        /\ sh.order \in [1 .. Len(ns) -> Ids(ns)] /\ Len(ns) \in Nat
    BY <1>1, GraphFacts, StageOf
  <1>3. n \in Ids(ns)
    <2>1. cur[p][1] \in sh.batchStart .. sh.batchEnd - 1
      BY <1>1, <1>2 DEF Linking
    <2>2. sh.batchStart \in 0 .. Len(ns) /\ sh.batchEnd \in 0 .. Len(ns)
      BY <1>2 DEF EdgeShape
    <2>3. cur[p][1] + 1 \in 1 .. Len(ns)
      BY <1>2, <2>1, <2>2
    <2> QED BY <1>2, <2>3
  <1>4. sh' = [sh EXCEPT !.b.g = g]
    BY <1>1
  <1> HIDE DEF n
  <1>5. IsBuildGraph(ns, sh.b.g) /\ StartsAt(ns, sh.b.entry)
    BY <1>2, EntryStarts DEF Building
  <1>6. IsBuildGraph(ns, h)
    BY <1>2, <1>3, <1>5, BuildLinksKeeps
  <1> HIDE DEF h
  <1>7. IsBuildGraph(ns, g)
    BY <1>3, <1>5, <1>6, ReplaceNode
  <1> HIDE DEF g
  <1>8. DOMAIN sh = {"b", "order", "next", "done", "ready", "nextOrder", "batchStart",
                     "batchEnd", "edgeDone"}
    BY <1>2 DEF EdgeShape
  <1>9. /\ sh'.edgeDone = sh.edgeDone
        /\ sh'.b = [g |-> g, ins |-> sh.b.ins, entry |-> sh.b.entry]
    <2>1. sh.b = [g |-> sh.b.g, ins |-> sh.b.ins, entry |-> sh.b.entry]
      BY <1>2 DEF Building
    <2> QED BY <1>4, <1>8, <2>1, OtherGraph
  <1>10. Building(ns, sh'.b)
    BY <1>2, <1>7, <1>9 DEF Building
  <1>11. pc[p] \notin {"b1", "leave", "wait", "exit"} \cup Gone
    BY <1>1 DEF Gone
  <1>12. EdgeUnchanged /\ InEdges /\ sh'.edgeDone = sh.edgeDone
    BY <1>1, <1>9
  <1>13. PICK v : v = "claim"
    OBVIOUS
  <1>14. v \notin {"leave", "wait", "exit"} /\ (pc' = pc \/ pc' = [pc EXCEPT ![p] = v])
    BY <1>1, <1>13
  <1> QED BY ONLY Inv, GraphInv, p \in Participants, <1>10, <1>11, <1>12, <1>14, BusyStep

\* A participant adds the links back to a node.
LEMMA ApplyGraph ==
    ASSUME Inv, GraphInv, NEW p \in Participants, ApplyBacklinks(p)
    PROVE  GraphInv'
  <1> DEFINE more == cur[p][1] < sh.batchEnd
             n == sh.order[cur[p][1] + 1]
             g == ApplyNodeBacklinks(ns, sh.b.g, sh.b.ins, n, slot[p], NParticipants)
  <1>1. /\ InEdges /\ pc[p] = "apply" /\ EdgeUnchanged
        /\ pc' = pc \/ pc' = [pc EXCEPT ![p] = "b3"]
        /\ sh' = IF more THEN [sh EXCEPT !.b.g = g] ELSE sh
    BY DEF ApplyBacklinks, EdgeUnchanged
  <1>2. /\ Building(ns, sh.b) /\ EdgeShape /\ BuildRows(ns) /\ Applying
        /\ sh.order \in [1 .. Len(ns) -> Ids(ns)] /\ Len(ns) \in Nat
    BY <1>1, GraphFacts, StageOf
  <1>3. more => n \in Ids(ns)
    <2> SUFFICES ASSUME more PROVE n \in Ids(ns)
      OBVIOUS
    <2>1. cur[p][1] \in sh.batchStart .. sh.batchEnd
      BY <1>1, <1>2 DEF Applying
    <2>2. sh.batchStart \in 0 .. Len(ns) /\ sh.batchEnd \in 0 .. Len(ns)
      BY <1>2 DEF EdgeShape
    <2>3. cur[p][1] + 1 \in 1 .. Len(ns)
      BY <1>2, <2>1, <2>2
    <2> QED BY <1>2, <2>3
  <1> HIDE DEF n, more
  <1>4. more => IsBuildGraph(ns, g)
    BY <1>2, <1>3, BacklinksKeep DEF Building
  <1> HIDE DEF g
  <1>5. DOMAIN sh = {"b", "order", "next", "done", "ready", "nextOrder", "batchStart",
                     "batchEnd", "edgeDone"}
    BY <1>2 DEF EdgeShape
  <1>6. sh'.edgeDone = sh.edgeDone /\ Building(ns, sh'.b)
    <2>1. CASE more
      <3>1. sh.b = [g |-> sh.b.g, ins |-> sh.b.ins, entry |-> sh.b.entry]
        BY <1>2 DEF Building
      <3>2. sh' = [sh EXCEPT !.b.g = g]
        BY <1>1, <2>1
      <3>3. /\ sh'.edgeDone = sh.edgeDone
            /\ sh'.b = [g |-> g, ins |-> sh.b.ins, entry |-> sh.b.entry]
        BY <1>5, <3>1, <3>2, OtherGraph
      <3> QED BY <1>2, <1>4, <2>1, <3>3 DEF Building
    <2>2. CASE ~more
      BY <1>1, <1>2, <2>2
    <2> QED BY <2>1, <2>2
  <1>7. pc[p] \notin {"b1", "leave", "wait", "exit"} \cup Gone
    BY <1>1 DEF Gone
  <1>8. EdgeUnchanged /\ InEdges
    BY <1>1
  <1>9. PICK v : v = "b3"
    OBVIOUS
  <1>10. v \notin {"leave", "wait", "exit"} /\ (pc' = pc \/ pc' = [pc EXCEPT ![p] = v])
    BY <1>1, <1>9
  <1> QED BY ONLY Inv, GraphInv, p \in Participants, <1>6, <1>7, <1>8, <1>10, BusyStep

\* The leader marks the nodes of the batch inserted.
LEMMA PublishGraph ==
    ASSUME Inv, GraphInv, PublishBatch
    PROVE  GraphInv'
  <1> DEFINE at == cur[leader][1]
             n == sh.order[at + 1]
             more == at < sh.batchEnd
             b == PublishNode(sh.b, n)
  <1>1. /\ InEdges /\ pc[leader] = "publish" /\ EdgeUnchanged
        /\ IF more THEN sh' = [sh EXCEPT !.b = b] /\ pc' = pc
           ELSE sh' = [sh EXCEPT !.batchStart = sh.batchEnd] /\ pc' = [pc EXCEPT ![leader] = "b4"]
    BY DEF PublishBatch, EdgeUnchanged
  <1>2. /\ Building(ns, sh.b) /\ EdgeShape /\ BuildRows(ns) /\ leader \in Participants
        /\ sh.order \in [1 .. Len(ns) -> Ids(ns)] /\ Len(ns) \in Nat /\ Publishing
    BY <1>1, GraphFacts, StageOf
  <1>3. more => n \in Ids(ns)
    <2> SUFFICES ASSUME more PROVE n \in Ids(ns)
      OBVIOUS
    <2>1. at \in sh.batchStart .. sh.batchEnd
      BY <1>1, <1>2 DEF Publishing
    <2>2. sh.batchStart \in 0 .. Len(ns) /\ sh.batchEnd \in 0 .. Len(ns)
      BY <1>2 DEF EdgeShape
    <2>3. at + 1 \in 1 .. Len(ns)
      BY <1>2, <2>1, <2>2
    <2> QED BY <1>2, <2>3
  <1> HIDE DEF n, more, at
  <1>4. more => Building(ns, b)
    BY <1>2, <1>3, PublishKeeps
  <1> HIDE DEF b
  <1>5. DOMAIN sh = {"b", "order", "next", "done", "ready", "nextOrder", "batchStart",
                     "batchEnd", "edgeDone"}
    BY <1>2 DEF EdgeShape
  <1>6. sh'.edgeDone = sh.edgeDone /\ Building(ns, sh'.b)
    BY <1>1, <1>2, <1>4, <1>5
  <1>7. pc[leader] \notin {"b1", "leave", "wait", "exit"} \cup Gone
    BY <1>1 DEF Gone
  <1>8. EdgeUnchanged /\ InEdges /\ leader \in Participants
    BY <1>1, <1>2
  <1>9. PICK v : v = "b4"
    OBVIOUS
  <1>10. v \notin {"leave", "wait", "exit"} /\ (pc' = pc \/ pc' = [pc EXCEPT ![leader] = v])
    BY <1>1, <1>9
  <1> QED BY ONLY Inv, GraphInv, <1>6, <1>7, <1>8, <1>10, BusyStep

\* A step of the edge phase that leaves the graph alone.
LEMMA LeaveStep ==
    ASSUME Inv, GraphInv, InEdges, EdgeUnchanged, sh'.b = sh.b, LeaveInv'
    PROVE  GraphInv'
  <1>1. ns' = ns /\ edges' = edges /\ phase' = "edges" /\ outcome' = outcome /\ index' = index
    BY DEF EdgeUnchanged, InEdges
  <1>2. Building(ns, sh.b)'
    BY <1>1, GraphFacts
  <1>3. (phase = "finish" => EdgesOf(ns, edges))' /\ (outcome = "done" => Wellformed(index[1]))'
    BY <1>1 DEF GraphInv
  <1> QED BY <1>2, <1>3 DEF GraphInv

LEMMA LeaveGraph ==
    ASSUME Inv, GraphInv, NEW p \in Participants, LeaveEdges(p)
    PROVE  GraphInv'
  <1>1. /\ InEdges /\ pc[p] = "leave" /\ EdgeUnchanged
        /\ sh' = [sh EXCEPT !.done = sh.done + 1]
        /\ pc' = [pc EXCEPT ![p] = IF p = leader THEN "wait" ELSE "exit"]
    BY DEF LeaveEdges, EdgeUnchanged
  <1>2. EdgeShape /\ LeaveInv /\ TypeOK
    BY <1>1, GraphFacts
  <1>3. sh'.b = sh.b /\ sh'.edgeDone = sh.edgeDone /\ ns' = ns
    BY <1>1, <1>2 DEF EdgeShape, EdgeUnchanged
  <1>4. sh.edgeDone = TRUE
    BY <1>1, <1>2 DEF LeaveInv
  <1>5. \A q \in Participants : pc'[q] \in {"b1", "leave", "wait", "exit"} \cup Gone
    <2> TAKE q \in Participants
    <2>1. pc'[q] = pc[q] \/ pc'[q] \in {"wait", "exit"}
      BY <1>1, <1>2 DEF TypeOK
    <2>2. pc[q] \in {"b1", "leave", "wait", "exit"} \cup Gone
      BY <1>2, <1>4 DEF LeaveInv
    <2> QED BY <2>1, <2>2
  <1>6. LeaveInv'
    BY <1>2, <1>3, <1>4, <1>5 DEF LeaveInv
  <1> QED BY <1>1, <1>3, <1>6, LeaveStep

\* The barrier lets nobody leave before the last node is inserted.
LEMMA BarrierGraph ==
    ASSUME Inv, GraphInv, BarrierRelease
    PROVE  GraphInv'
  <1>1. /\ InEdges /\ EdgeUnchanged /\ sh' = sh
        /\ \A p \in Participants :
              pc'[p] = IF pc[p] \in {"b0", "b1", "b2", "b3", "b4"}
                       THEN AfterBarrier(p, pc[p]) ELSE pc[p]
    BY DEF BarrierRelease, EdgeUnchanged
  <1>2. LeaveInv
    BY <1>1, GraphFacts
  <1>3. sh'.b = sh.b /\ sh'.edgeDone = sh.edgeDone /\ ns' = ns
    BY <1>1 DEF EdgeUnchanged
  <1>4. CASE sh.edgeDone
    <2>1. \A p \in Participants : pc'[p] \in {"b1", "leave", "wait", "exit"} \cup Gone
      <3> TAKE p \in Participants
      <3>1. pc[p] \in {"b1", "leave", "wait", "exit"} \cup Gone
        BY <1>2, <1>4 DEF LeaveInv
      <3>2. AfterBarrier(p, "b1") = "leave"
        BY <1>4 DEF AfterBarrier
      <3> QED BY <1>1, <3>1, <3>2 DEF Gone
    <2>2. LeaveInv'
      BY <1>2, <1>3, <1>4, <2>1 DEF LeaveInv
    <2> QED BY <1>1, <1>3, <2>2, LeaveStep
  <1>5. CASE ~sh.edgeDone
    <2>1. \A p \in Participants : pc'[p] \notin {"leave", "wait", "exit"}
      <3> TAKE p \in Participants
      <3>1. pc[p] \notin {"leave", "wait", "exit"}
        BY <1>2, <1>5 DEF LeaveInv
      <3>2. ASSUME NEW b \in {"b0", "b1", "b2", "b3", "b4"}
            PROVE  AfterBarrier(p, b) \notin {"leave", "wait", "exit"}
        BY <1>5, <3>2 DEF AfterBarrier
      <3> QED BY <1>1, <3>1, <3>2
    <2>2. LeaveInv'
      BY <1>2, <1>3, <1>5, <2>1 DEF LeaveInv
    <2> QED BY <1>1, <1>3, <2>2, LeaveStep
  <1> QED BY <1>4, <1>5

\* The leader takes over the lists.
LEMMA EndGraph ==
    ASSUME Inv, GraphInv, outcome = "building", EndEdges
    PROVE  GraphInv'
  <1> DEFINE g == sh.b.g
             h == [n \in Ids(ns) |-> [l \in 0 .. Level[n] |->
                    SubSeq(g[n][l], 1, MinOf(Len(g[n][l]), LevelM(l)))]]
  <1>1. /\ InEdges /\ pc[leader] = "wait" /\ phase' = "finish" /\ ns' = ns
        /\ outcome' = outcome /\ index' = index
        /\ edges' = [g |-> h, entry |-> sh.b.entry, segments |-> 1]
    BY DEF EndEdges
  <1>2. Building(ns, sh.b) /\ LeaveInv /\ BuildRows(ns) /\ leader \in Participants
    BY <1>1, GraphFacts
  <1>3. sh.b.ins = Ids(ns) /\ IsEntryOf(Ids(ns), sh.b.entry) /\ IsBuildGraph(ns, g)
    BY <1>1, <1>2 DEF LeaveInv, Building
  <1> HIDE DEF g
  <1>4. ASSUME NEW n \in Ids(ns)
        PROVE  [l \in 0 .. Level[n] |->
                   SubSeq(g[n][l], 1, MinOf(Len(g[n][l]), LevelM(l)))] = g[n]
    <2>1. ASSUME NEW l \in 0 .. Level[n]
          PROVE  SubSeq(g[n][l], 1, MinOf(Len(g[n][l]), LevelM(l))) = g[n][l]
      <3>1. g[n][l] \in NeighborLists(ns, n, l)
        BY <1>3, <1>4, <2>1 DEF IsBuildGraph
      <3>2. PICK s : s = g[n][l]
        OBVIOUS
      <3>3. s \in Seq(Link) /\ Len(s) <= LevelM(l)
        BY <3>1, <3>2 DEF NeighborLists
      <3>4. LevelM(l) \in Nat
        BY ListSizes
      <3>5. MinOf(Len(s), LevelM(l)) = Len(s)
        BY <3>3, <3>4 DEF MinOf
      <3>6. SubSeq(s, 1, Len(s)) = s
        BY <3>3
      <3> QED BY <3>2, <3>5, <3>6
    <2>2. g[n] = [l \in 0 .. Level[n] |-> g[n][l]]
      BY <1>3, <1>4 DEF IsBuildGraph
    <2> QED BY <2>1, <2>2
  <1>5. h = g
    <2>1. g = [n \in Ids(ns) |-> g[n]]
      BY <1>3 DEF IsBuildGraph
    <2> QED BY <1>4, <2>1
  <1> HIDE DEF h
  <1>6. EdgesOf(ns, edges)'
    BY <1>1, <1>3, <1>5 DEF EdgesOf
  <1> QED BY <1>1, <1>6 DEF GraphInv, InEdges

\* The edge phase begins with empty lists.
LEMMA LaunchGraph ==
    ASSUME Inv, outcome = "building", Launch("edges"),
           UNCHANGED <<heap, base, outcome, index, concurrent, request, failed, ns, edges>>
    PROVE  GraphInv'
  <1>1. /\ phase' = "edges" /\ pc' \in [Participants -> {"start", "none"}]
        /\ sh' = InitEdgeShared
    BY LaunchFacts
  <1>2. BuildRows(ns)
    BY BuildIsOfRows
  <1>3. /\ sh'.edgeDone = FALSE
        /\ sh'.b = [g |-> EmptyGraph(ns), ins |-> {}, entry |-> NoEntry]
    BY <1>1 DEF InitEdgeShared
  <1>4. Building(ns, sh'.b)
    BY <1>2, <1>3, EmptyGraphIsOne DEF Building, IsEntryOf
  <1>5. LeaveInv'
    BY <1>1, <1>3 DEF LeaveInv
  <1>6. Building(ns, sh.b)'
    BY <1>4
  <1> QED BY <1>1, <1>5, <1>6 DEF GraphInv

\* The end of the scan, whatever comes after it.
LEMMA AfterScanGraph ==
    ASSUME Inv, outcome = "building", EndEncode \/ EndSerialScan
    PROVE  GraphInv'
  <1>1. /\ UNCHANGED <<heap, base, outcome, index, concurrent, request, failed, ns, edges>>
        /\ Launch("edges") \/ NoWorkers("serial")
    BY DEF EndEncode, EndSerialScan
  <1>2. CASE Launch("edges")
    BY <1>1, <1>2, LaunchGraph
  <1>3. CASE NoWorkers("serial")
    <2>1. phase' = "serial" /\ outcome' = "building"
      BY <1>1, <1>3 DEF NoWorkers
    <2> QED BY <2>1, OtherPhase
  <1> QED BY <1>1, <1>2, <1>3

\* The serial builder's graph, and the index written of either.
LEMMA SerialGraph ==
    ASSUME Inv, outcome = "building", SerialEdges
    PROVE  GraphInv'
  <1>1. phase' = "finish" /\ edges' = BuildEdges(ns) /\ ns' = ns /\ outcome' = "building"
    BY DEF SerialEdges
  <1>2. EdgesOf(ns, BuildEdges(ns))
    BY BuildIsOfRows, SerialEdgesBuilt
  <1>3. EdgesOf(ns, edges)'
    BY <1>1, <1>2
  <1> QED BY <1>1, <1>3 DEF GraphInv, InEdges

LEMMA FinishGraph ==
    ASSUME Inv, GraphInv, FinishBuild
    PROVE  GraphInv'
  <1> DEFINE ix == WriteIndex(ns, edges)
  <1>1. /\ phase = "finish" /\ phase' = "finish" /\ index' = <<ix>>
        /\ ns' = ns /\ edges' = edges
    BY DEF FinishBuild
  <1>2. EdgesOf(ns, edges)
    BY <1>1 DEF GraphInv
  <1>3. Wellformed(ix)
    BY <1>2, BuildIsOfRows, WrittenIsUsable
  <1> HIDE DEF ix
  <1>4. Wellformed(index[1])'
    <2>1. index'[1] = ix
      BY <1>1
    <2> QED BY <1>3, <2>1
  <1>5. EdgesOf(ns, edges)'
    BY <1>1, <1>2
  <1> QED BY <1>1, <1>4, <1>5 DEF GraphInv, InEdges

\* The scans come before there is a graph.
LEMMA ScanGraph ==
    ASSUME Inv, outcome = "building",
           \/ BeginBuild \/ AttachScan \/ EndFit \/ MergeRecords \/ SerialScan
           \/ \E p \in Participants : \/ StartScan(p) \/ FitRow(p) \/ ClaimRecord(p)
                                      \/ WriteRecord(p) \/ FinishScan(p)
    PROVE  GraphInv'
  <1>1. phase' \notin {"edges", "finish"}
    BY Zenon DEF BeginBuild, AttachScan, EndFit, MergeRecords, SerialScan, Launch, NoWorkers,
           StartScan, FitRow, ClaimRecord, WriteRecord, FinishScan, Scanning
  <1>2. outcome' # "done"
    BY Zenon DEF BeginBuild, AttachScan, EndFit, MergeRecords, SerialScan,
           StartScan, FitRow, ClaimRecord, WriteRecord, FinishScan
  <1> QED BY <1>1, <1>2, OtherPhase

\* What goes wrong leaves the graph as it was.
LEMMA FaultGraph ==
    ASSUME Inv, GraphInv, Fault \/ LeaderAborts \/ CommitRow \/ UNCHANGED vars
    PROVE  GraphInv'
  <1>1. /\ UNCHANGED <<phase, sh, ns, edges, index>>
        /\ outcome' = "done" => outcome = "done"
    BY DEF Fault, NeverStarts, WorkerError, LeaderAborts, CommitRow, vars
  <1>2. \A p \in Participants : pc'[p] = pc[p] \/ pc'[p] \in Gone
    <2> TAKE p \in Participants
    <2>1. CASE Fault
      <3>1. PICK w \in Workers, v \in {"never", "failed"} : pc' = [pc EXCEPT ![w] = v]
        BY <2>1 DEF Fault, NeverStarts, WorkerError
      <3>2. pc \in [Participants -> ScanPoints \cup EdgePoints]
        BY DEF Inv, TypeOK
      <3> QED BY <3>1, <3>2 DEF Gone
    <2>2. CASE LeaderAborts \/ CommitRow \/ UNCHANGED vars
      BY <2>2 DEF LeaderAborts, CommitRow, vars
    <2> QED BY <2>1, <2>2
  <1> QED BY <1>1, <1>2, SameGraph

LEMMA InitGraph == Init => GraphInv
  BY DEF Init, GraphInv, InEdges

LEMMA GraphInductive == Inv /\ GraphInv /\ [Next]_vars => GraphInv'
  <1> SUFFICES ASSUME Inv, GraphInv, [Next]_vars PROVE GraphInv'
    OBVIOUS
  <1>1. CASE CommitRow \/ Fault \/ UNCHANGED vars
    BY <1>1, FaultGraph
  <1>2. CASE outcome = "building" /\ LeaderStep
    <2>1. CASE BeginBuild \/ AttachScan \/ EndFit \/ MergeRecords \/ SerialScan
      BY <1>2, <2>1, ScanGraph
    <2>2. CASE EndEncode \/ EndSerialScan
      BY <1>2, <2>2, AfterScanGraph
    <2>3. CASE SerialEdges
      BY <1>2, <2>3, SerialGraph
    <2>4. CASE InitBarrier \/ LeaderClaimsSlot
      BY <2>4, ClaimGraph
    <2>5. CASE BuildWarmup
      BY <2>5, WarmupGraph
    <2>6. CASE PlanBatch
      BY <2>6, PlanGraph
    <2>7. CASE PublishBatch
      BY <2>7, PublishGraph
    <2>8. CASE EndEdges
      BY <1>2, <2>8, EndGraph
    <2>9. CASE FinishBuild
      BY <2>9, FinishGraph
    <2>10. CASE LeaderAborts
      BY <2>10, FaultGraph
    <2> QED BY <1>2, <2>1, <2>2, <2>3, <2>4, <2>5, <2>6, <2>7, <2>8, <2>9, <2>10 DEF LeaderStep
  <1>3. CASE BarrierRelease
    BY <1>3, BarrierGraph
  <1>4. ASSUME NEW p \in Participants, outcome = "building", ParticipantStep(p)
        PROVE  GraphInv'
    <2>1. CASE StartScan(p) \/ FitRow(p) \/ ClaimRecord(p) \/ WriteRecord(p) \/ FinishScan(p)
      BY <1>4, <2>1, ScanGraph
    <2>2. CASE ClaimNode(p)
      BY <1>4, <2>2, ClaimGraph
    <2>3. CASE LinkNode(p)
      BY <1>4, <2>3, LinkGraph
    <2>4. CASE ApplyBacklinks(p)
      BY <1>4, <2>4, ApplyGraph
    <2>5. CASE LeaveEdges(p)
      BY <1>4, <2>5, LeaveGraph
    <2> QED BY <1>4, <2>1, <2>2, <2>3, <2>4, <2>5 DEF ParticipantStep
  <1>5. ASSUME NEW w \in Workers, WorkerStep(w)
        PROVE  GraphInv'
    BY <1>5, ClaimGraph DEF WorkerStep
  <1> QED BY <1>1, <1>2, <1>3, <1>4, <1>5 DEF Next

(***************************************************************************)
(* The theorems.                                                           *)
(***************************************************************************)

\* What a participant touches before and behind the barriers.
LEMMA Touches ==
    ASSUME NEW p \in Participants
    PROVE  /\ pc[p] = "link" =>
                 /\ Writes(p) = Lists({sh.order[cur[p][1] + 1]})
                 /\ Reads(p) = Lists(sh.b.ins) \cup {Inserted, Batch}
           /\ pc[p] = "apply" =>
                 /\ Writes(p) \subseteq Lists({k \in sh.b.ins : k % NParticipants = slot[p]})
                 /\ Reads(p) \subseteq {Inserted, Batch}
                       \cup (IF cur[p][1] < sh.batchEnd
                             THEN Lists({sh.order[cur[p][1] + 1]}) ELSE {})
           /\ pc[p] \in {"claim", "leave"} => Writes(p) = {} /\ Reads(p) = {Batch}
           /\ pc[p] \notin {"link", "apply", "claim", "leave", "warmup", "publish", "plan"} =>
                 Writes(p) = {} /\ Reads(p) = {}
  <1>1. CASE pc[p] = "link"
    BY <1>1 DEF Reads, Writes
  <1>2. CASE pc[p] = "apply"
    <2> DEFINE n == sh.order[cur[p][1] + 1]
               own == {k \in sh.b.ins : k % NParticipants = slot[p]}
               mine == {k \in sh.b.ins : /\ k % NParticipants = slot[p]
                                         /\ \E l \in 0 .. Level[n] : k \in ListIds(sh.b.g[n][l])}
    <2>1. Reads(p) = {Inserted, Batch} \cup (IF cur[p][1] < sh.batchEnd THEN Lists({n}) ELSE {})
      BY <1>2 DEF Reads
    <2>2. Writes(p) = IF cur[p][1] < sh.batchEnd THEN Lists(mine) ELSE {}
      BY <1>2 DEF Writes
    <2>3. mine \subseteq own
      OBVIOUS
    <2> HIDE DEF n, own, mine
    <2>4. Lists(mine) \subseteq Lists(own)
      BY <2>3 DEF Lists
    <2>5. Writes(p) \subseteq Lists(own)
      BY <2>2, <2>4
    <2> QED BY <1>2, <2>1, <2>5 DEF own, n
  <1>3. CASE pc[p] \in {"claim", "leave"}
    BY <1>3, Zenon DEF Reads, Writes
  <1>4. CASE pc[p] \notin {"link", "apply", "claim", "leave", "warmup", "publish", "plan"}
    BY <1>4, Zenon DEF Reads, Writes
  <1> QED BY <1>1, <1>2, <1>3, <1>4

\* The nodes of the batch are behind the inserted ones in the order.
LEMMA BatchIsNew ==
    ASSUME EdgeShape, Len(ns) \in Nat, NEW i \in 0 .. Len(ns) - 1,
           sh.batchStart <= i, sh.b.ins = First(sh.batchStart)
    PROVE  sh.order[i + 1] \notin sh.b.ins
  <1>1. sh.order \in [1 .. Len(ns) -> Ids(ns)] /\ sh.batchStart \in 0 .. Len(ns)
    BY DEF EdgeShape
  <1>2. \A j \in 1 .. sh.batchStart : sh.order[j] # sh.order[i + 1]
    <2> SUFFICES ASSUME NEW j \in 1 .. sh.batchStart, sh.order[j] = sh.order[i + 1]
                 PROVE  FALSE
      OBVIOUS
    <2>1. j \in DOMAIN sh.order /\ i + 1 \in DOMAIN sh.order /\ j # i + 1
      BY <1>1
    <2> QED BY <2>1 DEF EdgeShape, IsInjective
  <1> QED BY <1>2 DEF First

LEMMA RaceFree == Inv => NoDataRace
  <1> SUFFICES ASSUME Inv, InEdges, NEW p \in Launched \cup {leader},
                      NEW q \in Launched \cup {leader}, p # q
               PROVE  Writes(p) \cap (Reads(q) \cup Writes(q)) = {}
    BY DEF NoDataRace
  <1>1. /\ EdgeShape /\ SlotsInv /\ Len(ns) \in Nat
        /\ WarmingUp \/ Planning \/ Linking \/ Applying \/ Publishing \/ Leaving
        /\ leader \in Participants /\ leader \notin Workers
    BY EdgeFacts
  <1>2. p \in Participants /\ q \in Participants /\ (q # leader => q \in Workers)
        /\ (p # leader => p \in Workers)
    BY <1>1 DEF Launched, Participants
  <1>3. Inserted # Batch /\ \A S : Inserted \notin Lists(S) /\ Batch \notin Lists(S)
    BY DEF Inserted, Batch, Lists
  <1>4. \A S, T : S \cap T = {} => Lists(S) \cap Lists(T) = {}
    BY DEF Lists
  <1>5. CASE pc[p] = "link"
    <2>1. Linking
      BY <1>1, <1>2, <1>5, StageOf
    <2>2. pc[q] \in {"claim", "link", "b2"} \cup Gone
      BY <1>2, <2>1 DEF Linking, AllAt
    <2> DEFINE n == sh.order[cur[p][1] + 1]
               m == sh.order[cur[q][1] + 1]
    <2>3. /\ cur[p][1] \in 0 .. Len(ns) - 1 /\ sh.batchStart <= cur[p][1]
          /\ sh.b.ins = First(sh.batchStart) /\ sh.order \in [1 .. Len(ns) -> Ids(ns)]
      BY <1>1, <1>2, <1>5, <2>1 DEF Linking, EdgeShape
    <2>4. n \notin sh.b.ins
      BY <1>1, <2>3, BatchIsNew
    <2>5. Writes(p) = Lists({n})
      BY <1>2, <1>5, Touches
    <2>6. CASE pc[q] = "link"
      <3>1. cur[q][1] \in 0 .. Len(ns) - 1 /\ cur[q][1] # cur[p][1]
        BY <1>1, <1>2, <1>5, <2>1, <2>6 DEF Linking, EdgeShape
      <3>2. n # m
        <4>1. cur[p][1] + 1 \in DOMAIN sh.order /\ cur[q][1] + 1 \in DOMAIN sh.order
              /\ cur[p][1] + 1 # cur[q][1] + 1
          BY <2>3, <3>1
        <4> QED BY <1>1, <4>1 DEF EdgeShape, IsInjective
      <3>3. Reads(q) = Lists(sh.b.ins) \cup {Inserted, Batch} /\ Writes(q) = Lists({m})
        BY <1>2, <2>6, Touches
      <3> HIDE DEF n, m
      <3>4. {n} \cap sh.b.ins = {} /\ {n} \cap {m} = {}
        BY <2>4, <3>2
      <3>5. Lists({n}) \cap Lists(sh.b.ins) = {} /\ Lists({n}) \cap Lists({m}) = {}
        BY <1>4, <3>4
      <3> QED BY <1>3, <2>5, <3>3, <3>5
    <2>7. CASE pc[q] # "link"
      <3>1. Reads(q) \subseteq {Batch} /\ Writes(q) = {}
        BY <1>2, <2>2, <2>7, Touches DEF Gone
      <3> QED BY <1>3, <2>5, <3>1
    <2> QED BY <2>6, <2>7
  <1>6. CASE pc[p] = "apply"
    <2>1. Applying
      BY <1>1, <1>2, <1>6, StageOf
    <2>2. pc[q] \in {"apply", "b3"} \cup Gone
      BY <1>2, <2>1 DEF Applying, AllAt
    <2> DEFINE mine == {k \in sh.b.ins : k % NParticipants = slot[p]}
               others == {k \in sh.b.ins : k % NParticipants = slot[q]}
               n == sh.order[cur[q][1] + 1]
    <2>3. Writes(p) \subseteq Lists(mine)
      BY <1>2, <1>6, Touches
    <2>4. CASE pc[q] = "apply"
      <3>1. slot[p] # slot[q]
        BY <1>1, <1>2, <1>6, <2>4 DEF SlotsInv, Gone
      <3>2. mine \cap others = {}
        BY <3>1
      <3>3. cur[q][1] < sh.batchEnd => n \notin sh.b.ins
        <4> SUFFICES ASSUME cur[q][1] < sh.batchEnd PROVE n \notin sh.b.ins
          OBVIOUS
        <4>1. /\ cur[q][1] \in 0 .. Len(ns) - 1 /\ sh.batchStart <= cur[q][1]
              /\ sh.b.ins = First(sh.batchStart)
          BY <1>1, <1>2, <2>1, <2>4 DEF Applying, EdgeShape
        <4> QED BY <1>1, <4>1, BatchIsNew
      <3>4. Writes(q) \subseteq Lists(others)
        BY <1>2, <2>4, Touches
      <3>5. Reads(q) \subseteq {Inserted, Batch}
                 \cup (IF cur[q][1] < sh.batchEnd THEN Lists({n}) ELSE {})
        BY <1>2, <2>4, Touches
      <3>6. cur[q][1] < sh.batchEnd => mine \cap {n} = {}
        BY <3>3
      <3> HIDE DEF n, mine, others
      <3>7. Lists(mine) \cap Lists(others) = {}
        BY <1>4, <3>2
      <3>8. cur[q][1] < sh.batchEnd => Lists(mine) \cap Lists({n}) = {}
        BY <1>4, <3>6
      <3> QED BY <1>3, <2>3, <3>4, <3>5, <3>7, <3>8
    <2>5. CASE pc[q] # "apply"
      <3>1. Reads(q) = {} /\ Writes(q) = {}
        BY <1>2, <2>2, <2>5, Touches DEF Gone
      <3> QED BY <3>1
    <2> QED BY <2>4, <2>5
  <1>7. CASE pc[p] \in {"warmup", "publish", "plan"}
    <2>1. p = leader /\ q \in Workers
      BY <1>1, <1>2, <1>7 DEF WarmingUp, Planning, Linking, Applying, Publishing, Leaving,
                              AllAt, Gone
    <2>2. pc[q] \in {"start", "notready", "b0", "b1", "b4"} \cup Gone
      BY <1>1, <1>7, <2>1 DEF WarmingUp, Planning, Linking, Applying, Publishing, Leaving,
                              AllAt, Gone
    <2>3. Reads(q) = {} /\ Writes(q) = {}
      BY <1>2, <2>2, Touches DEF Gone
    <2> QED BY <2>3
  <1>8. CASE pc[p] \notin {"link", "apply", "warmup", "publish", "plan"}
    <2>1. Writes(p) = {}
      BY <1>2, <1>8, Touches
    <2> QED BY <2>1
  <1> QED BY <1>5, <1>6, <1>7, <1>8

\* The invariant holds in every build, whatever the number of rows, workers,
\* batches and failures (tqgraphbuild).
THEOREM ParallelInvHolds == Spec => []Inv
  <1>1. Spec => Init /\ [][Next]_vars
    BY DEF Spec
  <1> QED BY <1>1, InitInv, InvInductive, PTL

\* No two participants of the edge phase are about to touch the same list,
\* inserted flag or batch bound, one of them writing: five barriers and the
\* ownership of destinations by slot stand for the locks the graph does not
\* have (PgturbohybridNativeParallelEdgeWorker).
THEOREM NeverRaces == Spec => []NoDataRace
  BY ParallelInvHolds, RaceFree, PTL

\* When the leader merges the record area, every row of the table is in it
\* once and no claimed record is empty, also when workers have died
\* (PgturbohybridNativeParallelMergeRecords).
THEOREM RecordAreaIsExact == Spec => []RecordAreaExact
  <1>1. Inv => RecordAreaExact
    BY AreaIsExact DEF RecordAreaExact
  <1> QED BY <1>1, ParallelInvHolds, PTL

\* An index that CREATE INDEX has written holds every indexable row of the
\* table it began with once and no row the table does not have (tqgraphbuild).
THEOREM RowsAreIndexedOnce == Spec => []RowsIndexedOnce
  <1>1. Inv => RowsIndexedOnce
    BY DEF Inv, NodesInv, RowsIndexedOnce, IsOneScan
  <1> QED BY <1>1, ParallelInvHolds, PTL

\* Every variable keeps its type, in every phase.
THEOREM ParallelTypeCorrect == Spec => []TypeOK
  <1>1. Inv => TypeOK
    BY DEF Inv
  <1> QED BY <1>1, ParallelInvHolds, PTL

\* In every phase the graph of the build is one of neighbour lists: other
\* nodes of the level, none twice, no more than a page holds, whoever links,
\* links back or publishes; its entry is a node of the highest level; and
\* nobody leaves the edge phase before the last node is inserted
\* (PgturbohybridNativeParallelEdgeWorker, PgturbohybridNativeParallelApplyEdges,
\* PgturbohybridNativeBuildEdges).
THEOREM GraphInvHolds == Spec => []GraphInv
  <1>1. Spec => Init /\ [][Next]_vars
    BY DEF Spec
  <1> QED BY <1>1, InitGraph, GraphInductive, ParallelInvHolds, PTL

\* The index that CREATE INDEX writes is one a search can use: lists fit their
\* pages and hold other nodes of their level once, the backbone links every
\* node to its neighbours, routing entries are the highest nodes after the
\* entry and the sidecar is full, for every number of workers and every way
\* they interleave and fail (PgturbohybridNativeFinishBuild).
THEOREM IndexIsUsable == Spec => []IndexUsable
  <1>1. GraphInv => IndexUsable
    BY DEF GraphInv, IndexUsable
  <1> QED BY <1>1, GraphInvHolds, PTL
=============================================================================

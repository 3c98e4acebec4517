--------------------------- MODULE ParallelBuild ----------------------------
(***************************************************************************)
(* CREATE INDEX by a leader and parallel workers (tqgraphbuild).           *)
(*                                                                         *)
(* fit     the participants of a parallel heap scan count the rows; the    *)
(*         sum is the capacity of the record area;                         *)
(* encode  a second scan: each row claims a record under the spinlock and  *)
(*         is written to it afterwards; the leader sorts the records;      *)
(* edges   leader and workers meet at a barrier of fixed size five times a *)
(*         batch: plan, link the nodes of the batch, apply the links back  *)
(*         by owner of the destination, publish;                           *)
(* finish  backbone, routing entries, sidecar, pages.                      *)
(*                                                                         *)
(* A phase whose workers cannot be launched falls back to the serial code. *)
(* Without CONCURRENTLY the table is locked; with it rows keep arriving    *)
(* and every scan takes a snapshot of its own.  Workers may fail to start  *)
(* or die of an error, which reaches the leader as an interrupt.           *)
(*                                                                         *)
(* External: the parallel heap scan (every row to one participant), the    *)
(* barrier (a count of arrivals), launching and error propagation.         *)
(***************************************************************************)
EXTENDS BuildGraph

CONSTANTS Rows,          \* the heap TIDs, positive integers
          Indexable,     \* the rows whose vector is neither null nor rejected
          MaxWorkers,    \* the largest worker request
          InitialHeaps,  \* what the table may hold when the build begins
          Workers,       \* worker processes
          MaxFail        \* bound on workers that fail

VARIABLES heap,          \* the committed rows of the table
          base,          \* the rows committed when the build began
          outcome,       \* "building", "done" or "error"
          index,         \* <<>>, or <<the index written>>
          concurrent,    \* ii_Concurrent
          request,       \* workerRequest
          phase,         \* "begin", "fit", "encode", "scan", "edges", "serial", "finish"
          pc,            \* pc[p]: where a participant is
          slot,          \* slot[p]: its participant number
          cur,           \* cur[p]: <<record or place in the order, row>> it works on
          sh,            \* the shared memory of the phase
          failed,        \* workers that failed, so far
          ns,            \* the rows of the nodes, by node id
          edges          \* [g, entry, segments] when the edges are built

vars == <<heap, base, outcome, index, concurrent, request, phase, pc, slot, cur, sh,
          failed, ns, edges>>

leader == "leader"
Participants == Workers \cup {leader}
None == -1
NoIndex == <<>>
Nothing == <<None, None>>

ASSUME ParallelBuildAssumption ==
    /\ Rows \subseteq Nat \ {0} /\ IsFiniteSet(Rows) /\ Indexable \subseteq Rows
    /\ InitialHeaps \subseteq SUBSET Rows
    /\ MaxWorkers \in Nat /\ MaxFail \in Nat
    /\ IsFiniteSet(Workers) /\ leader \notin Workers
    /\ \A n \in 0 .. Cardinality(Rows) : Key[n] \in Nat /\ Level[n] \in Nat
    /\ \A r \in Rows \cup {0} : Pos[r] \in Int

Launched == {w \in Workers : pc[w] # "none"}
NParticipants == Cardinality(Launched) + 1

\* Shared memory as PgturbohybridNativeParallelInitShared leaves it.
InitShared(todo, capacity) ==
    [todo |-> todo, next |-> 0, done |-> 0,
     fit |-> [s \in 0 .. MaxWorkers |-> 0],
     capacity |-> capacity, records |-> <<>>, overflowed |-> FALSE]

InitEdgeShared ==
    [b |-> [g |-> EmptyGraph(ns), ins |-> {}, entry |-> NoEntry],
     order |-> BuildOrder(Ids(ns)), next |-> 0, done |-> 0, ready |-> FALSE,
     nextOrder |-> 0, batchStart |-> 0, batchEnd |-> 0, edgeDone |-> FALSE]

Init ==
    /\ base \in InitialHeaps /\ heap = base
    /\ outcome = "building" /\ index = NoIndex
    /\ concurrent \in BOOLEAN
    /\ request \in 0 .. MaxWorkers
    /\ phase = "begin"
    /\ pc = [p \in Participants |-> "none"]
    /\ slot = [p \in Participants |-> None]
    /\ cur = [p \in Participants |-> Nothing]
    /\ sh = InitShared({}, 0)
    /\ failed = 0
    /\ ns = <<>>
    /\ edges = [g |-> <<>>, entry |-> NoEntry, segments |-> 1]

\* Another session commits a row while a concurrent build is scanning.
CommitRow ==
    /\ outcome = "building" /\ concurrent /\ phase \in {"begin", "fit", "encode", "scan"}
    /\ \E r \in Rows \ heap : heap' = heap \cup {r}
    /\ UNCHANGED <<base, outcome, index, concurrent, request, phase, pc, slot, cur, sh,
                   failed, ns, edges>>

\* LaunchParallelWorkers: any non-empty part of the request comes up.
Launch(p) ==
    \E W \in SUBSET Workers :
       /\ W # {} /\ Cardinality(W) <= request
       /\ phase' = p
       /\ pc' = [q \in Participants |-> IF q = leader \/ q \in W THEN "start" ELSE "none"]
       /\ slot' = [q \in Participants |-> None] /\ cur' = [q \in Participants |-> Nothing]
       /\ sh' = IF p = "edges" THEN InitEdgeShared
                ELSE InitShared(heap, IF p = "encode"
                                      THEN LET s == sh.fit IN FoldFunction(+, 0, s) ELSE 0)

\* No shared memory or no worker: the phase falls back to phase p.
NoWorkers(p) ==
    /\ phase' = p
    /\ pc' = [q \in Participants |-> "none"]
    /\ UNCHANGED <<slot, cur, sh>>

BeginBuild ==
    /\ phase = "begin"
    /\ (request > 0 /\ Launch("fit")) \/ NoWorkers("scan")
    /\ UNCHANGED <<heap, base, outcome, index, concurrent, request, failed, ns, edges>>

-----------------------------------------------------------------------------
(* The scanning phases.                                                     *)

Scanning == phase \in {"fit", "encode"}

\* PgturbohybridNativeParallelClaimParticipant, under the spinlock; a slot
\* past the capacity is an error.
ClaimParticipant(p, next) ==
    /\ slot' = [slot EXCEPT ![p] = sh.next]
    /\ sh' = [sh EXCEPT !.next = @ + 1]
    /\ pc' = [pc EXCEPT ![p] = IF sh.next <= request THEN next ELSE "failed"]

StartScan(p) ==
    /\ Scanning /\ pc[p] = "start"
    /\ ClaimParticipant(p, "scan")
    /\ UNCHANGED <<heap, base, outcome, index, concurrent, request, phase, cur, failed,
                   ns, edges>>

\* The next row of the shared scan, in the fit phase: count it.
FitRow(p) ==
    /\ phase = "fit" /\ pc[p] = "scan" /\ sh.todo # {}
    /\ LET r == CHOOSE r \in sh.todo : \A q \in sh.todo : r <= q
       IN  sh' = [sh EXCEPT !.todo = @ \ {r},
                            !.fit[slot[p]] = IF r \in Indexable THEN @ + 1 ELSE @]
    /\ UNCHANGED <<heap, base, outcome, index, concurrent, request, phase, pc, slot, cur,
                   failed, ns, edges>>

\* The next row in the encode phase claims a record, or finds the area full.
ClaimRecordUnchecked(p) ==
    /\ phase = "encode" /\ pc[p] = "scan" /\ sh.todo # {}
    /\ LET r    == CHOOSE r \in sh.todo : \A q \in sh.todo : r <= q
           full == Len(sh.records) >= sh.capacity
       IN  /\ sh' = [sh EXCEPT !.todo = @ \ {r},
                       !.records = IF r \in Indexable /\ ~full THEN Append(@, 0) ELSE @]
           /\ cur' = [cur EXCEPT ![p] = IF r \in Indexable /\ ~full
                                        THEN <<Len(sh.records) + 1, r>> ELSE Nothing]
           /\ pc' = [pc EXCEPT ![p] = IF r \in Indexable /\ ~full THEN "write" ELSE "scan"]
    /\ UNCHANGED <<heap, base, outcome, index, concurrent, request, phase, slot, failed,
                   ns, edges>>
ClaimRecord(p) ==
    /\ phase = "encode" /\ pc[p] = "scan" /\ sh.todo # {}
    /\ LET r    == CHOOSE r \in sh.todo : \A q \in sh.todo : r <= q
           full == Len(sh.records) >= sh.capacity
       IN  /\ sh' = [sh EXCEPT !.todo = @ \ {r},
                       !.records = IF r \in Indexable /\ ~full THEN Append(@, 0) ELSE @,
                       !.overflowed = @ \/ (r \in Indexable /\ full)]
           /\ cur' = [cur EXCEPT ![p] = IF r \in Indexable /\ ~full
                                        THEN <<Len(sh.records) + 1, r>> ELSE Nothing]
           /\ pc' = [pc EXCEPT ![p] = IF r \in Indexable /\ ~full THEN "write" ELSE "scan"]
    /\ UNCHANGED <<heap, base, outcome, index, concurrent, request, phase, slot, failed,
                   ns, edges>>

\* The record is filled outside the lock.
WriteRecord(p) ==
    /\ phase = "encode" /\ pc[p] = "write"
    /\ sh' = [sh EXCEPT !.records[cur[p][1]] = cur[p][2]]
    /\ pc' = [pc EXCEPT ![p] = "scan"]
    /\ cur' = [cur EXCEPT ![p] = Nothing]
    /\ UNCHANGED <<heap, base, outcome, index, concurrent, request, phase, slot, failed,
                   ns, edges>>

\* FinishParticipant; a worker then exits, the leader checks that the workers
\* attached and waits for them.
FinishScan(p) ==
    /\ Scanning /\ pc[p] = "scan" /\ sh.todo = {}
    /\ sh' = [sh EXCEPT !.done = @ + 1]
    /\ pc' = [pc EXCEPT ![p] = IF p = leader THEN "attach" ELSE "exit"]
    /\ UNCHANGED <<heap, base, outcome, index, concurrent, request, phase, slot, cur,
                   failed, ns, edges>>

\* WaitForParallelWorkersToAttach: returns when every worker has started.
AttachScan ==
    /\ Scanning /\ pc[leader] = "attach"
    /\ \A w \in Launched : pc[w] \notin {"start", "never"}
    /\ pc' = [pc EXCEPT ![leader] = "wait"]
    /\ UNCHANGED <<heap, base, outcome, index, concurrent, request, phase, slot, cur, sh,
                   failed, ns, edges>>

\* PgturbohybridNativeParallelWait.
AllDone == sh.done >= NParticipants

\* WaitForParallelWorkersToFinish: every worker exited without an error.
AllExited == \A w \in Launched : pc[w] = "exit"

\* After the fit phase: the encode phase with the counted capacity, or, when
\* no worker comes up, the serial scan.
EndFit ==
    /\ phase = "fit" /\ pc[leader] = "wait" /\ AllDone /\ AllExited
    /\ Launch("encode") \/ NoWorkers("scan")
    /\ UNCHANGED <<heap, base, outcome, index, concurrent, request, failed, ns, edges>>

\* The order of the nodes: by heap TID.
InTidOrder(rows) == Sorted(rows, LAMBDA a, b : a < b)

\* PgturbohybridNativeParallelMergeRecords: an error after an overflow, else
\* the nodes are the records in TID order.
MergeRecords ==
    /\ phase = "encode" /\ pc[leader] = "wait" /\ AllDone
    /\ IF sh.overflowed
       THEN outcome' = "error" /\ UNCHANGED ns
       ELSE /\ ns' = InTidOrder(Range(sh.records))
            /\ UNCHANGED outcome
    /\ pc' = [pc EXCEPT ![leader] = "merged"]
    /\ UNCHANGED <<heap, base, index, concurrent, request, phase, slot, cur, sh, failed,
                   edges>>

EndEncode ==
    /\ phase = "encode" /\ pc[leader] = "merged" /\ outcome = "building" /\ AllExited
    /\ IF Segments <= 1 /\ Len(ns) >= 2 THEN Launch("edges") \/ NoWorkers("serial")
       ELSE NoWorkers("serial")
    /\ UNCHANGED <<heap, base, outcome, index, concurrent, request, failed, ns, edges>>

\* The serial scan: the rows in TID order from wherever a synchronized scan
\* happens to start.  The edges may still find workers.
SerialScan ==
    /\ phase = "scan" /\ pc[leader] = "none"
    /\ LET all == InTidOrder(heap \cap Indexable)
       IN  \E k \in 0 .. Len(all) : ns' = SubSeq(all, k + 1, Len(all)) \o SubSeq(all, 1, k)
    /\ pc' = [pc EXCEPT ![leader] = "merged"]
    /\ UNCHANGED <<heap, base, outcome, index, concurrent, request, phase, slot, cur, sh,
                   failed, edges>>

EndSerialScan ==
    /\ phase = "scan" /\ pc[leader] = "merged"
    /\ IF request > 0 /\ Segments <= 1 /\ Len(ns) >= 2
       THEN Launch("edges") \/ NoWorkers("serial")
       ELSE NoWorkers("serial")
    /\ UNCHANGED <<heap, base, outcome, index, concurrent, request, failed, ns, edges>>

SerialEdges ==
    /\ phase = "serial"
    /\ edges' = BuildEdges(ns)
    /\ phase' = "finish"
    /\ UNCHANGED <<heap, base, outcome, index, concurrent, request, pc, slot, cur, sh,
                   failed, ns>>

-----------------------------------------------------------------------------
(* The edge phase.  A participant at one of the points b0 .. b4 has arrived *)
(* at the barrier; the barrier counts arrivals and knows no points.         *)

InEdges == phase = "edges"
EdgeUnchanged == UNCHANGED <<heap, base, outcome, index, concurrent, request, phase,
                             failed, ns, edges>>

StartEdgeWorker(w) ==
    /\ InEdges /\ w \in Workers /\ pc[w] = "start"
    /\ ClaimParticipant(w, "notready")
    /\ UNCHANGED cur /\ EdgeUnchanged

\* A worker sleeps until the barrier exists.
SeeReady(w) ==
    /\ InEdges /\ pc[w] = "notready" /\ sh.ready
    /\ pc' = [pc EXCEPT ![w] = "b0"]
    /\ UNCHANGED <<slot, cur, sh>> /\ EdgeUnchanged

\* The leader waits for every worker to attach, then makes the barrier; the
\* other order would leave it waiting for a worker that never comes.
InitBarrierAtOnce ==
    /\ InEdges /\ pc[leader] = "start" /\ ~sh.ready
    /\ sh' = [sh EXCEPT !.ready = TRUE]
    /\ pc' = [pc EXCEPT ![leader] = "claimslot"]
    /\ UNCHANGED <<slot, cur>> /\ EdgeUnchanged
InitBarrier ==
    /\ InEdges /\ pc[leader] = "start" /\ ~sh.ready
    /\ \A w \in Launched : pc[w] \notin {"start", "never"}
    /\ sh' = [sh EXCEPT !.ready = TRUE]
    /\ pc' = [pc EXCEPT ![leader] = "claimslot"]
    /\ UNCHANGED <<slot, cur>> /\ EdgeUnchanged

LeaderClaimsSlot ==
    /\ InEdges /\ pc[leader] = "claimslot"
    /\ ClaimParticipant(leader, "warmup")
    /\ cur' = [cur EXCEPT ![leader] = <<0, None>>]
    /\ EdgeUnchanged

\* The leader alone inserts the first nodes of the order, one after the other.
BuildWarmup ==
    /\ InEdges /\ pc[leader] = "warmup"
    /\ LET at == cur[leader][1]
           n  == sh.order[at + 1]
       IN  IF at < MinOf(Warmup, Len(ns))
           THEN /\ sh' = [sh EXCEPT !.b =
                            IF at = 0 THEN [@ EXCEPT !.ins = {n},
                                                     !.entry = [id |-> n, level |-> Level[n]]]
                            ELSE InsertNode(ns, @, n)]
                /\ cur' = [cur EXCEPT ![leader] = <<at + 1, None>>] /\ UNCHANGED pc
           ELSE /\ sh' = [sh EXCEPT !.batchStart = at]
                /\ pc' = [pc EXCEPT ![leader] = "b0"] /\ UNCHANGED cur
    /\ UNCHANGED slot /\ EdgeUnchanged

\* The leader sets the next batch, or the end; the others have nothing to do.
PlanBatch ==
    /\ InEdges /\ pc[leader] = "plan"
    /\ sh' = IF sh.batchStart >= Len(ns)
             THEN [sh EXCEPT !.edgeDone = TRUE, !.batchEnd = sh.batchStart]
             ELSE [sh EXCEPT !.batchEnd = MinOf(sh.batchStart + BatchSize(request), Len(ns)),
                             !.nextOrder = sh.batchStart]
    /\ pc' = [pc EXCEPT ![leader] = "b1"]
    /\ UNCHANGED <<slot, cur>> /\ EdgeUnchanged

\* Where a participant goes from point b of the barrier.
AfterBarrier(p, b) ==
    CASE b \in {"b0", "b4"} -> IF p = leader THEN "plan" ELSE "b1"
      [] b = "b1"           -> IF sh.edgeDone THEN "leave" ELSE "claim"
      [] b = "b2"           -> "apply"
      [] b = "b3"           -> IF p = leader THEN "publish" ELSE "b4"

\* The last arrival releases everybody; both loops over the batch that follow
\* begin at its start.
BarrierRelease ==
    /\ InEdges
    /\ LET at == {p \in Participants : pc[p] \in {"b0", "b1", "b2", "b3", "b4"}}
       IN  /\ Cardinality(at) = NParticipants
           /\ pc' = [p \in Participants |-> IF p \in at THEN AfterBarrier(p, pc[p]) ELSE pc[p]]
           /\ cur' = [p \in Participants |-> IF p \in at /\ pc[p] \in {"b2", "b3"}
                                             THEN <<sh.batchStart, None>> ELSE cur[p]]
    /\ UNCHANGED <<slot, sh>> /\ EdgeUnchanged

\* Take the next node of the batch under the spinlock.
ClaimNodeNoBarrier(p) ==
    /\ InEdges /\ pc[p] = "claim"
    /\ sh' = [sh EXCEPT !.nextOrder = @ + 1]
    /\ IF sh.nextOrder < sh.batchEnd
       THEN /\ cur' = [cur EXCEPT ![p] = <<sh.nextOrder, None>>] /\ pc' = [pc EXCEPT ![p] = "link"]
       ELSE /\ cur' = [cur EXCEPT ![p] = <<sh.batchStart, None>>] /\ pc' = [pc EXCEPT ![p] = "apply"]
    /\ UNCHANGED slot /\ EdgeUnchanged
ClaimNode(p) ==
    /\ InEdges /\ pc[p] = "claim"
    /\ sh' = [sh EXCEPT !.nextOrder = @ + 1]
    /\ IF sh.nextOrder < sh.batchEnd
       THEN /\ cur' = [cur EXCEPT ![p] = <<sh.nextOrder, None>>] /\ pc' = [pc EXCEPT ![p] = "link"]
       ELSE /\ cur' = cur /\ pc' = [pc EXCEPT ![p] = "b2"]
    /\ UNCHANGED slot /\ EdgeUnchanged

\* Build the lists of the claimed node, from the lists of the inserted ones.
LinkNode(p) ==
    /\ InEdges /\ pc[p] = "link"
    /\ LET n == sh.order[cur[p][1] + 1]
       IN  sh' = [sh EXCEPT !.b.g[n] = BuildNodeLinks(ns, sh.b, n)[n]]
    /\ pc' = [pc EXCEPT ![p] = "claim"]
    /\ UNCHANGED <<slot, cur>> /\ EdgeUnchanged

\* Every participant goes through the whole batch and adds the links back in
\* the lists of the destinations it owns.
ApplyBacklinks(p) ==
    /\ InEdges /\ pc[p] = "apply"
    /\ IF cur[p][1] < sh.batchEnd
       THEN /\ sh' = [sh EXCEPT !.b.g = ApplyNodeBacklinks(ns, @, sh.b.ins,
                              sh.order[cur[p][1] + 1], slot[p], NParticipants)]
            /\ cur' = [cur EXCEPT ![p] = <<cur[p][1] + 1, None>>] /\ UNCHANGED pc
       ELSE /\ pc' = [pc EXCEPT ![p] = "b3"] /\ UNCHANGED <<sh, cur>>
    /\ UNCHANGED slot /\ EdgeUnchanged

\* The leader alone marks the nodes of the batch inserted, one after the other.
PublishBatch ==
    /\ InEdges /\ pc[leader] = "publish"
    /\ LET at == cur[leader][1]
       IN  IF at < sh.batchEnd
           THEN /\ sh' = [sh EXCEPT !.b = PublishNode(@, sh.order[at + 1])]
                /\ cur' = [cur EXCEPT ![leader] = <<at + 1, None>>] /\ UNCHANGED pc
           ELSE /\ sh' = [sh EXCEPT !.batchStart = sh.batchEnd]
                /\ pc' = [pc EXCEPT ![leader] = "b4"] /\ UNCHANGED cur
    /\ UNCHANGED slot /\ EdgeUnchanged

LeaveEdges(p) ==
    /\ InEdges /\ pc[p] = "leave"
    /\ sh' = [sh EXCEPT !.done = @ + 1]
    /\ pc' = [pc EXCEPT ![p] = IF p = leader THEN "wait" ELSE "exit"]
    /\ UNCHANGED <<slot, cur>> /\ EdgeUnchanged

\* PgturbohybridNativeParallelApplyEdges, then the workers are waited for.
EndEdges ==
    /\ InEdges /\ pc[leader] = "wait" /\ AllDone /\ AllExited
    /\ edges' = [g |-> [n \in Ids(ns) |-> [l \in 0 .. Level[n] |->
                    SubSeq(sh.b.g[n][l], 1, MinOf(Len(sh.b.g[n][l]), LevelM(l)))]],
                 entry |-> sh.b.entry, segments |-> 1]
    /\ phase' = "finish"
    /\ pc' = [p \in Participants |-> "none"]
    /\ UNCHANGED <<heap, base, outcome, index, concurrent, request, slot, cur, sh, failed, ns>>

-----------------------------------------------------------------------------
(* The end, and what goes wrong.                                            *)

FinishBuild ==
    /\ phase = "finish" /\ outcome = "building"
    /\ index' = <<WriteIndex(ns, edges)>>
    /\ outcome' = "done"
    /\ UNCHANGED <<heap, base, concurrent, request, phase, pc, slot, cur, sh, failed, ns, edges>>

\* A launched worker never starts (the postmaster could not fork it).
NeverStarts(w) ==
    /\ failed < MaxFail /\ pc[w] = "start" /\ w \in Workers
    /\ pc' = [pc EXCEPT ![w] = "never"]
    /\ failed' = failed + 1
    /\ UNCHANGED <<heap, base, outcome, index, concurrent, request, phase, slot, cur, sh,
                   ns, edges>>

\* A running worker dies of an error wherever it is.
WorkerError(w) ==
    /\ failed < MaxFail /\ w \in Workers
    /\ pc[w] \notin {"none", "start", "never", "failed", "exit"}
    /\ pc' = [pc EXCEPT ![w] = "failed"]
    /\ failed' = failed + 1
    /\ UNCHANGED <<heap, base, outcome, index, concurrent, request, phase, slot, cur, sh,
                   ns, edges>>

\* The leader learns of it: a dead worker's error at any interrupt check (every
\* sleep is one), a worker that never started only where it waits for the
\* workers to attach.
LeaderAborts ==
    /\ outcome = "building"
    /\ \/ \E p \in Launched \cup {leader} : pc[p] = "failed"
       \/ /\ \E w \in Launched : pc[w] = "never"
          /\ pc[leader] = "attach" \/ (InEdges /\ pc[leader] = "start" /\ ~sh.ready)
    /\ outcome' = "error"
    /\ UNCHANGED <<heap, base, index, concurrent, request, phase, pc, slot, cur, sh, failed,
                   ns, edges>>

LeaderStep ==
    \/ BeginBuild \/ AttachScan \/ EndFit \/ MergeRecords \/ EndEncode \/ SerialScan
    \/ EndSerialScan \/ SerialEdges \/ InitBarrier \/ LeaderClaimsSlot \/ BuildWarmup
    \/ PlanBatch \/ PublishBatch \/ EndEdges \/ FinishBuild \/ LeaderAborts

ParticipantStep(p) ==
    \/ StartScan(p) \/ FitRow(p) \/ ClaimRecord(p) \/ WriteRecord(p) \/ FinishScan(p)
    \/ ClaimNode(p) \/ LinkNode(p) \/ ApplyBacklinks(p) \/ LeaveEdges(p)

WorkerStep(w) == StartEdgeWorker(w) \/ SeeReady(w)
Fault == \E w \in Workers : NeverStarts(w) \/ WorkerError(w)

Next ==
    \/ CommitRow
    \/ outcome = "building" /\ LeaderStep
    \/ outcome = "building" /\ BarrierRelease
    \/ \E p \in Participants : outcome = "building" /\ ParticipantStep(p)
    \/ \E w \in Workers : outcome = "building" /\ WorkerStep(w)
    \/ outcome = "building" /\ Fault

Running == outcome = "building"

\* When a step of the leader, of the barrier and of participant p is enabled.
LeaderCan ==
    \/ phase \in {"begin", "serial", "finish"}
    \/ phase = "scan" /\ pc[leader] \in {"none", "merged"}
    \/ pc[leader] = "attach" /\ \A w \in Launched : pc[w] \notin {"start", "never"}
    \/ pc[leader] = "wait" /\ AllDone /\ (phase = "encode" \/ AllExited)
    \/ phase = "encode" /\ pc[leader] = "merged" /\ AllExited
    \/ InEdges /\ pc[leader] = "start" /\ \A w \in Launched : pc[w] \notin {"start", "never"}
    \/ pc[leader] \in {"claimslot", "warmup", "plan", "publish"}
    \/ ENABLED LeaderAborts
BarrierCan ==
    InEdges /\ Cardinality({p \in Participants : pc[p] \in {"b0", "b1", "b2", "b3", "b4"}})
                  = NParticipants
ParticipantCan(p) ==
    \/ Scanning /\ pc[p] \in {"start", "scan", "write"}
    \/ InEdges /\ pc[p] \in {"claim", "link", "apply", "leave"}
    \/ InEdges /\ p # leader /\ (pc[p] = "start" \/ (pc[p] = "notready" /\ sh.ready))

\* Weak fairness of every process, written out with the enabling conditions
\* above: a process that can run does, the barrier wakes its sleepers and an
\* interrupt reaches the leader.  It is what the operating system's scheduler,
\* condition variables broadcast after the state they announce is set, and the
\* CHECK_FOR_INTERRUPTS in every sleep give.  Faults and commits need never
\* happen.
Fairness ==
    /\ <>[](Running /\ LeaderCan) => []<><<LeaderStep>>_vars
    /\ <>[](Running /\ BarrierCan) => []<><<BarrierRelease>>_vars
    /\ \A p \in Participants : <>[](Running /\ ParticipantCan(p)) =>
           []<><<ParticipantStep(p) \/ (p \in Workers /\ WorkerStep(p))>>_vars

Spec == Init /\ [][Next]_vars /\ Fairness

-----------------------------------------------------------------------------
(* Properties.                                                              *)

\* What CREATE INDEX promises, over the variables both modules have.
Promise == INSTANCE IndexBuild WITH heap <- heap, base <- base, outcome <- outcome, index <- index

\* Whatever the number of workers, the way they interleave and the ones that
\* fail, the build either fails without an index or writes the index the
\* sequential algorithm builds from one scan of the table: no row is lost or
\* duplicated in the record area and the graph does not depend on the schedule
\* (tqgraphbuild and the parallel phases it runs).
BuildsOneScan == Promise!Spec

\* What the next step of participant p in the edge phase reads and writes in
\* shared memory without a lock: neighbour lists, the inserted flags and the
\* entry, the bounds of the batch.
Lists(S) == {<<"list", n>> : n \in S}
Inserted == <<"inserted", None>>
Batch == <<"batch", None>>
Reads(p) ==
    CASE pc[p] = "link"  -> Lists(sh.b.ins) \cup {Inserted, Batch}
      [] pc[p] = "apply" -> {Inserted, Batch}
             \cup (IF cur[p][1] < sh.batchEnd THEN Lists({sh.order[cur[p][1] + 1]}) ELSE {})
      [] pc[p] \in {"claim", "leave"} -> {Batch}
      [] pc[p] \in {"warmup", "publish", "plan"} -> {Inserted, Batch}
      [] OTHER -> {}
Writes(p) ==
    CASE pc[p] = "link"   -> Lists({sh.order[cur[p][1] + 1]})
      [] pc[p] = "apply" /\ cur[p][1] < sh.batchEnd ->
             LET n == sh.order[cur[p][1] + 1]
             IN  Lists({k \in sh.b.ins : /\ k % NParticipants = slot[p]
                                         /\ \E l \in 0 .. Level[n] : k \in ListIds(sh.b.g[n][l])})
      [] pc[p] = "warmup"  -> Lists(Ids(ns)) \cup {Inserted}
      [] pc[p] = "publish" -> {Inserted, Batch}
      [] pc[p] = "plan"    -> {Batch}
      [] OTHER -> {}

\* No two participants of the edge phase are ever about to touch the same
\* shared memory, one of them writing: the barriers and the ownership of
\* destinations replace the locks the lists do not have
\* (PgturbohybridNativeParallelEdgeWorker).
NoDataRace ==
    InEdges /\ outcome = "building" =>
        \A p, q \in Launched \cup {leader} :
            p # q => Writes(p) \cap (Reads(q) \cup Writes(q)) = {}

\* What a search needs of an index: the entry is a node of the
\* highest level, every list holds distinct nodes of its level and fits the
\* page layout, the backbone reaches every node from every other, routing
\* entries are the highest other nodes, and the sidecar holds distinct nodes.
Wellformed(ix) ==
    LET ids == Ids(ix.nodes)
    IN  /\ ids # {} => /\ ix.entry.id \in ids /\ ix.entry.level = Level[ix.entry.id]
                       /\ \A n \in ids : Level[n] <= ix.entry.level
        /\ \A n \in ids : \A l \in 0 .. Level[n] :
              /\ Len(ix.adj[n][l]) <= LevelM(l)
              /\ IsInjective(ix.adj[n][l])
              /\ \A k \in Range(ix.adj[n][l]) : k # n /\ HasLevel(ix.nodes, k, l)
        /\ Backbone /\ ix.segments <= 1 =>
              \A n \in ids : \A k \in {n - 1, n + 1} \cap ids : k \in Range(ix.adj[n][0])
        /\ \A n \in ix.routing : \A k \in ids \ (ix.routing \cup {ix.entry.id}) :
              Level[n] > 0 /\ Level[k] <= Level[n]
        /\ IsInjective(ix.sidecar) /\ Range(ix.sidecar) \subseteq ids
        /\ Strategy # "hash" => Len(ix.sidecar) = MinOf(Representatives, Len(ix.nodes))

\* The index that CREATE INDEX writes is one a search can use, also after
\* workers have failed and a phase was done again by the serial code.
IndexUsable == outcome = "done" => Wellformed(index[1])

\* The build ends, with an index or with an error: a worker that never starts
\* or dies never leaves the leader at the barrier for good.
BuildEnds == <>(outcome # "building")

-----------------------------------------------------------------------------
(* The inductive invariant of the safety proofs.                            *)

\* CREATE INDEX writes every indexable row that was there when it began and no
\* row that is not there, each of them once, however the workers share the
\* scan and claim records (PgturbohybridNativeParallelBuildCallback and
\* PgturbohybridNativeParallelMergeRecords).
IsOneScan(rows) ==
    /\ IsInjective(rows)
    /\ base \cap Indexable \subseteq Range(rows)
    /\ Range(rows) \subseteq heap \cap Indexable
RowsIndexedOnce == outcome = "done" => IsOneScan(index[1].nodes)

\* When the leader merges the record area, no claimed record is unwritten, no
\* row is there twice and, unless it overflowed, no row is missing.
RecordAreaExact ==
    (phase = "encode" /\ pc[leader] = "wait" /\ AllDone /\ ~sh.overflowed) =>
        IsOneScan(sh.records)

Gone == {"none", "never", "failed"}
ScanPoints == Gone \cup {"start", "scan", "write", "exit", "attach", "wait", "merged"}
EdgePoints == {"notready", "claimslot", "warmup", "b0", "plan", "b1", "claim", "link", "b2",
               "apply", "b3", "publish", "b4", "leave"}

TypeOK ==
    /\ base \subseteq heap /\ heap \subseteq Rows
    /\ outcome \in {"building", "done", "error"}
    /\ request \in 0 .. MaxWorkers /\ concurrent \in BOOLEAN
    /\ phase \in {"begin", "fit", "encode", "scan", "edges", "serial", "finish"}
    /\ pc \in [Participants -> ScanPoints \cup EdgePoints]
    /\ slot \in [Participants -> Int]
    /\ cur \in [Participants -> Int \X Int]
    /\ failed \in Nat

\* The rows a record area can still get from participants that claimed one.
Pending == {p \in Participants : pc[p] \in {"write", "failed"}}
Finished == {p \in Participants : pc[p] \in {"exit", "attach", "wait", "merged"}}

ScanShape == Scanning =>
    /\ DOMAIN sh = {"todo", "next", "done", "fit", "capacity", "records", "overflowed"}
    /\ sh.next \in Nat

EncodeShape ==
    /\ sh.todo \subseteq heap
    /\ sh.records \in Seq(Rows \cup {0})
    /\ sh.overflowed \in BOOLEAN

\* A claimed record is one participant's until it is written, and what is
\* claimed or written has left the scan.
ClaimsInv ==
    /\ \A p \in Participants : pc[p] = "write" =>
          /\ cur[p][1] \in DOMAIN sh.records /\ sh.records[cur[p][1]] = 0
          /\ cur[p][2] \in (heap \cap Indexable) \ sh.todo
          /\ \A i \in DOMAIN sh.records : sh.records[i] # cur[p][2]
          /\ \A q \in Participants : q # p /\ pc[q] = "write" =>
                cur[q][1] # cur[p][1] /\ cur[q][2] # cur[p][2]
    /\ \A i \in DOMAIN sh.records : sh.records[i] # 0 =>
          /\ sh.records[i] \in (heap \cap Indexable) \ sh.todo
          /\ \A j \in DOMAIN sh.records : sh.records[j] = sh.records[i] => j = i

\* Nothing is forgotten: a row that is neither to be scanned nor written is
\* claimed by a participant that has not finished, and so is an empty record.
NothingLost ==
    /\ \A i \in DOMAIN sh.records : sh.records[i] = 0 => \E p \in Pending : cur[p][1] = i
    /\ ~sh.overflowed => \A r \in base \cap Indexable :
          \/ r \in sh.todo
          \/ \E i \in DOMAIN sh.records : sh.records[i] = r
          \/ \E p \in Pending : cur[p][2] = r
    /\ sh.done = Cardinality(Finished)
    /\ Finished # {} => sh.todo = {}

EncodeInv == phase = "encode" =>
    /\ \A p \in Participants :
          pc[p] \in ScanPoints \ (IF p = leader THEN {"none", "exit"}
                                 ELSE {"attach", "wait", "merged"})
    /\ EncodeShape /\ ClaimsInv /\ NothingLost

\* The nodes the edges are built of.
NodesInv ==
    /\ ns \in Seq(Rows \cup {0})
    /\ Len(ns) <= Cardinality(Rows) + 1
    /\ (/\ outcome # "error"
        /\ \/ phase \in {"edges", "serial", "finish"}
           \/ phase \in {"encode", "scan"} /\ pc[leader] = "merged") => IsOneScan(ns)
    /\ outcome = "done" => index[1].nodes = ns /\ phase = "finish"

EdgeShape ==
    /\ DOMAIN sh = {"b", "order", "next", "done", "ready", "nextOrder", "batchStart",
                    "batchEnd", "edgeDone"}
    /\ DOMAIN sh.b = {"g", "ins", "entry"}
    /\ sh.order \in [1 .. Len(ns) -> Ids(ns)] /\ IsInjective(sh.order)
    /\ sh.next \in Nat /\ sh.done \in Nat /\ sh.nextOrder \in Nat
    /\ sh.batchStart \in 0 .. Len(ns) /\ sh.batchEnd \in 0 .. Len(ns)

\* Slots are claimed once.
SlotsInv ==
    \A p \in Participants :
        /\ slot[p] = None \/ slot[p] \in 0 .. sh.next - 1
        /\ slot[p] = None => pc[p] \in Gone \cup {"start", "claimslot"}
        /\ \A q \in Participants : q # p /\ slot[q] = slot[p] => slot[p] = None

First(k) == {sh.order[i] : i \in 1 .. k}

\* All participants are in the same stretch between two barriers, and what
\* the shared memory holds there.
AllAt(lead, others) == pc[leader] \in lead /\ \A w \in Workers : pc[w] \in others \cup Gone

WarmingUp ==
    /\ AllAt({"start", "claimslot", "failed", "warmup", "b0"}, {"start", "notready", "b0"})
    /\ pc[leader] \in {"start", "claimslot"} => sh.b.ins = {}
    /\ pc[leader] = "warmup" => /\ cur[leader][1] \in 0 .. Len(ns)
                                /\ sh.b.ins = First(cur[leader][1])
    /\ pc[leader] = "b0" => sh.b.ins = First(sh.batchStart)

Planning ==
    /\ AllAt({"plan", "b1"}, {"b1"})
    /\ sh.b.ins = First(sh.batchStart)
    /\ pc[leader] = "b1" /\ ~sh.edgeDone =>
          sh.batchStart <= sh.batchEnd /\ sh.nextOrder = sh.batchStart

Linking ==
    /\ AllAt({"claim", "link", "b2"}, {"claim", "link", "b2"})
    /\ sh.b.ins = First(sh.batchStart)
    /\ sh.batchStart <= sh.batchEnd /\ sh.batchStart <= sh.nextOrder
    /\ \A p \in Participants : pc[p] = "link" =>
          /\ cur[p][1] \in sh.batchStart .. sh.batchEnd - 1 /\ cur[p][1] < sh.nextOrder
          /\ \A q \in Participants : q # p /\ pc[q] = "link" => cur[q][1] # cur[p][1]

Applying ==
    /\ AllAt({"apply", "b3"}, {"apply", "b3"})
    /\ sh.b.ins = First(sh.batchStart)
    /\ sh.batchStart <= sh.batchEnd
    /\ \A p \in Participants :
          pc[p] = "apply" => cur[p][1] \in sh.batchStart .. sh.batchEnd

Publishing ==
    /\ AllAt({"publish", "b4"}, {"b4"})
    /\ sh.batchStart <= sh.batchEnd
    /\ pc[leader] = "publish" => /\ cur[leader][1] \in sh.batchStart .. sh.batchEnd
                                 /\ sh.b.ins = First(cur[leader][1])
    /\ pc[leader] = "b4" => sh.b.ins = First(sh.batchStart)

Leaving == AllAt({"leave", "wait"}, {"leave", "exit"})

EdgesInv == InEdges =>
    /\ EdgeShape /\ SlotsInv
    /\ WarmingUp \/ Planning \/ Linking \/ Applying \/ Publishing \/ Leaving

Inv == TypeOK /\ ScanShape /\ EncodeInv /\ NodesInv /\ EdgesInv

-----------------------------------------------------------------------------
(* The inductive invariant of the graph under construction.                 *)

\* A list of node n on level l: other nodes of that level, none of them twice
\* and not more than a page holds.
Link == [id : Int, d : Int]
NeighborLists(rows, n, l) ==
    {list \in Seq(Link) :
        /\ Len(list) <= LevelM(l)
        /\ \A i \in DOMAIN list :
              /\ list[i].id # n /\ HasLevel(rows, list[i].id, l)
              /\ \A j \in DOMAIN list : list[j].id = list[i].id => j = i}

\* A list for every level of every node.
IsBuildGraph(rows, g) ==
    /\ g = [n \in Ids(rows) |-> g[n]]
    /\ \A n \in Ids(rows) :
          /\ g[n] = [l \in 0 .. Level[n] |-> g[n][l]]
          /\ \A l \in 0 .. Level[n] : g[n][l] \in NeighborLists(rows, n, l)

\* The entry of the nodes S: one of the highest level.
IsEntryOf(S, entry) ==
    IF S = {} THEN entry = NoEntry
    ELSE /\ entry.id \in S /\ entry = [id |-> entry.id, level |-> Level[entry.id]]
         /\ \A n \in S : Level[n] <= entry.level

\* A graph under construction, and the edges of a build that has them all.
Building(rows, b) ==
    /\ b = [g |-> b.g, ins |-> b.ins, entry |-> b.entry]
    /\ IsBuildGraph(rows, b.g) /\ b.ins \subseteq Ids(rows) /\ IsEntryOf(b.ins, b.entry)
EdgesOf(rows, e) == IsBuildGraph(rows, e.g) /\ IsEntryOf(Ids(rows), e.entry)

\* The participants leave the edge phase when every node is inserted, not before.
LeaveInv ==
    /\ sh.edgeDone \in BOOLEAN
    /\ sh.edgeDone => /\ sh.b.ins = Ids(ns)
                      /\ \A p \in Participants : pc[p] \in {"b1", "leave", "wait", "exit"} \cup Gone
    /\ \A p \in Participants : pc[p] \in {"leave", "wait", "exit"} => sh.edgeDone

GraphInv ==
    /\ InEdges => Building(ns, sh.b) /\ LeaveInv
    /\ phase = "finish" => EdgesOf(ns, edges)
    /\ outcome = "done" => Wellformed(index[1])
=============================================================================

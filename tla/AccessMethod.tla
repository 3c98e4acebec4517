---------------------------- MODULE AccessMethod ----------------------------
(***************************************************************************)
(* One backend's executor hooks and its turbohybrid scans                  *)
(* (pgturbohybrid.c, pgturbohybrid_am.c).  Queries open, run and end, one  *)
(* inside another; errors unwind them to the enclosing exception block or  *)
(* abort the transaction.  The hooks keep a stack of planned statements, a *)
(* list of wrapper frames and the tuple target of the scan that is         *)
(* executing; a scan reads them when it collects its candidates, and fuses *)
(* through an array that outlives it.                                      *)
(*                                                                         *)
(* A plan is the path from its root to its one turbohybrid index scan, a   *)
(* sequence of nodes [kind, count, const, offset, qual].                   *)
(***************************************************************************)
EXTENDS HybridFusion

CONSTANTS Queries,       \* the queries the session runs
          Plan,          \* [Queries -> plan]
          Args,          \* [Queries -> the turbohybrid_query argument]
          Index,         \* [Queries -> [lexical, multivector]]: the keys of the index scanned
          Ranking,       \* [Queries -> [dense, multi, bm25 -> sequence of [node, tid, score]]]
          FirstNodes, MaxNodes,  \* nodes at the start, and at most
          MaxDepth,      \* bound on queries open at once
          MaxSubs,       \* bound on open subtransactions
          OpenPortals    \* whether portals outlive the statement that opened them

ASSUME AccessAssumption ==
    /\ {MaxNodes, MaxDepth, MaxSubs} \subseteq Nat /\ FirstNodes \in 0 .. MaxNodes
    /\ OpenPortals \in BOOLEAN

Branches == {"dense", "multi", "bm25"}

PlanNodes == [kind : STRING, count : Int, const : BOOLEAN, offset : Nat, qual : BOOLEAN]

\* The argument of a query, as its constructor leaves it: every budget is set.
Arguments ==
    [fusion : {"rrf", "weighted", "fast_weighted", "calibrated"},
     vector : BOOLEAN, multivector : BOOLEAN, text : BOOLEAN,
     denseK : Nat, multivectorK : Nat, bm25K : Nat,
     denseDefaulted : BOOLEAN, bm25Defaulted : BOOLEAN,
     finalK : Nat, finalSet : BOOLEAN, requireBm25 : BOOLEAN, rrfK : Nat,
     denseWeight : Nat, multivectorWeight : Nat, bm25Weight : Nat]

\* A branch returns a node once, one of a multivector index a document once; a
\* node has one heap TID; BM25 scores are not negative.
RankingAssumption(q) ==
    /\ \A b \in Branches :
          /\ Ranking[q][b] \in Seq([node : Nat, tid : Nat, score : Int])
          /\ \A i, j \in DOMAIN Ranking[q][b] :
                LET x == Ranking[q][b][i]  y == Ranking[q][b][j]
                IN  x.node = y.node \/ (Index[q].multivector /\ x.tid = y.tid) => i = j
    /\ \A b, c \in Branches : \A i \in DOMAIN Ranking[q][b], j \in DOMAIN Ranking[q][c] :
          Ranking[q][b][i].node = Ranking[q][c][j].node => Ranking[q][b][i].tid = Ranking[q][c][j].tid
    /\ \A i \in DOMAIN Ranking[q]["bm25"] : Ranking[q]["bm25"][i].score >= 0

ASSUME QueriesAssumption ==
    \A q \in Queries :
        /\ Plan[q] \in Seq(PlanNodes) /\ Args[q] \in Arguments
        /\ Index[q] \in [lexical : BOOLEAN, multivector : BOOLEAN]
        /\ RankingAssumption(q)

VARIABLES
    hooks,       \* [current, stack, frames, wrappers]
    active,      \* tqgraph_active_limit_tuple_target
    opened,      \* the open queries, oldest first
    run,         \* the nested ExecutorRun calls: [query, inScan, prev]
    subs,        \* the open subtransactions: [depth, opened]
    scan,        \* [Queries -> scan state]
    cache,       \* the fusion array of the backend
    nodeCount,   \* nodes in the graph's metapage
    controller,  \* whether the executor controller is enabled
    dropped      \* history: the queries whose planned statement an abort dropped

vars == <<hooks, active, opened, run, subs, scan, cache, nodeCount, controller, dropped>>

Open == ToSet(opened)
Running == {run[i].query : i \in DOMAIN run}
Top == run[Len(run)]

-----------------------------------------------------------------------------
(* The LIMIT a scan sees, in two ways.                                     *)

\* PgturbohybridFindLimitInPlan follows left and right trees only: the plans
\* below an Append or a SubqueryScan hang elsewhere.
FindLimitInPlan(p) ==
    LET seen == {i \in DOMAIN p : \A j \in 1 .. i - 1 : p[j].kind \notin {"Append", "Subquery"}}
        limits == {i \in seen : p[i].kind = "Limit" /\ p[i].const /\ p[i].count > 0}
    IN  IF limits = {} THEN 0 ELSE p[LowOf(limits)].count

CurrentLimit(h) == IF h.current = <<>> THEN 0 ELSE FindLimitInPlan(Plan[h.current[1]])

\* PgturbohybridGraphGetLimitTupleTarget.
LimitTupleTarget(node) == IF node.count < 0 THEN NoLimit ELSE node.count + node.offset

\* PgturbohybridGraphWrapControlledIndexScans: the tuple target below a node,
\* from the one above it; the LIMIT reaches the scan through nodes that neither
\* drop rows nor reorder them.
TargetBelow(node, above) ==
    CASE node.kind = "Limit"                  -> LimitTupleTarget(node)
      [] node.kind \in {"Append", "Gather"}   -> above
      [] node.kind \in {"Result", "Subquery"} -> IF node.qual THEN NoLimit ELSE above
      [] OTHER                                -> NoLimit

ControlledTarget(p) ==
    LET below[i \in 0 .. Len(p)] == IF i = 0 THEN NoLimit ELSE TargetBelow(p[i], below[i - 1])
    IN  below[Len(p)]

-----------------------------------------------------------------------------
(* The hooks' state.  A planned statement is <<query>>, NULL is <<>>.      *)

NoStatement == <<>>

PushPlannedStmt(h, q) == [h EXCEPT !.stack = <<h.current>> \o @, !.current = <<q>>]

PopPlannedStmt(h) ==
    IF h.stack = <<>> THEN [h EXCEPT !.current = NoStatement]
    ELSE [h EXCEPT !.current = Head(h.stack), !.stack = Tail(@)]

ClearPlannedStmtStack(h) == [h EXCEPT !.current = NoStatement, !.stack = <<>>]

\* PgturbohybridGraphExecutorStart: a frame that owns the wrapped scans.
GraphExecutorStart(h, q) ==
    IF controller THEN [h EXCEPT !.frames = Append(@, q), !.wrappers = @ \cup {q}] ELSE h

\* PgturbohybridGraphExecutorRestorePrevious takes the newest frame, whichever
\* query is ending; without a frame it unwraps everything.  Here n of them.
RestorePrevious(h, n) ==
    LET left == MaxOf(Len(h.frames) - n, 0)
    IN  [h EXCEPT !.frames = SubSeq(@, 1, left),
                  !.wrappers = IF n > Len(h.frames) THEN {}
                               ELSE @ \ ToSet(SubSeq(h.frames, left + 1, Len(h.frames)))]

-----------------------------------------------------------------------------
FreshScan == [started |-> FALSE, done |-> FALSE, results |-> <<>>, index |-> 0,
              merged |-> 0, expected |-> <<>>]

Init == /\ hooks = [current |-> NoStatement, stack |-> <<>>, frames |-> <<>>, wrappers |-> {}]
        /\ active = NoLimit
        /\ opened = <<>> /\ run = <<>> /\ subs = <<>>
        /\ scan = [q \in Queries |-> FreshScan]
        /\ cache = [entries |-> <<>>, capacity |-> 0, generation |-> 0]
        /\ nodeCount = FirstNodes
        /\ controller \in BOOLEAN
        /\ dropped = {}

\* Another backend appends a node to the graph.
InsertNode == /\ nodeCount < MaxNodes /\ nodeCount' = nodeCount + 1
              /\ UNCHANGED <<hooks, active, opened, run, subs, scan, cache, controller, dropped>>

(***************************************************************************)
(* An error unwinds the ExecutorRun calls above depth d: each one puts     *)
(* back the tuple target of its scan, drops the newest frame and clears    *)
(* the statements; the abort callback clears them again.  Queries opened   *)
(* since are dropped without ExecutorEnd.                                  *)
(***************************************************************************)
RunsAbortKeepFrames(h, n) == ClearPlannedStmtStack(h)

RunsAbort(h, n) == ClearPlannedStmtStack(RestorePrevious(h, n))

Unwind(h, r) ==
    LET d == IF subs = <<>> THEN 0 ELSE Last(subs).depth
        kept == IF subs = <<>> THEN <<>> ELSE Last(subs).opened
        left == SubSeq(r, d + 1, Len(r))
        scans == {i \in DOMAIN left : left[i].inScan}
    IN  /\ hooks' = RunsAbort(h, Len(left))
        /\ active' = IF scans = {} THEN active ELSE left[LowOf(scans)].prev
        /\ run' = SubSeq(r, 1, d)
        /\ opened' = kept
        /\ subs' = IF subs = <<>> THEN <<>> ELSE Front(subs)
        /\ scan' = [q \in Queries |-> IF q \in ToSet(kept) THEN scan[q] ELSE FreshScan]
        /\ dropped' = ToSet(kept)
        /\ UNCHANGED <<cache, nodeCount, controller>>

\* PgturbohybridExecutorStartHook.  A query starts at the top level or inside
\* a function that the innermost running query calls.
CanStart(q) ==
    /\ q \notin Open /\ Len(opened) < MaxDepth
    /\ ~OpenPortals => ToSet(opened) = Running

StartQuery(q) ==
    /\ CanStart(q)
    /\ hooks' = GraphExecutorStart(PushPlannedStmt(hooks, q), q)
    /\ opened' = Append(opened, q)
    /\ scan' = [scan EXCEPT ![q] = FreshScan]
    /\ dropped' = dropped \ {q}
    /\ UNCHANGED <<active, run, subs, cache, nodeCount, controller>>

\* Its PG_CATCH: standard_ExecutorStart raised an error.
StartFails(q) == CanStart(q) /\ run # <<>> /\ Unwind(PopPlannedStmt(PushPlannedStmt(hooks, q)), run)

\* PgturbohybridExecutorRunHook enters.  A portal that stays open can be run
\* after others were opened.
RunQuery(q) ==
    /\ q \in Open \ Running
    /\ ~OpenPortals => q = Last(opened)
    /\ run' = Append(run, [query |-> q, inScan |-> FALSE, prev |-> NoLimit])
    /\ UNCHANGED <<hooks, active, opened, subs, scan, cache, nodeCount, controller, dropped>>

Idle == run # <<>> /\ (~OpenPortals => Last(opened) = Top.query)

\* PgturbohybridGraphExecIndexScanWithController enters the scan node, or finds
\* no wrapper and raises an internal error.
EnterScan ==
    /\ Idle /\ ~Top.inScan
    /\ LET q == Top.query
       IN  IF controller /\ q \notin hooks.wrappers THEN Unwind(hooks, run)
           ELSE /\ run' = [run EXCEPT ![Len(run)] = [@ EXCEPT !.inScan = TRUE, !.prev = active]]
                /\ active' = IF controller THEN ControlledTarget(Plan[q]) ELSE active
                /\ scan' = [scan EXCEPT ![q].started = TRUE]
                /\ UNCHANGED <<hooks, opened, subs, cache, nodeCount, controller, dropped>>

\* pgturbohybridamrescan and PgturbohybridQueryValidateMultiVectorFusionSupport.
ArgumentRejected(q) ==
    LET a == Args[q]  index == Index[q]
    IN  \/ index.multivector /\ a.vector
        \/ ~index.multivector /\ a.multivector
        \/ a.text /\ ~index.lexical
        \/ a.vector /\ a.multivector /\ a.fusion # "rrf"

RejectScan == /\ Idle /\ Top.inScan /\ ArgumentRejected(Top.query) /\ Unwind(hooks, run)

\* The k nearest a branch returns of the nodes the index holds.
Branch(q, b, k) ==
    LET ranking == Ranking[q][b]
        here == Pick(ranking, {i \in DOMAIN ranking : ranking[i].node < nodeCount})
        first == SubSeq(here, 1, MinOf(k, Len(here)))
    IN  [i \in DOMAIN first |-> [branch |-> b, rank |-> i, node |-> first[i].node,
                                 tid |-> first[i].tid, score |-> first[i].score]]

Candidates(q, query) ==
    (IF query.vector /\ ~Index[q].multivector THEN Branch(q, "dense", query.denseK) ELSE <<>>)
      \o (IF query.multivector THEN Branch(q, "multi", query.multivectorK) ELSE <<>>)
      \o (IF query.text /\ Index[q].lexical THEN Branch(q, "bm25", query.bm25K) ELSE <<>>)

\* The ranking the query gets when it runs alone in a new session.
Solo(q) ==
    LET limit == FindLimitInPlan(Plan[q])
        query == EffectiveQuery(Args[q], limit)
    IN  ReferenceFusion(query, Candidates(q, query), query.multivector, limit,
                        IF controller THEN ControlledTarget(Plan[q]) ELSE NoLimit)

\* PgturbohybridCollectScanResults, at the first tuple of a scan.
CollectScanResults ==
    /\ Idle /\ Top.inScan
    /\ LET q == Top.query
           limit == CurrentLimit(hooks)
           query == EffectiveQuery(Args[q], limit)
           cands == Candidates(q, query)
           fused == Fuse(query, cache, cands, query.multivector, nodeCount)
           results == FinalizeFusedResults(query, fused.items, limit, active)
       IN  /\ ~scan[q].done /\ ~ArgumentRejected(q)
           /\ cache' = fused.cache
           /\ scan' = [scan EXCEPT ![q] = [@ EXCEPT !.done = TRUE, !.results = results, !.index = 0,
                                                    !.merged = Len(fused.items),
                                                    !.expected = Solo(q)]]
    /\ UNCHANGED <<hooks, active, opened, run, subs, nodeCount, controller, dropped>>

\* pgturbohybridamgettuple hands out the next result, if any, and the scan node
\* returns: its tuple target is put back.
LeaveScan ==
    /\ Idle /\ Top.inScan /\ scan[Top.query].done
    /\ scan' = [scan EXCEPT ![Top.query].index = MinOf(@ + 1, Len(scan[Top.query].results))]
    /\ active' = Top.prev
    /\ run' = [run EXCEPT ![Len(run)] = [@ EXCEPT !.inScan = FALSE, !.prev = NoLimit]]
    /\ UNCHANGED <<hooks, opened, subs, cache, nodeCount, controller, dropped>>

\* pgturbohybridamrescan again: the scan starts over with a new state.
Rescan ==
    /\ Idle /\ ~Top.inScan /\ scan[Top.query].done /\ scan[Top.query].index > 0
    /\ scan' = [scan EXCEPT ![Top.query] = [FreshScan EXCEPT !.started = TRUE]]
    /\ UNCHANGED <<hooks, active, opened, run, subs, cache, nodeCount, controller, dropped>>

\* ExecutorRun returns.
LeaveRun ==
    /\ Idle /\ ~Top.inScan /\ scan[Top.query].started
    /\ subs # <<>> => Last(subs).depth < Len(run)
    /\ run' = Front(run)
    /\ UNCHANGED <<hooks, active, opened, subs, scan, cache, nodeCount, controller, dropped>>

\* PgturbohybridExecutorEndHook.
EndQuery(q) ==
    /\ q \in Open \ Running
    /\ ~OpenPortals => q = Last(opened) /\ scan[q].started
    /\ subs # <<>> => q \notin ToSet(Last(subs).opened)
    /\ hooks' = PopPlannedStmt(RestorePrevious(hooks, 1))
    /\ \E i \in DOMAIN opened : opened[i] = q /\ opened' = RemoveAt(opened, i)
    /\ scan' = [scan EXCEPT ![q] = FreshScan]
    /\ dropped' = dropped \ {q}
    /\ UNCHANGED <<active, run, subs, cache, nodeCount, controller>>

\* An error inside the innermost ExecutorRun or, where portals stay open,
\* anywhere in the statement that runs between them.
Raise == /\ IF OpenPortals THEN opened # <<>> ELSE run # <<>> /\ Open = Running
         /\ Unwind(hooks, run)

\* A function enters and leaves a block with an exception handler.
BeginSub == /\ run # <<>> /\ Idle /\ Len(subs) < MaxSubs
            /\ subs' = Append(subs, [depth |-> Len(run), opened |-> opened])
            /\ UNCHANGED <<hooks, active, opened, run, scan, cache, nodeCount, controller, dropped>>

EndSub == /\ subs # <<>> /\ Last(subs).depth = Len(run) /\ Last(subs).opened = opened
          /\ subs' = Front(subs)
          /\ UNCHANGED <<hooks, active, opened, run, scan, cache, nodeCount, controller, dropped>>

Next == \/ \E q \in Queries : StartQuery(q) \/ StartFails(q) \/ RunQuery(q) \/ EndQuery(q)
        \/ EnterScan \/ RejectScan \/ CollectScanResults \/ LeaveScan \/ Rescan \/ LeaveRun
        \/ Raise \/ BeginSub \/ EndSub \/ InsertNode

Spec == Init /\ [][Next]_vars

-----------------------------------------------------------------------------
Ranked(results) == [i \in DOMAIN results |-> <<results[i].item.tid, results[i].score>>]

\* A scan returns what its query would return alone in a new session, whatever
\* ran before it or around it: the stamps of the shared fusion array never mix
\* two scans, also after the generation counter starts over; all three merges
\* agree with the definition of fusion; and the LIMIT is the one of the scan's
\* own statement and not of a query nested in it or of the one it is nested in.
\* A query whose statement an abort dropped is exempt: it sees no LIMIT.
ScanIsolated ==
    \A q \in Open \ dropped :
        scan[q].done => Ranked(scan[q].results) = Ranked(scan[q].expected)

\* A scan directly under a LIMIT is never cut at final_k, not even after an
\* abort dropped the planned statements: the executor may skip results whose
\* rows are gone and needs those behind them.
LimitedScanNotCapped ==
    \A q \in Open : (controller /\ scan[q].done /\ ControlledTarget(Plan[q]) > 0) =>
        Len(scan[q].results) = IF MaxUnion > 0 THEN MinOf(scan[q].merged, MaxUnion) ELSE scan[q].merged

\* Planned statements and wrapper frames belong to open queries: whatever way a
\* query leaves, normally, by a failed start or by an abort, its statement and
\* its frame go with it.
HooksOwnOpenQueries ==
    /\ ToSet(hooks.current) \subseteq Open
    /\ \A i \in DOMAIN hooks.stack : ToSet(hooks.stack[i]) \subseteq Open
    /\ hooks.frames = IF controller THEN opened ELSE <<>>
    /\ hooks.wrappers = ToSet(hooks.frames)

\* The tuple target a scan collects under is the LIMIT of its own plan, also
\* when the query runs inside the scan of another, and is back at the outer
\* scan's after it returns or fails (GraphExecIndexScanWithController).
ScanTargetOwn ==
    run # <<>> /\ Top.inScan =>
        active = IF controller THEN ControlledTarget(Plan[Top.query]) ELSE NoLimit

\* While no portal outlives its statement, the statement current at a scan is
\* that of its own query, unless an abort dropped it
\* (PgturbohybridPushPlannedStmt, PgturbohybridPopPlannedStmt).
ScanStatementOwn ==
    ~OpenPortals /\ run # <<>> /\ Idle /\ Top.query \notin dropped =>
        hooks.current = <<Top.query>>

-----------------------------------------------------------------------------
(* The inductive invariant of the safety proofs.                            *)

Statements == {NoStatement} \cup {<<q>> : q \in Queries}
Targets == {NoLimit} \cup {ControlledTarget(Plan[q]) : q \in Queries}
Calls == [query : Queries, inScan : BOOLEAN, prev : Targets]
Blocks == [depth : Nat, opened : Seq(Queries)]

TypeOK ==
    /\ DOMAIN hooks = {"current", "stack", "frames", "wrappers"}
    /\ hooks.current \in Statements /\ hooks.stack \in Seq(Statements)
    /\ hooks.frames \in Seq(Queries) /\ hooks.wrappers \subseteq Queries
    /\ opened \in Seq(Queries) /\ run \in Seq(Calls) /\ active \in Targets
    /\ subs \in Seq(Blocks)
    /\ nodeCount \in FirstNodes .. MaxNodes /\ controller \in BOOLEAN /\ dropped \subseteq Queries

\* An exception block stays in the ExecutorRun call it was entered in.
BlocksInv ==
    \A i \in DOMAIN subs :
        /\ subs[i].depth <= Len(run)
        /\ \A j \in 1 .. i : subs[j].depth <= subs[i].depth

\* The tuple target t belongs to the innermost scan among the first k calls
\* of r.
IsTarget(r, t, k) ==
    \/ t = NoLimit /\ (controller => \A i \in 1 .. k : ~r[i].inScan)
    \/ /\ controller
       /\ \E i \in 1 .. k : /\ r[i].inScan /\ t = ControlledTarget(Plan[r[i].query])
                            /\ \A j \in i + 1 .. k : ~r[j].inScan
TargetInv ==
    /\ IsTarget(run, active, Len(run))
    /\ \A i \in DOMAIN run : run[i].inScan => IsTarget(run, run[i].prev, i - 1)

\* Without open portals the running queries are the oldest open ones, and at
\* most one more is open.
NestingInv ==
    /\ \A i, j \in DOMAIN opened : opened[i] = opened[j] => i = j
    /\ Len(run) <= Len(opened) /\ Len(opened) <= Len(run) + 1
    /\ \A i \in DOMAIN run : run[i].query = opened[i]
    /\ \A i \in DOMAIN subs : subs[i].opened = SubSeq(opened, 1, subs[i].depth)

FramesInv ==
    /\ hooks.frames = IF controller THEN opened ELSE <<>>
    /\ hooks.wrappers = ToSet(hooks.frames)

\* The i-th newest statement, NULL beyond the stack.
Statement(h, i) ==
    IF i = 1 THEN h.current ELSE IF i - 1 \in DOMAIN h.stack THEN h.stack[i - 1] ELSE NoStatement

\* The statements are those of the open queries, newest first, but for the
\* ones an abort dropped.
StatementsInv ==
    \A i \in Nat \ {0} :
        Statement(hooks, i) =
            IF i <= Len(opened) /\ opened[Len(opened) + 1 - i] \notin dropped
            THEN <<opened[Len(opened) + 1 - i]>> ELSE NoStatement

Inv ==
    /\ TypeOK /\ BlocksInv /\ TargetInv
    /\ ~OpenPortals => NestingInv /\ FramesInv /\ StatementsInv

\* The fusion array can serve the next scan, and what each scan collected is what
\* its query asks for.
ScansInv ==
    /\ UsableArray(cache)
    /\ DOMAIN scan = Queries
    /\ \A q \in Queries :
          /\ DOMAIN scan[q] = DOMAIN FreshScan
          /\ scan[q].done /\ controller /\ ControlledTarget(Plan[q]) > 0 =>
                Len(scan[q].results)
                  = IF MaxUnion > 0 THEN MinOf(scan[q].merged, MaxUnion) ELSE scan[q].merged
          /\ scan[q].done /\ ~OpenPortals /\ q \notin dropped =>
                Ranked(scan[q].results) = Ranked(scan[q].expected)
=============================================================================

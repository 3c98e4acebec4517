---------------------------- MODULE SharedCache -----------------------------
(***************************************************************************)
(* The native cache files that all backends share: one file per state of   *)
(* the metapage, built under an fcntl lock, published by rename, mapped by *)
(* scans and by VACUUM, and still there after the server has crashed.      *)
(*                                                                         *)
(* The graph is what GraphIndex shows it to be: an append-only sequence of *)
(* nodes whose dead flags VACUUM sets, and a generation that moves with    *)
(* every insert and at the end of every VACUUM that changed something.     *)
(* Here an insert is one step.  Neighbour lists are not part of the view.  *)
(***************************************************************************)
EXTENDS Integers, Sequences

CONSTANTS
    Procs,       \* backends; each scans, inserts or runs VACUUM
    NoProc,      \* nobody holds the lock file
    MaxRows,     \* bound: rows ever inserted
    MaxGen       \* bound: no VACUUM starts at this generation

ASSUME NoProcAssumption == NoProc \notin Procs
ASSUME BoundsAssumption == MaxRows \in Nat /\ MaxGen \in Nat

VARIABLES
    index,     \* index and heap pages in shared buffers
    durable,   \* the same as WAL recovery would restore them
    nextRow,   \* identity of the next heap row
    gone,      \* rows that no snapshot sees any more
    files,     \* published .tqcache files
    tmp,       \* backends whose temporary file exists
    lock,      \* holder of the fcntl lock
    map,       \* pgturbohybridGraphSharedMapList of each backend
    proc       \* what each backend is doing

vars == <<index, durable, nextRow, gone, files, tmp, lock, map, proc>>

Rows == 1..MaxRows
Node == [row : Rows, dead : BOOLEAN]

\* SharedCacheKey: the fields that change after the build.
Key(g, n) == <<g, n>>
NoKey == Key(0, 0)

\* A file, a mapping, or a view being built: its key and the nodes in it.
NoFile == [key |-> NoKey, nodes |-> <<>>]
Idle == [pc |-> "idle", job |-> "none", key |-> NoKey, buf |-> <<>>, view |-> <<>>,
         seen |-> {}, changed |-> FALSE]

\* Steps of GetSharedMap, from its call to its return with a view.
Attaching == {"find", "map", "trylock", "wait", "relock", "recheck", "load",
              "create", "sync", "rename", "clean", "mapown", "fallback"}
Building == {"recheck", "load", "create", "sync", "rename", "clean"}

Scanning(p) == proc[p].job = "scan"
Vacuuming(p) == proc[p].job = "vacuum" /\ proc[p].pc \notin {"idle", "vlock"}

Init ==
    /\ index = [nodes |-> <<>>, gen |-> 1, dirty |-> FALSE, reaped |-> {}]
    /\ durable = index
    /\ nextRow = 1
    /\ gone = {}
    /\ files = {}
    /\ tmp = {}
    /\ lock = NoProc
    /\ map = [p \in Procs |-> NoFile]
    /\ proc = [p \in Procs |-> Idle]

(***************************************************************************)
(* The graph.  index.reaped are the rows whose line pointers the heap has  *)
(* reclaimed.  index.dirty says that the pages hold dead marks for which   *)
(* no new generation has been written yet; the code has no such field.     *)
(***************************************************************************)

\* LoadCodePage for every page of n nodes.
Pages(n) == SubSeq(index.nodes, 1, n)

\* aminsert: the tuples and the metapage with the next generation, in WAL
\* buffers only.  With a text column the backend then drops its own mapping.
Insert(p) ==
    /\ proc[p].pc = "idle" /\ nextRow \in Rows
    /\ index' = [index EXCEPT !.nodes = Append(@, [row |-> nextRow, dead |-> FALSE]),
                              !.gen = @ + 1, !.dirty = FALSE]
    /\ nextRow' = nextRow + 1
    /\ \E m \in {map[p], NoFile} : map' = [map EXCEPT ![p] = m]
    /\ UNCHANGED <<durable, gone, files, tmp, lock, proc>>

\* WAL is written and flushed (external): by the WAL writer at any time.
Flush ==
    /\ durable' = index
    /\ UNCHANGED <<index, nextRow, gone, files, tmp, lock, map, proc>>

\* A row is deleted and dead to every snapshot (external).  The commit of
\* the DELETE has flushed WAL.
Delete(r) ==
    /\ \E i \in DOMAIN index.nodes : index.nodes[i].row = r
    /\ gone' = gone \cup {r}
    /\ durable' = index
    /\ UNCHANGED <<index, nextRow, files, tmp, lock, map, proc>>

(***************************************************************************)
(* Scans and VACUUM around GetSharedMap.                                   *)
(***************************************************************************)

Start(p, job, pc, seen) ==
    proc' = [proc EXCEPT ![p] = [Idle EXCEPT !.pc = pc, !.job = job, !.seen = seen,
                                             !.key = Key(index.gen, Len(index.nodes))]]

\* gettuple: LockPage(SCAN_LOCK, ShareLock), ReadMeta, InitScanStorage.
ScanBegin(p) ==
    /\ proc[p].pc = "idle" /\ index.nodes # <<>>
    /\ \A q \in Procs : ~Vacuuming(q)
    /\ Start(p, "scan", "find", {})
    /\ UNCHANGED <<index, durable, nextRow, gone, files, tmp, lock, map>>

\* The results are collected, SCAN_LOCK is released.
ScanEnd(p) ==
    /\ proc[p].pc = "use" /\ Scanning(p)
    /\ proc' = [proc EXCEPT ![p] = Idle]
    /\ UNCHANGED <<index, durable, nextRow, gone, files, tmp, lock, map>>

\* After the heap pass that collects line pointers (external) bulkdelete
\* reads the metapage, ...
VacuumBegin(p) ==
    /\ proc[p].pc = "idle" /\ index.nodes # <<>> /\ index.gen < MaxGen
    /\ \A q \in Procs : proc[q].job # "vacuum"
    /\ Start(p, "vacuum", "vlock", gone)
    /\ UNCHANGED <<index, durable, nextRow, gone, files, tmp, lock, map>>

\* ... waits for SCAN_LOCK ...
VacuumLock(p) ==
    /\ proc[p].pc = "vlock"
    /\ \A q \in Procs : ~Scanning(q)
    /\ proc' = [proc EXCEPT ![p].pc = "vmark"]
    /\ UNCHANGED <<index, durable, nextRow, gone, files, tmp, lock, map>>

\* Mutated: the callback is asked about the neighbouring line pointer.
MarksNextTuple(p) ==
    {i \in 1..proc[p].key[2] : ~index.nodes[i].dead /\ index.nodes[i].row - 1 \in proc[p].seen}

\* The nodes whose line pointers were collected.
Marks(p) ==
    {i \in 1..proc[p].key[2] : ~index.nodes[i].dead /\ index.nodes[i].row \in proc[p].seen}

MarkedDead(nodes, set) ==
    [i \in DOMAIN nodes |-> [row |-> nodes[i].row, dead |-> nodes[i].dead \/ i \in set]]

\* ... and marks them.  With dead nodes, new or old, the repair then opens
\* scan storage like a scan.
VacuumMark(p) ==
    /\ proc[p].pc = "vmark"
    /\ index' = [index EXCEPT !.nodes = MarkedDead(@, Marks(p)), !.dirty = @ \/ Marks(p) # {}]
    /\ proc' = [proc EXCEPT
                  ![p].pc = IF Marks(p) # {} \/ \E i \in 1..proc[p].key[2] : index.nodes[i].dead
                            THEN "find" ELSE "use",
                  ![p].changed = Marks(p) # {}]
    /\ UNCHANGED <<durable, nextRow, gone, files, tmp, lock, map>>

\* BumpMetaGeneration if told so; then the heap reclaims the line pointers.
Finish(p, bump) ==
    /\ proc[p].pc = "use" /\ proc[p].job = "vacuum"
    /\ index' = [index EXCEPT !.gen = IF bump THEN @ + 1 ELSE @,
                              !.dirty = IF bump THEN FALSE ELSE @,
                              !.reaped = @ \cup proc[p].seen]
    /\ proc' = [proc EXCEPT ![p] = Idle]
    /\ UNCHANGED <<durable, nextRow, gone, files, tmp, lock, map>>

\* Mutated: the marks alone do not count as a change.
VacuumFinishMarksForgotten(p) == Finish(p, FALSE)

\* The repair may have changed edges or entries when there are dead nodes.
VacuumFinish(p) ==
    \E repaired \in {FALSE, \E i \in DOMAIN index.nodes : index.nodes[i].dead} :
        Finish(p, proc[p].changed \/ repaired)

(***************************************************************************)
(* PgturbohybridGraphGetSharedMap.                                         *)
(***************************************************************************)

GotoPc(p, pc) == proc' = [proc EXCEPT ![p].pc = pc]

\* Mutated: the header's node count is compared, its generation is not.
HasKeyNoGeneration(f, p) == f.key[2] = proc[p].key[2] /\ f # NoFile

\* SharedHeaderMatches and CacheIdentityEqual.
HasKey(f, p) == f.key = proc[p].key
Published(p) == \E f \in files : HasKey(f, p)

\* FindSharedMap: a mapping of this metapage is used, any other is detached.
Find(p) ==
    /\ proc[p].pc = "find"
    /\ \/ /\ HasKey(map[p], p)
          /\ proc' = [proc EXCEPT ![p].pc = "use", ![p].view = map[p].nodes]
          /\ map' = map
       \/ /\ ~HasKey(map[p], p)
          /\ GotoPc(p, "map")
          /\ map' = [map EXCEPT ![p] = NoFile]
    /\ UNCHANGED <<index, durable, nextRow, gone, files, tmp, lock>>

\* MapSharedCacheFile: the file is mapped and becomes the view.
Attach(p) ==
    \E f \in files :
        /\ HasKey(f, p)
        /\ map' = [map EXCEPT ![p] = f]
        /\ proc' = [proc EXCEPT ![p].pc = "use", ![p].view = f.nodes]

\* Or there is no file for this metapage.
NotPublished(p, pc) == ~Published(p) /\ GotoPc(p, pc) /\ map' = map

\* The directory or the lock file cannot be opened.
OpenFail(p) ==
    /\ proc[p].pc \in {"map", "trylock"}
    /\ GotoPc(p, "fallback")
    /\ UNCHANGED <<index, durable, nextRow, gone, files, tmp, lock, map>>

\* RunGc: temporary files untouched for ten minutes are unlinked.
RunGc == \E stale \in SUBSET tmp : tmp' = tmp \ stale

\* The first look.
MapFile(p) ==
    /\ proc[p].pc = "map"
    /\ Attach(p) \/ NotPublished(p, "trylock")
    /\ RunGc
    /\ UNCHANGED <<index, durable, nextRow, gone, files, lock>>

\* Mutated: the lock is taken whoever holds it.
LockFreeAlways == TRUE

\* fcntl(F_SETLK) succeeds.
LockFree == lock = NoProc

TryLock(p) ==
    /\ proc[p].pc = "trylock"
    /\ \/ LockFree /\ lock' = p /\ GotoPc(p, "recheck")
       \/ ~LockFree /\ lock' = lock /\ GotoPc(p, "wait")
    /\ UNCHANGED <<index, durable, nextRow, gone, files, tmp, map>>

\* The last turn of the polling loop: the file is there, or ...
Wait(p) ==
    /\ proc[p].pc = "wait"
    /\ Attach(p) \/ NotPublished(p, "relock")
    /\ UNCHANGED <<index, durable, nextRow, gone, files, tmp, lock>>

\* ... the lock is, or the time is up.  The owner may have published since.
Relock(p) ==
    /\ proc[p].pc = "relock"
    /\ \/ LockFree /\ lock' = p /\ GotoPc(p, "recheck")
       \/ ~LockFree /\ lock' = lock /\ GotoPc(p, "fallback")
    /\ UNCHANGED <<index, durable, nextRow, gone, files, tmp, map>>

\* RemoveOldGenerations: every other file of the relation, newer ones too,
\* and every temporary file.
RemoveOldGenerations(p) ==
    /\ files' = {f \in files : f.key = proc[p].key}
    /\ tmp' = {}

\* Mutated: the previous owner's file is not looked for.
RecheckNothing(p) ==
    /\ proc[p].pc = "recheck"
    /\ GotoPc(p, "load")
    /\ UNCHANGED <<index, durable, nextRow, gone, files, tmp, lock, map>>

\* The previous owner may have published between our last map and lock.
Recheck(p) ==
    /\ proc[p].pc = "recheck"
    /\ \/ Attach(p) /\ RemoveOldGenerations(p) /\ lock' = NoProc
       \/ NotPublished(p, "load") /\ UNCHANGED <<files, tmp, lock>>
    /\ UNCHANGED <<index, durable, nextRow, gone>>

\* WriteSharedCacheFile: the pages are read into local memory, ...
Load(p) ==
    /\ proc[p].pc = "load"
    /\ proc' = [proc EXCEPT ![p].pc = "create", ![p].buf = Pages(proc[p].key[2])]
    /\ UNCHANGED <<index, durable, nextRow, gone, files, tmp, lock, map>>

\* ... the temporary file is created under a name nobody else uses, ...
Create(p) ==
    /\ proc[p].pc = "create"
    /\ tmp' = tmp \cup {p}
    /\ GotoPc(p, "sync")
    /\ UNCHANGED <<index, durable, nextRow, gone, files, lock, map>>

\* ... filled through a mapping, validated and synced, ...
Sync(p) ==
    /\ proc[p].pc = "sync"
    /\ GotoPc(p, "rename")
    /\ UNCHANGED <<index, durable, nextRow, gone, files, tmp, lock, map>>

\* ... and renamed, replacing a file of that name, if it still exists.
Rename(p) ==
    /\ proc[p].pc = "rename" /\ p \in tmp
    /\ files' = {f \in files : f.key # proc[p].key}
                  \cup {[key |-> proc[p].key, nodes |-> proc[p].buf]}
    /\ tmp' = tmp \ {p}
    /\ GotoPc(p, "clean")
    /\ UNCHANGED <<index, durable, nextRow, gone, lock, map>>

\* Any failure on the way: the temporary file is unlinked (after the rename,
\* the file), the lock released, and the scan goes on without shared file.
WriteFail(p) ==
    /\ proc[p].pc \in {"load", "create", "sync", "rename", "clean"}
    /\ files' = IF proc[p].pc = "clean" THEN {f \in files : f.key # proc[p].key} ELSE files
    /\ tmp' = tmp \ {p}
    /\ lock' = NoProc
    /\ GotoPc(p, "fallback")
    /\ UNCHANGED <<index, durable, nextRow, gone, map>>

\* The builder removes the other files and unlocks, ...
Clean(p) ==
    /\ proc[p].pc = "clean"
    /\ RemoveOldGenerations(p)
    /\ lock' = NoProc
    /\ GotoPc(p, "mapown")
    /\ UNCHANGED <<index, durable, nextRow, gone, map>>

\* ... and maps its own file, which the next builder may have removed.
MapOwn(p) ==
    /\ proc[p].pc = "mapown"
    /\ Attach(p) \/ NotPublished(p, "fallback")
    /\ UNCHANGED <<index, durable, nextRow, gone, files, tmp, lock>>

\* Mutated: after a failure the whole attempt is repeated.
FallbackRetry(p) ==
    /\ proc[p].pc = "fallback"
    /\ GotoPc(p, "trylock")
    /\ UNCHANGED <<index, durable, nextRow, gone, files, tmp, lock, map>>

\* No shared map: the per-backend cache or no cache at all.
Fallback(p) ==
    /\ proc[p].pc = "fallback"
    /\ proc' = [proc EXCEPT ![p].pc = "use", ![p].view = Pages(proc[p].key[2])]
    /\ UNCHANGED <<index, durable, nextRow, gone, files, tmp, lock, map>>

\* ereport(ERROR) in a scan, a cancel in the polling loop included: PG_CATCH
\* and the closing of the lock file release the lock.
ScanAbort(p) ==
    /\ Scanning(p)
    /\ tmp' = tmp \ {p}
    /\ lock' = IF lock = p THEN NoProc ELSE lock
    /\ proc' = [proc EXCEPT ![p] = Idle]
    /\ UNCHANGED <<index, durable, nextRow, gone, files, map>>

(***************************************************************************)
(* Server crash: what was flushed comes back, published files are as they  *)
(* were, locks and mappings are gone.  Temporary files left behind have    *)
(* names no later attempt uses; nothing reads them.                        *)
(***************************************************************************)

Restart ==
    /\ index' = durable
    /\ tmp' = {}
    /\ lock' = NoProc
    /\ map' = [p \in Procs |-> NoFile]
    /\ proc' = [p \in Procs |-> Idle]
    /\ UNCHANGED <<durable, nextRow, gone, files>>

\* No published file is ahead of the WAL.
FilesFlushed == \A f \in files : f.key[1] <= durable.gen

Crash == ~durable.dirty /\ FilesFlushed /\ Restart

\* VACUUM's marks were flushed, its new generation was not.
CrashInVacuum == durable.dirty /\ FilesFlushed /\ Restart

\* A file was published for a metapage that was not flushed.
CrashAhead == ~durable.dirty /\ ~FilesFlushed /\ Restart

AttachStep(p) ==
    \/ Find(p) \/ OpenFail(p) \/ MapFile(p) \/ TryLock(p) \/ Wait(p) \/ Relock(p)
    \/ Recheck(p) \/ Load(p)
    \/ Create(p) \/ Sync(p) \/ Rename(p) \/ WriteFail(p) \/ Clean(p) \/ MapOwn(p)
    \/ Fallback(p)

Next ==
    \/ \E p \in Procs :
         \/ Insert(p) \/ ScanBegin(p) \/ ScanEnd(p) \/ ScanAbort(p)
         \/ VacuumBegin(p) \/ VacuumLock(p) \/ VacuumMark(p) \/ VacuumFinish(p)
         \/ AttachStep(p)
    \/ \E r \in Rows : Delete(r)
    \/ Flush
    \/ Crash

Spec == Init /\ [][Next]_vars
SpecCrashInVacuum == Init /\ [][Next \/ CrashInVacuum]_vars
SpecCrashAhead == Init /\ [][Next \/ CrashAhead]_vars

\* A backend inside GetSharedMap keeps running; the polling loop is bounded
\* by SHARED_CACHE_WAIT_US.
FairSpec == Spec /\ \A p \in Procs : WF_vars(AttachStep(p))

(***************************************************************************)
(* Properties.                                                             *)
(***************************************************************************)

Image == [nodes : Seq(Node), gen : Nat, dirty : BOOLEAN, reaped : SUBSET Rows]
FileType == [key : Nat \X Nat, nodes : Seq(Node)]
ProcType == [pc : Attaching \cup {"idle", "use", "vlock", "vmark"},
             job : {"none", "scan", "vacuum"}, key : Nat \X Nat, buf : Seq(Node),
             view : Seq(Node), seen : SUBSET Rows, changed : BOOLEAN]

\* The type invariant: shapes of the pages, the files and the local state.
TypeOK ==
    /\ index \in Image /\ durable \in Image
    /\ nextRow \in 1..(MaxRows + 1)
    /\ gone \subseteq Rows
    /\ files \subseteq FileType
    /\ tmp \subseteq Procs
    /\ lock \in Procs \cup {NoProc}
    /\ map \in [Procs -> FileType]
    /\ proc \in [Procs -> ProcType]

\* The nodes of a view are the nodes of the pages, and none that the pages
\* mark dead is offered as live: its line pointer may hold another row.
NothingStale(view) ==
    \A i \in DOMAIN view :
        /\ i \in DOMAIN index.nodes /\ view[i].row = index.nodes[i].row
        /\ index.nodes[i].dead => view[i].dead

\* Whatever way a scan came to its view (mapping of an earlier scan, file of
\* another backend or of an earlier life of the server, own build), it shows
\* the pages of the metapage the scan read.
ScanViewSound ==
    \A p \in Procs : Scanning(p) /\ proc[p].pc = "use" =>
        Len(proc[p].view) = proc[p].key[2] /\ NothingStale(proc[p].view)

\* No scan offers a line pointer that the heap has reclaimed.
NothingReaped ==
    \A p \in Procs : Scanning(p) /\ proc[p].pc = "use" => \A i \in DOMAIN proc[p].view :
        proc[p].view[i].row \in index.reaped => proc[p].view[i].dead

\* A view hides a row only if the row is gone, also when VACUUM published the
\* file and the server crashed before its marks reached the WAL.
ScanViewComplete ==
    \A p \in Procs : \A i \in DOMAIN proc[p].view :
        proc[p].view[i].dead => proc[p].view[i].row \in gone

\* A rename never replaces a published file: the lock, and the second look
\* under it, make every build of a metapage the only one.
FilesNeverReplaced ==
    [][\A p \in Procs : proc[p].pc = "rename" /\ proc'[p].pc = "clean" => ~Published(p)]_vars

\* RemoveOldGenerations unlinks every temporary file of the relation; under
\* the lock that is never the file of another backend's build.
BuildsKeepTheirFile ==
    [][\A p \in Procs : proc[p].pc \in {"recheck", "clean"} /\ proc'[p].pc \in {"use", "mapown"} =>
         tmp \ {p} \subseteq tmp']_vars

\* A backend that asked for a shared map gets a view, or its scan ends.
AttachEnds ==
    \A p \in Procs : proc[p].pc = "find" ~> proc[p].pc \in {"use", "idle"}

(***************************************************************************)
(* The inductive invariant behind ScanViewSound, ScanViewComplete and      *)
(* NothingReaped.                                                          *)
(***************************************************************************)

\* A file or view against pages img: the same rows, and a dead mark is missed
\* only by an older generation or while a new one is due.
Agrees(f, img) ==
    /\ Len(f.nodes) <= Len(img.nodes)
    /\ \A i \in 1..Len(f.nodes) :
         /\ f.nodes[i].row = img.nodes[i].row
         /\ img.nodes[i].dead /\ ~f.nodes[i].dead => f.key[1] < img.gen \/ img.dirty

\* It agrees with the pages, and with those a crash would bring back if their
\* generation is not older; and it hides only rows that are gone.
FileOk(f) ==
    /\ Len(f.nodes) = f.key[2]
    /\ f.key[1] <= index.gen
    /\ Agrees(f, index)
    /\ f.key[1] <= durable.gen => Agrees(f, durable)
    /\ \A i \in 1..Len(f.nodes) : f.nodes[i].dead => f.nodes[i].row \in gone

FilesInv == (\A f \in files : FileOk(f)) /\ \A p \in Procs : FileOk(map[p])

\* Pages, current or flushed: dead nodes belong to rows that are gone, and
\* a reclaimed row has no live node.
PagesOk(img) ==
    \A i \in 1..Len(img.nodes) :
        /\ img.nodes[i].row < nextRow
        /\ img.nodes[i].dead => img.nodes[i].row \in gone
        /\ img.nodes[i].row \in img.reaped => img.nodes[i].dead

\* What is flushed is an earlier state of the pages; at equal generations
\* they differ by the marks of a VACUUM that is not finished.
DurableInv ==
    /\ durable.gen <= index.gen
    /\ Len(durable.nodes) <= Len(index.nodes)
    /\ durable.reaped \subseteq index.reaped
    /\ durable.gen = index.gen => Len(durable.nodes) = Len(index.nodes)
    /\ \A i \in 1..Len(durable.nodes) :
         /\ durable.nodes[i].row = index.nodes[i].row
         /\ durable.nodes[i].dead => index.nodes[i].dead

PagesInv ==
    /\ PagesOk(index) /\ PagesOk(durable)
    /\ \A r \in gone \cup index.reaped : r < nextRow

\* No dead mark of these nodes is missed.
Fresh(nodes) == \A i \in 1..Len(nodes) : index.nodes[i].dead => nodes[i].dead

\* A backend at work: the metapage it read is not ahead of the pages, and
\* what a builder is about to publish misses nothing.
ProcOk(p) ==
    /\ proc[p].pc = "idle" <=> proc[p].job = "none"
    /\ proc[p].pc = "idle" => proc[p] = Idle
    /\ proc[p].pc \in {"vlock", "vmark"} => proc[p].job = "vacuum" /\ ~proc[p].changed
    /\ proc[p].key[1] <= index.gen
    /\ proc[p].key[2] <= Len(index.nodes)
    /\ proc[p].key[1] <= durable.gen => proc[p].key[2] <= Len(durable.nodes)
    /\ proc[p].pc \in {"create", "sync", "rename"} =>
         FileOk([key |-> proc[p].key, nodes |-> proc[p].buf]) /\ Fresh(proc[p].buf)

\* A scan keeps VACUUM out: files and its own mapping can have missed marks
\* only if they are older than the metapage the scan read.
ScanOk(p) ==
    Scanning(p) =>
        /\ \A q \in Procs : ~Vacuuming(q)
        /\ \A f \in files \cup {map[p]} : f.key[1] >= proc[p].key[1] => Fresh(f.nodes)

\* VACUUM: alone; what it collected is gone and below its count; after the marks no
\* collected row has a live node; it owes a generation to the dirty pages.
VacuumOk(p) ==
    proc[p].job = "vacuum" =>
        /\ \A q \in Procs : proc[q].job = "vacuum" => q = p
        /\ proc[p].seen \subseteq gone
        /\ \A i \in 1..Len(index.nodes) : index.nodes[i].row \in proc[p].seen =>
             /\ i <= proc[p].key[2]
             /\ proc[p].pc \notin {"vlock", "vmark"} => index.nodes[i].dead

DirtyInv == index.dirty => \E p \in Procs : Vacuuming(p) /\ proc[p].changed

ProcInv == \A p \in Procs : ProcOk(p) /\ ScanOk(p) /\ VacuumOk(p)

\* The conjunction, inductive for Spec.
Inv ==
    /\ TypeOK /\ PagesInv /\ DurableInv /\ FilesInv /\ ProcInv /\ DirtyInv
    /\ ScanViewSound /\ ScanViewComplete

\* Behind FilesNeverReplaced and BuildsKeepTheirFile: who builds holds the
\* lock, has the only temporary file, and there is no file for its metapage.
LockInv ==
    /\ \A p \in Procs : lock = p <=> proc[p].pc \in Building
    /\ \A p \in tmp : proc[p].pc \in {"sync", "rename"}
    /\ \A p \in Procs : proc[p].pc \in {"load", "create", "sync", "rename"} => ~Published(p)

=============================================================================

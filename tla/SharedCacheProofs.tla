------------------------- MODULE SharedCacheProofs --------------------------
(***************************************************************************)
(* Proofs about SharedCache: Inv is inductive for Spec and implies that    *)
(* every scan sees the pages of the metapage it read, whatever way it came *)
(* to its view.                                                            *)
(***************************************************************************)
EXTENDS SharedCache, SequenceTheorems, TLAPS

\* A function on 1..n is a sequence of length n.
LEMMA SeqOfFunction ==
    ASSUME NEW S, NEW n \in Nat, NEW f \in [1..n -> S]
    PROVE  f \in Seq(S) /\ Len(f) = n
  BY SeqDef, LenProperties

\* Elements of a sequence of nodes.
LEMMA NodeFacts ==
    ASSUME NEW s \in Seq(Node)
    PROVE  /\ Len(s) \in Nat /\ DOMAIN s = 1..Len(s)
           /\ \A i \in 1..Len(s) : s[i] \in Node /\ s[i].row \in Rows /\ s[i].dead \in BOOLEAN
  <1>1. Len(s) \in Nat /\ DOMAIN s = 1..Len(s) /\ \A i \in 1..Len(s) : s[i] \in Node
    BY LenProperties, ElementOfSeq
  <1> QED BY <1>1 DEF Node

\* Without nodes there is nothing to miss: a detached mapping is a good file.
LEMMA NoFileOk ==
    ASSUME TypeOK
    PROVE  NoFile \in FileType /\ FileOk(NoFile) /\ Fresh(NoFile.nodes)
  <1>1. /\ NoFile.key = <<0, 0>> /\ NoFile.nodes = <<>> /\ <<>> \in Seq(Node) /\ Len(<<>>) = 0
        /\ NoFile.key[1] = 0 /\ NoFile.key[2] = 0
    BY EmptySeq DEF NoFile, NoKey, Key
  <1>2. NoFile \in FileType
    BY EmptySeq DEF NoFile, NoKey, Key, FileType
  <1>3. index.gen \in Nat /\ durable.gen \in Nat /\ Len(index.nodes) \in Nat /\ Len(durable.nodes) \in Nat
    BY NodeFacts DEF TypeOK, Image
  <1> QED BY <1>1, <1>2, <1>3 DEF FileOk, Agrees, Fresh

\* The idle state of a backend is well formed.
LEMMA IdleType ==
    /\ Idle \in ProcType /\ Idle.pc = "idle" /\ Idle.job = "none" /\ Idle.view = <<>>
    /\ Idle.key[1] = 0 /\ Idle.key[2] = 0 /\ Idle.seen = {} /\ Idle.changed = FALSE
  BY EmptySeq DEF Idle, ProcType, NoKey, Key

\* Components of the typed state, as the other proofs use them.
LEMMA Types ==
    ASSUME TypeOK
    PROVE  /\ index.nodes \in Seq(Node) /\ durable.nodes \in Seq(Node)
           /\ index.gen \in Nat /\ durable.gen \in Nat /\ nextRow \in Nat
           /\ index.reaped \subseteq Rows /\ durable.reaped \subseteq Rows
           /\ index.dirty \in BOOLEAN /\ durable.dirty \in BOOLEAN
           /\ \A f \in files : f \in FileType
           /\ \A p \in Procs : map[p] \in FileType /\ proc[p] \in ProcType
  BY DEF TypeOK, Image

\* Components of a file and of a backend's state.
LEMMA FileTypes ==
    ASSUME NEW f \in FileType
    PROVE  f.key \in Nat \X Nat /\ f.key[1] \in Nat /\ f.key[2] \in Nat /\ f.nodes \in Seq(Node)
  BY DEF FileType

LEMMA ProcTypes ==
    ASSUME NEW x \in ProcType
    PROVE  /\ x.key \in Nat \X Nat /\ x.key[1] \in Nat /\ x.key[2] \in Nat
           /\ x.buf \in Seq(Node) /\ x.view \in Seq(Node) /\ x.seen \subseteq Rows
           /\ x.changed \in BOOLEAN
  BY DEF ProcType

(***************************************************************************)
(* Steps inside GetSharedMap.  They change files, mappings and the state   *)
(* of one backend, never the pages.                                        *)
(***************************************************************************)

\* What a step of p inside GetSharedMap may do: go on with the same metapage
\* and the same job.
AttachMove(p) ==
    /\ UNCHANGED <<index, durable, nextRow, gone>>
    /\ \A q \in Procs \ {p} : proc'[q] = proc[q] /\ map'[q] = map[q]
    /\ proc[p].pc \in Attaching
    /\ proc'[p].pc \in Attaching \cup {"use"}
    /\ proc'[p].job = proc[p].job /\ proc'[p].key = proc[p].key
    /\ proc'[p].seen = proc[p].seen /\ proc'[p].changed = proc[p].changed

\* It preserves the invariant if new files are good and fresh, mappings are
\* of such files, and what it put into its buffer and view is good.
LEMMA AttachPreserves ==
    ASSUME Inv, TypeOK', NEW p \in Procs, AttachMove(p),
           \A f \in files' : f \in files \/ (FileOk(f) /\ Fresh(f.nodes)),
           map'[p] \in files \cup {map[p], NoFile},
           proc'[p].pc \in {"create", "sync", "rename"} =>
             FileOk([key |-> proc[p].key, nodes |-> proc'[p].buf]) /\ Fresh(proc'[p].buf),
           Scanning(p) /\ proc'[p].pc = "use" =>
             Len(proc'[p].view) = proc[p].key[2] /\ NothingStale(proc'[p].view),
           \A i \in DOMAIN proc'[p].view : proc'[p].view[i].dead => proc'[p].view[i].row \in gone
    PROVE  Inv'
  <1> USE DEF AttachMove
  <1>t. TypeOK
    BY DEF Inv
  <1>0. \A f : (FileOk(f)' <=> FileOk(f)) /\ (Fresh(f)' <=> Fresh(f)) /\ (NothingStale(f)' <=> NothingStale(f))
    BY DEF FileOk, Fresh, Agrees, NothingStale
  <1>1. PagesInv' /\ DurableInv'
    BY DEF Inv, PagesInv, DurableInv, PagesOk
  <1>2. FilesInv'
    <2>1. \A f \in files' : FileOk(f)
      BY DEF Inv, FilesInv
    <2>2. \A q \in Procs : FileOk(map'[q])
      BY <1>t, NoFileOk DEF Inv, FilesInv
    <2> QED BY <2>1, <2>2, <1>0 DEF FilesInv
  <1>3. \A q \in Procs : (Scanning(q)' <=> Scanning(q)) /\ (Vacuuming(q)' <=> Vacuuming(q))
    BY DEF Scanning, Vacuuming, Attaching
  <1>4. DirtyInv'
    BY <1>3 DEF Inv, DirtyInv
  <1>5. \A q \in Procs : ProcOk(q)'
    <2>1. ASSUME NEW q \in Procs \ {p} PROVE ProcOk(q)'
      <3>1. ProcOk(q)
        BY DEF Inv, ProcInv
      <3> QED BY <3>1, <1>0 DEF ProcOk
    <2>2. ProcOk(p)'
      <3>1. ProcOk(p)
        BY DEF Inv, ProcInv
      <3>2. /\ proc[p].pc # "idle" /\ proc'[p].pc # "idle"
            /\ proc'[p].pc \notin {"vlock", "vmark"}
        BY DEF Attaching
      <3>3. proc'[p].job # "none"
        BY <3>1, <3>2 DEF ProcOk
      <3>4. ASSUME proc'[p].pc \in {"create", "sync", "rename"}
            PROVE  (FileOk([key |-> proc[p].key, nodes |-> proc[p].buf]) /\ Fresh(proc[p].buf))'
        BY <3>4 DEF FileOk, Agrees, Fresh
      <3> QED BY <3>1, <3>2, <3>3, <3>4 DEF ProcOk
    <2> QED BY <2>1, <2>2
  <1>6. \A q \in Procs : ScanOk(q)'
    <2> SUFFICES ASSUME NEW q \in Procs, Scanning(q)'
                 PROVE  ScanOk(q)'
      BY DEF ScanOk
    <2>1. ScanOk(q) /\ Scanning(q)
      BY <1>3 DEF Inv, ProcInv
    <2>2. \A r \in Procs : ~Vacuuming(r)'
      BY <2>1, <1>3 DEF ScanOk
    <2>3. proc'[q].key = proc[q].key
      OBVIOUS
    <2>4. \A f \in files' \cup {map'[q]} : f \in files \cup {map[q]} \/ Fresh(f.nodes)
      BY <1>t, NoFileOk
    <2>5. \A f \in files' \cup {map'[q]} : f.key[1] >= proc[q].key[1] => Fresh(f.nodes)
      BY <2>1, <2>4 DEF ScanOk
    <2> QED BY <2>2, <2>3, <2>5, <1>0 DEF ScanOk
  <1>7. \A q \in Procs : VacuumOk(q)'
    <2> SUFFICES ASSUME NEW q \in Procs, (proc[q].job = "vacuum")'
                 PROVE  VacuumOk(q)'
      BY DEF VacuumOk
    <2>1. VacuumOk(q) /\ proc[q].job = "vacuum"
      BY DEF Inv, ProcInv
    <2>2. \A r \in Procs : proc'[r].job = proc[r].job
      OBVIOUS
    <2>3. proc'[q].seen = proc[q].seen /\ proc'[q].key = proc[q].key
      OBVIOUS
    <2>4. proc'[q].pc \notin {"vlock", "vmark"} => proc[q].pc \notin {"vlock", "vmark"}
      BY DEF Attaching
    <2> QED BY <2>1, <2>2, <2>3, <2>4 DEF VacuumOk
  <1>8. ScanViewSound'
    <2> SUFFICES ASSUME NEW q \in Procs, Scanning(q)', proc'[q].pc = "use"
                 PROVE  (Len(proc[q].view) = proc[q].key[2] /\ NothingStale(proc[q].view))'
      BY DEF ScanViewSound
    <2>1. CASE q = p
      BY <2>1, <1>3 DEF NothingStale
    <2>2. CASE q # p
      BY <2>2, <1>3 DEF Inv, ScanViewSound, NothingStale
    <2> QED BY <2>1, <2>2
  <1>9. ScanViewComplete'
    BY DEF Inv, ScanViewComplete
  <1> QED BY <1>1, <1>2, <1>4, <1>5, <1>6, <1>7, <1>8, <1>9 DEF Inv, ProcInv

\* A file or mapping that matches the metapage of p is a good view for it.
LEMMA MatchingView ==
    ASSUME Inv, NEW p \in Procs, NEW f \in files \cup {map[p]}, HasKey(f, p)
    PROVE  /\ Scanning(p) => Len(f.nodes) = proc[p].key[2] /\ NothingStale(f.nodes)
           /\ f.nodes \in Seq(Node)
           /\ \A i \in DOMAIN f.nodes : f.nodes[i].dead => f.nodes[i].row \in gone
  <1>1. TypeOK /\ FileOk(f) /\ ScanOk(p) /\ f.key = proc[p].key
    BY DEF Inv, FilesInv, ProcInv, HasKey
  <1>2. f \in FileType /\ proc[p] \in ProcType /\ index.nodes \in Seq(Node)
    BY <1>1, Types
  <1>3. f.nodes \in Seq(Node) /\ proc[p].key[1] \in Nat
    BY <1>2, FileTypes, ProcTypes
  <1>4. DOMAIN f.nodes = 1..Len(f.nodes) /\ Len(f.nodes) \in Nat
        /\ DOMAIN index.nodes = 1..Len(index.nodes) /\ Len(index.nodes) \in Nat
    BY <1>2, <1>3, NodeFacts
  <1>5. Len(f.nodes) = f.key[2] /\ Agrees(f, index)
        /\ \A i \in 1..Len(f.nodes) : f.nodes[i].dead => f.nodes[i].row \in gone
    BY <1>1 DEF FileOk
  <1>6. Scanning(p) => Fresh(f.nodes)
    BY <1>1, <1>3 DEF ScanOk
  <1>7. Scanning(p) => NothingStale(f.nodes)
    BY <1>4, <1>5, <1>6 DEF NothingStale, Fresh, Agrees
  <1> QED BY <1>1, <1>3, <1>4, <1>5, <1>7

\* The first n pages, read by a backend (LoadCodePage).
LEMMA PagesFacts ==
    ASSUME Inv, NEW n \in Nat, n <= Len(index.nodes)
    PROVE  /\ Pages(n) \in Seq(Node) /\ Len(Pages(n)) = n /\ DOMAIN Pages(n) = 1..n
           /\ \A i \in 1..n : Pages(n)[i] = index.nodes[i]
           /\ Fresh(Pages(n)) /\ NothingStale(Pages(n))
           /\ \A i \in DOMAIN Pages(n) : Pages(n)[i].dead => Pages(n)[i].row \in gone
  <1>1. TypeOK /\ PagesOk(index)
    BY DEF Inv, PagesInv
  <1>2. index.nodes \in Seq(Node) /\ Len(index.nodes) \in Nat
        /\ DOMAIN index.nodes = 1..Len(index.nodes)
    BY <1>1, Types, NodeFacts
  <1>3. /\ Pages(n) \in Seq(Node) /\ Len(Pages(n)) = n
        /\ \A i \in 1..n : Pages(n)[i] = index.nodes[i]
    <2>1. 1 \in 1..(Len(index.nodes) + 1) /\ n \in 0..Len(index.nodes)
      BY <1>2
    <2>2. CASE n = 0
      <3>1. Pages(n) = << >>
        BY <2>2, <1>2, SubSeqProperties, EmptySeq DEF Pages
      <3> QED BY <3>1, <2>2, EmptySeq
    <2>3. CASE n > 0
      BY <2>1, <2>3, <1>2, SubSeqProperties DEF Pages
    <2> QED BY <2>2, <2>3
  <1>4. DOMAIN Pages(n) = 1..n
    BY <1>3, NodeFacts
  <1>5. Fresh(Pages(n))
    BY <1>3 DEF Fresh
  <1>6. NothingStale(Pages(n))
    BY <1>2, <1>3, <1>4 DEF NothingStale
  <1>7. \A i \in 1..n : Pages(n)[i].dead => Pages(n)[i].row \in gone
    BY <1>1, <1>2, <1>3 DEF PagesOk
  <1> QED BY <1>3, <1>4, <1>5, <1>6, <1>7

\* The pages of the metapage a backend read, as a file.
LEMMA PagesAreGoodFile ==
    ASSUME Inv, NEW p \in Procs
    PROVE  FileOk([key |-> proc[p].key, nodes |-> Pages(proc[p].key[2])])
  <1> DEFINE n == proc[p].key[2]
             f == [key |-> proc[p].key, nodes |-> Pages(n)]
  <1>1. TypeOK /\ ProcOk(p) /\ DurableInv
    BY DEF Inv, ProcInv
  <1>2. /\ n \in Nat /\ n <= Len(index.nodes) /\ proc[p].key[1] \in Nat
        /\ proc[p].key[1] <= index.gen
        /\ proc[p].key[1] <= durable.gen => n <= Len(durable.nodes)
    BY <1>1, Types, ProcTypes DEF ProcOk
  <1>3. /\ Len(Pages(n)) = n /\ DOMAIN Pages(n) = 1..n
        /\ \A i \in 1..n : Pages(n)[i] = index.nodes[i]
        /\ \A i \in DOMAIN Pages(n) : Pages(n)[i].dead => Pages(n)[i].row \in gone
    BY <1>2, PagesFacts
  <1>4. Len(durable.nodes) \in Nat
    BY <1>1, Types, NodeFacts
  <1>5. f.key = proc[p].key /\ f.nodes = Pages(n)
    OBVIOUS
  <1> HIDE DEF f
  <1>6. Agrees(f, index)
    BY <1>2, <1>3, <1>5 DEF Agrees
  <1>7. proc[p].key[1] <= durable.gen => Agrees(f, durable)
    <2> SUFFICES ASSUME proc[p].key[1] <= durable.gen PROVE Agrees(f, durable)
      OBVIOUS
    <2>1. n <= Len(durable.nodes)
      BY <1>2
    <2>2. \A i \in 1..n : i \in 1..Len(durable.nodes)
      BY <1>2, <1>4, <2>1
    <2>3. \A i \in 1..n : /\ f.nodes[i].row = durable.nodes[i].row
                          /\ durable.nodes[i].dead => f.nodes[i].dead
      BY <1>1, <1>3, <1>5, <2>2 DEF DurableInv
    <2> QED BY <1>3, <1>5, <2>1, <2>3 DEF Agrees
  <1>8. FileOk(f)
    BY <1>2, <1>3, <1>5, <1>6, <1>7 DEF FileOk
  <1> QED BY <1>8 DEF f

\* MapSharedCacheFile found the file, or there is none.
LEMMA AttachOrNot ==
    ASSUME Inv, NEW p \in Procs, NEW pc \in Attaching,
           proc[p].pc \in Attaching, files' \subseteq files, tmp' \subseteq Procs,
           lock' \in Procs \cup {NoProc},
           UNCHANGED <<index, durable, nextRow, gone>>,
           Attach(p) \/ NotPublished(p, pc),
           pc \notin {"create", "sync", "rename"}
    PROVE  Inv'
  <1>1. TypeOK /\ ProcOk(p) /\ proc[p] \in ProcType /\ proc \in [Procs -> ProcType]
        /\ map \in [Procs -> FileType]
    BY Types DEF Inv, ProcInv, TypeOK
  <1>2. CASE Attach(p)
    <2>1. PICK f \in files : /\ HasKey(f, p)
                             /\ map' = [map EXCEPT ![p] = f]
                             /\ proc' = [proc EXCEPT ![p].pc = "use", ![p].view = f.nodes]
      BY <1>2 DEF Attach
    <2>2. f \in FileType /\ f.nodes \in Seq(Node)
      BY <1>1, Types, FileTypes
    <2>3. /\ proc'[p] = [proc[p] EXCEPT !.pc = "use", !.view = f.nodes]
          /\ proc'[p] \in ProcType /\ proc' \in [Procs -> ProcType]
          /\ \A q \in Procs \ {p} : proc'[q] = proc[q] /\ map'[q] = map[q]
          /\ map'[p] = f /\ map' \in [Procs -> FileType]
      BY <1>1, <2>1, <2>2 DEF ProcType
    <2>4. AttachMove(p) /\ proc'[p].pc = "use" /\ proc'[p].view = f.nodes
      BY <1>1, <2>3 DEF AttachMove, ProcType
    <2>5. TypeOK'
      BY <1>1, <2>3 DEF TypeOK
    <2>6. /\ Scanning(p) => Len(f.nodes) = proc[p].key[2] /\ NothingStale(f.nodes)
          /\ \A i \in DOMAIN f.nodes : f.nodes[i].dead => f.nodes[i].row \in gone
      BY <2>1, MatchingView
    <2> QED BY <2>3, <2>4, <2>5, <2>6, AttachPreserves
  <1>3. CASE NotPublished(p, pc)
    <2>1. map' = map /\ proc' = [proc EXCEPT ![p].pc = pc]
      BY <1>3 DEF NotPublished, GotoPc
    <2>2. /\ proc'[p] = [proc[p] EXCEPT !.pc = pc]
          /\ proc'[p] \in ProcType /\ proc' \in [Procs -> ProcType]
          /\ \A q \in Procs \ {p} : proc'[q] = proc[q] /\ map'[q] = map[q]
      BY <1>1, <2>1 DEF ProcType
    <2>3. AttachMove(p) /\ proc'[p].pc = pc /\ proc'[p].view = proc[p].view /\ pc # "use"
      BY <1>1, <2>2 DEF AttachMove, ProcType, Attaching
    <2>4. TypeOK'
      BY <1>1, <2>1, <2>2 DEF TypeOK
    <2>5. \A i \in DOMAIN proc[p].view : proc[p].view[i].dead => proc[p].view[i].row \in gone
      BY DEF Inv, ScanViewComplete
    <2> QED BY <2>1, <2>3, <2>4, <2>5, AttachPreserves
  <1> QED BY <1>2, <1>3

\* A step to another place of GetSharedMap that sets nothing but the place.
LEMMA GotoPreserves ==
    ASSUME Inv, NEW p \in Procs, NEW pc \in Attaching, GotoPc(p, pc),
           proc[p].pc \in Attaching, tmp' \subseteq Procs, lock' \in Procs \cup {NoProc},
           UNCHANGED <<index, durable, nextRow, gone>>,
           files' \subseteq FileType,
           \A f \in files' : f \in files \/ (FileOk(f) /\ Fresh(f.nodes)),
           map' \in [Procs -> FileType], map'[p] \in {map[p], NoFile},
           \A q \in Procs \ {p} : map'[q] = map[q],
           pc \in {"create", "sync", "rename"} => proc[p].pc \in {"create", "sync", "rename"}
    PROVE  Inv'
  <1>1. TypeOK /\ ProcOk(p) /\ proc[p] \in ProcType /\ proc \in [Procs -> ProcType]
    BY Types DEF Inv, ProcInv, TypeOK
  <1>2. /\ proc'[p] = [proc[p] EXCEPT !.pc = pc]
        /\ proc'[p] \in ProcType /\ proc' \in [Procs -> ProcType]
        /\ \A q \in Procs \ {p} : proc'[q] = proc[q]
    BY <1>1 DEF ProcType, GotoPc
  <1>3. /\ AttachMove(p) /\ proc'[p].pc = pc /\ proc'[p].view = proc[p].view /\ pc # "use"
        /\ proc'[p].buf = proc[p].buf
    BY <1>1, <1>2 DEF AttachMove, ProcType, Attaching
  <1>4. TypeOK'
    BY <1>1, <1>2 DEF TypeOK
  <1>5. \A i \in DOMAIN proc[p].view : proc[p].view[i].dead => proc[p].view[i].row \in gone
    BY DEF Inv, ScanViewComplete
  <1>6. proc[p].pc \in {"create", "sync", "rename"} =>
             FileOk([key |-> proc[p].key, nodes |-> proc[p].buf]) /\ Fresh(proc[p].buf)
    BY <1>1 DEF ProcOk
  <1> QED BY <1>3, <1>4, <1>5, <1>6, AttachPreserves

\* Every step inside GetSharedMap preserves the invariant.
LEMMA AttachStepInv ==
    ASSUME Inv, NEW p \in Procs, AttachStep(p)
    PROVE  Inv'
  <1>0. /\ TypeOK /\ ProcOk(p) /\ proc[p] \in ProcType /\ proc \in [Procs -> ProcType]
        /\ map \in [Procs -> FileType] /\ files \subseteq FileType /\ tmp \subseteq Procs
        /\ lock \in Procs \cup {NoProc} /\ NoFile \in FileType
        /\ \A f \in files : FileOk(f)
    BY Types, NoFileOk DEF Inv, ProcInv, FilesInv, TypeOK
  <1>v. \A i \in DOMAIN proc[p].view : proc[p].view[i].dead => proc[p].view[i].row \in gone
    BY DEF Inv, ScanViewComplete
  <1>1. CASE Find(p)
    <2>1. CASE HasKey(map[p], p)
      <3>1. /\ proc' = [proc EXCEPT ![p].pc = "use", ![p].view = map[p].nodes] /\ map' = map
            /\ proc[p].pc = "find" /\ UNCHANGED <<index, durable, nextRow, gone, files, tmp, lock>>
        BY <1>1, <2>1 DEF Find
      <3>2. /\ Scanning(p) => Len(map[p].nodes) = proc[p].key[2] /\ NothingStale(map[p].nodes)
            /\ map[p].nodes \in Seq(Node)
            /\ \A i \in DOMAIN map[p].nodes : map[p].nodes[i].dead => map[p].nodes[i].row \in gone
        BY <2>1, MatchingView
      <3>3. /\ proc'[p] = [proc[p] EXCEPT !.pc = "use", !.view = map[p].nodes]
            /\ proc'[p] \in ProcType /\ proc' \in [Procs -> ProcType]
            /\ \A q \in Procs \ {p} : proc'[q] = proc[q]
        BY <1>0, <3>1, <3>2 DEF ProcType
      <3>4. AttachMove(p) /\ proc'[p].pc = "use" /\ proc'[p].view = map[p].nodes
        BY <1>0, <3>1, <3>3 DEF AttachMove, ProcType, Attaching
      <3>5. TypeOK'
        BY <1>0, <3>1, <3>3 DEF TypeOK
      <3> QED BY <3>1, <3>2, <3>4, <3>5, AttachPreserves
    <2>2. CASE ~HasKey(map[p], p)
      <3>1. /\ GotoPc(p, "map") /\ map' = [map EXCEPT ![p] = NoFile]
            /\ proc[p].pc = "find" /\ UNCHANGED <<index, durable, nextRow, gone, files, tmp, lock>>
        BY <1>1, <2>2 DEF Find
      <3>2. /\ map' \in [Procs -> FileType] /\ map'[p] = NoFile
            /\ \A q \in Procs \ {p} : map'[q] = map[q]
        BY <1>0, <3>1
      <3> QED BY <1>0, <3>1, <3>2, GotoPreserves DEF Attaching
    <2> QED BY <2>1, <2>2
  <1>2. CASE OpenFail(p)
    BY <1>0, <1>2, GotoPreserves DEF OpenFail, Attaching
  <1>3. CASE MapFile(p)
    BY <1>0, <1>3, AttachOrNot DEF MapFile, RunGc, Attaching
  <1>4. CASE TryLock(p)
    BY <1>0, <1>4, GotoPreserves DEF TryLock, Attaching
  <1>5. CASE Wait(p)
    BY <1>0, <1>5, AttachOrNot DEF Wait, Attaching
  <1>6. CASE Relock(p)
    BY <1>0, <1>6, GotoPreserves DEF Relock, Attaching
  <1>7. CASE Recheck(p)
    <2>1. files' \subseteq files /\ tmp' \subseteq Procs /\ lock' \in Procs \cup {NoProc}
      BY <1>0, <1>7 DEF Recheck, RemoveOldGenerations
    <2> QED BY <1>0, <1>7, <2>1, AttachOrNot DEF Recheck, Attaching
  <1>8. CASE Load(p)
    <2>1. /\ proc' = [proc EXCEPT ![p].pc = "create", ![p].buf = Pages(proc[p].key[2])]
          /\ proc[p].pc = "load"
          /\ UNCHANGED <<index, durable, nextRow, gone, files, tmp, lock, map>>
      BY <1>8 DEF Load
    <2>2. Pages(proc[p].key[2]) \in Seq(Node) /\ Fresh(Pages(proc[p].key[2]))
      BY <1>0, Types, ProcTypes, PagesFacts DEF ProcOk
    <2>3. /\ proc'[p] = [proc[p] EXCEPT !.pc = "create", !.buf = Pages(proc[p].key[2])]
          /\ proc'[p] \in ProcType /\ proc' \in [Procs -> ProcType]
          /\ \A q \in Procs \ {p} : proc'[q] = proc[q]
      BY <1>0, <2>1, <2>2 DEF ProcType, Attaching
    <2>4. /\ AttachMove(p) /\ proc'[p].pc = "create" /\ proc'[p].view = proc[p].view
          /\ proc'[p].buf = Pages(proc[p].key[2])
      BY <1>0, <2>1, <2>3 DEF AttachMove, ProcType, Attaching
    <2>5. TypeOK'
      BY <1>0, <2>1, <2>3 DEF TypeOK
    <2>6. FileOk([key |-> proc[p].key, nodes |-> proc'[p].buf]) /\ Fresh(proc'[p].buf)
      BY <2>2, <2>4, PagesAreGoodFile
    <2> QED BY <2>1, <2>4, <2>5, <2>6, <1>v, AttachPreserves
  <1>9. CASE Create(p)
    BY <1>0, <1>9, GotoPreserves DEF Create, Attaching
  <1>10. CASE Sync(p)
    BY <1>0, <1>10, GotoPreserves DEF Sync, Attaching
  <1>11. CASE Rename(p)
    <2> DEFINE h == [key |-> proc[p].key, nodes |-> proc[p].buf]
    <2>1. FileOk(h) /\ Fresh(h.nodes) /\ h \in FileType
      BY <1>0, <1>11, ProcTypes DEF Rename, ProcOk, FileType
    <2>2. files' \subseteq files \cup {h}
      BY <1>11 DEF Rename
    <2> HIDE DEF h
    <2> QED BY <1>0, <1>11, <2>1, <2>2, GotoPreserves DEF Rename, Attaching
  <1>12. CASE WriteFail(p)
    BY <1>0, <1>12, GotoPreserves DEF WriteFail, Attaching
  <1>13. CASE Clean(p)
    BY <1>0, <1>13, GotoPreserves DEF Clean, RemoveOldGenerations, Attaching
  <1>14. CASE MapOwn(p)
    BY <1>0, <1>14, AttachOrNot DEF MapOwn, Attaching
  <1>15. CASE Fallback(p)
    <2> DEFINE n == proc[p].key[2]
    <2>1. /\ proc' = [proc EXCEPT ![p].pc = "use", ![p].view = Pages(n)]
          /\ proc[p].pc = "fallback"
          /\ UNCHANGED <<index, durable, nextRow, gone, files, tmp, lock, map>>
      BY <1>15 DEF Fallback
    <2>2. /\ Pages(n) \in Seq(Node) /\ Len(Pages(n)) = n /\ NothingStale(Pages(n))
          /\ \A i \in DOMAIN Pages(n) : Pages(n)[i].dead => Pages(n)[i].row \in gone
      BY <1>0, Types, ProcTypes, PagesFacts DEF ProcOk
    <2>3. /\ proc'[p] = [proc[p] EXCEPT !.pc = "use", !.view = Pages(n)]
          /\ proc'[p] \in ProcType /\ proc' \in [Procs -> ProcType]
          /\ \A q \in Procs \ {p} : proc'[q] = proc[q]
      BY <1>0, <2>1, <2>2 DEF ProcType
    <2>4. AttachMove(p) /\ proc'[p].pc = "use" /\ proc'[p].view = Pages(n)
      BY <1>0, <2>1, <2>3 DEF AttachMove, ProcType, Attaching
    <2>5. TypeOK'
      BY <1>0, <2>1, <2>3 DEF TypeOK
    <2> QED BY <2>1, <2>2, <2>4, <2>5, AttachPreserves
  <1> QED BY <1>1, <1>2, <1>3, <1>4, <1>5, <1>6, <1>7, <1>8, <1>9, <1>10, <1>11, <1>12,
             <1>13, <1>14, <1>15 DEF AttachStep

(***************************************************************************)
(* Scans and VACUUM around GetSharedMap.                                   *)
(***************************************************************************)

\* A step that changes the state of one backend, besides temporary files and
\* the lock.
LEMMA LocalPreserves ==
    ASSUME Inv, NEW p \in Procs, NEW x \in ProcType,
           UNCHANGED <<index, durable, nextRow, gone, files, map>>,
           tmp' \subseteq Procs, lock' \in Procs \cup {NoProc},
           proc' = [proc EXCEPT ![p] = x],
           ProcOk(p)', ScanOk(p)', VacuumOk(p)',
           x.job = "vacuum" => \A q \in Procs \ {p} : proc[q].job # "vacuum",
           Vacuuming(p)' => \A q \in Procs : ~Scanning(q),
           Vacuuming(p) => ~proc[p].changed,
           x.view \in {<<>>, proc[p].view}, x.pc # "use"
    PROVE  Inv'
  <1>0. /\ TypeOK /\ proc \in [Procs -> ProcType]
        /\ proc'[p] = x /\ \A q \in Procs \ {p} : proc'[q] = proc[q]
    BY DEF Inv, TypeOK
  <1>1. TypeOK'
    BY <1>0 DEF TypeOK
  <1>2. PagesInv' /\ DurableInv' /\ FilesInv'
    BY DEF Inv, PagesInv, DurableInv, FilesInv, PagesOk, FileOk, Agrees
  <1>3. \A q \in Procs \ {p} : (Scanning(q)' <=> Scanning(q)) /\ (Vacuuming(q)' <=> Vacuuming(q))
    BY <1>0 DEF Scanning, Vacuuming
  <1>4. DirtyInv'
    BY <1>0, <1>3 DEF Inv, DirtyInv
  <1>5. ASSUME NEW q \in Procs \ {p} PROVE ProcOk(q)' /\ ScanOk(q)' /\ VacuumOk(q)'
    <2>1. ProcOk(q) /\ ScanOk(q) /\ VacuumOk(q) /\ proc'[q] = proc[q] /\ map'[q] = map[q]
      BY <1>0 DEF Inv, ProcInv
    <2>2. ProcOk(q)'
      BY <2>1 DEF ProcOk, FileOk, Agrees, Fresh
    <2>3. ScanOk(q)'
      <3> SUFFICES ASSUME Scanning(q)' PROVE ScanOk(q)'
        BY DEF ScanOk
      <3>1. Scanning(q)
        BY <1>3
      <3>2. \A r \in Procs : ~Vacuuming(r)'
        BY <2>1, <3>1, <1>3 DEF ScanOk
      <3> QED BY <2>1, <3>1, <3>2 DEF ScanOk, Fresh
    <2>4. VacuumOk(q)'
      BY <2>1, <1>0 DEF VacuumOk
    <2> QED BY <2>2, <2>3, <2>4
  <1>6. ProcInv'
    BY <1>5 DEF ProcInv
  <1>7. ScanViewSound'
    <2> SUFFICES ASSUME NEW q \in Procs, (Scanning(q) /\ proc[q].pc = "use")'
                 PROVE  (Len(proc[q].view) = proc[q].key[2] /\ NothingStale(proc[q].view))'
      BY DEF ScanViewSound
    <2> QED BY <1>0, <1>3 DEF Inv, ScanViewSound, NothingStale
  <1>8. ScanViewComplete'
    BY <1>0 DEF Inv, ScanViewComplete
  <1> QED BY <1>1, <1>2, <1>4, <1>6, <1>7, <1>8 DEF Inv

\* What Start puts into the state of a backend.
LEMMA StartFacts ==
    ASSUME TypeOK, NEW p \in Procs, NEW job \in {"scan", "vacuum"}, NEW pc \in {"find", "vlock"},
           NEW seen \in SUBSET Rows, Start(p, job, pc, seen)
    PROVE  \E x \in ProcType :
             /\ proc' = [proc EXCEPT ![p] = x]
             /\ x.pc = pc /\ x.job = job /\ x.seen = seen /\ x.view = <<>> /\ ~x.changed
             /\ x.key[1] = index.gen /\ x.key[2] = Len(index.nodes)
  <1> DEFINE x == [Idle EXCEPT !.pc = pc, !.job = job, !.seen = seen,
                               !.key = Key(index.gen, Len(index.nodes))]
  <1>1. index.gen \in Nat /\ Len(index.nodes) \in Nat
    BY Types, NodeFacts
  <1>2. Key(index.gen, Len(index.nodes)) \in Nat \X Nat
    BY <1>1 DEF Key
  <1>3. x \in ProcType
    BY <1>2, IdleType DEF ProcType, Attaching
  <1>4. /\ x.pc = pc /\ x.job = job /\ x.seen = seen /\ x.view = <<>> /\ ~x.changed
        /\ x.key[1] = index.gen /\ x.key[2] = Len(index.nodes)
    BY <1>1, IdleType DEF Idle, Key
  <1>5. proc' = [proc EXCEPT ![p] = x]
    BY DEF Start
  <1> QED BY <1>3, <1>4, <1>5

\* gettuple reads the metapage under SCAN_LOCK: no marks are without a
\* generation then, so a file of this generation misses none.
LEMMA ScanBeginInv ==
    ASSUME Inv, NEW p \in Procs, ScanBegin(p)
    PROVE  Inv'
  <1>0. /\ TypeOK /\ DurableInv /\ proc \in [Procs -> ProcType] /\ tmp \subseteq Procs
        /\ lock \in Procs \cup {NoProc} /\ index.gen \in Nat /\ durable.gen \in Nat
        /\ Len(index.nodes) \in Nat /\ Len(durable.nodes) \in Nat
    BY Types, NodeFacts DEF Inv, TypeOK
  <1>1. PICK x \in ProcType :
             /\ proc' = [proc EXCEPT ![p] = x]
             /\ x.pc = "find" /\ x.job = "scan" /\ x.seen = {} /\ x.view = <<>> /\ ~x.changed
             /\ x.key[1] = index.gen /\ x.key[2] = Len(index.nodes)
    BY <1>0, StartFacts DEF ScanBegin
  <1>2. /\ UNCHANGED <<index, durable, nextRow, gone, files, tmp, lock, map>>
        /\ proc'[p] = x /\ \A q \in Procs \ {p} : proc'[q] = proc[q]
        /\ \A q \in Procs : ~Vacuuming(q)
    BY <1>0, <1>1 DEF ScanBegin
  <1>3. ~index.dirty
    BY <1>2 DEF Inv, DirtyInv
  <1>4. ProcOk(p)'
    BY <1>0, <1>1, <1>2 DEF ProcOk, DurableInv
  <1>5. \A q \in Procs : ~Vacuuming(q)'
    BY <1>1, <1>2 DEF Vacuuming
  <1>6. \A f \in files \cup {map[p]} : f.key[1] >= index.gen => Fresh(f.nodes)
    <2> SUFFICES ASSUME NEW f \in files \cup {map[p]}, f.key[1] >= index.gen PROVE Fresh(f.nodes)
      OBVIOUS
    <2>1. FileOk(f) /\ f.key[1] \in Nat
      BY <1>0, Types, FileTypes DEF Inv, FilesInv
    <2> QED BY <1>0, <1>3, <2>1 DEF FileOk, Agrees, Fresh
  <1>7. ScanOk(p)'
    BY <1>1, <1>2, <1>5, <1>6 DEF ScanOk, Fresh
  <1>8. VacuumOk(p)'
    BY <1>1, <1>2 DEF VacuumOk
  <1>9. ~Vacuuming(p)'
    BY <1>5
  <1> QED BY <1>0, <1>1, <1>2, <1>4, <1>7, <1>8, <1>9, LocalPreserves

\* The end of a scan, regular or not.
LEMMA ScanStopInv ==
    ASSUME Inv, NEW p \in Procs, ScanEnd(p) \/ ScanAbort(p)
    PROVE  Inv'
  <1>0. /\ TypeOK /\ proc \in [Procs -> ProcType] /\ Idle \in ProcType
        /\ index.gen \in Nat /\ durable.gen \in Nat
        /\ Len(index.nodes) \in Nat /\ Len(durable.nodes) \in Nat
    BY Types, NodeFacts, IdleType DEF Inv, TypeOK
  <1>1. /\ UNCHANGED <<index, durable, nextRow, gone, files, map>>
        /\ proc' = [proc EXCEPT ![p] = Idle] /\ Scanning(p)
        /\ tmp' \subseteq Procs /\ lock' \in Procs \cup {NoProc}
    BY <1>0 DEF ScanEnd, ScanAbort, TypeOK
  <1>2. proc'[p] = Idle
    BY <1>0, <1>1
  <1>3. ProcOk(p)' /\ ScanOk(p)' /\ VacuumOk(p)' /\ ~Vacuuming(p)'
    BY <1>0, <1>1, <1>2, IdleType DEF ProcOk, ScanOk, VacuumOk, Vacuuming, Scanning
  <1>4. ~Vacuuming(p)
    BY <1>1 DEF Scanning, Vacuuming
  <1> QED BY <1>0, <1>1, <1>3, <1>4, IdleType, LocalPreserves

\* bulkdelete begins: what it collected is gone and below the count it read.
LEMMA VacuumBeginInv ==
    ASSUME Inv, NEW p \in Procs, VacuumBegin(p)
    PROVE  Inv'
  <1>0. /\ TypeOK /\ DurableInv /\ proc \in [Procs -> ProcType] /\ tmp \subseteq Procs
        /\ lock \in Procs \cup {NoProc} /\ index.gen \in Nat /\ durable.gen \in Nat
        /\ Len(index.nodes) \in Nat /\ Len(durable.nodes) \in Nat /\ gone \in SUBSET Rows
    BY Types, NodeFacts DEF Inv, TypeOK
  <1>1. PICK x \in ProcType :
             /\ proc' = [proc EXCEPT ![p] = x]
             /\ x.pc = "vlock" /\ x.job = "vacuum" /\ x.seen = gone /\ x.view = <<>> /\ ~x.changed
             /\ x.key[1] = index.gen /\ x.key[2] = Len(index.nodes)
    BY <1>0, StartFacts DEF VacuumBegin
  <1>2. /\ UNCHANGED <<index, durable, nextRow, gone, files, tmp, lock, map>>
        /\ proc'[p] = x /\ \A q \in Procs \ {p} : proc'[q] = proc[q]
        /\ \A q \in Procs : proc[q].job # "vacuum"
    BY <1>0, <1>1 DEF VacuumBegin
  <1>3. ProcOk(p)'
    BY <1>0, <1>1, <1>2 DEF ProcOk, DurableInv
  <1>4. ScanOk(p)' /\ ~Vacuuming(p)' /\ ~Vacuuming(p)
    BY <1>1, <1>2 DEF ScanOk, Scanning, Vacuuming
  <1>5. VacuumOk(p)'
    BY <1>0, <1>1, <1>2 DEF VacuumOk
  <1> QED BY <1>0, <1>1, <1>2, <1>3, <1>4, <1>5, LocalPreserves

\* SCAN_LOCK is granted when no scan holds it.
LEMMA VacuumLockInv ==
    ASSUME Inv, NEW p \in Procs, VacuumLock(p)
    PROVE  Inv'
  <1>0. /\ TypeOK /\ proc \in [Procs -> ProcType] /\ proc[p] \in ProcType /\ tmp \subseteq Procs
        /\ lock \in Procs \cup {NoProc} /\ ProcOk(p) /\ VacuumOk(p)
    BY Types DEF Inv, TypeOK, ProcInv
  <1> DEFINE x == [proc[p] EXCEPT !.pc = "vmark"]
  <1>1. /\ UNCHANGED <<index, durable, nextRow, gone, files, tmp, lock, map>>
        /\ proc' = [proc EXCEPT ![p] = x] /\ proc[p].pc = "vlock"
        /\ \A q \in Procs : ~Scanning(q)
    BY <1>0 DEF VacuumLock
  <1>2. /\ x \in ProcType /\ x.pc = "vmark" /\ x.job = proc[p].job /\ x.key = proc[p].key
        /\ x.seen = proc[p].seen /\ x.view = proc[p].view /\ x.changed = proc[p].changed
    BY <1>0 DEF ProcType
  <1> HIDE DEF x
  <1>3. proc'[p] = x /\ \A q \in Procs \ {p} : proc'[q] = proc[q]
    BY <1>0, <1>1, <1>2
  <1>4. ProcOk(p)' /\ ScanOk(p)'
    BY <1>0, <1>1, <1>2, <1>3 DEF ProcOk, ScanOk, Scanning
  <1>5. proc[p].job = "vacuum" /\ ~Vacuuming(p)
    BY <1>0, <1>1 DEF ProcOk, Vacuuming
  <1>6. VacuumOk(p)'
    BY <1>0, <1>1, <1>2, <1>3, <1>5 DEF VacuumOk
  <1>7. \A q \in Procs \ {p} : proc[q].job # "vacuum"
    BY <1>0, <1>5 DEF VacuumOk
  <1> QED BY <1>0, <1>1, <1>2, <1>4, <1>5, <1>6, <1>7, LocalPreserves

(***************************************************************************)
(* Steps that change the pages or what is flushed of them.                 *)
(***************************************************************************)

\* Every backend is idle: nothing but the files needs an argument.
Quiescent == \A p \in Procs : proc[p] = Idle

LEMMA AllIdle ==
    ASSUME TypeOK, Quiescent
    PROVE  ProcInv /\ ScanViewSound /\ ScanViewComplete
  <1>1. index.gen \in Nat /\ Len(index.nodes) \in Nat /\ durable.gen \in Nat /\ Len(durable.nodes) \in Nat
    BY Types, NodeFacts
  <1>2. ASSUME NEW p \in Procs PROVE ProcOk(p) /\ ScanOk(p) /\ VacuumOk(p)
    BY <1>1, IdleType DEF ProcOk, ScanOk, VacuumOk, Scanning, Quiescent
  <1>3. ScanViewSound
    BY IdleType DEF ScanViewSound, Scanning, Quiescent
  <1>4. ScanViewComplete
    BY IdleType, EmptySeq DEF ScanViewComplete, Quiescent
  <1> QED BY <1>2, <1>3, <1>4 DEF ProcInv

\* The empty index satisfies the invariant.
LEMMA InitInv == Init => Inv
  <1> SUFFICES ASSUME Init PROVE Inv
    OBVIOUS
  <1>1. /\ index = [nodes |-> <<>>, gen |-> 1, dirty |-> FALSE, reaped |-> {}]
        /\ durable = index /\ nextRow = 1 /\ gone = {} /\ files = {} /\ tmp = {} /\ lock = NoProc
        /\ map = [p \in Procs |-> NoFile] /\ proc = [p \in Procs |-> Idle]
    BY DEF Init
  <1>2. <<>> \in Seq(Node) /\ Len(<<>>) = 0
    BY EmptySeq
  <1>3. index \in Image /\ index.nodes = <<>> /\ ~index.dirty /\ index.reaped = {} /\ index.gen = 1
    BY <1>1, <1>2 DEF Image
  <1>4. NoFile \in FileType
    BY EmptySeq DEF NoFile, NoKey, Key, FileType
  <1>5. TypeOK
    BY <1>1, <1>3, <1>4, IdleType, BoundsAssumption DEF TypeOK
  <1>6. FilesInv
    BY <1>1, <1>5, NoFileOk DEF FilesInv
  <1>7. PagesInv /\ DurableInv /\ DirtyInv
    BY <1>1, <1>2, <1>3 DEF PagesInv, PagesOk, DurableInv, DirtyInv
  <1>8. ProcInv /\ ScanViewSound /\ ScanViewComplete
    BY <1>1, <1>5, AllIdle DEF Quiescent
  <1> QED BY <1>5, <1>6, <1>7, <1>8 DEF Inv

\* WAL is flushed, by the WAL writer or by the commit of a DELETE that makes
\* one more row invisible.
LEMMA FlushInv ==
    ASSUME Inv, Flush \/ \E r \in Rows : Delete(r)
    PROVE  Inv'
  <1>0. /\ TypeOK /\ index.nodes \in Seq(Node) /\ index.gen \in Nat /\ nextRow \in Nat
        /\ PagesInv /\ FilesInv /\ ProcInv
    BY Types DEF Inv
  <1>1. Len(index.nodes) \in Nat /\ DOMAIN index.nodes = 1..Len(index.nodes)
        /\ \A i \in 1..Len(index.nodes) : index.nodes[i].row \in Rows
    BY <1>0, NodeFacts
  <1>2. /\ durable' = index /\ UNCHANGED <<index, nextRow, files, tmp, lock, map, proc>>
        /\ gone \subseteq gone' /\ gone' \subseteq Rows /\ \A r \in gone' : r < nextRow
    BY <1>0, <1>1 DEF Flush, Delete, PagesInv, PagesOk, TypeOK
  <1>3. TypeOK'
    BY <1>0, <1>2 DEF TypeOK
  <1>4. PagesInv'
    BY <1>0, <1>2 DEF PagesInv, PagesOk
  <1>5. DurableInv'
    BY <1>0, <1>1, <1>2 DEF DurableInv
  <1>6. \A f : FileOk(f) => FileOk(f)'
    BY <1>2 DEF FileOk, Agrees
  <1>7. FilesInv'
    BY <1>0, <1>2, <1>6 DEF FilesInv
  <1>8. ASSUME NEW p \in Procs PROVE ProcOk(p)' /\ ScanOk(p)' /\ VacuumOk(p)'
    <2>1. ProcOk(p) /\ ScanOk(p) /\ VacuumOk(p)
      BY <1>0 DEF ProcInv
    <2>2. ProcOk(p)'
      <3>1. proc[p].pc \in {"create", "sync", "rename"} =>
              FileOk([key |-> proc[p].key, nodes |-> proc[p].buf])'
        BY <2>1, <1>2 DEF ProcOk, FileOk, Agrees
      <3> QED BY <2>1, <3>1, <1>2 DEF ProcOk, Fresh
    <2>3. ScanOk(p)'
      BY <2>1, <1>2 DEF ScanOk, Scanning, Vacuuming, Fresh
    <2>4. VacuumOk(p)'
      BY <2>1, <1>2 DEF VacuumOk
    <2> QED BY <2>2, <2>3, <2>4
  <1>9. DirtyInv'
    BY <1>2 DEF Inv, DirtyInv, Vacuuming
  <1>10. ScanViewSound' /\ ScanViewComplete'
    BY <1>2 DEF Inv, ScanViewSound, ScanViewComplete, NothingStale, Scanning
  <1> QED BY <1>3, <1>4, <1>5, <1>7, <1>8, <1>9, <1>10 DEF Inv, ProcInv

\* Recovery: the flushed pages agree with every file, none of which is ahead
\* of them.
LEMMA CrashInv ==
    ASSUME Inv, Crash
    PROVE  Inv'
  <1>0. /\ TypeOK /\ PagesInv /\ FilesInv /\ DurableInv /\ durable.nodes \in Seq(Node)
        /\ durable.gen \in Nat /\ Len(durable.nodes) \in Nat /\ nextRow \in Nat
    BY Types, NodeFacts DEF Inv
  <1>1. /\ index' = durable /\ tmp' = {} /\ lock' = NoProc
        /\ map' = [p \in Procs |-> NoFile] /\ proc' = [p \in Procs |-> Idle]
        /\ UNCHANGED <<durable, nextRow, gone, files>> /\ ~durable.dirty
        /\ \A f \in files : f.key[1] <= durable.gen
    BY DEF Crash, Restart, FilesFlushed
  <1>2. TypeOK'
    BY <1>0, <1>1, NoFileOk, IdleType DEF TypeOK
  <1>3. PagesInv'
    BY <1>0, <1>1 DEF PagesInv, PagesOk, DurableInv
  <1>4. DurableInv'
    BY <1>0, <1>1 DEF DurableInv
  <1>5. \A f \in files : FileOk(f)'
    BY <1>0, <1>1 DEF FilesInv, FileOk, Agrees
  <1>6. FileOk(NoFile)'
    BY <1>2, NoFileOk, PTL
  <1>7. FilesInv'
    BY <1>1, <1>5, <1>6 DEF FilesInv
  <1>8. (ProcInv /\ ScanViewSound /\ ScanViewComplete)'
    <2>1. Quiescent'
      BY <1>1 DEF Quiescent
    <2> QED BY <2>1, <1>2, AllIdle, PTL
  <1>9. DirtyInv'
    BY <1>1 DEF DirtyInv
  <1> QED BY <1>2, <1>3, <1>4, <1>7, <1>8, <1>9 DEF Inv

\* An insert appends a node and moves the generation: every file is of an
\* older generation then, and what is being built misses no mark.
LEMMA InsertInv ==
    ASSUME Inv, NEW p \in Procs, Insert(p)
    PROVE  Inv'
  <1> DEFINE new == [row |-> nextRow, dead |-> FALSE]
             n == Len(index.nodes)
  <1>0. /\ TypeOK /\ PagesInv /\ FilesInv /\ DurableInv /\ ProcInv
        /\ index.nodes \in Seq(Node) /\ durable.nodes \in Seq(Node) /\ n \in Nat
        /\ DOMAIN index.nodes = 1..n
        /\ Len(durable.nodes) \in Nat /\ durable.nodes \in Seq(Node)
        /\ index.gen \in Nat /\ durable.gen \in Nat /\ nextRow \in Nat /\ index \in Image
        /\ index.reaped \subseteq Rows
    BY Types, NodeFacts DEF Inv, TypeOK
  <1>1. /\ nextRow \in Rows /\ nextRow' = nextRow + 1
        /\ index' = [index EXCEPT !.nodes = Append(@, new), !.gen = @ + 1, !.dirty = FALSE]
        /\ UNCHANGED <<durable, gone, files, tmp, lock, proc>>
        /\ \E m \in {map[p], NoFile} : map' = [map EXCEPT ![p] = m]
    BY DEF Insert
  <1>2. new \in Node
    BY <1>1 DEF Node
  <1>3. /\ Append(index.nodes, new) \in Seq(Node) /\ Len(Append(index.nodes, new)) = n + 1
        /\ \A i \in 1..n : Append(index.nodes, new)[i] = index.nodes[i]
        /\ Append(index.nodes, new)[n + 1] = new
    BY <1>0, <1>2, AppendProperties
  <1>4. /\ index'.nodes = Append(index.nodes, new) /\ index'.gen = index.gen + 1
        /\ index'.dirty = FALSE /\ index'.reaped = index.reaped
    BY <1>0, <1>1 DEF Image
  <1>5. index' \in Image
    <2>1. Append(index.nodes, new) \in Seq(Node) /\ index.gen + 1 \in Nat /\ FALSE \in BOOLEAN
      BY <1>0, <1>3
    <2> HIDE DEF new
    <2> QED BY <1>0, <1>1, <2>1 DEF Image
  <1>6. /\ index'.nodes \in Seq(Node) /\ Len(index'.nodes) = n + 1
        /\ \A i \in 1..n : i \in 1..(n + 1) /\ index'.nodes[i] = index.nodes[i]
        /\ index'.nodes[n + 1].row = nextRow /\ index'.nodes[n + 1].dead = FALSE
        /\ DOMAIN index'.nodes = 1..(n + 1)
    BY <1>0, <1>3, <1>4, NodeFacts
  <1> HIDE DEF new
  <1>7. TypeOK'
    <2>1. map' \in [Procs -> FileType]
      BY <1>0, <1>1, NoFileOk DEF TypeOK
    <2>2. nextRow' \in 1..(MaxRows + 1)
      BY <1>1, BoundsAssumption DEF Rows
    <2> QED BY <1>0, <1>1, <1>5, <2>1, <2>2 DEF TypeOK
  <1>8. PagesInv'
    <2>1. PagesOk(index)'
      <3> SUFFICES ASSUME NEW i \in 1..(n + 1)
                   PROVE  /\ index'.nodes[i].row < nextRow'
                          /\ index'.nodes[i].dead => index'.nodes[i].row \in gone'
                          /\ index'.nodes[i].row \in index'.reaped => index'.nodes[i].dead
        BY <1>6 DEF PagesOk
      <3>1. CASE i \in 1..n
        <4>1. /\ index.nodes[i].row < nextRow /\ index.nodes[i].row \in Nat
              /\ index.nodes[i].dead => index.nodes[i].row \in gone
              /\ index.nodes[i].row \in index.reaped => index.nodes[i].dead
          BY <1>0, <3>1, NodeFacts DEF PagesInv, PagesOk, Rows
        <4> QED BY <1>0, <1>1, <1>4, <1>6, <3>1, <4>1
      <3>2. CASE i = n + 1
        <4>1. nextRow \notin index.reaped
          BY <1>0 DEF PagesInv
        <4> QED BY <1>0, <1>1, <1>4, <1>6, <3>2, <4>1
      <3> QED BY <1>0, <3>1, <3>2
    <2>2. PagesOk(durable)'
      <3>1. \A i \in 1..Len(durable.nodes) : durable.nodes[i].row \in Nat
        BY <1>0, NodeFacts DEF Rows
      <3> QED BY <1>0, <1>1, <3>1 DEF PagesInv, PagesOk
    <2>3. (\A r \in gone \cup index.reaped : r < nextRow)'
      <3>1. \A r \in gone \cup index.reaped : r \in Nat /\ r < nextRow
        BY <1>0 DEF PagesInv, TypeOK, Rows
      <3> QED BY <1>0, <1>1, <1>4, <3>1
    <2> QED BY <2>1, <2>2, <2>3 DEF PagesInv
  <1>9. DurableInv'
    <2>1. Len(durable.nodes) <= n /\ \A i \in 1..Len(durable.nodes) : i \in 1..n
      BY <1>0 DEF DurableInv
    <2> QED BY <1>0, <1>1, <1>4, <1>6, <2>1 DEF DurableInv
  <1>10. ASSUME NEW f \in FileType, FileOk(f) PROVE FileOk(f)'
    <2>1. /\ f.key[1] \in Nat /\ Len(f.nodes) \in Nat /\ Len(f.nodes) <= n
          /\ f.key[1] <= index.gen /\ Agrees(f, index)
      BY <1>10, FileTypes, NodeFacts DEF FileOk, Agrees
    <2>2. f.key[1] < index.gen + 1
      BY <1>0, <2>1
    <2>3. \A i \in 1..Len(f.nodes) : i \in 1..n
      BY <1>0, <2>1
    <2>4. Agrees(f, index)'
      BY <1>0, <1>4, <1>6, <2>1, <2>2, <2>3 DEF Agrees
    <2>5. (f.key[1] <= durable.gen => Agrees(f, durable))'
      BY <1>10, <1>1 DEF FileOk, Agrees
    <2> QED BY <1>0, <1>1, <1>4, <1>10, <2>1, <2>2, <2>4, <2>5 DEF FileOk
  <1>11. FilesInv'
    <2>1. \A f \in files : FileOk(f)'
      BY <1>0, <1>10, Types DEF FilesInv
    <2>2. FileOk(NoFile)'
      BY <1>7, NoFileOk, PTL
    <2>3. \A q \in Procs : FileOk(map[q])'
      <3> SUFFICES ASSUME NEW q \in Procs PROVE FileOk(map[q])'
        OBVIOUS
      <3>1. map'[q] \in {map[q], NoFile}
        BY <1>0, <1>1 DEF TypeOK
      <3>2. map[q] \in FileType /\ FileOk(map[q])
        BY <1>0, Types DEF FilesInv
      <3>3. ASSUME NEW f, f \in {map[q], NoFile} PROVE FileOk(f)'
        BY <1>10, <2>2, <3>2, <3>3
      <3> QED BY <3>1, <3>3 DEF FileOk, Agrees
    <2> QED BY <1>1, <2>1, <2>3 DEF FilesInv
  <1>12. ASSUME NEW s \in Seq(Node), Len(s) <= n, Fresh(s) PROVE Fresh(s)'
    <2>1. Len(s) \in Nat
      BY <1>12, NodeFacts
    <2>2. \A i \in 1..Len(s) : i \in 1..n
      BY <1>0, <1>12, <2>1
    <2> QED BY <1>6, <1>12, <2>2 DEF Fresh
  <1>13. ASSUME NEW q \in Procs PROVE ProcOk(q)' /\ ScanOk(q)' /\ VacuumOk(q)'
    <2>1. /\ ProcOk(q) /\ ScanOk(q) /\ VacuumOk(q) /\ proc[q] \in ProcType
          /\ proc[q].key[1] \in Nat /\ proc[q].key[2] \in Nat /\ proc[q].buf \in Seq(Node)
          /\ proc[q].key \in Nat \X Nat
      BY <1>0, Types, ProcTypes DEF ProcInv
    <2>2. ProcOk(q)'
      <3>1. ASSUME proc[q].pc \in {"create", "sync", "rename"}
            PROVE  (FileOk([key |-> proc[q].key, nodes |-> proc[q].buf]) /\ Fresh(proc[q].buf))'
        <4> DEFINE f == [key |-> proc[q].key, nodes |-> proc[q].buf]
        <4>1. f \in FileType /\ FileOk(f) /\ Fresh(proc[q].buf) /\ f.nodes = proc[q].buf
          BY <2>1, <3>1 DEF ProcOk, FileType
        <4>2. Len(proc[q].buf) <= n
          BY <4>1 DEF FileOk, Agrees
        <4>3. PICK g : g = f
          OBVIOUS
        <4>4. FileOk(g)'
          BY <1>10, <4>1, <4>3
        <4>5. FileOk([key |-> proc[q].key, nodes |-> proc[q].buf])'
          <5>1. g = [key |-> proc'[q].key, nodes |-> proc'[q].buf]
            BY <1>1, <4>3
          <5> QED BY <4>4, <5>1 DEF FileOk, Agrees
        <4>6. Fresh(g.nodes)'
          BY <1>12, <2>1, <4>1, <4>2, <4>3
        <4>7. Fresh(proc[q].buf)'
          BY <1>1, <4>1, <4>3, <4>6 DEF Fresh
        <4> QED BY <4>5, <4>7
      <3>2. /\ proc[q].key[1] <= index.gen + 1 /\ proc[q].key[2] <= n + 1
        BY <1>0, <2>1 DEF ProcOk
      <3> QED BY <1>1, <1>4, <1>6, <2>1, <3>1, <3>2 DEF ProcOk
    <2>3. ScanOk(q)'
      <3> SUFFICES ASSUME Scanning(q)' PROVE ScanOk(q)'
        BY DEF ScanOk
      <3>1. Scanning(q) /\ \A r \in Procs : ~Vacuuming(r)'
        BY <1>1, <2>1 DEF ScanOk, Scanning, Vacuuming
      <3>2. ASSUME NEW f \in files \cup {map[q], NoFile}, f.key[1] >= proc[q].key[1]
            PROVE  Fresh(f.nodes)'
        <4>1. f \in FileType /\ f.nodes \in Seq(Node) /\ FileOk(f)
          BY <1>0, Types, FileTypes, NoFileOk DEF FilesInv
        <4>2. Fresh(f.nodes)
          BY <1>0, <2>1, <3>1, <3>2, NoFileOk DEF ScanOk
        <4> QED BY <1>12, <4>1, <4>2 DEF FileOk, Agrees
      <3>3. map'[q] \in {map[q], NoFile}
        BY <1>0, <1>1 DEF TypeOK
      <3>4. files' \cup {map'[q]} \subseteq files \cup {map[q], NoFile}
        BY <1>1, <3>3
      <3> QED BY <1>1, <3>1, <3>2, <3>4 DEF ScanOk
    <2>4. VacuumOk(q)'
      <3> SUFFICES ASSUME proc[q].job = "vacuum" PROVE VacuumOk(q)'
        BY <1>1 DEF VacuumOk
      <3>1. nextRow \notin proc[q].seen
        BY <1>0, <2>1 DEF VacuumOk, PagesInv
      <3>2. \A i \in 1..(n + 1) : i \in 1..n \/ i = n + 1
        BY <1>0
      <3>3. \A i \in 1..(n + 1) : index'.nodes[i].row \in proc[q].seen =>
              i \in 1..n /\ index'.nodes[i] = index.nodes[i]
        BY <1>6, <3>1, <3>2
      <3> QED BY <1>1, <1>6, <2>1, <3>3 DEF VacuumOk
    <2> QED BY <2>2, <2>3, <2>4
  <1>14. DirtyInv'
    BY <1>4 DEF DirtyInv
  <1>15. ScanViewSound'
    <2> SUFFICES ASSUME NEW q \in Procs, Scanning(q), proc[q].pc = "use"
                 PROVE  (Len(proc[q].view) = proc[q].key[2] /\ NothingStale(proc[q].view))'
      BY <1>1 DEF ScanViewSound, Scanning
    <2>1. Len(proc[q].view) = proc[q].key[2] /\ NothingStale(proc[q].view)
      BY DEF Inv, ScanViewSound
    <2> QED BY <1>0, <1>1, <1>6, <2>1 DEF NothingStale
  <1>16. ScanViewComplete'
    BY <1>1 DEF Inv, ScanViewComplete
  <1> QED BY <1>7, <1>8, <1>9, <1>11, <1>13, <1>14, <1>15, <1>16 DEF Inv, ProcInv

\* VACUUM marks nodes: no scan runs and nobody builds, files miss the new
\* marks only while the pages are dirty, and the marks cover what was collected.
LEMMA VacuumMarkInv ==
    ASSUME Inv, NEW p \in Procs, VacuumMark(p)
    PROVE  Inv'
  <1> DEFINE n == Len(index.nodes)
             marked == MarkedDead(index.nodes, Marks(p))
             pc == IF Marks(p) # {} \/ \E i \in 1..proc[p].key[2] : index.nodes[i].dead
                   THEN "find" ELSE "use"
  <1>0. /\ TypeOK /\ PagesInv /\ FilesInv /\ DurableInv /\ ProcInv /\ DirtyInv
        /\ index.nodes \in Seq(Node) /\ n \in Nat /\ DOMAIN index.nodes = 1..n
        /\ \A i \in 1..n : index.nodes[i] \in Node /\ index.nodes[i].dead \in BOOLEAN
        /\ Len(durable.nodes) \in Nat /\ index \in Image /\ index.dirty \in BOOLEAN
        /\ proc \in [Procs -> ProcType] /\ proc[p] \in ProcType
    BY Types, NodeFacts DEF Inv, TypeOK
  <1>1. /\ proc[p].pc = "vmark" /\ proc[p].job = "vacuum" /\ ~proc[p].changed /\ Vacuuming(p)
        /\ ProcOk(p) /\ VacuumOk(p)
    BY <1>0 DEF VacuumMark, ProcInv, ProcOk, Vacuuming
  <1>2. /\ UNCHANGED <<durable, nextRow, gone, files, tmp, lock, map>>
        /\ index' = [index EXCEPT !.nodes = marked, !.dirty = @ \/ Marks(p) # {}]
        /\ proc' = [proc EXCEPT ![p].pc = pc, ![p].changed = Marks(p) # {}]
        /\ pc \in {"find", "use"}
    BY DEF VacuumMark
  <1> HIDE DEF pc
  <1>3. /\ marked \in Seq(Node) /\ Len(marked) = n
        /\ \A i \in 1..n : /\ marked[i].row = index.nodes[i].row
                           /\ marked[i].dead <=> index.nodes[i].dead \/ i \in Marks(p)
    <2>1. marked \in [1..n -> Node]
      BY <1>0 DEF Node, MarkedDead
    <2>2. \A i \in 1..n : /\ marked[i].row = index.nodes[i].row
                          /\ marked[i].dead <=> index.nodes[i].dead \/ i \in Marks(p)
      BY <1>0 DEF MarkedDead
    <2> HIDE DEF marked
    <2> QED BY <1>0, <2>1, <2>2, SeqOfFunction
  <1> HIDE DEF marked
  <1>4. /\ index' \in Image /\ index'.nodes = marked /\ index'.gen = index.gen
        /\ index'.reaped = index.reaped /\ (index'.dirty <=> index.dirty \/ Marks(p) # {})
    BY <1>0, <1>2, <1>3 DEF Image
  <1>5. /\ \A q \in Procs \ {p} : proc'[q] = proc[q]
        /\ proc'[p] \in ProcType /\ proc' \in [Procs -> ProcType]
        /\ proc'[p].pc \in {"find", "use"} /\ proc'[p].job = "vacuum"
        /\ proc'[p].key = proc[p].key /\ proc'[p].seen = proc[p].seen
        /\ proc'[p].view = proc[p].view /\ (proc'[p].changed <=> Marks(p) # {})
    <2>1. /\ proc'[p] = [proc[p] EXCEPT !.pc = pc, !.changed = Marks(p) # {}]
          /\ \A q \in Procs \ {p} : proc'[q] = proc[q]
      BY <1>0, <1>2
    <2>2. (Marks(p) # {}) \in BOOLEAN /\ pc \in Attaching \cup {"use"}
      BY <1>2 DEF Attaching
    <2>3. proc'[p] \in ProcType
      BY <1>0, <2>1, <2>2 DEF ProcType
    <2>4. /\ proc'[p].pc = pc /\ proc'[p].job = proc[p].job /\ proc'[p].key = proc[p].key
          /\ proc'[p].seen = proc[p].seen /\ proc'[p].view = proc[p].view
          /\ (proc'[p].changed <=> Marks(p) # {})
      BY <1>0, <2>1 DEF ProcType
    <2>5. proc' \in [Procs -> ProcType]
      BY <1>0, <1>2, <2>1, <2>3
    <2> QED BY <1>1, <1>2, <2>1, <2>3, <2>4, <2>5
  <1>6. \A q \in Procs : ~Scanning(q) /\ (q # p => proc[q].job # "vacuum")
    BY <1>0, <1>1 DEF ProcInv, ScanOk, VacuumOk
  <1>7. \A q \in Procs : ~Scanning(q)' /\ (q # p => proc'[q].job # "vacuum")
    BY <1>5, <1>6 DEF Scanning
  <1>8. \A i \in 1..n : i \in Marks(p) => index.nodes[i].row \in proc[p].seen
    BY DEF Marks
  <1>9. TypeOK'
    BY <1>0, <1>2, <1>4, <1>5 DEF TypeOK
  <1>10. PagesInv'
    <2>1. PagesOk(index)'
      BY <1>0, <1>1, <1>2, <1>3, <1>4, <1>8 DEF PagesInv, PagesOk, VacuumOk
    <2> QED BY <1>0, <1>2, <1>4, <2>1 DEF PagesInv, PagesOk
  <1>11. DurableInv'
    <2>1. \A i \in 1..Len(durable.nodes) : i \in 1..n
      BY <1>0 DEF DurableInv
    <2> QED BY <1>0, <1>2, <1>3, <1>4, <2>1 DEF DurableInv
  <1>12. ASSUME NEW f \in FileType, FileOk(f) PROVE FileOk(f)'
    <2>1. Len(f.nodes) \in Nat /\ Len(f.nodes) <= n /\ Agrees(f, index)
      BY <1>12, FileTypes, NodeFacts DEF FileOk, Agrees
    <2>2. \A i \in 1..Len(f.nodes) : i \in 1..n
      BY <1>0, <2>1
    <2>3. Agrees(f, index)'
      BY <1>3, <1>4, <2>1, <2>2 DEF Agrees
    <2>4. (f.key[1] <= durable.gen => Agrees(f, durable))'
      BY <1>12, <1>2 DEF FileOk, Agrees
    <2> QED BY <1>2, <1>4, <1>12, <2>3, <2>4 DEF FileOk
  <1>13. FilesInv'
    BY <1>0, <1>2, <1>12, Types DEF FilesInv
  <1>14. ASSUME NEW q \in Procs PROVE ProcOk(q)' /\ ScanOk(q)' /\ VacuumOk(q)'
    <2>1. ScanOk(q)'
      BY <1>7 DEF ScanOk
    <2>2. CASE q = p
      <3>1. ProcOk(p)'
        BY <1>1, <1>2, <1>3, <1>4, <1>5 DEF ProcOk
      <3>2. \A i \in 1..n : index.nodes[i].row \in proc[p].seen =>
              i <= proc[p].key[2] /\ marked[i].dead
        <4> SUFFICES ASSUME NEW i \in 1..n, index.nodes[i].row \in proc[p].seen
                     PROVE  i <= proc[p].key[2] /\ marked[i].dead
          OBVIOUS
        <4>1. i <= proc[p].key[2]
          BY <1>1 DEF VacuumOk
        <4>2. i \in 1..proc[p].key[2]
          BY <1>0, <4>1, ProcTypes
        <4>3. index.nodes[i].dead \/ i \in Marks(p)
          BY <4>2 DEF Marks
        <4> QED BY <1>3, <4>1, <4>3
      <3>3. VacuumOk(p)'
        BY <1>1, <1>2, <1>3, <1>4, <1>5, <1>7, <3>2 DEF VacuumOk
      <3> QED BY <2>1, <2>2, <3>1, <3>3
    <2>3. CASE q # p
      <3>1. proc[q].job = "none" /\ proc'[q] = proc[q] /\ ProcOk(q)
        BY <1>0, <1>5, <1>6, <2>3 DEF ProcInv, ProcType, Scanning
      <3>2. proc[q].pc = "idle"
        BY <3>1 DEF ProcOk
      <3>3. ProcOk(q)'
        BY <1>2, <1>3, <1>4, <3>1, <3>2 DEF ProcOk
      <3>4. VacuumOk(q)'
        BY <1>7, <2>3 DEF VacuumOk
      <3> QED BY <2>1, <3>3, <3>4
    <2> QED BY <2>2, <2>3
  <1>15. DirtyInv'
    <2>1. ~index.dirty
      <3>1. index.dirty => \E q \in Procs : proc[q].job = "vacuum" /\ proc[q].changed
        BY <1>0 DEF DirtyInv, Vacuuming
      <3> QED BY <1>1, <1>6, <3>1
    <2> QED BY <1>4, <1>5, <2>1 DEF DirtyInv, Vacuuming
  <1>16. ScanViewSound'
    BY <1>7 DEF ScanViewSound
  <1>17. ScanViewComplete'
    <2>1. \A q \in Procs : proc'[q].view = proc[q].view
      BY <1>5
    <2>2. gone' = gone
      BY <1>2
    <2>3. ASSUME NEW q \in Procs, NEW i \in DOMAIN proc'[q].view
          PROVE  proc'[q].view[i].dead => proc'[q].view[i].row \in gone'
      <3>1. proc'[q].view = proc[q].view
        BY <2>1
      <3> QED BY <2>2, <3>1 DEF Inv, ScanViewComplete
    <2> QED BY <2>3 DEF ScanViewComplete
  <1> QED BY <1>9, <1>10, <1>11, <1>13, <1>14, <1>15, <1>16, <1>17 DEF Inv, ProcInv

\* VACUUM ends: either the generation moves, or no mark was set; then the
\* heap reclaims line pointers of which no live node is left.
LEMMA VacuumFinishInv ==
    ASSUME Inv, NEW p \in Procs, VacuumFinish(p)
    PROVE  Inv'
  <1>0. /\ TypeOK /\ PagesInv /\ FilesInv /\ DurableInv /\ ProcInv /\ DirtyInv
        /\ index \in Image /\ index.dirty \in BOOLEAN /\ index.gen \in Nat /\ durable.gen \in Nat
        /\ Len(index.nodes) \in Nat /\ Len(durable.nodes) \in Nat
        /\ proc \in [Procs -> ProcType] /\ proc[p] \in ProcType /\ proc[p].seen \subseteq Rows
        /\ index.reaped \subseteq Rows /\ nextRow \in Nat
    BY Types, NodeFacts, ProcTypes DEF Inv, TypeOK
  <1>1. PICK bump \in BOOLEAN : Finish(p, bump) /\ (proc[p].changed => bump)
    <2>1. PICK repaired \in {FALSE, \E i \in DOMAIN index.nodes : index.nodes[i].dead} :
            Finish(p, proc[p].changed \/ repaired)
      BY DEF VacuumFinish
    <2> QED BY <2>1
  <1>2. /\ proc[p].pc = "use" /\ proc[p].job = "vacuum" /\ Vacuuming(p)
        /\ UNCHANGED <<durable, nextRow, gone, files, tmp, lock, map>>
        /\ proc' = [proc EXCEPT ![p] = Idle]
        /\ VacuumOk(p)
    BY <1>0, <1>1 DEF Finish, Vacuuming, ProcInv
  <1>3. \A q \in Procs : ~Scanning(q) /\ (q # p => proc[q].job # "vacuum")
    BY <1>0, <1>2 DEF ProcInv, ScanOk, VacuumOk
  <1>4. index.dirty => bump
    <2>1. index.dirty => \E q \in Procs : proc[q].job = "vacuum" /\ proc[q].changed
      BY <1>0 DEF DirtyInv, Vacuuming
    <2> QED BY <1>1, <1>3, <2>1
  <1>5. index' = [index EXCEPT !.gen = IF bump THEN @ + 1 ELSE @,
                               !.dirty = IF bump THEN FALSE ELSE @,
                               !.reaped = @ \cup proc[p].seen]
    BY <1>1 DEF Finish
  <1>6. /\ index'.nodes = index.nodes /\ ~index'.dirty
        /\ index'.reaped = index.reaped \cup proc[p].seen
        /\ index'.gen = IF bump THEN index.gen + 1 ELSE index.gen
    BY <1>0, <1>4, <1>5 DEF Image
  <1>7. index' \in Image
    <2> DEFINE g == IF bump THEN index.gen + 1 ELSE index.gen
               d == IF bump THEN FALSE ELSE index.dirty
               r == index.reaped \cup proc[p].seen
    <2>c. r \in SUBSET Rows
      BY <1>0
    <2>1. g \in Nat /\ d \in BOOLEAN /\ r \in SUBSET Rows
      <3>1. CASE bump
        BY <1>0, <2>c, <3>1
      <3>2. CASE ~bump
        BY <1>0, <2>c, <3>2
      <3> QED BY <3>1, <3>2
    <2>2. index' = [index EXCEPT !.gen = g, !.dirty = d, !.reaped = r]
      BY <1>0, <1>5 DEF Image
    <2> HIDE DEF g, d, r
    <2> QED BY <1>0, <2>1, <2>2 DEF Image
  <1>8. proc'[p] = Idle /\ \A q \in Procs \ {p} : proc'[q] = proc[q] /\ proc[q].job = "none"
    BY <1>0, <1>2, <1>3 DEF ProcType, Scanning
  <1>9. \A q \in Procs : proc'[q] = Idle
    <2>1. \A q \in Procs : proc[q].job = "none" => proc[q] = Idle
      BY <1>0 DEF ProcInv, ProcOk
    <2> QED BY <1>8, <2>1
  <1>10. TypeOK'
    BY <1>0, <1>2, <1>7, <1>9, IdleType DEF TypeOK
  <1>11. PagesInv'
    <2>1. \A i \in 1..Len(index.nodes) : index.nodes[i].row \in proc[p].seen => index.nodes[i].dead
      BY <1>2 DEF VacuumOk
    <2>2. \A r \in proc[p].seen : r < nextRow
      BY <1>0, <1>2 DEF VacuumOk, PagesInv
    <2> QED BY <1>0, <1>2, <1>6, <2>1, <2>2 DEF PagesInv, PagesOk
  <1>12. DurableInv'
    BY <1>0, <1>2, <1>6 DEF DurableInv
  <1>13. ASSUME NEW f \in FileType, FileOk(f) PROVE FileOk(f)'
    <2>1. f.key[1] \in Nat /\ f.key[1] <= index.gen /\ Agrees(f, index)
      BY <1>13, FileTypes DEF FileOk
    <2>2. Agrees(f, index)'
      BY <1>0, <1>4, <1>6, <2>1 DEF Agrees
    <2>3. (f.key[1] <= durable.gen => Agrees(f, durable))'
      BY <1>13, <1>2 DEF FileOk, Agrees
    <2> QED BY <1>0, <1>2, <1>6, <1>13, <2>1, <2>2, <2>3 DEF FileOk
  <1>14. FilesInv'
    BY <1>0, <1>2, <1>13, Types DEF FilesInv
  <1>15. DirtyInv'
    BY <1>6 DEF DirtyInv
  <1>16. (ProcInv /\ ScanViewSound /\ ScanViewComplete)'
    <2>1. Quiescent'
      BY <1>9 DEF Quiescent
    <2> QED BY <2>1, <1>10, AllIdle, PTL
  <1> QED BY <1>10, <1>11, <1>12, <1>14, <1>15, <1>16 DEF Inv

(***************************************************************************)
(* The theorems.                                                           *)
(***************************************************************************)

\* Every step preserves the invariant.
LEMMA NextInv == Inv /\ [Next]_vars => Inv'
  <1> SUFFICES ASSUME Inv, [Next]_vars PROVE Inv'
    OBVIOUS
  <1>1. CASE UNCHANGED vars
    BY <1>1 DEF vars, Inv, TypeOK, PagesInv, PagesOk, DurableInv, FilesInv, FileOk, Agrees,
       ProcInv, ProcOk, ScanOk, VacuumOk, Fresh, DirtyInv, ScanViewSound, ScanViewComplete,
       NothingStale, Scanning, Vacuuming
  <1>2. ASSUME NEW p \in Procs,
               \/ Insert(p) \/ ScanBegin(p) \/ ScanEnd(p) \/ ScanAbort(p)
               \/ VacuumBegin(p) \/ VacuumLock(p) \/ VacuumMark(p) \/ VacuumFinish(p)
               \/ AttachStep(p)
        PROVE  Inv'
    BY <1>2, InsertInv, ScanBeginInv, ScanStopInv, VacuumBeginInv, VacuumLockInv,
       VacuumMarkInv, VacuumFinishInv, AttachStepInv
  <1>3. CASE Flush \/ \E r \in Rows : Delete(r)
    BY <1>3, FlushInv
  <1>4. CASE Crash
    BY <1>4, CrashInv
  <1> QED BY <1>1, <1>2, <1>3, <1>4 DEF Next

\* The invariant of the cache files (scan_cache.c) holds for any number of
\* backends, rows and generations.
THEOREM CacheInvHolds == Spec => []Inv
  BY InitInv, NextInv, PTL DEF Spec

\* Whichever file, mapping or build of GetSharedMap a scan takes its view
\* from, it shows the pages of the metapage the scan read.
THEOREM ScanViewsAreSound == Spec => []ScanViewSound
  <1>1. Inv => ScanViewSound
    BY DEF Inv
  <1> QED BY <1>1, CacheInvHolds, PTL

\* A view that GetSharedMap returns hides only rows that are gone.
THEOREM ScanViewsAreComplete == Spec => []ScanViewComplete
  <1>1. Inv => ScanViewComplete
    BY DEF Inv
  <1> QED BY <1>1, CacheInvHolds, PTL

\* A reclaimed row has no live node on the pages, and no view offers as live
\* what the pages mark dead.
THEOREM NothingReapedIsOffered == Spec => []NothingReaped
  <1>1. Inv => NothingReaped
    <2> SUFFICES ASSUME Inv, NEW p \in Procs, Scanning(p), proc[p].pc = "use",
                        NEW i \in DOMAIN proc[p].view, proc[p].view[i].row \in index.reaped
                 PROVE  proc[p].view[i].dead
      BY DEF NothingReaped
    <2>1. PagesOk(index) /\ ScanViewSound /\ index.nodes \in Seq(Node)
      BY Types DEF Inv, PagesInv
    <2>2. /\ i \in DOMAIN index.nodes /\ proc[p].view[i].row = index.nodes[i].row
          /\ index.nodes[i].dead => proc[p].view[i].dead
      BY <2>1 DEF ScanViewSound, NothingStale
    <2>3. index.nodes[i].row \in index.reaped => index.nodes[i].dead
      BY <2>1, <2>2, NodeFacts DEF PagesOk
    <2> QED BY <2>2, <2>3
  <1> QED BY <1>1, CacheInvHolds, PTL

(***************************************************************************)
(* One builder at a time.                                                  *)
(***************************************************************************)

\* A step of p preserves LockInv if p holds the lock exactly while it builds,
\* and only the holder of the lock adds files.
LEMMA LockMove ==
    ASSUME LockInv, NEW p \in Procs, TypeOK,
           \A q \in Procs \ {p} : proc'[q] = proc[q],
           lock' = p <=> proc'[p].pc \in Building,
           \A q \in Procs \ {p} : lock' = q <=> lock = q,
           tmp' \subseteq Procs, tmp' \ {p} \subseteq tmp,
           p \in tmp' => proc'[p].pc \in {"sync", "rename"},
           files' \subseteq files \/ lock = p,
           proc'[p].pc \in {"load", "create", "sync", "rename"} => ~Published(p)'
    PROVE  LockInv'
  <1>1. \A q \in Procs : (lock = q <=> proc[q].pc \in Building)'
    BY DEF LockInv
  <1>2. \A q \in tmp' : proc'[q].pc \in {"sync", "rename"}
    BY DEF LockInv
  <1>3. ASSUME NEW q \in Procs \ {p}, proc'[q].pc \in {"load", "create", "sync", "rename"}
        PROVE  ~Published(q)'
    <2>1. lock = q /\ ~Published(q)
      BY <1>3 DEF LockInv, Building
    <2>2. files' \subseteq files /\ proc'[q].key = proc[q].key
      BY <2>1
    <2> QED BY <2>1, <2>2 DEF Published, HasKey
  <1> QED BY <1>1, <1>2, <1>3 DEF LockInv

LEMMA LockStep == TypeOK /\ LockInv /\ [Next]_vars => LockInv'
  <1> SUFFICES ASSUME TypeOK, LockInv, [Next]_vars PROVE LockInv'
    OBVIOUS
  <1>0. /\ proc \in [Procs -> ProcType] /\ tmp \subseteq Procs /\ NoProc \notin Procs
        /\ lock \in Procs \cup {NoProc}
    BY NoProcAssumption DEF TypeOK
  <1>1. CASE UNCHANGED vars
    BY <1>1 DEF vars, LockInv, Published, HasKey
  <1>2. CASE Flush \/ \E r \in Rows : Delete(r)
    BY <1>2 DEF Flush, Delete, LockInv, Published, HasKey
  <1>3. CASE Crash
    BY <1>0, <1>3, IdleType DEF Crash, Restart, LockInv, Building
  <1>4. ASSUME NEW p \in Procs, Insert(p) PROVE LockInv'
    BY <1>4 DEF Insert, LockInv, Published, HasKey
  <1>5. ASSUME NEW p \in Procs, AttachStep(p) PROVE LockInv'
    <2> DEFINE Others == \A q \in Procs \ {p} : proc'[q] = proc[q]
    <2>0. /\ lock = p <=> proc[p].pc \in Building
          /\ p \in tmp => proc[p].pc \in {"sync", "rename"}
          /\ proc[p].pc \in {"load", "create", "sync", "rename"} => ~Published(p)
      BY DEF LockInv
    <2>g. ASSUME NEW pc, GotoPc(p, pc)
          PROVE  proc'[p].pc = pc /\ proc'[p].key = proc[p].key /\ Others
      BY <1>0, <2>g DEF GotoPc, ProcType
    <2>a. ASSUME Attach(p)
          PROVE  proc'[p].pc = "use" /\ Others
      BY <1>0, <2>a DEF Attach, ProcType
    <2> HIDE DEF Others
    <2>1. CASE Find(p)
      <3>1. proc'[p].pc \in {"use", "map"} /\ Others
        <4>1. CASE GotoPc(p, "map")
          BY <4>1, <2>g
        <4>2. CASE proc' = [proc EXCEPT ![p].pc = "use", ![p].view = map[p].nodes]
          BY <1>0, <4>2 DEF ProcType, Others
        <4> QED BY <2>1, <4>1, <4>2 DEF Find
      <3> QED BY <1>0, <2>0, <2>1, <3>1, LockMove DEF Find, Building, Others
    <2>2. CASE OpenFail(p)
      <3>1. proc'[p].pc = "fallback" /\ Others
        BY <2>2, <2>g DEF OpenFail
      <3> QED BY <1>0, <2>0, <2>2, <3>1, LockMove DEF OpenFail, Building, Others
    <2>3. CASE MapFile(p)
      <3>1. proc'[p].pc \in {"use", "trylock"} /\ Others
        BY <2>3, <2>a, <2>g DEF MapFile, NotPublished
      <3>2. tmp' \subseteq tmp /\ lock' = lock /\ files' = files /\ proc[p].pc = "map"
        BY <2>3 DEF MapFile, RunGc
      <3> QED BY <1>0, <2>0, <3>1, <3>2, LockMove DEF Building, Others
    <2>4. CASE TryLock(p)
      <3>1. \/ LockFree /\ lock' = p /\ proc'[p].pc = "recheck"
            \/ lock' = lock /\ proc'[p].pc = "wait"
        BY <2>4, <2>g DEF TryLock
      <3>2. Others /\ tmp' = tmp /\ files' = files /\ proc[p].pc = "trylock"
        BY <2>4, <2>g DEF TryLock
      <3> QED BY <1>0, <2>0, <3>1, <3>2, LockMove DEF LockFree, Building, Others
    <2>5. CASE Wait(p)
      <3>1. proc'[p].pc \in {"use", "relock"} /\ Others
        BY <2>5, <2>a, <2>g DEF Wait, NotPublished
      <3> QED BY <1>0, <2>0, <2>5, <3>1, LockMove DEF Wait, Building, Others
    <2>6. CASE Relock(p)
      <3>1. \/ LockFree /\ lock' = p /\ proc'[p].pc = "recheck"
            \/ lock' = lock /\ proc'[p].pc = "fallback"
        BY <2>6, <2>g DEF Relock
      <3>2. Others /\ tmp' = tmp /\ files' = files /\ proc[p].pc = "relock"
        BY <2>6, <2>g DEF Relock
      <3> QED BY <1>0, <2>0, <3>1, <3>2, LockMove DEF LockFree, Building, Others
    <2>7. CASE Recheck(p)
      <3>0. lock = p /\ p \notin tmp
        BY <2>0, <2>7 DEF Recheck, Building
      <3>1. CASE Attach(p) /\ RemoveOldGenerations(p) /\ lock' = NoProc
        <4>1. proc'[p].pc = "use" /\ Others
          BY <3>1, <2>a
        <4> QED BY <1>0, <3>0, <3>1, <4>1, LockMove DEF RemoveOldGenerations, Building, Others
      <3>2. CASE NotPublished(p, "load") /\ UNCHANGED <<files, tmp, lock>>
        <4>1. proc'[p].pc = "load" /\ proc'[p].key = proc[p].key /\ Others
          BY <3>2, <2>g DEF NotPublished
        <4>2. ~Published(p)'
          BY <3>2, <4>1 DEF NotPublished, Published, HasKey
        <4> QED BY <1>0, <3>0, <3>2, <4>1, <4>2, LockMove DEF Building, Others
      <3> QED BY <2>7, <3>1, <3>2 DEF Recheck
    <2>8. CASE Load(p) \/ Create(p) \/ Sync(p)
      <3>0. /\ proc[p].pc \in {"load", "create", "sync"} /\ lock = p /\ ~Published(p)
            /\ lock' = lock /\ files' = files
        BY <2>0, <2>8 DEF Load, Create, Sync, Building
      <3>1. /\ proc'[p].key = proc[p].key /\ Others
            /\ \/ proc'[p].pc = "create" /\ proc[p].pc = "load" /\ tmp' = tmp
               \/ proc'[p].pc = "sync" /\ tmp' = tmp \cup {p}
               \/ proc'[p].pc = "rename" /\ tmp' = tmp
        <4>1. CASE Load(p)
          BY <1>0, <4>1 DEF Load, ProcType, Others
        <4>2. CASE Create(p)
          BY <4>2, <2>g DEF Create
        <4>3. CASE Sync(p)
          BY <4>3, <2>g DEF Sync
        <4> QED BY <2>8, <4>1, <4>2, <4>3
      <3>2. ~Published(p)'
        BY <3>0, <3>1 DEF Published, HasKey
      <3> QED BY <1>0, <2>0, <3>0, <3>1, <3>2, LockMove DEF Building, Others
    <2>9. CASE Rename(p)
      <3>1. /\ lock = p /\ lock' = lock /\ tmp' = tmp \ {p} /\ proc'[p].pc = "clean" /\ Others
        BY <2>0, <2>9, <2>g DEF Rename, Building
      <3> QED BY <1>0, <3>1, LockMove DEF Building, Others
    <2>10. CASE WriteFail(p) \/ Clean(p)
      <3>1. /\ lock = p /\ lock' = NoProc /\ tmp' \subseteq tmp \ {p} /\ files' \subseteq files
            /\ proc'[p].pc \in {"fallback", "mapown"} /\ Others
        BY <2>0, <2>10, <2>g DEF WriteFail, Clean, RemoveOldGenerations, Building
      <3> QED BY <1>0, <3>1, LockMove DEF Building, Others
    <2>11. CASE MapOwn(p)
      <3>1. proc'[p].pc \in {"use", "fallback"} /\ Others
        BY <2>11, <2>a, <2>g DEF MapOwn, NotPublished
      <3> QED BY <1>0, <2>0, <2>11, <3>1, LockMove DEF MapOwn, Building, Others
    <2>12. CASE Fallback(p)
      <3>1. proc'[p].pc = "use" /\ Others
        BY <1>0, <2>12 DEF Fallback, ProcType, Others
      <3> QED BY <1>0, <2>0, <2>12, <3>1, LockMove DEF Fallback, Building, Others
    <2> QED BY <1>5, <2>1, <2>2, <2>3, <2>4, <2>5, <2>6, <2>7, <2>8, <2>9, <2>10, <2>11, <2>12
            DEF AttachStep
  <1>6. ASSUME NEW p \in Procs,
               \/ ScanBegin(p) \/ ScanEnd(p) \/ VacuumBegin(p) \/ VacuumLock(p)
               \/ VacuumMark(p) \/ VacuumFinish(p)
        PROVE  LockInv'
    <2>1. /\ proc[p].pc \notin Building /\ UNCHANGED <<files, tmp, lock>>
          /\ proc'[p].pc \in {"idle", "find", "vlock", "vmark", "use"}
          /\ \A q \in Procs \ {p} : proc'[q] = proc[q]
      <3>1. CASE ScanBegin(p) \/ VacuumBegin(p)
        BY <1>0, <3>1, StartFacts DEF ScanBegin, VacuumBegin, Building, TypeOK
      <3>2. CASE ScanEnd(p) \/ VacuumFinish(p)
        BY <1>0, <3>2, IdleType DEF ScanEnd, VacuumFinish, Finish, Building
      <3>3. CASE VacuumLock(p)
        BY <1>0, <3>3 DEF VacuumLock, Building, ProcType
      <3>4. CASE VacuumMark(p)
        BY <1>0, <3>4 DEF VacuumMark, Building, ProcType
      <3> QED BY <1>6, <3>1, <3>2, <3>3, <3>4
    <2>2. lock # p /\ p \notin tmp
      BY <2>1 DEF LockInv, Building
    <2> QED BY <1>0, <2>1, <2>2, LockMove DEF Building
  <1>7. ASSUME NEW p \in Procs, ScanAbort(p) PROVE LockInv'
    <2>1. /\ proc'[p].pc = "idle" /\ files' = files /\ tmp' = tmp \ {p}
          /\ lock' = IF lock = p THEN NoProc ELSE lock
          /\ \A q \in Procs \ {p} : proc'[q] = proc[q]
      BY <1>0, <1>7, IdleType DEF ScanAbort
    <2> QED BY <1>0, <2>1, LockMove DEF Building
  <1> QED BY <1>1, <1>2, <1>3, <1>4, <1>5, <1>6, <1>7 DEF Next

\* The fcntl lock makes builders exclusive (GetSharedMap).
THEOREM LockInvHolds == Spec => []LockInv
  <1>1. Init => LockInv
    BY NoProcAssumption, IdleType DEF Init, LockInv, Building
  <1>2. Inv => TypeOK
    BY DEF Inv
  <1> QED BY <1>1, <1>2, LockStep, CacheInvHolds, PTL DEF Spec

\* No rename replaces a published file.
THEOREM FilesAreNeverReplaced == Spec => FilesNeverReplaced
  <1>1. LockInv /\ [Next]_vars =>
          [\A p \in Procs : proc[p].pc = "rename" /\ proc'[p].pc = "clean" => ~Published(p)]_vars
    BY DEF LockInv
  <1> QED BY <1>1, LockInvHolds, PTL DEF Spec, FilesNeverReplaced

\* RemoveOldGenerations never unlinks the temporary file of another build.
THEOREM BuildsKeepTheirFiles == Spec => BuildsKeepTheirFile
  <1>1. LockInv /\ TypeOK =>
          [\A p \in Procs : proc[p].pc \in {"recheck", "clean"} /\ proc'[p].pc \in {"use", "mapown"} =>
             tmp \ {p} \subseteq tmp']_vars
    <2> SUFFICES ASSUME LockInv, TypeOK, NEW p \in Procs, proc[p].pc \in {"recheck", "clean"},
                        NEW q \in tmp \ {p}
                 PROVE  FALSE
      OBVIOUS
    <2>1. q \in Procs /\ lock = q /\ lock = p
      BY DEF LockInv, TypeOK, Building
    <2> QED BY <2>1
  <1>2. Inv => TypeOK
    BY DEF Inv
  <1> QED BY <1>1, <1>2, LockInvHolds, CacheInvHolds, PTL DEF Spec, BuildsKeepTheirFile

=============================================================================

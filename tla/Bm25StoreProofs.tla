-------------------------- MODULE Bm25StoreProofs --------------------------
(***************************************************************************)
(* Proofs about the BM25 store: the invariant Inv of Bm25Store is          *)
(* inductive, and what the runs check of the store follows from it.        *)
(***************************************************************************)
EXTENDS Bm25Store, OrderLemmas

(***************************************************************************)
(* Chains.                                                                 *)
(***************************************************************************)

\* The tail of a chain is its last page.
LEMMA TailIsLast ==
    ASSUME page \in Seq(Page), NEW b \in Blocks
    PROVE  /\ TailBlk(b) \in Chain(page, b)
           /\ TailBlk(b) \in Blocks /\ TailBlk(b) >= b
           /\ page[TailBlk(b)].head = page[b].head
           /\ \A y \in Chain(page, b) : y <= TailBlk(b)
  <1>1. Len(page) \in Nat /\ b \in 1..Len(page)
    BY DEF Blocks
  <1>2. Chain(page, b) \in SUBSET (1..Len(page)) /\ b \in Chain(page, b)
    BY <1>1 DEF Chain, Invalid
  <1>3. \E x \in Chain(page, b) : \A y \in Chain(page, b) : y <= x
    BY <1>1, <1>2, GreatestExists
  <1>4. TailBlk(b) \in Chain(page, b) /\ \A y \in Chain(page, b) : y <= TailBlk(b)
    BY <1>3 DEF TailBlk
  <1> QED BY <1>1, <1>4 DEF Chain, Blocks

\* Following the link of a page leaves exactly that page of the chain behind.
LEMMA NextIsRest ==
    ASSUME page \in Seq(Page), NEW b \in Blocks
    PROVE  /\ NextBlk(b) = Invalid => Items(page, b) = page[b].data
           /\ NextBlk(b) # Invalid =>
                /\ NextBlk(b) \in Blocks /\ page[NextBlk(b)].head = page[b].head
                /\ Items(page, b) = page[b].data \cup Items(page, NextBlk(b))
  <1> DEFINE later == Chain(page, b) \ {b}
  <1>1. Len(page) \in Nat /\ b \in 1..Len(page)
    BY DEF Blocks
  <1>2. Chain(page, b) \in SUBSET (1..Len(page)) /\ b \in Chain(page, b)
    BY <1>1 DEF Chain, Invalid
  <1>3. CASE later = {}
    <2>1. NextBlk(b) = Invalid
      BY <1>3 DEF NextBlk
    <2>2. Chain(page, b) = {b}
      BY <1>2, <1>3
    <2> QED BY <2>1, <2>2 DEF Items
  <1>4. CASE later # {}
    <2>0. later \in SUBSET Nat
      BY <1>1, <1>2
    <2>1. PICK x \in later : \A y \in later : x <= y
      BY <2>0, <1>4, LeastExists
    <2>2. NextBlk(b) \in later /\ \A y \in later : NextBlk(b) <= y
      BY <1>4, <2>1 DEF NextBlk
    <2> DEFINE n == NextBlk(b)
    <2>3. n \in 1..Len(page) /\ n >= b /\ n # b /\ page[n].head = page[b].head /\ n # Invalid
      BY <1>1, <2>2 DEF Chain, Invalid
    <2>4. Chain(page, b) = {b} \cup Chain(page, n)
      <3> HIDE DEF n
      <3>0. \A y \in later : n <= y
        BY <2>2 DEF n
      <3>1. ASSUME NEW y \in Chain(page, b), y # b PROVE y \in Chain(page, n)
        <4>1. y \in later
          BY <3>1
        <4> QED BY <4>1, <2>3, <3>0, <1>1 DEF Chain
      <3>2. ASSUME NEW y \in Chain(page, n) PROVE y \in Chain(page, b)
        BY <2>3, <1>1 DEF Chain, Invalid
      <3> QED BY <1>2, <3>1, <3>2
    <2> QED BY <2>3, <2>4 DEF Items, Blocks
  <1> QED BY <1>3, <1>4

(***************************************************************************)
(* How pages change.  Every step leaves the pages alone, or adds one tuple *)
(* to the chain with first page H, or starts a chain with a new page.      *)
(***************************************************************************)

HeadsOk(pg) ==
    \A x \in 1..Len(pg) : pg[x].head \in 1..x /\ pg[pg[x].head].kind = pg[x].kind
Grows(pg, pg2, H, it) ==
    /\ Len(pg2) \in {Len(pg), Len(pg) + 1}
    /\ \A x \in 1..Len(pg) :
         /\ pg2[x].kind = pg[x].kind /\ pg2[x].head = pg[x].head
         /\ \/ pg2[x].data = pg[x].data
            \/ /\ pg[x].head = H /\ pg[x].kind \in {"delta", "term"}
               /\ pg2[x].data = pg[x].data \cup {it}
    /\ Len(pg2) = Len(pg) + 1 =>
         \/ pg2[Len(pg) + 1].head = Len(pg) + 1
         \/ /\ H \in 1..Len(pg)
            /\ pg2[Len(pg) + 1].head = H /\ pg2[Len(pg) + 1].kind = pg[H].kind
            /\ pg2[Len(pg) + 1].data = {it}

\* Pages that do not change, and a page that starts a chain of its own.
LEMMA SamePagesGrow ==
    ASSUME NEW pg, NEW it, Len(pg) \in Nat
    PROVE  Grows(pg, pg, 0, it)
  BY DEF Grows

LEMMA NewChainGrows ==
    ASSUME page \in Seq(Page), NEW kind, NEW data, NEW it,
           page' = Append(page, NewPage(kind, Len(page) + 1, data))
    PROVE  /\ Grows(page, page', 0, it)
           /\ Len(page') = Len(page) + 1
           /\ page'[Len(page) + 1] = NewPage(kind, Len(page) + 1, data)
  BY DEF Grows, NewPage

\* PgturbohybridGraphAppendTuple adds one tuple, at or after the page it
\* starts from and in the same chain, or in a new chain.
LEMMA AppendTupleGrows ==
    ASSUME page \in Seq(Page), HeadsOk(page), NEW kind \in {"delta", "term"}, NEW item, NEW from,
           from = Invalid \/ (from \in Blocks /\ page[from].kind = kind),
           page' = AppendTuple(from, kind, item)
    PROVE  LET blk == AppendBlkno(from) IN
           /\ Grows(page, page', IF from = Invalid THEN 0 ELSE page[from].head, item)
           /\ blk \in 1..Len(page') /\ page'[blk].kind = kind /\ item \in page'[blk].data
           /\ from # Invalid => blk >= from /\ page'[blk].head = page[from].head
           /\ from = Invalid => blk = Len(page) + 1 /\ page'[blk].head = blk /\ page'[blk].data = {item}
           /\ kind = "delta" /\ item \in DocTuple => page' \in Seq(Page)
           /\ kind = "term" /\ item \in Posting => page' \in Seq(Page)
  <1> DEFINE H == IF from = Invalid THEN 0 ELSE page[from].head
  <1>0. Len(page) \in Nat /\ \A x \in 1..Len(page) : page[x] \in Page
    OBVIOUS
  <1>1. CASE Fits(from)
    <2> DEFINE T == TailBlk(from)
    <2>1. from \in Blocks /\ from # Invalid
      BY <1>1 DEF Fits
    <2>2. T \in 1..Len(page) /\ T >= from /\ page[T].head = page[from].head
      BY <2>1, TailIsLast DEF Blocks
    <2>3. page[T].kind = kind
      BY <2>1, <2>2 DEF HeadsOk, Blocks
    <2>4. page' = [page EXCEPT ![T].data = @ \cup {item}] /\ AppendBlkno(from) = T
      BY <1>1 DEF AppendTuple, AppendBlkno
    <2> HIDE DEF T
    <2>5. Len(page') = Len(page) /\ \A x \in 1..Len(page) : x # T => page'[x] = page[x]
      BY <1>0, <2>4
    <2>6a. page[T] \in Page
      BY <1>0, <2>2
    <2>6b. page'[T] = [page[T] EXCEPT !.data = @ \cup {item}]
      <3>1. T \in DOMAIN page
        BY <2>2
      <3> QED BY <3>1, <2>4, Zenon
    <2>6. page[T] \in Page /\ page'[T] = [page[T] EXCEPT !.data = @ \cup {item}]
      BY <2>6a, <2>6b
    <2>7. page'[T].kind = page[T].kind /\ page'[T].head = page[T].head
          /\ page'[T].data = page[T].data \cup {item}
      BY <2>6 DEF Page
    <2>8. Grows(page, page', H, item)
      BY <1>0, <2>1, <2>2, <2>3, <2>5, <2>7 DEF Grows
    <2>9. kind = "delta" /\ item \in DocTuple => page'[T] \in Page
      BY <2>6, <2>3 DEF Page
    <2>10. kind = "term" /\ item \in Posting => page'[T] \in Page
      BY <2>6, <2>3 DEF Page
    <2>11. page'[T] \in Page => page' \in Seq(Page)
      BY <1>0, <2>2, <2>4, <2>6
    <2> QED BY <2>1, <2>2, <2>3, <2>4, <2>5, <2>7, <2>8, <2>9, <2>10, <2>11
  <1>2. CASE ~Fits(from)
    <2> DEFINE n == Len(page) + 1
               h == IF from = Invalid THEN n ELSE page[from].head
    <2>1. page' = Append(page, NewPage(kind, h, {item})) /\ AppendBlkno(from) = n
      BY <1>2 DEF AppendTuple, AppendBlkno
    <2>2. from # Invalid => /\ from \in 1..Len(page) /\ page[from].head \in 1..from
                            /\ page[page[from].head].kind = kind
      BY DEF HeadsOk, Blocks
    <2>3. h \in Nat
      BY <1>0, <2>2
    <2> HIDE DEF h
    <2>4. Len(page') = n /\ page'[n] = NewPage(kind, h, {item})
          /\ \A x \in 1..Len(page) : page'[x] = page[x]
      BY <1>0, <2>1
    <2>5. Grows(page, page', H, item)
      BY <1>0, <2>2, <2>4 DEF Grows, NewPage, h
    <2>6. kind = "delta" /\ item \in DocTuple => page' \in Seq(Page)
      BY <2>1, <2>3 DEF NewPage, Page
    <2>7. kind = "term" /\ item \in Posting => page' \in Seq(Page)
      BY <2>1, <2>3 DEF NewPage, Page
    <2> QED BY <1>0, <2>1, <2>2, <2>4, <2>5, <2>6, <2>7 DEF NewPage, h
  <1> QED BY <1>1, <1>2

\* A page linked to a chain does not start one.
LEMMA AppendKeepsHead ==
    ASSUME page \in Seq(Page), HeadsOk(page), NEW kind, NEW item, NEW from \in Blocks,
           page' = AppendTuple(from, kind, item), Len(page') = Len(page) + 1
    PROVE  page'[Len(page) + 1].head # Len(page) + 1
  <1>1. Len(page) \in Nat /\ from \in 1..Len(page) /\ from # Invalid
    BY DEF Blocks, Invalid
  <1>2. Fits(from) => Len(page') = Len(page)
    BY DEF AppendTuple
  <1>3. page' = Append(page, NewPage(kind, page[from].head, {item}))
    BY <1>1, <1>2 DEF AppendTuple
  <1>4. page'[Len(page) + 1].head = page[from].head /\ page[from].head \in 1..from
    BY <1>1, <1>3 DEF NewPage, HeadsOk
  <1> QED BY <1>1, <1>4

\* Chains only grow, and only the chain of H by the tuple.
LEMMA GrowsItems ==
    ASSUME NEW pg, NEW pg2, NEW H, NEW it, Len(pg) \in Nat, HeadsOk(pg), Grows(pg, pg2, H, it),
           NEW b \in 0..Len(pg)
    PROVE  /\ Chain(pg, b) \subseteq Chain(pg2, b)
           /\ Items(pg, b) \subseteq Items(pg2, b)
           /\ Items(pg2, b) \subseteq Items(pg, b) \cup {it}
           /\ (b = Invalid \/ pg[b].head # H) => Items(pg2, b) = Items(pg, b)
  <1>1. Len(pg2) \in Nat /\ Len(pg) <= Len(pg2) /\ Len(pg2) <= Len(pg) + 1
    BY DEF Grows
  <1>2. Chain(pg, b) \subseteq Chain(pg2, b)
    BY <1>1 DEF Grows, Chain, Invalid
  <1>3. ASSUME NEW d \in Items(pg, b) PROVE d \in Items(pg2, b)
    <2>1. PICK x \in Chain(pg, b) : d \in pg[x].data
      BY <1>3 DEF Items
    <2>2. d \in pg2[x].data
      BY <2>1 DEF Grows, Chain
    <2> QED BY <1>2, <2>1, <2>2 DEF Items
  <1>4. ASSUME NEW d \in Items(pg2, b), d \notin Items(pg, b)
        PROVE  d = it /\ b # Invalid /\ pg[b].head = H
    <2>1. PICK x \in Chain(pg2, b) : d \in pg2[x].data
      BY <1>4 DEF Items
    <2>2. b \in 1..Len(pg) /\ x \in 1..Len(pg2) /\ x >= b /\ pg2[x].head = pg2[b].head
          /\ pg2[b].head = pg[b].head
      BY <2>1 DEF Chain, Invalid, Grows
    <2>3. CASE x \in 1..Len(pg)
      <3>1. x \in Chain(pg, b) /\ pg[x].head = pg[b].head
        BY <2>2, <2>3 DEF Chain, Invalid, Grows
      <3>2. d \notin pg[x].data
        BY <1>4, <3>1 DEF Items
      <3> QED BY <2>1, <2>2, <2>3, <3>1, <3>2 DEF Grows, Invalid
    <2>4. CASE x \notin 1..Len(pg)
      <3>1. x = Len(pg) + 1 /\ Len(pg2) = Len(pg) + 1
        BY <1>1, <2>2, <2>4
      <3>2. pg[b].head # Len(pg) + 1
        BY <2>2 DEF HeadsOk
      <3> QED BY <2>1, <2>2, <3>1, <3>2 DEF Grows, Invalid
    <2> QED BY <2>3, <2>4
  <1> QED BY <1>2, <1>3, <1>4

(***************************************************************************)
(* Frames.  What every step does to the rows and the pages, and what       *)
(* therefore stays true of what it does not touch.                         *)
(***************************************************************************)

NodesStep ==
    /\ Len(nodes) <= Len(nodes')
    /\ \A k \in NodeIds :
         /\ nodes'[k].doc = nodes[k].doc
         /\ nodes'[k].row = "live" => nodes[k].row = "live"
         /\ nodes[k].dead => nodes'[k].dead
         /\ nodes'[k].dead => \/ nodes[k].dead
                              \/ \A b \in Backends : query[b].pc # "idle" => k \notin query[b].snap
Frame(H, it) ==
    /\ TypeOK /\ TypeOK' /\ PagesInv /\ InsInv
    /\ NodesStep
    /\ Grows(page, page', H, it)
    /\ H # 0 => ins.pc \in {"append", "segments"} /\ it.node = ins.node

LEMMA PagesHeads ==
    ASSUME TypeOK, PagesInv
    PROVE  HeadsOk(page) /\ Len(page) \in Nat /\ page \in Seq(Page)
  BY DEF TypeOK, PagesInv, HeadsOk, Blocks

LEMMA FrameBasics ==
    ASSUME NEW H, NEW it, Frame(H, it)
    PROVE  /\ HeadsOk(page) /\ Len(page) \in Nat /\ Len(page') \in Nat /\ Len(page) <= Len(page')
           /\ Len(nodes) \in Nat /\ Len(nodes') \in Nat /\ NodeIds \subseteq NodeIds'
           /\ \A k \in NodeIds : nodes'[k].doc = nodes[k].doc /\ nodes[k].doc \in SUBSET Terms
           /\ \A x \in Blocks : page'[x].kind = page[x].kind /\ page'[x].head = page[x].head
           /\ \A x \in Blocks : page[x].kind \in {"base", "directory"} => page'[x].data = page[x].data
  <1>1. HeadsOk(page) /\ Len(page) \in Nat
    BY PagesHeads DEF Frame
  <1>2. Len(page') \in Nat /\ Len(page) <= Len(page')
    BY <1>1 DEF Frame, Grows
  <1>3. Len(nodes) \in Nat /\ Len(nodes') \in Nat /\ Len(nodes) <= Len(nodes')
    BY DEF Frame, TypeOK, NodesStep
  <1>4. NodeIds \subseteq NodeIds'
    BY <1>3 DEF NodeIds
  <1>5a. \A k \in NodeIds : nodes[k] \in Node
    BY DEF Frame, TypeOK, NodeIds
  <1>5. \A k \in NodeIds : nodes'[k].doc = nodes[k].doc /\ nodes[k].doc \in SUBSET Terms
    BY <1>5a DEF Frame, NodesStep, Node
  <1>6. \A x \in Blocks : page'[x].kind = page[x].kind /\ page'[x].head = page[x].head
    BY DEF Frame, Grows, Blocks
  <1>7. \A x \in Blocks : page[x].kind \in {"base", "directory"} => page'[x].data = page[x].data
    BY DEF Frame, Grows, Blocks
  <1> QED BY <1>1, <1>2, <1>3, <1>4, <1>5, <1>6, <1>7

\* Documents and postings stay documents and postings.
LEMMA TuplesFrame ==
    ASSUME NEW H, NEW it, Frame(H, it)
    PROVE  Docs \subseteq Docs' /\ Postings \subseteq Postings'
  <1>1. NodeIds \subseteq NodeIds' /\ \A k \in NodeIds : nodes'[k].doc = nodes[k].doc
    BY FrameBasics
  <1>2. Docs \subseteq Docs'
    BY <1>1 DEF Docs
  <1>3. Postings \subseteq Postings'
    BY <1>1 DEF Postings
  <1> QED BY <1>2, <1>3

LEMMA ChainFrame ==
    ASSUME NEW H, NEW it, Frame(H, it), NEW kind, NEW start, NEW tail,
           OnChain(page, kind, start, tail)
    PROVE  OnChain(page', kind, start, tail)
  <1>1. start \in 0..Len(page) /\ start \in Blocks
    BY FrameBasics DEF OnChain, Blocks
  <1>2. Chain(page, start) \subseteq Chain(page', start)
    BY <1>1, FrameBasics, GrowsItems DEF Frame
  <1> QED BY <1>1, <1>2, FrameBasics DEF OnChain, Blocks

LEMMA ItemsFrame ==
    ASSUME NEW H, NEW it, Frame(H, it), NEW b \in 0..Len(page)
    PROVE  /\ Items(page, b) \subseteq Items(page', b)
           /\ Items(page', b) \subseteq Items(page, b) \cup {it}
           /\ (H = 0 \/ b = Invalid \/ page[b].head # H) => Items(page', b) = Items(page, b)
  <1>1. b # Invalid => page[b].head # 0
    BY FrameBasics DEF HeadsOk, Invalid
  <1> QED BY <1>1, FrameBasics, GrowsItems DEF Frame

LEMMA DirectoryFrame ==
    ASSUME NEW H, NEW it, Frame(H, it), NEW dir, DirectoryOk(page, dir)
    PROVE  /\ DirectoryOk(page', dir)
           /\ \A k \in Buckets :
                /\ dir[k].start \in 0..Len(page)
                /\ Items(page, dir[k].start) \subseteq Items(page', dir[k].start)
                /\ Items(page', dir[k].start) \subseteq Items(page, dir[k].start) \cup {it}
                /\ H = 0 => Items(page', dir[k].start) = Items(page, dir[k].start)
  <1>1. ASSUME NEW k \in Buckets
        PROVE  /\ dir[k].start \in 0..Len(page)
               /\ Items(page, dir[k].start) \subseteq Items(page', dir[k].start)
               /\ Items(page', dir[k].start) \subseteq Items(page, dir[k].start) \cup {it}
               /\ H = 0 => Items(page', dir[k].start) = Items(page, dir[k].start)
    <2>1. dir[k].start \in 0..Len(page)
      BY FrameBasics DEF DirectoryOk, OnChain, Invalid
    <2> QED BY <2>1, ItemsFrame
  <1>2. DirectoryOk(page', dir)
    <2> SUFFICES ASSUME NEW k \in Buckets
                 PROVE  \/ dir[k].start = Invalid /\ dir[k].tail = Invalid
                        \/ OnChain(page', "term", dir[k].start, dir[k].tail)
      BY DEF DirectoryOk
    <2> QED BY ChainFrame DEF DirectoryOk
  <1> QED BY <1>1, <1>2

\* A copy of the metadata leads to the same base, the same directory and at
\* least the same documents and postings.
LEMMA CopyFrame ==
    ASSUME NEW H, NEW it, Frame(H, it), NEW m, MetaOk(page, m)
    PROVE  /\ MetaOk(page', m)
           /\ page'[m.base].data = page[m.base].data
           /\ BaseNodes(page', m) = BaseNodes(page, m)
           /\ m.dir # Invalid => /\ page'[m.dir].data = page[m.dir].data
                                 /\ DirectoryOk(page, page[m.dir].data)
           /\ Items(page, m.start) \subseteq Items(page', m.start)
           /\ Items(page', m.start) \subseteq Items(page, m.start) \cup {it}
           /\ DeltaNodes(page, m) \subseteq DeltaNodes(page', m)
           /\ DeltaNodes(page', m) \subseteq DeltaNodes(page, m) \cup {ins.node}
           /\ SegmentNodes(page', m) \subseteq SegmentNodes(page, m) \cup {ins.node}
           /\ (H = 0 \/ m.start = Invalid) =>
                /\ Items(page', m.start) = Items(page, m.start)
                /\ DeltaNodes(page', m) = DeltaNodes(page, m)
                /\ SegmentNodes(page', m) = SegmentNodes(page, m)
  <1>1. /\ m.base \in Blocks /\ page[m.base].kind = "base"
        /\ m.start \in 0..Len(page)
        /\ m.dir # Invalid => m.dir \in Blocks /\ page[m.dir].kind = "directory"
    BY FrameBasics DEF MetaOk, Blocks, Invalid
  <1>2. MetaOk(page', m)
    BY FrameBasics DEF MetaOk, Blocks
  <1>3. page'[m.base].data = page[m.base].data /\ BaseNodes(page', m) = BaseNodes(page, m)
    BY <1>1, FrameBasics DEF BaseNodes
  <1>4. m.dir # Invalid => /\ page'[m.dir].data = page[m.dir].data
                           /\ DirectoryOk(page, page[m.dir].data)
    BY <1>1, FrameBasics DEF Frame, PagesInv
  <1>5. /\ Items(page, m.start) \subseteq Items(page', m.start)
        /\ Items(page', m.start) \subseteq Items(page, m.start) \cup {it}
        /\ (H = 0 \/ m.start = Invalid) => Items(page', m.start) = Items(page, m.start)
    BY <1>1, ItemsFrame
  <1>6. /\ DeltaNodes(page, m) \subseteq DeltaNodes(page', m)
        /\ DeltaNodes(page', m) \subseteq DeltaNodes(page, m) \cup {ins.node}
        /\ (H = 0 \/ m.start = Invalid) => DeltaNodes(page', m) = DeltaNodes(page, m)
    BY <1>5 DEF DeltaNodes, Frame
  <1>7. m.start = Invalid => m.dir = Invalid
    BY DEF MetaOk, Invalid
  <1>8. CASE m.dir = Invalid
    <2>1. SegmentNodes(page', m) = SegmentNodes(page, m)
      BY <1>8 DEF SegmentNodes
    <2> QED BY <1>2, <1>3, <1>4, <1>5, <1>6, <2>1
  <1>9. CASE m.dir # Invalid
    <2> DEFINE dir == page[m.dir].data
    <2>1. \A k \in Buckets :
            /\ Items(page', dir[k].start) \subseteq Items(page, dir[k].start) \cup {it}
            /\ H = 0 => Items(page', dir[k].start) = Items(page, dir[k].start)
      BY <1>4, <1>9, DirectoryFrame
    <2> HIDE DEF dir
    <2>2. /\ SegmentItems(page', dir) \subseteq SegmentItems(page, dir) \cup {it}
          /\ H = 0 => SegmentItems(page', dir) = SegmentItems(page, dir)
      BY <2>1 DEF SegmentItems
    <2>3. /\ SegmentNodes(page, m) = {p.node : p \in SegmentItems(page, dir)}
          /\ SegmentNodes(page', m) = {p.node : p \in SegmentItems(page', dir)}
      BY <1>4, <1>9 DEF SegmentNodes, dir
    <2>4. /\ SegmentNodes(page', m) \subseteq SegmentNodes(page, m) \cup {ins.node}
          /\ H = 0 => SegmentNodes(page', m) = SegmentNodes(page, m)
      BY <2>2, <2>3 DEF Frame
    <2> QED BY <1>2, <1>3, <1>4, <1>5, <1>6, <1>7, <1>9, <2>4
  <1> QED BY <1>8, <1>9

\* Term segments keep what they hold.
LEMMA SegmentedFrame ==
    ASSUME NEW H, NEW it, Frame(H, it), NEW dir, DirectoryOk(page, dir),
           NEW S \in SUBSET NodeIds, Segmented(page, dir, S)
    PROVE  \A k \in S : \A t \in nodes'[k].doc :
             [node |-> k, term |-> t] \in Items(page', dir[BucketNo[t]].start)
  <1> SUFFICES ASSUME NEW k \in S, NEW t \in nodes'[k].doc
               PROVE  [node |-> k, term |-> t] \in Items(page', dir[BucketNo[t]].start)
    OBVIOUS
  <1>1. t \in nodes[k].doc /\ t \in Terms
    BY FrameBasics
  <1>2. BucketNo[t] \in Buckets
    BY <1>1, BucketAssumption
  <1>3. [node |-> k, term |-> t] \in Items(page, dir[BucketNo[t]].start)
    BY <1>1 DEF Segmented
  <1> QED BY <1>2, <1>3, DirectoryFrame

LEMMA PagesFrame ==
    ASSUME NEW H, NEW it, Frame(H, it),
           H # 0 => /\ H \in Blocks /\ page[H].kind \in {"delta", "term"}
                    /\ page[H].kind = "delta" => it \in Docs'
                    /\ page[H].kind = "term" => it \in Postings',
           (Len(page') = Len(page) + 1 /\ page'[Len(page) + 1].head = Len(page) + 1) =>
             LET p == page'[Len(page) + 1] IN
             /\ p.kind \in {"base", "delta"} => p.data \subseteq Docs'
             /\ p.kind = "term" => p.data \subseteq Postings'
             /\ p.kind = "directory" => DirectoryOk(page', p.data)
    PROVE  PagesInv'
  <1> DEFINE n == Len(page) + 1
  <1> SUFFICES ASSUME NEW x \in Blocks'
               PROVE  /\ page'[x].head \in 1..x /\ page'[page'[x].head].kind = page'[x].kind
                      /\ page'[x].kind \in {"base", "delta"} => page'[x].data \subseteq Docs'
                      /\ page'[x].kind = "term" => page'[x].data \subseteq Postings'
                      /\ page'[x].kind = "directory" => DirectoryOk(page', page'[x].data)
    BY DEF PagesInv
  <1>1. CASE x \in Blocks
    <2>1. /\ page[x].head \in 1..x /\ page[page[x].head].kind = page[x].kind
          /\ page[x].head \in Blocks /\ x \in 1..Len(page)
      BY <1>1, FrameBasics DEF HeadsOk, Blocks
    <2>2. page'[x].head \in 1..x /\ page'[page'[x].head].kind = page'[x].kind
      BY <1>1, <2>1, FrameBasics
    <2>3. /\ page[x].kind \in {"base", "delta"} => page[x].data \subseteq Docs'
          /\ page[x].kind = "term" => page[x].data \subseteq Postings'
          /\ page[x].kind = "directory" => DirectoryOk(page, page[x].data)
      BY <1>1, TuplesFrame DEF Frame, PagesInv
    <2>4. page'[x].kind = page[x].kind
      BY <1>1, FrameBasics
    <2>5. CASE page'[x].data = page[x].data
      <3>1. page[x].kind = "directory" => DirectoryOk(page', page[x].data)
        BY <2>3, DirectoryFrame
      <3> QED BY <2>2, <2>3, <2>4, <2>5, <3>1
    <2>6. CASE page'[x].data # page[x].data
      <3>1. /\ page[x].head = H /\ page[x].kind \in {"delta", "term"}
            /\ page'[x].data = page[x].data \cup {it}
        BY <2>1, <2>6 DEF Frame, Grows
      <3>2. H # 0 /\ page[H].kind = page[x].kind
        BY <2>1, <3>1
      <3> QED BY <2>2, <2>3, <2>4, <3>1, <3>2
    <2> QED BY <2>5, <2>6
  <1>2. CASE x \notin Blocks
    <2>1. x = n /\ Len(page') = n
      BY <1>2, FrameBasics DEF Blocks, Frame, Grows
    <2>2. CASE page'[n].head = n
      <3>1. n \in 1..n
        BY FrameBasics
      <3> QED BY <2>1, <2>2, <3>1
    <2>3. CASE page'[n].head # n
      <3>1. /\ H \in 1..Len(page) /\ page'[n].head = H
            /\ page'[n].kind = page[H].kind /\ page'[n].data = {it}
        BY <2>1, <2>3 DEF Frame, Grows
      <3>2. H # 0 /\ H \in Blocks /\ page'[H].kind = page[H].kind /\ H \in 1..n
        BY <3>1, FrameBasics DEF Blocks
      <3> QED BY <2>1, <3>1, <3>2
    <2> QED BY <2>2, <2>3
  <1> QED BY <1>1, <1>2

\* The nodes of published documents that m leads to stay the same.
LEMMA PublishedFrame ==
    ASSUME NEW H, NEW it, Frame(H, it), NEW m, MetaOk(page, m), NEW S, ins.pc # "idle" => ins.node \notin S
    PROVE  S \cap DeltaNodes(page', m) = S \cap DeltaNodes(page, m)
  <1>1. CASE H = 0
    BY <1>1, CopyFrame
  <1>2. CASE H # 0
    <2>1. ins.node \notin S
      BY <1>2 DEF Frame
    <2> QED BY <2>1, CopyFrame
  <1> QED BY <1>1, <1>2

LEMMA MetaFrame ==
    ASSUME NEW H, NEW it, Frame(H, it), NodesInv, MetaInv,
           meta' = meta, ghost'.published = ghost.published,
           H # 0 => meta.dir = Invalid \/ ins.node \in DeltaNodes(page', meta)
    PROVE  MetaInv'
  <1>1. MetaOk(page, meta)
    BY DEF MetaInv
  <1>2. MetaOk(page', meta)
    BY <1>1, CopyFrame
  <1>3. ASSUME meta.dir # Invalid
        PROVE  /\ Segmented(page, page[meta.dir].data, DeltaNodes(page, meta) \cap ghost.published)'
               /\ SegmentNodes(page', meta) \subseteq DeltaNodes(page', meta)
    <2> DEFINE dir == page[meta.dir].data
               S == DeltaNodes(page, meta) \cap ghost.published
    <2>1. DirectoryOk(page, dir) /\ page'[meta.dir].data = dir
      BY <1>1, <1>3, CopyFrame
    <2>2. S \in SUBSET NodeIds /\ Segmented(page, dir, S)
      BY <1>3 DEF MetaInv, NodesInv
    <2>3. DeltaNodes(page', meta) \cap ghost.published = S
      <3>1. ins.pc # "idle" => ins.node \notin ghost.published
        BY DEF Frame, InsInv
      <3>2. ghost.published \cap DeltaNodes(page', meta) = ghost.published \cap DeltaNodes(page, meta)
        BY <1>1, <3>1, PublishedFrame
      <3> QED BY <3>2
    <2> HIDE DEF dir, S
    <2>4. \A k \in S : \A t \in nodes'[k].doc :
             [node |-> k, term |-> t] \in Items(page', dir[BucketNo[t]].start)
      BY <2>1, <2>2, SegmentedFrame
    <2>5. Segmented(page, page[meta.dir].data, DeltaNodes(page, meta) \cap ghost.published)'
      BY <2>1, <2>3, <2>4 DEF Segmented
    <2>6. SegmentNodes(page, meta) \subseteq DeltaNodes(page, meta)
      BY <1>3 DEF MetaInv
    <2>7. SegmentNodes(page', meta) \subseteq DeltaNodes(page', meta)
      BY <1>1, <1>3, <2>6, CopyFrame
    <2> QED BY <2>5, <2>7
  <1> QED BY <1>2, <1>3 DEF MetaInv

LEMMA CursorFrame ==
    ASSUME NEW H, NEW it, Frame(H, it), CursorInv, cursor' = cursor
    PROVE  CursorInv'
  BY ChainFrame DEF CursorInv

LEMMA OnceFrame ==
    ASSUME NEW H, NEW it, Frame(H, it), NEW m, MetaOk(page, m), OnceOk(page, ins, ghost.twice, m),
           ghost.twice \subseteq ghost'.twice,
           ins'.pc = "segments" => ins.pc \in {"append", "segments"} /\ ins'.node = ins.node
    PROVE  OnceOk(page', ins', ghost'.twice, m)
  <1>1. BaseNodes(page', m) = BaseNodes(page, m)
    BY CopyFrame
  <1>2. ins.pc = "append" => ins.node \notin BaseNodes(page, m)
    <2>1. m.base \in Blocks /\ page[m.base].kind = "base"
      BY DEF MetaOk, Blocks
    <2> QED BY <2>1 DEF BaseNodes, Frame, InsInv
  <1>3. ins'.pc = "segments" /\ ins'.node \in BaseNodes(page, m) => m.start = Invalid /\ m.dir = Invalid
    BY <1>2 DEF OnceOk
  <1>4. CASE H = 0 \/ m.start = Invalid
    <2>1. DeltaNodes(page', m) = DeltaNodes(page, m) /\ SegmentNodes(page', m) = SegmentNodes(page, m)
      BY <1>4, CopyFrame
    <2> QED BY <1>1, <1>3, <2>1 DEF OnceOk
  <1>5. CASE H # 0 /\ m.start # Invalid
    <2>1. ins.pc \in {"append", "segments"}
      BY <1>5 DEF Frame
    <2>2. ins.node \notin BaseNodes(page, m)
      BY <1>2, <1>5, <2>1 DEF OnceOk
    <2>3. /\ DeltaNodes(page', m) \subseteq DeltaNodes(page, m) \cup {ins.node}
          /\ SegmentNodes(page', m) \subseteq SegmentNodes(page, m) \cup {ins.node}
      BY CopyFrame
    <2> QED BY <1>1, <1>3, <2>2, <2>3 DEF OnceOk
  <1> QED BY <1>4, <1>5

LEMMA VacFrame ==
    ASSUME NEW H, NEW it, Frame(H, it), NodesInv, VacInv, vac' = vac,
           ghost'.published \ (ghost'.since \cup ghost'.lost)
             \subseteq ghost.published \ (ghost.since \cup ghost.lost)
    PROVE  VacInv'
  <1>1. MustKeep' \subseteq MustKeep
    <2> SUFFICES ASSUME NEW k \in MustKeep' PROVE k \in MustKeep
      OBVIOUS
    <2>1. /\ k \in ghost.published \ (ghost.since \cup ghost.lost)
          /\ nodes'[k].row = "live" /\ nodes'[k].doc # {}
      BY DEF MustKeep
    <2>2. k \in NodeIds
      BY <2>1 DEF NodesInv
    <2> QED BY <2>1, <2>2 DEF MustKeep, Frame, NodesStep
  <1>2. vac.pc \in {"base", "delta", "write", "publish"} =>
          /\ MetaOk(page, vac.m) /\ MetaOk(page', vac.m)
          /\ BaseNodes(page', vac.m) = BaseNodes(page, vac.m)
          /\ DeltaNodes(page, vac.m) \subseteq DeltaNodes(page', vac.m)
    BY CopyFrame DEF VacInv
  <1>3. Docs \subseteq Docs'
    BY TuplesFrame
  <1>4. vac.pc = "delta" => /\ vac.at \in Blocks' /\ page'[vac.at].kind = "delta"
                            /\ Items(page, vac.at) \subseteq Items(page', vac.at)
    <2> SUFFICES ASSUME vac.pc = "delta"
                 PROVE  /\ vac.at \in Blocks' /\ page'[vac.at].kind = "delta"
                        /\ Items(page, vac.at) \subseteq Items(page', vac.at)
      OBVIOUS
    <2>1. vac.at \in Blocks /\ page[vac.at].kind = "delta"
      BY DEF VacInv
    <2>2. vac.at \in 0..Len(page) /\ vac.at \in Blocks'
      BY <2>1, FrameBasics DEF Blocks
    <2>3. Items(page, vac.at) \subseteq Items(page', vac.at)
      BY <2>2, ItemsFrame
    <2> QED BY <2>1, <2>2, <2>3, FrameBasics
  <1>5. vac.pc = "publish" => /\ vac.base \in Blocks' /\ page'[vac.base].kind = "base"
                              /\ page'[vac.base].data = vac.docs
    BY FrameBasics DEF VacInv, Blocks
  <1>6. vac.pc = "base" =>
          MustKeep' \subseteq BaseNodes(page', vac.m) \cup DeltaNodes(page', vac.m)
    BY <1>1, <1>2 DEF VacInv
  <1>7. vac.pc = "delta" =>
          /\ MustKeep' \subseteq {d.node : d \in vac.docs \cup Items(page', vac.at)}
          /\ MustKeep' \subseteq vac.live
    BY <1>1, <1>4 DEF VacInv
  <1>8. vac.pc \in {"write", "publish"} => MustKeep' \subseteq {d.node : d \in vac.docs}
    BY <1>1 DEF VacInv
  <1>9. vac.pc \in {"delta", "write", "publish"} => vac.docs \subseteq Docs'
    BY <1>3 DEF VacInv
  <1>10. vac.pc = "base" => vac.m.start # Invalid
    BY DEF VacInv
  <1> QED BY <1>2, <1>4, <1>5, <1>6, <1>7, <1>8, <1>9, <1>10 DEF VacInv

LEMMA StoreFrame ==
    ASSUME NEW H, NEW it, Frame(H, it), NodesInv, MetaInv, StoreComplete, CountsAgree,
           meta' = meta, ghost'.published = ghost.published, ghost'.twice = ghost.twice,
           ghost.lost \subseteq ghost'.lost
    PROVE  StoreComplete' /\ CountsAgree'
  <1>1. MetaOk(page, meta) /\ ghost.published \subseteq NodeIds
    BY DEF MetaInv, NodesInv
  <1>2. page'[meta.base].data = page[meta.base].data
    BY <1>1, CopyFrame
  <1>3. InBase = BaseNodes(page, meta) /\ InDelta = DeltaNodes(page, meta)
    BY DEF InBase, InDelta, BaseNodes, DeltaNodes
  <1>4. InBase' = BaseNodes(page', meta) /\ InDelta' = DeltaNodes(page', meta)
    BY DEF InBase, InDelta, BaseNodes, DeltaNodes
  <1>5. InBase' = InBase /\ InDelta \subseteq InDelta'
    BY <1>1, <1>3, <1>4, CopyFrame
  <1>6. InDelta' \cap ghost.published = InDelta \cap ghost.published
    <2>1. ins.pc # "idle" => ins.node \notin ghost.published
      BY DEF Frame, InsInv
    <2>2. ghost.published \cap DeltaNodes(page', meta) = ghost.published \cap DeltaNodes(page, meta)
      BY <1>1, <2>1, PublishedFrame
    <2> QED BY <1>3, <1>4, <2>2
  <1>7. StoreComplete'
    <2> SUFFICES ASSUME NEW k \in ghost'.published \ ghost'.lost,
                        nodes'[k].row = "live", nodes'[k].doc # {}
                 PROVE  k \in InBase' \cup InDelta'
      BY DEF StoreComplete
    <2>1. k \in NodeIds /\ k \in ghost.published \ ghost.lost
      BY <1>1
    <2>2. nodes[k].row = "live" /\ nodes[k].doc # {}
      BY <2>1 DEF Frame, NodesStep
    <2> QED BY <1>5, <2>1, <2>2 DEF StoreComplete
  <1>8. CountsAgree'
    BY <1>2, <1>6 DEF CountsAgree
  <1> QED BY <1>7, <1>8

\* A cache that is valid has all its parts.
LEMMA ValidCache ==
    ASSUME NEW c \in CacheState, c.valid
    PROVE  c \in CacheLoaded
  <1>1. NoCache.valid = FALSE
    BY DEF NoCache
  <1>2. c # NoCache
    BY <1>1
  <1> QED BY <1>2 DEF CacheState

\* A cache keeps its content; a new directory or an empty delta is no cache's
\* key, or asks nothing of it.
LEMMA CacheFrame ==
    ASSUME NEW H, NEW it, Frame(H, it), NodesInv, MetaInv, NEW b \in Backends, CacheOk(b),
           cache'[b] = cache[b],
           \/ meta' = meta /\ ghost'.published = ghost.published
           \/ meta'.start = Invalid
           \/ meta'.dir \notin 0..Len(page)
    PROVE  CacheOk(b)'
  <1> DEFINE c == cache[b]
  <1> SUFFICES ASSUME c.valid PROVE CacheOk(b)'
    BY DEF CacheOk
  <1>1. /\ MetaOk(page, c.m) /\ c.lexicon = page[c.m.base].data /\ c.count <= Len(nodes)
        /\ c.built => c.loaded
        /\ c.loaded => \A k \in 1..c.count : nodes[k].dead \/ k \in c.live
    BY DEF CacheOk
  <1>2. c \in CacheState
    BY DEF Frame, TypeOK
  <1>3. c.count \in Nat
    BY <1>2, ValidCache DEF CacheLoaded
  <1>4. MetaOk(page', c.m) /\ c.lexicon = page'[c.m.base].data
        /\ DeltaNodes(page, c.m) \subseteq DeltaNodes(page', c.m)
    BY <1>1, CopyFrame
  <1>5. c.count <= Len(nodes') /\ 1..c.count \subseteq NodeIds
    BY <1>1, <1>3, FrameBasics DEF Frame, NodesStep, NodeIds
  <1>6. c.loaded => \A k \in 1..c.count : nodes'[k].dead \/ k \in c.live
    BY <1>1, <1>5 DEF Frame, NodesStep
  <1>7. ASSUME c.built
        PROVE  c.delta \subseteq {p \in Postings' : p.node \in DeltaNodes(page', c.m)}
    <2>1. c.delta \subseteq {p \in Postings : p.node \in DeltaNodes(page, c.m)}
      BY <1>7 DEF CacheOk
    <2> QED BY <1>4, <2>1, TuplesFrame
  <1>8. ASSUME c.built, SameKey(c.m, meta'),
               NEW k \in DeltaNodes(page', meta') \cap ghost'.published, ~nodes'[k].dead,
               k <= c.count, NEW t \in nodes'[k].doc
        PROVE  [node |-> k, term |-> t] \in c.delta
    <2>1. CASE meta' = meta /\ ghost'.published = ghost.published
      <3>1. MetaOk(page, meta) /\ ghost.published \subseteq NodeIds
        BY DEF MetaInv, NodesInv
      <3>2. ins.pc # "idle" => ins.node \notin ghost.published
        BY DEF Frame, InsInv
      <3>3. k \in DeltaNodes(page, meta) \cap ghost.published
        BY <1>8, <2>1, <3>1, <3>2, PublishedFrame
      <3>4. ~nodes[k].dead /\ t \in nodes[k].doc
        BY <1>8, <3>1, <3>3, FrameBasics DEF Frame, NodesStep
      <3>5. Covers(c, {j \in DeltaNodes(page, meta) \cap ghost.published : ~nodes[j].dead})
        BY <1>8, <2>1 DEF CacheOk
      <3> QED BY <1>8, <3>3, <3>4, <3>5 DEF Covers
    <2>2. CASE meta'.start = Invalid
      <3>1. DeltaNodes(page', meta') = {}
        BY <2>2 DEF DeltaNodes, Items, Chain
      <3> QED BY <1>8, <3>1
    <2>3. CASE meta'.dir \notin 0..Len(page)
      <3>1. c.m.dir \in 0..Len(page)
        BY <1>1, FrameBasics DEF MetaOk, Invalid
      <3> QED BY <1>8, <2>3, <3>1 DEF SameKey
    <2> QED BY <2>1, <2>2, <2>3
  <1>9. cache'[b] = c
    OBVIOUS
  <1> HIDE DEF c
  <1> QED BY <1>1, <1>4, <1>5, <1>6, <1>7, <1>8, <1>9 DEF CacheOk, Covers

\* A running query keeps what it found and what it still relies on.
LEMMA QueryFrame ==
    ASSUME NEW H, NEW it, Frame(H, it), NodesInv, NEW b \in Backends, QueryOk(b),
           query'[b] = query[b], cache'[b] = cache[b] \/ query[b].pc = "idle",
           ghost.published \subseteq ghost'.published, ghost.twice \subseteq ghost'.twice,
           ins'.pc = "segments" => ins.pc \in {"append", "segments"} /\ ins'.node = ins.node
    PROVE  QueryOk(b)'
  <1> DEFINE q == query[b]
             c == cache[b]
  <1>1. CASE q.pc = "idle"
    BY <1>1 DEF QueryOk
  <1>2. CASE q.pc # "idle"
    <2>1. /\ q.must \subseteq {k \in ghost.published \cap q.snap : ~nodes[k].dead}
          /\ MetaOk(page, q.m)
          /\ OnceOk(page, ins, ghost.twice, q.m)
          /\ \A k \in q.must :
               nodes[k].doc # {} => k \in BaseNodes(page, q.m) \cup DeltaNodes(page, q.m)
          /\ q.m.dir # Invalid =>
               Segmented(page, page[q.m.dir].data, q.must \cap DeltaNodes(page, q.m))
      BY <1>2 DEF QueryOk
    <2>2. q.must \subseteq NodeIds /\ (ins.pc # "idle" => ins.node \notin q.must)
      BY <2>1 DEF NodesInv, Frame, InsInv
    <2>3. q.must \subseteq {k \in ghost'.published \cap q.snap : ~nodes'[k].dead}
      BY <1>2, <2>1, <2>2 DEF Frame, NodesStep
    <2>4. MetaOk(page', q.m) /\ OnceOk(page', ins', ghost'.twice, q.m)
      BY <2>1, CopyFrame, OnceFrame
    <2>5. /\ BaseNodes(page', q.m) = BaseNodes(page, q.m)
          /\ DeltaNodes(page, q.m) \subseteq DeltaNodes(page', q.m)
      BY <2>1, CopyFrame
    <2>6. \A k \in q.must :
            nodes'[k].doc # {} => k \in BaseNodes(page', q.m) \cup DeltaNodes(page', q.m)
      BY <2>1, <2>2, <2>5, FrameBasics
    <2>7. q.must \cap DeltaNodes(page', q.m) = q.must \cap DeltaNodes(page, q.m)
      BY <2>1, <2>2, PublishedFrame
    <2>8. q.m.dir # Invalid =>
            \A k \in q.must \cap DeltaNodes(page', q.m) : \A t \in nodes'[k].doc :
               [node |-> k, term |-> t] \in Items(page', page'[q.m.dir].data[BucketNo[t]].start)
      <3> SUFFICES ASSUME q.m.dir # Invalid
                   PROVE  \A k \in q.must \cap DeltaNodes(page', q.m) : \A t \in nodes'[k].doc :
                            [node |-> k, term |-> t]
                               \in Items(page', page'[q.m.dir].data[BucketNo[t]].start)
        OBVIOUS
      <3> DEFINE S == q.must \cap DeltaNodes(page, q.m)
                 dir == page[q.m.dir].data
      <3>1. DirectoryOk(page, dir) /\ page'[q.m.dir].data = dir
        BY <2>1, CopyFrame
      <3>2. S \in SUBSET NodeIds /\ Segmented(page, dir, S)
        BY <2>1, <2>2
      <3>3. q.must \cap DeltaNodes(page', q.m) = S
        BY <2>7
      <3> HIDE DEF S, dir
      <3>4. \A k \in S : \A t \in nodes'[k].doc :
               [node |-> k, term |-> t] \in Items(page', dir[BucketNo[t]].start)
        BY <3>1, <3>2, SegmentedFrame
      <3> QED BY <3>1, <3>3, <3>4
    <2>9. q.m.dir # Invalid =>
            Segmented(page, page[q.m.dir].data, q.must \cap DeltaNodes(page, q.m))'
      BY <2>8 DEF Segmented
    <2>10. cache'[b] = c /\ query'[b] = q
      BY <1>2
    <2>11. (q.pc \in {"cache", "load", "delta"} /\ c.valid /\ c.built /\ SameKey(c.m, q.m)) =>
             \A k \in q.must \cap DeltaNodes(page', q.m) : k <= c.count =>
               \A t \in nodes'[k].doc : [node |-> k, term |-> t] \in c.delta
      <3>1. (q.pc \in {"cache", "load", "delta"} /\ c.valid /\ c.built /\ SameKey(c.m, q.m)) =>
              Covers(c, q.must \cap DeltaNodes(page, q.m))
        BY DEF QueryOk
      <3> QED BY <3>1, <2>2, <2>7, FrameBasics DEF Covers
    <2>12. /\ q.pc \in {"load", "delta"} => c.valid /\ SameKey(c.m, q.m) /\ q.must \subseteq 1..c.count
           /\ q.pc = "delta" => c.loaded
      BY DEF QueryOk
    <2> HIDE DEF q, c
    <2> QED BY <2>3, <2>4, <2>6, <2>8, <2>10, <2>11, <2>12 DEF QueryOk, Covers, Segmented
  <1> QED BY <1>1, <1>2

\* The answers of queries that are done stay right.
LEMMA AnswersFrame ==
    ASSUME NEW H, NEW it, Frame(H, it), NodesInv, \A b \in Backends : QueryOk(b), QueryExact,
           \A b \in Backends : query'[b] = query[b] \/ query'[b].pc # "done",
           ghost.twice \subseteq ghost'.twice
    PROVE  QueryExact'
  <1>1. ASSUME NEW b \in Backends, query'[b].pc = "done"
        PROVE  /\ \A k \in query'[b].must, t \in query'[b].terms :
                    t \in nodes'[k].doc =>
                      [node |-> k, term |-> t] \in query'[b].base \cup query'[b].delta
               /\ \A p \in query'[b].base \cap query'[b].delta : p.node \in ghost'.twice
    <2>1. query'[b] = query[b] /\ query[b].pc = "done"
      BY <1>1
    <2>2. query[b].must \subseteq NodeIds
      BY <2>1 DEF QueryOk, NodesInv
    <2>3. \A k \in query[b].must : nodes'[k].doc = nodes[k].doc
      BY <2>2, FrameBasics
    <2>4. /\ \A k \in query[b].must, t \in query[b].terms :
                t \in nodes[k].doc => [node |-> k, term |-> t] \in query[b].base \cup query[b].delta
          /\ \A p \in query[b].base \cap query[b].delta : p.node \in ghost.twice
      BY <2>1 DEF QueryExact, QueryComplete, QueryOnce
    <2> QED BY <2>1, <2>3, <2>4
  <1> QED BY <1>1 DEF QueryExact, QueryComplete, QueryOnce

\* An insert in flight keeps what it relies on while others work.
LEMMA InsFrame ==
    ASSUME NEW it, Frame(0, it), NodesInv, MetaInv, InsChainInv,
           ins' = ins, meta' = meta, ghost'.published = ghost.published,
           ghost'.twice = ghost.twice, ghost'.compactions = ghost.compactions,
           ins.pc # "idle" => query'[ins.b].pc = "idle",
           ins.pc \in {"read", "append"} =>
             /\ Len(page') = Len(page) + 1 => \A d \in page'[Len(page) + 1].data : d.node # ins.node
             /\ vac'.pc \in {"delta", "write", "publish"} => \A d \in vac'.docs : d.node # ins.node
    PROVE  InsInv' /\ InsChainInv'
  <1>1. ins.pc # "idle" => /\ ins.node \in NodeIds \ ghost.published
                           /\ ins.todo \subseteq nodes[ins.node].doc
    BY DEF Frame, InsInv
  <1>2. ins.pc # "idle" => ins.node \in NodeIds' /\ nodes'[ins.node].doc = nodes[ins.node].doc
    BY <1>1, FrameBasics
  <1>3. InsInv'
    <2>1. ASSUME ins.pc \in {"read", "append"}, NEW x \in Blocks', page'[x].kind \in {"base", "delta"},
                 NEW d \in page'[x].data
          PROVE  d.node # ins.node
      <3>1. CASE x \in Blocks
        <4>0. x \in 1..Len(page) /\ page[x].head \in 1..x
          BY <3>1, FrameBasics DEF HeadsOk, Blocks
        <4>1. page'[x].kind = page[x].kind /\ page'[x].data = page[x].data
          BY <4>0 DEF Frame, Grows
        <4> QED BY <2>1, <3>1, <4>1 DEF Frame, InsInv
      <3>2. CASE x \notin Blocks
        <4>1. x = Len(page) + 1 /\ Len(page') = Len(page) + 1
          BY <3>2, FrameBasics DEF Blocks, Frame, Grows
        <4> QED BY <2>1, <4>1
      <3> QED BY <3>1, <3>2
    <2>2. ins.pc \in {"read", "append"} => ins.todo = nodes[ins.node].doc
      BY DEF Frame, InsInv
    <2> QED BY <1>1, <1>2, <2>1, <2>2 DEF InsInv
  <1>4. InsChainInv'
    <2> SUFFICES ASSUME InsRunning PROVE InsChainInv'
      BY DEF InsChainInv, InsRunning
    <2>1. /\ meta.start \in {Invalid, ins.start} /\ ins.seen <= ghost.compactions
          /\ DirectoryOk(page, ins.dir)
          /\ \/ /\ ins.pc = "append" /\ ins.start = Invalid /\ ins.at.tail = Invalid
                /\ \A k \in Buckets : ins.dir[k].start = Invalid
             \/ OnChain(page, "delta", ins.start, ins.at.tail)
          /\ Segmented(page, ins.dir, DeltaNodes(page, ins) \cap ghost.published)
          /\ {p.node : p \in SegmentItems(page, ins.dir)} \subseteq DeltaNodes(page, ins)
      BY DEF InsChainInv
    <2>2. ins.start \in 0..Len(page)
      BY <2>1, FrameBasics DEF OnChain, Invalid
    <2>3. DeltaNodes(page', ins) = DeltaNodes(page, ins)
      BY <2>2, ItemsFrame DEF DeltaNodes
    <2>4. DirectoryOk(page', ins.dir)
          /\ \A k \in Buckets : Items(page', ins.dir[k].start) = Items(page, ins.dir[k].start)
      BY <2>1, DirectoryFrame
    <2>5. SegmentItems(page', ins.dir) = SegmentItems(page, ins.dir)
      BY <2>4 DEF SegmentItems
    <2>6. BaseNodes(page', meta) = BaseNodes(page, meta)
      BY CopyFrame DEF MetaInv
    <2>7. OnChain(page, "delta", ins.start, ins.at.tail) => OnChain(page', "delta", ins.start, ins.at.tail)
      BY ChainFrame
    <2>8. \A k \in DeltaNodes(page, ins) \cap ghost.published : \A t \in nodes'[k].doc :
             [node |-> k, term |-> t] \in Items(page', ins.dir[BucketNo[t]].start)
      <3>1. DeltaNodes(page, ins) \cap ghost.published \in SUBSET NodeIds
        BY DEF NodesInv
      <3> QED BY <2>1, <3>1, SegmentedFrame
    <2>9. ins.pc = "segments" =>
            /\ ins.node \in DeltaNodes(page, ins)
            /\ \A t \in nodes[ins.node].doc \ ins.todo :
                 [node |-> ins.node, term |-> t] \in Items(page, ins.dir[BucketNo[t]].start)
      BY DEF InsChainInv, InsRunning
    <2>10. ins.pc = "segments" =>
            \A t \in nodes'[ins.node].doc \ ins.todo :
                 [node |-> ins.node, term |-> t] \in Items(page', ins.dir[BucketNo[t]].start)
      <3> SUFFICES ASSUME ins.pc = "segments", NEW t \in nodes'[ins.node].doc \ ins.todo
                   PROVE  [node |-> ins.node, term |-> t] \in Items(page', ins.dir[BucketNo[t]].start)
        OBVIOUS
      <3>1. t \in nodes[ins.node].doc /\ t \in Terms
        BY <1>1, <1>2, FrameBasics
      <3>2. BucketNo[t] \in Buckets
        BY <3>1, BucketAssumption
      <3> QED BY <2>4, <2>9, <3>1, <3>2
    <2>11. ins.seen = ghost.compactions =>
             /\ BaseNodes(page, meta) \cap DeltaNodes(page, ins) \subseteq ghost.twice
             /\ meta.start # ins.start => DeltaNodes(page, ins) \cap ghost.published = {}
      BY DEF InsChainInv
    <2> QED BY <2>1, <2>3, <2>4, <2>5, <2>6, <2>7, <2>8, <2>9, <2>10, <2>11 DEF InsChainInv, Segmented
  <1> QED BY <1>3, <1>4

(***************************************************************************)
(* The shape of the state of each process by its program counter.          *)
(***************************************************************************)

LEMMA InsShape ==
    ASSUME TypeOK
    PROVE  /\ ins.pc = "read" => ins \in InsReading
           /\ ins.pc \in {"append", "segments"} => ins \in InsAppending
           /\ ins.pc \in {"idle", "read", "append", "segments"}
           /\ ins.pc # "idle" => ins.b \in Backends /\ ins.node \in Nat /\ ins.todo \in SUBSET Terms
  <1>1. ins = InsIdle \/ ins \in InsReading \/ ins \in InsAppending
    BY DEF TypeOK, InsertState
  <1>2. InsIdle.pc = "idle"
    BY DEF InsIdle
  <1>3. ins \in InsReading => /\ ins.pc = "read" /\ ins.b \in Backends
                              /\ ins.node \in Nat /\ ins.todo \in SUBSET Terms
    BY DEF InsReading
  <1>4. ins \in InsAppending => /\ ins.pc \in {"append", "segments"} /\ ins.b \in Backends
                                /\ ins.node \in Nat /\ ins.todo \in SUBSET Terms
    BY DEF InsAppending
  <1> QED BY <1>1, <1>2, <1>3, <1>4

LEMMA VacShape ==
    ASSUME TypeOK
    PROVE  /\ vac.pc = "mark" => vac \in VacMarking
           /\ vac.pc = "base" => vac \in [pc : {"base"}, m : Meta]
           /\ vac.pc \in {"delta", "write"} => vac \in VacCollecting
           /\ vac.pc = "publish" => vac \in VacPublishing
           /\ vac.pc \in {"idle", "mark", "meta", "base", "delta", "write", "publish"}
  <1>1. vac \in VacuumState
    BY DEF TypeOK
  <1> QED BY <1>1 DEF VacuumState, VacMarking, VacCollecting, VacPublishing, VacIdle

LEMMA QueryShape ==
    ASSUME TypeOK, NEW b \in Backends
    PROVE  /\ query[b].pc \in {"cache", "load", "delta"} => query[b] \in QueryRunning
           /\ query[b].pc = "done" => query[b] \in QueryDone
           /\ query[b].pc \in {"idle", "cache", "load", "delta", "done"}
           /\ query[b].pc # "idle" => /\ query[b].terms \in SUBSET Terms /\ query[b].m \in Meta
                                      /\ query[b].snap \in SUBSET Nat /\ query[b].must \in SUBSET Nat
  <1>1. query[b] \in QueryState
    BY DEF TypeOK
  <1> QED BY <1>1 DEF QueryState, QueryRunning, QueryDone, QueryIdle

LEMMA CacheShape ==
    ASSUME TypeOK, NEW b \in Backends, cache[b].valid
    PROVE  cache[b] \in CacheLoaded
  <1>1. cache[b] \in CacheState
    BY DEF TypeOK
  <1> QED BY <1>1, ValidCache

\* The counters of the bounds are counted and nothing else changes.
LEMMA GhostCounts ==
    ASSUME ghost \in Ghost,
           \/ ghost' = [ghost EXCEPT !.vacuums = @ + 1]
           \/ ghost' = [ghost EXCEPT !.queries = @ + 1]
           \/ ghost' = [ghost EXCEPT !.deletes = @ + 1]
           \/ ghost' = [ghost EXCEPT !.faults = @ + 1]
    PROVE  /\ ghost' \in Ghost
           /\ ghost'.published = ghost.published /\ ghost'.twice = ghost.twice
           /\ ghost'.compactions = ghost.compactions /\ ghost'.lost = ghost.lost
           /\ ghost'.since = ghost.since
  BY DEF Ghost

LEMMA NodeShape ==
    ASSUME TypeOK
    PROVE  /\ Len(nodes) \in Nat /\ NodeIds \subseteq Nat
           /\ \A k \in NodeIds : nodes[k] \in Node /\ nodes[k].doc \in SUBSET Terms
  <1>1. nodes \in Seq(Node)
    BY DEF TypeOK
  <1>2. Len(nodes) \in Nat /\ NodeIds \subseteq Nat /\ \A k \in NodeIds : nodes[k] \in Node
    BY <1>1 DEF NodeIds
  <1> QED BY <1>2 DEF Node

LEMMA PageShape ==
    ASSUME TypeOK
    PROVE  /\ Len(page) \in Nat /\ Blocks \subseteq Nat
           /\ \A x \in Blocks : /\ page[x] \in Page
                                /\ page[x].kind \in {"base", "delta"} => page[x].data \in SUBSET DocTuple
                                /\ page[x].kind = "term" => page[x].data \in SUBSET Posting
                                /\ page[x].kind = "directory" => page[x].data \in Directory
  <1>1. page \in Seq(Page)
    BY DEF TypeOK
  <1>2. Len(page) \in Nat /\ Blocks \subseteq Nat /\ \A x \in Blocks : page[x] \in Page
    BY <1>1 DEF Blocks
  <1>3. ASSUME NEW p \in Page
        PROVE  /\ p.kind \in {"base", "delta"} => p.data \in SUBSET DocTuple
               /\ p.kind = "term" => p.data \in SUBSET Posting
               /\ p.kind = "directory" => p.data \in Directory
    BY DEF Page
  <1> QED BY <1>2, <1>3

\* The documents and postings of a chain.
LEMMA ChainItems ==
    ASSUME TypeOK, PagesInv, NEW b \in Blocks
    PROVE  /\ page[b].kind = "delta" => Items(page, b) \subseteq Docs /\ Items(page, b) \subseteq DocTuple
           /\ page[b].kind = "term" => Items(page, b) \subseteq Postings /\ Items(page, b) \subseteq Posting
  <1>1. \A x \in Chain(page, b) : x \in Blocks /\ page[x].kind = page[b].kind
    <2> TAKE x \in Chain(page, b)
    <2>1. x \in Blocks /\ page[x].head = page[b].head
      BY DEF Chain, Blocks
    <2> QED BY <2>1 DEF PagesInv
  <1>2. \A x \in Blocks : /\ page[x].kind = "delta" => page[x].data \subseteq Docs
                          /\ page[x].kind = "term" => page[x].data \subseteq Postings
    BY DEF PagesInv
  <1>3. \A x \in Blocks : /\ page[x].kind = "delta" => page[x].data \subseteq DocTuple
                          /\ page[x].kind = "term" => page[x].data \subseteq Posting
    BY PageShape
  <1> QED BY <1>1, <1>2, <1>3 DEF Items

LEMMA DeltaDocs ==
    ASSUME TypeOK, PagesInv, NEW m, MetaOk(page, m)
    PROVE  /\ Items(page, m.start) \subseteq Docs /\ Items(page, m.start) \subseteq DocTuple
           /\ page[m.base].data \subseteq Docs /\ page[m.base].data \subseteq DocTuple
           /\ DeltaNodes(page, m) \subseteq NodeIds /\ BaseNodes(page, m) \subseteq NodeIds
           /\ m.dir # Invalid => page[m.dir].data \in Directory /\ DirectoryOk(page, page[m.dir].data)
  <1>1. m.base \in Blocks /\ page[m.base].kind = "base"
    BY DEF MetaOk, Blocks
  <1>2. page[m.base].data \subseteq Docs /\ page[m.base].data \subseteq DocTuple
    BY <1>1, PageShape DEF PagesInv
  <1>3. Items(page, m.start) \subseteq Docs /\ Items(page, m.start) \subseteq DocTuple
    <2>1. CASE m.start = Invalid
      BY <2>1 DEF Items, Chain
    <2>2. CASE m.start # Invalid
      <3>1. m.start \in Blocks /\ page[m.start].kind = "delta"
        BY <2>2 DEF MetaOk, Blocks
      <3> QED BY <3>1, ChainItems
    <2> QED BY <2>1, <2>2
  <1>4. DeltaNodes(page, m) \subseteq NodeIds /\ BaseNodes(page, m) \subseteq NodeIds
    BY <1>2, <1>3 DEF DeltaNodes, BaseNodes, Docs
  <1>5. m.dir # Invalid => m.dir \in Blocks /\ page[m.dir].kind = "directory"
    BY DEF MetaOk, Blocks
  <1>6. m.dir # Invalid => page[m.dir].data \in Directory /\ DirectoryOk(page, page[m.dir].data)
    BY <1>5, PageShape DEF PagesInv
  <1> QED BY <1>2, <1>3, <1>4, <1>6

(***************************************************************************)
(* VACUUM.                                                                 *)
(***************************************************************************)

LEMMA SameStep ==
    ASSUME Inv, TypeOK', nodes' = nodes, page' = page, NEW it
    PROVE  Frame(0, it) /\ PagesInv'
  <1>1. Grows(page, page', 0, it)
    BY SamePagesGrow, PagesHeads DEF Inv
  <1>2. NodesStep
    BY NodeShape DEF NodesStep, Inv
  <1>3. PagesInv'
    BY DEF Inv, PagesInv, Blocks, Docs, Postings, NodeIds
  <1> QED BY <1>1, <1>2, <1>3 DEF Frame, Inv

LEMMA VacuumLeaves ==
    ASSUME Inv, NEW it, Frame(0, it), UNCHANGED <<meta, ins, cursor, cache, query>>,
           ghost'.published = ghost.published, ghost'.twice = ghost.twice,
           ghost'.compactions = ghost.compactions, ghost'.lost = ghost.lost,
           PagesInv', NodesInv', VacInv',
           ins.pc \in {"read", "append"} =>
             /\ Len(page') = Len(page) + 1 => \A d \in page'[Len(page) + 1].data : d.node # ins.node
             /\ vac'.pc \in {"delta", "write", "publish"} => \A d \in vac'.docs : d.node # ins.node
    PROVE  Inv'
  <1>1. TypeOK'
    BY DEF Frame
  <1>2. MetaInv'
    BY MetaFrame DEF Inv
  <1>3. ins.pc # "idle" => query'[ins.b].pc = "idle"
    BY DEF Inv, InsInv
  <1>4. InsInv' /\ InsChainInv'
    BY <1>3, InsFrame DEF Inv
  <1>5. CursorInv'
    BY CursorFrame DEF Inv
  <1>6. OnceOk(page', ins', ghost'.twice, meta')
    <2>1. MetaOk(page, meta)
      BY DEF Inv, MetaInv
    <2>2. OnceOk(page', ins', ghost'.twice, meta)
      BY <2>1, OnceFrame DEF Inv
    <2> QED BY <2>2
  <1>7. ASSUME NEW b \in Backends PROVE CacheOk(b)' /\ QueryOk(b)'
    <2>1. CacheOk(b) /\ QueryOk(b)
      BY DEF Inv
    <2>2. CacheOk(b)'
      BY <2>1, CacheFrame DEF Inv
    <2>3. QueryOk(b)'
      BY <2>1, QueryFrame DEF Inv
    <2> QED BY <2>2, <2>3
  <1>8. StoreComplete' /\ CountsAgree'
    BY StoreFrame DEF Inv
  <1>9. QueryExact'
    BY AnswersFrame DEF Inv
  <1> QED BY <1>1, <1>2, <1>4, <1>5, <1>6, <1>7, <1>8, <1>9 DEF Inv

\* A step that changes neither pages nor rows nor what VACUUM has collected.
LEMMA VacuumIdleStep ==
    ASSUME Inv, TypeOK', UNCHANGED <<nodes, page, meta, ins, cursor, cache, query>>,
           ghost'.published = ghost.published, ghost'.twice = ghost.twice,
           ghost'.compactions = ghost.compactions, ghost'.lost = ghost.lost,
           NodesInv', VacInv', vac'.pc \notin {"delta", "write", "publish"}
    PROVE  Inv'
  <1>1. Frame(0, 0) /\ PagesInv'
    BY SameStep
  <1>2. Len(page') # Len(page) + 1
    BY PageShape DEF Inv
  <1> QED BY <1>1, <1>2, VacuumLeaves

LEMMA VacuumStartInv ==
    ASSUME Inv, VacuumStart
    PROVE  Inv'
  <1> DEFINE todo == {k \in NodeIds : /\ nodes[k].row = "gone" /\ ~nodes[k].dead
                                      /\ ins.pc = "idle" \/ ins.node # k
                                      /\ \A b \in Backends :
                                           query[b].pc = "idle" \/ k \notin query[b].snap}
  <1>1. vac' = [pc |-> "mark", todo |-> todo]
        /\ UNCHANGED <<nodes, page, meta, ins, cursor, cache, query>>
        /\ ghost' = [ghost EXCEPT !.vacuums = @ + 1]
    BY DEF VacuumStart
  <1>2. /\ todo \in SUBSET Nat /\ todo \subseteq {k \in NodeIds : nodes[k].row # "live"}
        /\ \A b \in Backends : query[b].pc # "idle" => todo \cap query[b].snap = {}
    BY NodeShape DEF Inv
  <1> HIDE DEF todo
  <1>3. vac' \in VacMarking
    BY <1>1, <1>2 DEF VacMarking
  <1>4. /\ ghost'.published = ghost.published /\ ghost'.twice = ghost.twice
        /\ ghost'.compactions = ghost.compactions /\ ghost'.lost = ghost.lost
        /\ ghost' \in Ghost
    BY <1>1, GhostCounts DEF Inv, TypeOK
  <1>5. TypeOK'
    BY <1>1, <1>3, <1>4 DEF Inv, TypeOK, VacuumState
  <1>6. NodesInv'
    BY <1>1, <1>2, <1>4 DEF Inv, NodesInv, NodeIds
  <1>7. vac'.pc = "mark"
    BY <1>1
  <1>8. VacInv'
    BY <1>7 DEF VacInv
  <1> QED BY <1>1, <1>4, <1>5, <1>6, <1>7, <1>8, VacuumIdleStep

LEMMA VacuumCancelInv ==
    ASSUME Inv, VacuumCancel
    PROVE  Inv'
  <1>1. vac' = VacIdle /\ UNCHANGED <<nodes, page, meta, ins, cursor, cache, query>>
        /\ ghost' = [ghost EXCEPT !.faults = @ + 1]
    BY DEF VacuumCancel
  <1>2. /\ ghost'.published = ghost.published /\ ghost'.twice = ghost.twice
        /\ ghost'.compactions = ghost.compactions /\ ghost'.lost = ghost.lost
        /\ ghost' \in Ghost
    BY <1>1, GhostCounts DEF Inv, TypeOK
  <1>3. TypeOK'
    BY <1>1, <1>2 DEF Inv, TypeOK, VacuumState
  <1>4. vac'.pc = "idle"
    BY <1>1 DEF VacIdle
  <1>5. NodesInv'
    BY <1>1, <1>2, <1>4 DEF Inv, NodesInv, NodeIds
  <1>6. VacInv'
    BY <1>4 DEF VacInv
  <1> QED BY <1>1, <1>2, <1>3, <1>4, <1>5, <1>6, VacuumIdleStep

LEMMA CompactBeginInv ==
    ASSUME Inv, CompactBegin
    PROVE  Inv'
  <1>1. vac' = (IF TooSmall(meta) THEN VacIdle ELSE [pc |-> "base", m |-> meta])
        /\ UNCHANGED <<nodes, page, meta, ins, cursor, cache, query>>
        /\ ghost' = [ghost EXCEPT !.since = {}]
    BY DEF CompactBegin
  <1>2. /\ ghost'.published = ghost.published /\ ghost'.twice = ghost.twice
        /\ ghost'.compactions = ghost.compactions /\ ghost'.lost = ghost.lost
        /\ ghost'.since = {} /\ ghost' \in Ghost
    BY <1>1 DEF Inv, TypeOK, Ghost
  <1>3. TypeOK'
    BY <1>1, <1>2 DEF Inv, TypeOK, VacuumState
  <1>4. vac'.pc \in {"idle", "base"}
    BY <1>1 DEF VacIdle
  <1>5. NodesInv'
    BY <1>1, <1>2, <1>4 DEF Inv, NodesInv, NodeIds
  <1>6. VacInv'
    <2>1. CASE TooSmall(meta)
      <3>1. vac'.pc = "idle"
        BY <1>1, <2>1 DEF VacIdle
      <3> QED BY <3>1 DEF VacInv
    <2>2. CASE ~TooSmall(meta)
      <3>1. vac'.pc = "base" /\ vac'.m = meta /\ meta.start # Invalid
        BY <1>1, <2>2 DEF TooSmall
      <3>2. MetaOk(page, meta)
        BY DEF Inv, MetaInv
      <3>3. MustKeep' \subseteq BaseNodes(page, meta) \cup DeltaNodes(page, meta)
        <4> SUFFICES ASSUME NEW k \in MustKeep'
                     PROVE  k \in BaseNodes(page, meta) \cup DeltaNodes(page, meta)
          OBVIOUS
        <4>1. k \in ghost.published \ ghost.lost /\ nodes[k].row = "live" /\ nodes[k].doc # {}
          BY <1>1, <1>2 DEF MustKeep
        <4> QED BY <4>1 DEF Inv, StoreComplete, InBase, InDelta, BaseNodes, DeltaNodes
      <3> QED BY <1>1, <3>1, <3>2, <3>3 DEF VacInv
    <2> QED BY <2>1, <2>2
  <1> QED BY <1>1, <1>2, <1>3, <1>4, <1>5, <1>6, VacuumIdleStep

LEMMA VacuumMarkInv ==
    ASSUME Inv, VacuumMark
    PROVE  Inv'
  <1>1. vac.pc = "mark" /\ UNCHANGED <<page, meta, ins, cursor, cache, query, ghost>>
    BY DEF VacuumMark
  <1>2. /\ vac \in VacMarking /\ vac.todo \subseteq {k \in NodeIds : nodes[k].row # "live"}
        /\ \A b \in Backends : query[b].pc # "idle" => vac.todo \cap query[b].snap = {}
    BY <1>1, VacShape DEF Inv, NodesInv
  <1>3. \A k \in NodeIds : nodes[k] \in Node
    BY NodeShape DEF Inv
  <1>4. ASSUME TypeOK', NodesStep, NodesInv', vac'.pc \in {"mark", "meta"}
        PROVE  Inv'
    <2>1. Frame(0, 0)
      <3>1. Grows(page, page', 0, 0)
        BY <1>1, SamePagesGrow, PagesHeads DEF Inv
      <3> QED BY <1>4, <3>1 DEF Frame, Inv
    <2>2. Len(page') # Len(page) + 1 /\ Len(page) \in Nat
      BY <1>1, PageShape DEF Inv
    <2>3. PagesInv'
      BY <2>1, <2>2, PagesFrame
    <2>4. VacInv'
      BY <1>4 DEF VacInv
    <2> QED BY <1>1, <1>4, <2>1, <2>2, <2>3, <2>4, VacuumLeaves
  <1>5. CASE vac.todo = {}
    <2>1. vac' = [pc |-> "meta"]
          /\ nodes' = [k \in NodeIds |-> IF nodes[k].dead THEN [nodes[k] EXCEPT !.row = "reclaimed"]
                                         ELSE nodes[k]]
      BY <1>5 DEF VacuumMark
    <2>2. nodes' \in [1..Len(nodes) -> Node] /\ Len(nodes) \in Nat
      BY <1>3, <2>1, NodeShape DEF NodeIds, Node, Inv
    <2>3. nodes' \in Seq(Node) /\ Len(nodes') = Len(nodes)
      BY <2>2
    <2>4. \A k \in NodeIds : /\ nodes'[k].doc = nodes[k].doc /\ nodes'[k].dead = nodes[k].dead
                             /\ nodes'[k].row = "live" => nodes[k].row = "live"
      BY <1>3, <2>1 DEF Node
    <2>5. TypeOK'
      BY <1>1, <2>1, <2>3 DEF Inv, TypeOK, VacuumState
    <2>6. NodesStep
      BY <2>2, <2>3, <2>4 DEF NodesStep
    <2>7. vac'.pc = "meta"
      BY <2>1
    <2>8. NodesInv'
      BY <1>1, <2>3, <2>4, <2>7 DEF NodesInv, Inv, NodeIds
    <2> QED BY <1>4, <2>5, <2>6, <2>7, <2>8
  <1>6. CASE vac.todo # {}
    <2>1. PICK k \in vac.todo : nodes' = [nodes EXCEPT ![k].dead = TRUE]
                                /\ vac' = [vac EXCEPT !.todo = @ \ {k}]
      BY <1>6 DEF VacuumMark
    <2>2. k \in NodeIds /\ nodes[k].row # "live" /\ nodes[k] \in Node /\ Len(nodes) \in Nat
      BY <1>2, <1>3, NodeShape DEF Inv
    <2>3. Len(nodes') = Len(nodes) /\ \A j \in NodeIds : j # k => nodes'[j] = nodes[j]
      BY <2>1, <2>2, NodeShape DEF NodeIds, Inv
    <2>4. nodes'[k] = [nodes[k] EXCEPT !.dead = TRUE]
      <3>1. k \in DOMAIN nodes
        BY <2>2 DEF Inv, TypeOK, NodeIds
      <3> QED BY <2>1, <3>1, Zenon
    <2>5. nodes'[k].doc = nodes[k].doc /\ nodes'[k].row = nodes[k].row /\ nodes'[k].dead = TRUE
          /\ nodes'[k] \in Node
      BY <2>2, <2>4 DEF Node
    <2>6. nodes' \in Seq(Node)
      BY <2>1, <2>2, <2>4, <2>5 DEF Inv, TypeOK, NodeIds
    <2>7. vac'.pc = "mark" /\ vac' \in VacMarking /\ vac'.todo \subseteq vac.todo
      BY <1>2, <2>1 DEF VacMarking
    <2>8. TypeOK'
      BY <1>1, <2>6, <2>7 DEF Inv, TypeOK, VacuumState
    <2>9. \A b \in Backends : query[b].pc # "idle" => k \notin query[b].snap
      BY <1>2
    <2>10. NodesStep
      BY <2>2, <2>3, <2>5, <2>9 DEF NodesStep
    <2>11. \A j \in NodeIds : nodes'[j].row = nodes[j].row /\ (nodes'[j].dead => nodes[j].dead \/ j = k)
      BY <2>3, <2>5
    <2>12. NodesInv'
      BY <1>1, <1>2, <2>2, <2>3, <2>7, <2>11 DEF NodesInv, Inv, NodeIds
    <2> QED BY <1>4, <2>7, <2>8, <2>10, <2>12
  <1> QED BY <1>5, <1>6

LEMMA CompactBaseInv ==
    ASSUME Inv, CompactBase
    PROVE  Inv'
  <1> DEFINE m == vac.m
             live == {k \in NodeIds : ~nodes[k].dead}
             docs == CollectBasePostings(m, live)
  <1>1. /\ vac.pc = "base" /\ UNCHANGED <<nodes, page, meta, ins, cursor, cache, query, ghost>>
        /\ vac' = [pc |-> "delta", m |-> m, live |-> live, at |-> m.start, docs |-> docs]
    BY DEF CompactBase
  <1>2. /\ vac \in [pc : {"base"}, m : Meta] /\ MetaOk(page, m) /\ m.start # Invalid
        /\ MustKeep \subseteq BaseNodes(page, m) \cup DeltaNodes(page, m)
    BY <1>1, VacShape DEF Inv, VacInv
  <1>3. m \in Meta /\ m.start \in Nat
    BY <1>2 DEF Meta
  <1>4. docs \subseteq page[m.base].data /\ docs \subseteq Docs /\ docs \in SUBSET DocTuple
    BY <1>2, DeltaDocs DEF CollectBasePostings, Inv
  <1>5. live \in SUBSET Nat
    BY NodeShape DEF Inv
  <1>6. vac' \in VacCollecting
    <2> HIDE DEF live, docs, m
    <2> QED BY <1>1, <1>3, <1>4, <1>5 DEF VacCollecting
  <1>7. TypeOK'
    BY <1>1, <1>6 DEF Inv, TypeOK, VacuumState
  <1>8. MustKeep \subseteq live
    BY DEF MustKeep, Inv, NodesInv
  <1>9. MustKeep \subseteq {d.node : d \in docs \cup Items(page, m.start)}
    <2> SUFFICES ASSUME NEW k \in MustKeep, k \notin DeltaNodes(page, m)
                 PROVE  \E d \in docs : d.node = k
      BY DEF DeltaNodes
    <2>1. PICK d \in page[m.base].data : d.node = k
      BY <1>2 DEF BaseNodes
    <2>2. d.terms = nodes[k].doc
      BY <1>2, <2>1, DeltaDocs DEF Docs, Inv
    <2> QED BY <1>8, <2>1, <2>2 DEF CollectBasePostings, MustKeep
  <1>10. m.start \in Blocks /\ page[m.start].kind = "delta"
    BY <1>2 DEF MetaOk, Blocks
  <1>11. vac'.pc = "delta" /\ vac'.m = m /\ vac'.live = live /\ vac'.at = m.start /\ vac'.docs = docs
    BY <1>1
  <1>12. VacInv'
    <2>1. MustKeep' = MustKeep
      BY <1>1 DEF MustKeep
    <2>2. Docs' = Docs /\ Blocks' = Blocks
      BY <1>1 DEF Docs, NodeIds, Blocks
    <2> HIDE DEF docs, live, m
    <2> QED BY <1>1, <1>2, <1>4, <1>8, <1>9, <1>10, <1>11, <2>1, <2>2 DEF VacInv
  <1>13. NodesInv'
    BY <1>1, <1>11 DEF Inv, NodesInv, NodeIds
  <1>14. ins.pc \in {"read", "append"} => \A d \in docs : d.node # ins.node
    <2>1. m.base \in Blocks /\ page[m.base].kind = "base"
      BY <1>2 DEF MetaOk, Blocks
    <2> QED BY <1>4, <2>1 DEF Inv, InsInv
  <1>15. Frame(0, 0) /\ PagesInv' /\ Len(page') # Len(page) + 1
    BY <1>1, <1>7, SameStep, PageShape DEF Inv
  <1> QED BY <1>1, <1>7, <1>11, <1>12, <1>13, <1>14, <1>15, VacuumLeaves

LEMMA CompactDeltaInv ==
    ASSUME Inv, CompactDelta
    PROVE  Inv'
  <1> DEFINE at == vac.at
             next == NextBlk(at)
             docs == vac.docs \cup CollectDelta(at, vac.live)
             pc == IF next = Invalid THEN "write" ELSE "delta"
  <1>1. /\ vac.pc = "delta" /\ UNCHANGED <<nodes, page, meta, ins, cursor, cache, query, ghost>>
        /\ vac' = [vac EXCEPT !.docs = docs, !.at = next, !.pc = pc]
    BY DEF CompactDelta
  <1>2. /\ vac \in VacCollecting /\ MetaOk(page, vac.m) /\ vac.docs \subseteq Docs
        /\ at \in Blocks /\ page[at].kind = "delta"
        /\ MustKeep \subseteq {d.node : d \in vac.docs \cup Items(page, at)}
        /\ MustKeep \subseteq vac.live
    BY <1>1, VacShape DEF Inv, VacInv
  <1>3. vac.docs \in SUBSET DocTuple /\ vac.m \in Meta /\ vac.live \in SUBSET Nat /\ at \in Nat
    BY <1>2 DEF VacCollecting
  <1>4. page[at].data \subseteq Docs /\ page[at].data \subseteq DocTuple
    BY <1>2, PageShape DEF Inv, PagesInv
  <1>5. docs \subseteq Docs /\ docs \in SUBSET DocTuple
    BY <1>2, <1>3, <1>4 DEF CollectDelta
  <1>6. /\ next = Invalid => Items(page, at) = page[at].data
        /\ next # Invalid => /\ next \in Blocks /\ page[next].head = page[at].head
                             /\ Items(page, at) = page[at].data \cup Items(page, next)
    BY <1>2, NextIsRest, PagesHeads DEF Inv
  <1>7. next # Invalid => page[next].kind = "delta"
    BY <1>2, <1>6 DEF Inv, PagesInv
  <1>8. next \in Nat
    BY <1>6, PageShape DEF Inv, Invalid
  <1>9. ASSUME NEW k \in MustKeep
        PROVE  (\E d \in docs : d.node = k) \/ (next # Invalid /\ \E d \in Items(page, next) : d.node = k)
    <2>1. PICK d \in vac.docs \cup Items(page, at) : d.node = k
      BY <1>2
    <2>2. k \in vac.live
      BY <1>2
    <2> QED BY <1>6, <2>1, <2>2 DEF CollectDelta
  <1>10. MustKeep' = MustKeep /\ Docs' = Docs /\ Blocks' = Blocks
    BY <1>1 DEF MustKeep, Docs, NodeIds, Blocks
  <1>11. ins.pc \in {"read", "append"} => \A d \in docs : d.node # ins.node
    BY <1>1, <1>2 DEF Inv, InsInv, CollectDelta
  <1> HIDE DEF docs, next, at
  <1>12. vac' \in VacCollecting /\ vac'.pc = pc /\ vac'.m = vac.m /\ vac'.live = vac.live
         /\ vac'.at = next /\ vac'.docs = docs
    BY <1>1, <1>2, <1>5, <1>8 DEF VacCollecting
  <1>13. TypeOK'
    BY <1>1, <1>12 DEF Inv, TypeOK, VacuumState
  <1>14. VacInv'
    <2>1. CASE next = Invalid
      <3>1. vac'.pc = "write"
        BY <1>12, <2>1
      <3>2. MustKeep \subseteq {d.node : d \in docs}
        BY <1>9, <2>1
      <3> QED BY <1>1, <1>2, <1>5, <1>10, <1>12, <3>1, <3>2 DEF VacInv
    <2>2. CASE next # Invalid
      <3>1. vac'.pc = "delta"
        BY <1>12, <2>2
      <3>2. MustKeep \subseteq {d.node : d \in docs \cup Items(page, next)}
        BY <1>9
      <3> QED BY <1>1, <1>2, <1>5, <1>6, <1>7, <1>10, <1>12, <2>2, <3>1, <3>2 DEF VacInv
    <2> QED BY <2>1, <2>2
  <1>15. NodesInv'
    BY <1>1, <1>12 DEF Inv, NodesInv, NodeIds
  <1>16. Frame(0, 0) /\ PagesInv' /\ Len(page') # Len(page) + 1
    BY <1>1, <1>13, SameStep, PageShape DEF Inv
  <1> QED BY <1>1, <1>11, <1>12, <1>13, <1>14, <1>15, <1>16, VacuumLeaves

LEMMA CompactWriteInv ==
    ASSUME Inv, CompactWrite
    PROVE  Inv'
  <1> DEFINE n == Len(page) + 1
             docs == vac.docs
  <1>1. /\ vac.pc = "write" /\ UNCHANGED <<nodes, meta, ins, cursor, cache, query, ghost>>
        /\ page' = Append(page, NewPage("base", n, docs))
        /\ vac' = [pc |-> "publish", m |-> vac.m, docs |-> docs, base |-> n]
    BY DEF CompactWrite
  <1>2. /\ vac \in VacCollecting /\ MetaOk(page, vac.m) /\ docs \subseteq Docs
        /\ MustKeep \subseteq {d.node : d \in docs}
    BY <1>1, VacShape DEF Inv, VacInv
  <1>3. docs \in SUBSET DocTuple /\ vac.m \in Meta
    BY <1>2 DEF VacCollecting
  <1>4. page \in Seq(Page) /\ Len(page) \in Nat
    BY PagesHeads DEF Inv
  <1>5. Grows(page, page', 0, 0) /\ Len(page') = n /\ page'[n] = NewPage("base", n, docs)
    BY <1>1, <1>4, NewChainGrows
  <1>6. NewPage("base", n, docs) \in Page
    BY <1>3, <1>4 DEF NewPage, Page
  <1>7. page' \in Seq(Page)
    BY <1>1, <1>4, <1>6
  <1>8. vac' \in VacPublishing
    BY <1>1, <1>3, <1>4 DEF VacPublishing
  <1>9. TypeOK'
    BY <1>1, <1>7, <1>8 DEF Inv, TypeOK, VacuumState
  <1>10. NodesStep
    BY <1>1, NodeShape DEF NodesStep, Inv
  <1>11. Frame(0, 0)
    BY <1>5, <1>9, <1>10 DEF Frame, Inv
  <1>12. page'[n].kind = "base" /\ page'[n].data = docs /\ page'[n].head = n
    BY <1>5 DEF NewPage
  <1>13. Docs' = Docs /\ MustKeep' = MustKeep
    BY <1>1 DEF Docs, NodeIds, MustKeep
  <1>14. PagesInv'
    BY <1>2, <1>5, <1>11, <1>12, <1>13, PagesFrame
  <1>15. vac'.pc = "publish" /\ vac'.m = vac.m /\ vac'.docs = docs /\ vac'.base = n
    BY <1>1
  <1>16. VacInv'
    <2>1. MetaOk(page', vac.m)
      BY <1>2, <1>11, CopyFrame
    <2>2. n \in Blocks'
      BY <1>4, <1>5 DEF Blocks
    <2> QED BY <1>2, <1>12, <1>13, <1>15, <2>1, <2>2 DEF VacInv
  <1>17. NodesInv'
    BY <1>1, <1>15 DEF Inv, NodesInv, NodeIds
  <1>18. ins.pc \in {"read", "append"} => \A d \in docs : d.node # ins.node
    BY <1>1 DEF Inv, InsInv
  <1> QED BY <1>1, <1>11, <1>12, <1>14, <1>15, <1>16, <1>17, <1>18, VacuumLeaves

\* The swap of the metadata: what is kept is in the new base, and an insert in
\* flight learns from its count of compactions that the chain was taken away.
LEMMA CompactPublishInv ==
    ASSUME Inv, CompactPublish
    PROVE  Inv'
  <1>1. /\ vac.pc = "publish" /\ UNCHANGED <<nodes, page, ins, cursor, cache, query>>
        /\ meta' = Compacted(vac.m) /\ vac' = VacIdle
        /\ ghost' = [ghost EXCEPT !.compactions = @ + 1,
                        !.lost = @ \cup {k \in ghost.since : k \notin {d.node : d \in vac.docs}}]
    BY DEF CompactPublish
  <1>2. /\ vac \in VacPublishing /\ vac.docs \subseteq Docs
        /\ MustKeep \subseteq {d.node : d \in vac.docs}
        /\ vac.base \in Blocks /\ page[vac.base].kind = "base" /\ page[vac.base].data = vac.docs
    BY <1>1, VacShape DEF Inv, VacInv
  <1>3. vac.m \in Meta /\ vac.docs \in SUBSET DocTuple /\ vac.base \in Nat
    BY <1>2 DEF VacPublishing
  <1>4. /\ meta'.base = vac.base /\ meta'.start = Invalid /\ meta'.dir = Invalid
        /\ meta'.deltaDocs = 0 /\ meta'.docCount = Cardinality(vac.docs)
    BY <1>1 DEF Compacted
  <1>5. /\ ghost' \in Ghost /\ ghost'.published = ghost.published /\ ghost'.twice = ghost.twice
        /\ ghost'.compactions = ghost.compactions + 1 /\ ghost'.since = ghost.since
        /\ ghost'.lost = ghost.lost \cup {k \in ghost.since : k \notin {d.node : d \in vac.docs}}
        /\ ghost.compactions \in Nat
    <2> DEFINE new == {k \in ghost.since : k \notin {d.node : d \in vac.docs}}
    <2>1. ghost \in Ghost
      BY DEF Inv, TypeOK
    <2>2. new \in SUBSET Nat
      BY <2>1 DEF Ghost
    <2>3. ghost' = [ghost EXCEPT !.compactions = @ + 1, !.lost = @ \cup new]
      BY <1>1
    <2> HIDE DEF new
    <2>4a. ghost.compactions \in Nat /\ ghost.lost \in SUBSET Nat
      BY <2>1 DEF Ghost
    <2>4b. ghost.compactions + 1 \in Nat
      BY <2>4a
    <2>4c. ghost.lost \cup new \in SUBSET Nat
      BY <2>2, <2>4a
    <2>4. ghost.compactions \in Nat /\ ghost.compactions + 1 \in Nat /\ ghost.lost \cup new \in SUBSET Nat
      BY <2>4a, <2>4b, <2>4c
    <2>5. ghost' \in Ghost
      BY <2>1, <2>3, <2>4 DEF Ghost
    <2>6. /\ ghost'.published = ghost.published /\ ghost'.twice = ghost.twice
          /\ ghost'.compactions = ghost.compactions + 1 /\ ghost'.since = ghost.since
      BY <2>1, <2>3 DEF Ghost
    <2>7. ghost'.lost = ghost.lost \cup new
      BY <2>1, <2>3 DEF Ghost
    <2> QED BY <2>4, <2>5, <2>6, <2>7 DEF new
  <1>6. meta' \in Meta
    <2>1. Cardinality(vac.docs) \in DocCounts
      BY <1>3 DEF DocCounts
    <2>2. vac.m.gen + 1 \in Nat /\ 0 \in TermPageCounts
      BY <1>3 DEF Meta, TermPageCounts
    <2> QED BY <1>1, <1>3, <2>1, <2>2 DEF Compacted, Meta, Invalid
  <1>7. TypeOK'
    BY <1>1, <1>5, <1>6 DEF Inv, TypeOK, VacuumState
  <1>8. Frame(0, 0) /\ PagesInv'
    BY <1>1, <1>7, SameStep
  <1>9. vac'.pc = "idle"
    BY <1>1 DEF VacIdle
  <1>10. NodesInv'
    BY <1>1, <1>5, <1>9 DEF Inv, NodesInv, NodeIds
  <1>11. MetaOk(page, meta')
    BY <1>2, <1>4 DEF MetaOk, Blocks
  <1>12. MetaInv'
    BY <1>1, <1>4, <1>11 DEF MetaInv
  <1>13. InsInv'
    BY <1>1, <1>5, <1>9 DEF Inv, InsInv, NodeIds, Blocks
  <1>14. InsChainInv'
    <2> SUFFICES ASSUME InsRunning PROVE InsChainInv'
      BY <1>1 DEF InsChainInv, InsRunning
    <2>1. ins \in InsAppending
      BY InsShape DEF Inv, InsRunning
    <2>2. ins.seen \in Nat
      BY <2>1 DEF InsAppending
    <2>3. ins.seen <= ghost.compactions
      BY DEF Inv, InsChainInv
    <2>4. ins.seen <= ghost'.compactions /\ ins.seen # ghost'.compactions
      BY <1>5, <2>2, <2>3
    <2> QED BY <1>1, <1>4, <1>5, <2>4 DEF Inv, InsChainInv, Segmented, InsRunning
  <1>15. CursorInv'
    BY <1>1 DEF Inv, CursorInv
  <1>16. VacInv'
    BY <1>9 DEF VacInv
  <1>17. Items(page, meta'.start) = {}
    BY <1>4 DEF Items, Chain
  <1>18. OnceOk(page', ins', ghost'.twice, meta')
    <2>1. DeltaNodes(page', meta') = {} /\ SegmentNodes(page', meta') = {}
      BY <1>1, <1>4, <1>17 DEF DeltaNodes, SegmentNodes
    <2> QED BY <1>4, <2>1 DEF OnceOk
  <1>19. ASSUME NEW b \in Backends PROVE CacheOk(b)' /\ QueryOk(b)'
    <2>1. CacheOk(b) /\ QueryOk(b)
      BY DEF Inv
    <2>2. CacheOk(b)'
      BY <1>1, <1>4, <1>8, <2>1, CacheFrame DEF Inv
    <2>3. QueryOk(b)'
      BY <1>1, <1>5, <1>8, <2>1, QueryFrame DEF Inv
    <2> QED BY <2>2, <2>3
  <1>20. StoreComplete'
    <2> SUFFICES ASSUME NEW k \in ghost'.published \ ghost'.lost,
                        nodes'[k].row = "live", nodes'[k].doc # {}
                 PROVE  k \in InBase'
      BY DEF StoreComplete
    <2>1. InBase' = {d.node : d \in vac.docs}
      BY <1>1, <1>2, <1>4 DEF InBase
    <2>2. CASE k \in ghost.since
      BY <1>5, <2>1, <2>2
    <2>3. CASE k \notin ghost.since
      BY <1>1, <1>2, <1>5, <2>1, <2>3 DEF MustKeep
    <2> QED BY <2>2, <2>3
  <1>21. CountsAgree'
    <2>1. InDelta' = {}
      BY <1>1, <1>17 DEF InDelta
    <2>2. Cardinality(InDelta' \cap ghost'.published) = 0
      <3>1. InDelta' \cap ghost'.published = {}
        BY <2>1
      <3> QED BY <3>1, FS_EmptySet
    <2>3. page'[meta'.base].data = vac.docs
      BY <1>1, <1>2, <1>4
    <2> QED BY <1>4, <2>2, <2>3 DEF CountsAgree
  <1>22. QueryExact'
    BY <1>1, <1>5, <1>8, AnswersFrame DEF Inv
  <1> QED BY <1>7, <1>8, <1>10, <1>12, <1>13, <1>14, <1>15, <1>16, <1>18, <1>19, <1>20, <1>21, <1>22
          DEF Inv

(***************************************************************************)
(* Queries.                                                                *)
(***************************************************************************)

AnswerOk(q) ==
    q.pc = "done" =>
        /\ \A k \in q.must, t \in q.terms :
             t \in nodes[k].doc => [node |-> k, term |-> t] \in q.base \cup q.delta
        /\ \A p \in q.base \cap q.delta : p.node \in ghost.twice

LEMMA QueryLeaves ==
    ASSUME Inv, NEW b \in Backends, TypeOK', UNCHANGED <<nodes, page, meta, ins, vac, cursor>>,
           ghost'.published = ghost.published, ghost'.twice = ghost.twice,
           ghost'.compactions = ghost.compactions, ghost'.lost = ghost.lost,
           ghost'.since = ghost.since,
           \A a \in Backends : a # b => query'[a] = query[a] /\ cache'[a] = cache[a],
           ins.pc # "idle" => ins.b # b,
           (vac.pc = "mark" /\ query'[b].pc # "idle") => vac.todo \cap query'[b].snap = {},
           CacheOk(b)', QueryOk(b)', AnswerOk(query'[b])
    PROVE  Inv'
  <1>1. Frame(0, 0) /\ PagesInv' /\ Len(page') # Len(page) + 1
    BY SameStep, PageShape DEF Inv
  <1>2. MetaInv'
    BY <1>1, MetaFrame DEF Inv
  <1>3. InsInv' /\ InsChainInv'
    <2>1. ins.pc # "idle" => ins.b \in Backends
      BY InsShape DEF Inv
    <2>2. ins.pc # "idle" => query'[ins.b].pc = "idle"
      BY <2>1 DEF Inv, InsInv
    <2>3. ins.pc \in {"read", "append"} /\ vac.pc \in {"delta", "write", "publish"} =>
            \A d \in vac.docs : d.node # ins.node
      BY DEF Inv, InsInv
    <2> QED BY <1>1, <2>2, <2>3, InsFrame DEF Inv
  <1>4. CursorInv' /\ VacInv' /\ StoreComplete' /\ CountsAgree'
    BY <1>1, CursorFrame, VacFrame, StoreFrame DEF Inv
  <1>5. OnceOk(page', ins', ghost'.twice, meta')
    BY DEF Inv
  <1>6. ASSUME NEW a \in Backends PROVE CacheOk(a)' /\ QueryOk(a)'
    <2>1. CASE a = b
      BY <2>1
    <2>2. CASE a # b
      <3>1. CacheOk(a) /\ QueryOk(a) /\ query'[a] = query[a] /\ cache'[a] = cache[a]
        BY <2>2 DEF Inv
      <3>2. CacheOk(a)'
        BY <1>1, <3>1, CacheFrame DEF Inv
      <3>3. QueryOk(a)'
        BY <1>1, <3>1, QueryFrame DEF Inv
      <3> QED BY <3>2, <3>3
    <2> QED BY <2>1, <2>2
  <1>7. QueryExact'
    <2>1. ASSUME NEW a \in Backends, query'[a].pc = "done"
          PROVE  /\ \A k \in query'[a].must, t \in query'[a].terms :
                      t \in nodes'[k].doc =>
                        [node |-> k, term |-> t] \in query'[a].base \cup query'[a].delta
                 /\ \A p \in query'[a].base \cap query'[a].delta : p.node \in ghost'.twice
      <3>1. CASE a = b
        BY <2>1, <3>1 DEF AnswerOk
      <3>2. CASE a # b
        BY <2>1, <3>2 DEF Inv, QueryExact, QueryComplete, QueryOnce
      <3> QED BY <3>1, <3>2
    <2> QED BY <2>1 DEF QueryExact, QueryComplete, QueryOnce
  <1>8. NodesInv'
    <2>1. vac.pc = "mark" => \A a \in Backends : query'[a].pc # "idle" => vac.todo \cap query'[a].snap = {}
      BY DEF Inv, NodesInv
    <2> QED BY <2>1 DEF Inv, NodesInv, NodeIds
  <1> QED BY <1>1, <1>2, <1>3, <1>4, <1>5, <1>6, <1>7, <1>8 DEF Inv

\* A query that goes on, or is done, keeps its copy of the metadata and what
\* it must find.
LEMMA QueryGoesOn ==
    ASSUME Inv, NEW b \in Backends, UNCHANGED <<nodes, page, meta, ins, vac, cursor, ghost>>,
           query[b].pc # "idle", query'[b].pc # "idle",
           query'[b].m = query[b].m, query'[b].must = query[b].must, query'[b].snap = query[b].snap
    PROVE  /\ ins.pc # "idle" => ins.b # b
           /\ vac.pc = "mark" => vac.todo \cap query'[b].snap = {}
           /\ LET q == query'[b] IN
              /\ q.must \subseteq {k \in ghost'.published \cap q.snap : ~nodes'[k].dead}
              /\ MetaOk(page', q.m)
              /\ OnceOk(page', ins', ghost'.twice, q.m)
              /\ \A k \in q.must :
                   nodes'[k].doc # {} => k \in BaseNodes(page', q.m) \cup DeltaNodes(page', q.m)
              /\ q.m.dir # Invalid =>
                   Segmented(page, page[q.m.dir].data, q.must \cap DeltaNodes(page, q.m))
  <1>1. ins.pc # "idle" => ins.b # b
    BY DEF Inv, InsInv
  <1>2. vac.pc = "mark" => vac.todo \cap query'[b].snap = {}
    BY DEF Inv, NodesInv
  <1>3. QueryOk(b)
    BY DEF Inv
  <1> QED BY <1>1, <1>2, <1>3 DEF QueryOk

LEMMA QueryMetaInv ==
    ASSUME Inv, NEW b \in Readers, NEW terms \in Queries, QueryMeta(b, terms)
    PROVE  Inv'
  <1> DEFINE snap == {k \in NodeIds : nodes[k].row = "live"}
             must == {k \in ghost.published \ ghost.lost : nodes[k].row = "live"}
             q == [pc |-> "cache", terms |-> terms, m |-> meta, snap |-> snap, must |-> must]
             c == cache[b]
  <1>0. b \in Backends /\ terms \in SUBSET Terms
    BY QueriesAssumption
  <1>1. /\ ~Busy(b) /\ ghost' = [ghost EXCEPT !.queries = @ + 1]
        /\ query' = [query EXCEPT ![b] = q]
        /\ UNCHANGED <<nodes, page, meta, ins, vac, cursor, cache>>
    BY DEF QueryMeta
  <1>2. query[b].pc = "idle" /\ (ins.pc # "idle" => ins.b # b)
    BY <1>1 DEF Busy
  <1>3. /\ ghost' \in Ghost /\ ghost'.published = ghost.published /\ ghost'.twice = ghost.twice
        /\ ghost'.compactions = ghost.compactions /\ ghost'.lost = ghost.lost
        /\ ghost'.since = ghost.since
    BY <1>1, GhostCounts DEF Inv, TypeOK
  <1>4. snap \in SUBSET Nat /\ must \in SUBSET Nat /\ must \subseteq snap /\ must \subseteq NodeIds
        /\ meta \in Meta
    BY NodeShape DEF Inv, NodesInv, TypeOK
  <1>5. vac.pc = "mark" => vac.todo \cap snap = {}
    BY DEF Inv, NodesInv
  <1>6. must \subseteq {k \in ghost.published \cap snap : ~nodes[k].dead}
    BY <1>4 DEF Inv, NodesInv
  <1>7. /\ MetaOk(page, meta) /\ OnceOk(page, ins, ghost.twice, meta)
        /\ \A k \in must : nodes[k].doc # {} => k \in BaseNodes(page, meta) \cup DeltaNodes(page, meta)
    BY DEF Inv, MetaInv, StoreComplete, InBase, InDelta, BaseNodes, DeltaNodes
  <1>8. meta.dir # Invalid => Segmented(page, page[meta.dir].data, must \cap DeltaNodes(page, meta))
    <2>1. meta.dir # Invalid =>
            Segmented(page, page[meta.dir].data, DeltaNodes(page, meta) \cap ghost.published)
      BY DEF Inv, MetaInv
    <2> QED BY <2>1 DEF Segmented
  <1>9. c.valid /\ c.built /\ SameKey(c.m, meta) => Covers(c, must \cap DeltaNodes(page, meta))
    <2>1. c.valid /\ c.built /\ SameKey(c.m, meta) =>
            Covers(c, {k \in DeltaNodes(page, meta) \cap ghost.published : ~nodes[k].dead})
      BY <1>0 DEF Inv, CacheOk
    <2> QED BY <1>6, <2>1 DEF Covers
  <1> HIDE DEF snap, must
  <1>10. q \in QueryRunning /\ q.pc = "cache" /\ q.m = meta /\ q.snap = snap /\ q.must = must
    BY <1>0, <1>4 DEF QueryRunning
  <1> HIDE DEF q
  <1>11. query'[b] = q /\ \A a \in Backends : a # b => query'[a] = query[a]
    BY <1>0, <1>1 DEF Inv, TypeOK
  <1>12. TypeOK'
    <2>1. query' \in [Backends -> QueryState]
      BY <1>1, <1>10 DEF Inv, TypeOK, QueryState
    <2> QED BY <1>1, <1>3, <2>1 DEF Inv, TypeOK
  <1>13. QueryOk(b)'
    <2> HIDE DEF c
    <2> QED BY <1>1, <1>3, <1>6, <1>7, <1>8, <1>9, <1>10, <1>11 DEF QueryOk, Covers, Segmented, c
  <1>14. CacheOk(b)'
    <2>1. Frame(0, 0)
      BY <1>1, <1>12, SameStep
    <2> QED BY <1>0, <1>1, <1>3, <2>1, CacheFrame DEF Inv
  <1>15. AnswerOk(query'[b])
    BY <1>10, <1>11 DEF AnswerOk
  <1> QED BY <1>0, <1>1, <1>2, <1>3, <1>5, <1>10, <1>11, <1>12, <1>13, <1>14, <1>15, QueryLeaves

LEMMA QueryEndInv ==
    ASSUME Inv, NEW b \in Readers, QueryEnd(b)
    PROVE  Inv'
  <1>0. b \in Backends
    BY QueriesAssumption
  <1>1. /\ query[b].pc = "done" /\ query' = [query EXCEPT ![b] = QueryIdle]
        /\ UNCHANGED <<nodes, page, meta, ins, vac, cursor, cache, ghost>>
    BY DEF QueryEnd
  <1>2. query'[b] = QueryIdle /\ \A a \in Backends : a # b => query'[a] = query[a]
    BY <1>0, <1>1 DEF Inv, TypeOK
  <1>3. query'[b].pc = "idle"
    BY <1>2 DEF QueryIdle
  <1>4. TypeOK'
    <2>1. query' \in [Backends -> QueryState]
      BY <1>1 DEF Inv, TypeOK, QueryState
    <2> QED BY <1>1, <2>1 DEF Inv, TypeOK
  <1>5. ins.pc # "idle" => ins.b # b
    BY <1>1 DEF Inv, InsInv
  <1>6. CacheOk(b)'
    <2>1. Frame(0, 0)
      BY <1>1, <1>4, SameStep
    <2> QED BY <1>0, <1>1, <2>1, CacheFrame DEF Inv
  <1>7. QueryOk(b)' /\ AnswerOk(query'[b])
    BY <1>3 DEF QueryOk, AnswerOk
  <1> QED BY <1>0, <1>1, <1>2, <1>3, <1>4, <1>5, <1>6, <1>7, QueryLeaves

LEMMA QueryCacheInv ==
    ASSUME Inv, NEW b \in Readers, QueryCache(b)
    PROVE  Inv'
  <1> DEFINE q == query[b]
             n == Len(nodes)
             c == IF CacheMatches(cache[b], q.m, n) THEN cache[b] ELSE BuildCache(q.m, n)
             known == \E d \in c.lexicon : d.terms \cap q.terms # {}
             over == n = 0 \/ (~known /\ q.m.deltaDocs = 0)
  <1>0. b \in Backends
    BY QueriesAssumption
  <1>1. /\ q.pc = "cache" /\ UNCHANGED <<nodes, page, meta, ins, vac, cursor, ghost>>
        /\ cache' = IF n = 0 THEN cache ELSE [cache EXCEPT ![b] = c]
        /\ query' = [query EXCEPT ![b] = IF over THEN Answer(q, {}, {}) ELSE [q EXCEPT !.pc = "load"]]
    BY DEF QueryCache
  <1>2. /\ q \in QueryRunning /\ q.m \in Meta /\ MetaOk(page, q.m) /\ q.must \subseteq NodeIds
        /\ QueryOk(b) /\ CacheOk(b)
    BY <1>0, <1>1, QueryShape DEF Inv, QueryOk, NodesInv
  <1>3. n \in Nat /\ cache[b] \in CacheState
    BY <1>0, NodeShape DEF Inv, TypeOK
  <1>4. /\ c \in CacheLoaded /\ c.valid /\ SameKey(c.m, q.m) /\ c.count = n
        /\ c.lexicon = page[q.m.base].data
    <2>1. CASE CacheMatches(cache[b], q.m, n)
      <3>1. cache[b].valid /\ SameKey(cache[b].m, q.m) /\ cache[b].count = n
        BY <2>1 DEF CacheMatches, SameKey
      <3>2. cache[b] \in CacheLoaded
        BY <1>3, <3>1, ValidCache
      <3>3. cache[b].lexicon = page[cache[b].m.base].data
        BY <1>2, <3>1 DEF CacheOk
      <3> QED BY <2>1, <3>1, <3>2, <3>3 DEF SameKey
    <2>2. CASE ~CacheMatches(cache[b], q.m, n)
      <3>1. page[q.m.base].data \in SUBSET DocTuple
        BY <1>2, DeltaDocs DEF Inv
      <3>2. c = BuildCache(q.m, n)
        BY <2>2
      <3>3. BuildCache(q.m, n) \in CacheLoaded
        BY <1>2, <1>3, <3>1 DEF BuildCache, CacheLoaded
      <3> QED BY <3>2, <3>3 DEF BuildCache, SameKey
    <2> QED BY <2>1, <2>2
  <1>5. c.built => CacheMatches(cache[b], q.m, n) /\ c = cache[b]
    BY DEF BuildCache
  <1>6. c.loaded => CacheMatches(cache[b], q.m, n) /\ c = cache[b]
    BY DEF BuildCache
  <1>7. c.built => Covers(c, q.must \cap DeltaNodes(page, q.m))
    BY <1>1, <1>2, <1>4, <1>5 DEF QueryOk
  <1>8. over => \A k \in q.must, t \in q.terms : t \notin nodes[k].doc
    <2> SUFFICES ASSUME over, NEW k \in q.must, NEW t \in q.terms, t \in nodes[k].doc
                 PROVE  FALSE
      OBVIOUS
    <2>1. n # 0
      BY <1>2, <1>3 DEF NodeIds
    <2>2. ~known /\ q.m.deltaDocs = 0
      BY <2>1
    <2>3. DeltaNodes(page, q.m) = {}
      <3>1. q.m.start = Invalid
        BY <1>2, <2>2 DEF MetaOk
      <3> QED BY <3>1 DEF DeltaNodes, Items, Chain
    <2>4. k \in BaseNodes(page, q.m)
      BY <1>1, <1>2, <2>3 DEF QueryOk
    <2>5. PICK d \in page[q.m.base].data : d.node = k
      BY <2>4 DEF BaseNodes
    <2>6. d.terms = nodes[k].doc
      BY <1>2, <2>5, DeltaDocs DEF Docs, Inv
    <2>7. d \in c.lexicon /\ d.terms \cap q.terms # {}
      BY <1>4, <2>5, <2>6
    <2> QED BY <2>2, <2>7
  <1> HIDE DEF c, known
  <1>9. /\ Answer(q, {}, {}) \in QueryDone
        /\ [q EXCEPT !.pc = "load"] \in QueryRunning
    BY <1>2 DEF Answer, QueryDone, QueryRunning
  <1>10. query'[b] = (IF over THEN Answer(q, {}, {}) ELSE [q EXCEPT !.pc = "load"])
         /\ \A a \in Backends : a # b => query'[a] = query[a]
    BY <1>0, <1>1 DEF Inv, TypeOK
  <1>11. /\ query'[b].m = q.m /\ query'[b].must = q.must /\ query'[b].snap = q.snap
         /\ query'[b].terms = q.terms
         /\ over => query'[b].pc = "done" /\ query'[b].base = {} /\ query'[b].delta = {}
         /\ ~over => query'[b].pc = "load"
    BY <1>2, <1>10 DEF Answer, QueryRunning
  <1>12. /\ n = 0 => cache'[b] = cache[b]
         /\ n # 0 => cache'[b] = c
         /\ \A a \in Backends : a # b => cache'[a] = cache[a]
    BY <1>0, <1>1 DEF Inv, TypeOK
  <1>13. TypeOK'
    <2>1. query' \in [Backends -> QueryState]
      BY <1>1, <1>9 DEF Inv, TypeOK, QueryState
    <2>2. cache' \in [Backends -> CacheState]
      BY <1>1, <1>4 DEF Inv, TypeOK, CacheState
    <2> QED BY <1>1, <2>1, <2>2 DEF Inv, TypeOK
  <1>14. Frame(0, 0)
    BY <1>1, <1>13, SameStep
  <1>15. CacheOk(b)'
    <2>1. CASE cache'[b] = cache[b]
      BY <1>0, <1>1, <1>14, <2>1, CacheFrame DEF Inv
    <2>2. CASE cache'[b] # cache[b]
      <3>1. cache'[b] = c /\ ~c.built /\ ~c.loaded
        BY <1>5, <1>6, <1>12, <2>2
      <3>2. MetaOk(page, c.m)
        BY <1>2, <1>4, <1>12, <2>2, <3>1 DEF BuildCache, c
      <3> QED BY <1>1, <1>3, <1>4, <3>1, <3>2 DEF CacheOk, SameKey
    <2> QED BY <2>1, <2>2
  <1>16. AnswerOk(query'[b])
    <2>1. CASE over
      BY <1>8, <1>11, <2>1 DEF AnswerOk
    <2>2. CASE ~over
      BY <1>11, <2>2 DEF AnswerOk
    <2> QED BY <2>1, <2>2
  <1>17. QueryOk(b)'
    <2>1. CASE over
      BY <1>0, <1>1, <1>11, <2>1, QueryGoesOn DEF QueryOk, Segmented
    <2>2. CASE ~over
      <3>1. cache'[b] = c
        BY <1>12, <2>2
      <3>2. q.must \subseteq 1..c.count
        BY <1>2, <1>4 DEF NodeIds
      <3>3. query'[b].pc = "load"
        BY <1>11, <2>2
      <3> HIDE DEF q, over
      <3> QED BY <1>0, <1>1, <1>4, <1>7, <1>11, <3>1, <3>2, <3>3, QueryGoesOn, ZenonT(40)
              DEF QueryOk, Segmented, Covers, q
    <2> QED BY <2>1, <2>2
  <1>18. /\ ins.pc # "idle" => ins.b # b
         /\ vac.pc = "mark" => vac.todo \cap query'[b].snap = {}
    BY <1>0, <1>1, <1>11, QueryGoesOn
  <1> QED BY <1>0, <1>1, <1>10, <1>12, <1>13, <1>15, <1>16, <1>17, <1>18, QueryLeaves

LEMMA QueryLoadInv ==
    ASSUME Inv, NEW b \in Readers, QueryLoad(b)
    PROVE  Inv'
  <1> DEFINE q == query[b]
             c == cache[b]
             live == {k \in 1..c.count : ~nodes[k].dead}
  <1>0. b \in Backends
    BY QueriesAssumption
  <1>1. /\ q.pc = "load" /\ UNCHANGED <<nodes, page, meta, ins, vac, cursor, ghost>>
        /\ cache' = IF c.loaded THEN cache ELSE [cache EXCEPT ![b].loaded = TRUE, ![b].live = live]
        /\ query' = [query EXCEPT ![b].pc = "delta"]
    BY DEF QueryLoad
  <1>2. /\ q \in QueryRunning /\ QueryOk(b) /\ CacheOk(b)
        /\ c.valid /\ SameKey(c.m, q.m) /\ q.must \subseteq 1..c.count
    BY <1>0, <1>1, QueryShape DEF Inv, QueryOk
  <1>3. c \in CacheLoaded /\ c.count \in Nat /\ live \in SUBSET Nat
    <2>1. c \in CacheLoaded
      BY <1>0, <1>2, CacheShape DEF Inv
    <2>2. c.count \in Nat
      BY <2>1 DEF CacheLoaded
    <2> QED BY <2>1, <2>2
  <1>4. query'[b] = [q EXCEPT !.pc = "delta"] /\ \A a \in Backends : a # b => query'[a] = query[a]
    BY <1>0, <1>1 DEF Inv, TypeOK
  <1>5. /\ query'[b] \in QueryRunning /\ query'[b].pc = "delta"
        /\ query'[b].m = q.m /\ query'[b].must = q.must /\ query'[b].snap = q.snap
    BY <1>2, <1>4 DEF QueryRunning
  <1> HIDE DEF live
  <1>6. /\ c.loaded => cache'[b] = c
        /\ ~c.loaded => cache'[b] = [c EXCEPT !.loaded = TRUE, !.live = live]
        /\ \A a \in Backends : a # b => cache'[a] = cache[a]
    BY <1>0, <1>1 DEF Inv, TypeOK
  <1>7. /\ cache'[b] \in CacheLoaded /\ cache'[b].valid /\ cache'[b].m = c.m
        /\ cache'[b].count = c.count /\ cache'[b].lexicon = c.lexicon
        /\ cache'[b].built = c.built /\ cache'[b].delta = c.delta /\ cache'[b].loaded
        /\ ~c.loaded => cache'[b].live = live
    BY <1>3, <1>6, ZenonT(40) DEF CacheLoaded
  <1>8. TypeOK'
    <2>1. query' \in [Backends -> QueryState]
      BY <1>0, <1>1, <1>4, <1>5 DEF Inv, TypeOK, QueryState
    <2>2. cache' \in [Backends -> CacheState]
      BY <1>0, <1>1, <1>6, <1>7 DEF Inv, TypeOK, CacheState
    <2> QED BY <1>1, <2>1, <2>2 DEF Inv, TypeOK
  <1>9. CacheOk(b)'
    <2>1. CASE c.loaded
      <3>1. Frame(0, 0)
        BY <1>1, <1>8, SameStep
      <3> QED BY <1>0, <1>1, <1>6, <2>1, <3>1, CacheFrame DEF Inv
    <2>2. CASE ~c.loaded
      <3>1. ~c.built /\ MetaOk(page, c.m) /\ c.lexicon = page[c.m.base].data /\ c.count <= Len(nodes)
        BY <1>2, <2>2 DEF CacheOk
      <3>2. \A k \in 1..c.count : nodes[k].dead \/ k \in live
        BY DEF live
      <3> HIDE DEF c
      <3> QED BY <1>1, <1>7, <2>2, <3>1, <3>2 DEF CacheOk
    <2> QED BY <2>1, <2>2
  <1>10. QueryOk(b)'
    <2>1. c.built => Covers(c, q.must \cap DeltaNodes(page, q.m))
      BY <1>1, <1>2 DEF QueryOk
    <2>2. SameKey(cache'[b].m, query'[b].m) /\ query'[b].must \subseteq 1..cache'[b].count
      BY <1>2, <1>5, <1>7
    <2> HIDE DEF q, c
    <2> QED BY <1>0, <1>1, <1>5, <1>7, <2>1, <2>2, QueryGoesOn DEF QueryOk, Covers, Segmented, q
  <1>11. AnswerOk(query'[b])
    BY <1>5 DEF AnswerOk
  <1>12. /\ ins.pc # "idle" => ins.b # b
         /\ vac.pc = "mark" => vac.todo \cap query'[b].snap = {}
    BY <1>0, <1>1, <1>5, QueryGoesOn
  <1> QED BY <1>0, <1>1, <1>4, <1>6, <1>8, <1>9, <1>10, <1>11, <1>12, QueryLeaves

\* What a query reads of the base: the lexemes of its documents, whose rows
\* are live, and nothing of a node outside the base.
LEMMA BaseAnswer ==
    ASSUME Inv, NEW b \in Backends, query[b].pc = "delta"
    PROVE  LET q == query[b]  c == cache[b]  base == BasePostings(c, q.terms) IN
           /\ base \in SUBSET Posting
           /\ \A p \in base : p.node \in BaseNodes(page, q.m)
           /\ \A k \in q.must \cap BaseNodes(page, q.m), t \in q.terms :
                t \in nodes[k].doc => [node |-> k, term |-> t] \in base
           /\ q.must \subseteq c.live
  <1> DEFINE q == query[b]
             c == cache[b]
             base == BasePostings(c, q.terms)
  <1>1. /\ QueryOk(b) /\ CacheOk(b) /\ c.valid /\ c.loaded /\ SameKey(c.m, q.m)
        /\ q.must \subseteq 1..c.count /\ MetaOk(page, q.m)
        /\ \A k \in q.must : ~nodes[k].dead
    BY DEF Inv, QueryOk
  <1>2. q.terms \in SUBSET Terms
    BY QueryShape DEF Inv
  <1>3. c.lexicon = page[q.m.base].data /\ q.must \subseteq c.live
    BY <1>1 DEF CacheOk, SameKey
  <1>4. c.lexicon \subseteq DocTuple /\ c.lexicon \subseteq Docs
    BY <1>1, <1>3, DeltaDocs DEF Inv
  <1>5. base \in SUBSET Posting /\ \A p \in base : p.node \in BaseNodes(page, q.m)
    <2> SUFFICES ASSUME NEW p \in base PROVE p \in Posting /\ p.node \in BaseNodes(page, q.m)
      OBVIOUS
    <2>1. PICK d \in c.lexicon : \E t \in d.terms \cap q.terms : p = [node |-> d.node, term |-> t]
      BY DEF BasePostings
    <2>2. d \in DocTuple
      BY <1>4, <2>1
    <2> QED BY <1>2, <1>3, <2>1, <2>2 DEF DocTuple, Posting, BaseNodes
  <1>6. ASSUME NEW k \in q.must \cap BaseNodes(page, q.m), NEW t \in q.terms, t \in nodes[k].doc
        PROVE  [node |-> k, term |-> t] \in base
    <2>1. PICK d \in c.lexicon : d.node = k
      BY <1>3 DEF BaseNodes
    <2>2. d.terms = nodes[k].doc
      BY <1>4, <2>1 DEF Docs
    <2>3. d \in {e \in c.lexicon : e.node \in c.live}
      BY <1>3, <2>1
    <2> QED BY <1>6, <2>1, <2>2, <2>3 DEF BasePostings
  <1> QED BY <1>3, <1>5, <1>6

\* What it reads of the chain of documents, and of the term segments.
LEMMA ChainAnswer ==
    ASSUME Inv, NEW m, MetaOk(page, m), NEW live, NEW scan, scan = DocScan(m, live)
    PROVE  /\ scan \in SUBSET Posting /\ scan \subseteq Postings
           /\ \A p \in scan : p.node \in DeltaNodes(page, m)
           /\ \A k \in live \cap DeltaNodes(page, m) : \A t \in nodes[k].doc :
                [node |-> k, term |-> t] \in scan
  <1>1. Items(page, m.start) \subseteq Docs /\ Items(page, m.start) \subseteq DocTuple
    BY DeltaDocs DEF Inv
  <1>2. \A k \in NodeIds : nodes[k].doc \in SUBSET Terms /\ k \in Nat
    BY NodeShape DEF Inv
  <1>3. ASSUME NEW p \in scan
        PROVE  p \in Posting /\ p \in Postings /\ p.node \in DeltaNodes(page, m)
    <2>1. PICK d \in Items(page, m.start) : \E t \in d.terms : p = [node |-> d.node, term |-> t]
      BY DEF DocScan
    <2>2. PICK k \in NodeIds : d = [node |-> k, terms |-> nodes[k].doc]
      BY <1>1, <2>1 DEF Docs
    <2>3. PICK t \in nodes[k].doc : p = [node |-> k, term |-> t]
      BY <2>1, <2>2
    <2>4. k \in DeltaNodes(page, m)
      BY <2>2 DEF DeltaNodes
    <2> QED BY <1>2, <2>3, <2>4 DEF Posting, Postings
  <1>4. ASSUME NEW k \in live \cap DeltaNodes(page, m), NEW t \in nodes[k].doc
        PROVE  [node |-> k, term |-> t] \in scan
    <2>1. PICK d \in Items(page, m.start) : d.node = k
      BY DEF DeltaNodes
    <2>2. d.terms = nodes[k].doc
      BY <1>1, <2>1 DEF Docs
    <2>3. d \in {e \in Items(page, m.start) : e.node \in live}
      BY <2>1
    <2> QED BY <2>1, <2>2, <2>3 DEF DocScan
  <1> QED BY <1>3, <1>4

LEMMA SegmentAnswer ==
    ASSUME Inv, NEW m, MetaOk(page, m), m.dir # Invalid, NEW terms \in SUBSET Terms, NEW live,
           NEW found, found = TermSegments(m, terms, live)
    PROVE  /\ found \in SUBSET Posting /\ found \subseteq Postings
           /\ \A p \in found : p.node \in SegmentNodes(page, m) /\ p.term \in terms /\ p.node \in live
           /\ \A k \in live, t \in terms :
                [node |-> k, term |-> t] \in Items(page, page[m.dir].data[BucketNo[t]].start)
                  => [node |-> k, term |-> t] \in found
  <1> DEFINE dir == page[m.dir].data
             needed == {BucketNo[t] : t \in terms}
  <1>1. found = {p \in UNION {Items(page, dir[k].start) : k \in needed} :
                    p.term \in terms /\ p.node \in live}
    BY DEF TermSegments
  <1>2. needed \subseteq Buckets
    BY BucketAssumption
  <1>3. DirectoryOk(page, dir)
    BY DeltaDocs DEF Inv
  <1>4. \A k \in Buckets : /\ Items(page, dir[k].start) \subseteq Posting
                           /\ Items(page, dir[k].start) \subseteq Postings
    <2> SUFFICES ASSUME NEW k \in Buckets
                 PROVE  /\ Items(page, dir[k].start) \subseteq Posting
                        /\ Items(page, dir[k].start) \subseteq Postings
      OBVIOUS
    <2>1. CASE dir[k].start = Invalid
      BY <2>1 DEF Items, Chain
    <2>2. CASE dir[k].start # Invalid
      <3>1. dir[k].start \in Blocks /\ page[dir[k].start].kind = "term"
        BY <1>3, <2>2 DEF DirectoryOk, OnChain, Blocks
      <3> QED BY <3>1, ChainItems DEF Inv
    <2> QED BY <2>1, <2>2
  <1>5. SegmentNodes(page, m) = {p.node : p \in SegmentItems(page, dir)}
    BY DEF SegmentNodes
  <1> HIDE DEF dir
  <1>6. ASSUME NEW p \in found
        PROVE  /\ p \in Posting /\ p \in Postings
               /\ p.node \in SegmentNodes(page, m) /\ p.term \in terms /\ p.node \in live
    <2>1. PICK k \in needed : p \in Items(page, dir[k].start)
      BY <1>1
    <2>2. k \in Buckets
      BY <1>2
    <2>3. p \in SegmentItems(page, dir)
      BY <2>1, <2>2 DEF SegmentItems
    <2> QED BY <1>1, <1>4, <1>5, <2>1, <2>2, <2>3
  <1>7. ASSUME NEW k \in live, NEW t \in terms,
               [node |-> k, term |-> t] \in Items(page, dir[BucketNo[t]].start)
        PROVE  [node |-> k, term |-> t] \in found
    <2>1. BucketNo[t] \in needed
      OBVIOUS
    <2> QED BY <1>1, <1>7, <2>1
  <1> QED BY <1>6, <1>7 DEF dir

\* A query that scores the base and a delta that holds what it must find there
\* and leads nowhere else answers right.
LEMMA ScoredIsRight ==
    ASSUME Inv, NEW b \in Backends, query[b].pc = "delta", NEW delta \in SUBSET Posting,
           \A p \in delta : p.node \in DeltaNodes(page, query[b].m) \cup SegmentNodes(page, query[b].m),
           \A k \in query[b].must \cap DeltaNodes(page, query[b].m), t \in query[b].terms :
             t \in nodes[k].doc => [node |-> k, term |-> t] \in delta,
           NEW c, BasePostings(c, query[b].terms) = BasePostings(cache[b], query[b].terms),
           UNCHANGED <<nodes, page, meta, ins, vac, cursor, ghost>>,
           query' = [query EXCEPT ![b] = Scored(query[b], c, delta)]
    PROVE  /\ query' \in [Backends -> QueryState]
           /\ \A a \in Backends : a # b => query'[a] = query[a]
           /\ AnswerOk(query'[b]) /\ QueryOk(b)'
           /\ ins.pc # "idle" => ins.b # b
           /\ vac.pc = "mark" => vac.todo \cap query'[b].snap = {}
  <1> DEFINE q == query[b]
             base == BasePostings(cache[b], q.terms)
  <1>1. q \in QueryRunning
    BY QueryShape DEF Inv
  <1>2. /\ base \in SUBSET Posting
        /\ \A p \in base : p.node \in BaseNodes(page, q.m)
        /\ \A k \in q.must \cap BaseNodes(page, q.m), t \in q.terms :
             t \in nodes[k].doc => [node |-> k, term |-> t] \in base
    BY BaseAnswer
  <1>3. query'[b] = Answer(q, base, delta) /\ \A a \in Backends : a # b => query'[a] = query[a]
    BY DEF Inv, TypeOK, Scored
  <1> HIDE DEF base
  <1>4. /\ query'[b] \in QueryDone /\ query'[b].pc = "done" /\ query'[b].m = q.m
        /\ query'[b].must = q.must /\ query'[b].snap = q.snap /\ query'[b].terms = q.terms
        /\ query'[b].base = base /\ query'[b].delta = delta
    BY <1>1, <1>2, <1>3 DEF Answer, QueryRunning, QueryDone
  <1>5. query' \in [Backends -> QueryState]
    BY <1>3, <1>4 DEF Inv, TypeOK, QueryState
  <1>6. \A k \in q.must, t \in q.terms :
          t \in nodes[k].doc => [node |-> k, term |-> t] \in base \cup delta
    <2> SUFFICES ASSUME NEW k \in q.must, NEW t \in q.terms, t \in nodes[k].doc
                 PROVE  [node |-> k, term |-> t] \in base \cup delta
      OBVIOUS
    <2>1. k \in BaseNodes(page, q.m) \cup DeltaNodes(page, q.m)
      BY DEF Inv, QueryOk
    <2> QED BY <1>2, <2>1
  <1>7. \A p \in base \cap delta : p.node \in ghost.twice
    <2>1. OnceOk(page, ins, ghost.twice, q.m)
      BY DEF Inv, QueryOk
    <2> QED BY <1>2, <2>1 DEF OnceOk
  <1>8. AnswerOk(query'[b])
    BY <1>4, <1>6, <1>7 DEF AnswerOk
  <1>9. QueryOk(b)'
    BY <1>4, QueryGoesOn DEF QueryOk, Segmented
  <1>10. /\ ins.pc # "idle" => ins.b # b
         /\ vac.pc = "mark" => vac.todo \cap query'[b].snap = {}
    BY <1>4, QueryGoesOn
  <1> QED BY <1>3, <1>5, <1>8, <1>9, <1>10

LEMMA QueryDeltaFilteredInv ==
    ASSUME Inv, NEW b \in Readers, QueryDeltaFiltered(b)
    PROVE  Inv'
  <1> DEFINE q == query[b]
             c == cache[b]
             scan == DocScan(q.m, c.live)
             found == TermSegments(q.m, q.terms, c.live)
             delta == IF q.m.dir # Invalid THEN found ELSE {p \in scan : p.term \in q.terms}
  <1>0. b \in Backends
    BY QueriesAssumption
  <1>1. /\ q.pc = "delta" /\ query' = [query EXCEPT ![b] = Scored(q, c, delta)]
        /\ UNCHANGED <<nodes, page, meta, ins, vac, cursor, cache, ghost>>
    BY DEF QueryDeltaFiltered
  <1>2. MetaOk(page, q.m) /\ q.terms \in SUBSET Terms /\ q.must \subseteq c.live
    BY <1>0, <1>1, BaseAnswer, QueryShape DEF Inv, QueryOk
  <1>3. /\ delta \in SUBSET Posting
        /\ \A p \in delta : p.node \in DeltaNodes(page, q.m) \cup SegmentNodes(page, q.m)
        /\ \A k \in q.must \cap DeltaNodes(page, q.m), t \in q.terms :
             t \in nodes[k].doc => [node |-> k, term |-> t] \in delta
    <2>1. CASE q.m.dir # Invalid
      <3>1. /\ found \in SUBSET Posting
            /\ \A p \in found : p.node \in SegmentNodes(page, q.m)
            /\ \A k \in c.live, t \in q.terms :
                 [node |-> k, term |-> t] \in Items(page, page[q.m.dir].data[BucketNo[t]].start)
                   => [node |-> k, term |-> t] \in found
        BY <1>2, <2>1, SegmentAnswer
      <3>2. Segmented(page, page[q.m.dir].data, q.must \cap DeltaNodes(page, q.m))
        BY <1>0, <1>1, <2>1 DEF Inv, QueryOk
      <3> HIDE DEF found
      <3> QED BY <1>2, <2>1, <3>1, <3>2 DEF Segmented
    <2>2. CASE q.m.dir = Invalid
      <3>1. /\ scan \in SUBSET Posting
            /\ \A p \in scan : p.node \in DeltaNodes(page, q.m)
            /\ \A k \in c.live \cap DeltaNodes(page, q.m) : \A t \in nodes[k].doc :
                 [node |-> k, term |-> t] \in scan
        BY <1>2, ChainAnswer
      <3> HIDE DEF scan
      <3> QED BY <1>2, <2>2, <3>1
    <2> QED BY <2>1, <2>2
  <1> HIDE DEF delta
  <1>4. /\ query' \in [Backends -> QueryState]
        /\ \A a \in Backends : a # b => query'[a] = query[a]
        /\ AnswerOk(query'[b]) /\ QueryOk(b)'
        /\ ins.pc # "idle" => ins.b # b
        /\ vac.pc = "mark" => vac.todo \cap query'[b].snap = {}
    BY <1>0, <1>1, <1>3, ScoredIsRight
  <1>5. TypeOK'
    BY <1>1, <1>4 DEF Inv, TypeOK
  <1>6. CacheOk(b)'
    <2>1. Frame(0, 0)
      BY <1>1, <1>5, SameStep
    <2> QED BY <1>0, <1>1, <2>1, CacheFrame DEF Inv
  <1> QED BY <1>0, <1>1, <1>4, <1>5, <1>6, QueryLeaves

LEMMA QueryDeltaCachedInv ==
    ASSUME Inv, NEW b \in Readers, QueryDeltaCached(b)
    PROVE  Inv'
  <1> DEFINE q == query[b]
             old == cache[b]
             scan == DocScan(q.m, old.live)
             c == IF old.built THEN old ELSE [old EXCEPT !.built = TRUE, !.delta = scan]
             delta == {p \in c.delta : p.term \in q.terms}
  <1>0. b \in Backends
    BY QueriesAssumption
  <1>1. /\ q.pc = "delta" /\ query' = [query EXCEPT ![b] = Scored(q, c, delta)]
        /\ cache' = [cache EXCEPT ![b] = c]
        /\ UNCHANGED <<nodes, page, meta, ins, vac, cursor, ghost>>
    BY DEF QueryDeltaCached
  <1>2. /\ MetaOk(page, q.m) /\ q.terms \in SUBSET Terms /\ q.must \subseteq old.live
        /\ QueryOk(b) /\ CacheOk(b) /\ old.valid /\ old.loaded
        /\ SameKey(old.m, q.m) /\ q.must \subseteq 1..old.count
    BY <1>0, <1>1, BaseAnswer, QueryShape DEF Inv, QueryOk
  <1>3. old \in CacheLoaded
    BY <1>0, <1>2, CacheShape DEF Inv
  <1>4. /\ scan \in SUBSET Posting /\ scan \subseteq Postings
        /\ \A p \in scan : p.node \in DeltaNodes(page, q.m)
        /\ \A k \in old.live \cap DeltaNodes(page, q.m) : \A t \in nodes[k].doc :
             [node |-> k, term |-> t] \in scan
    BY <1>2, ChainAnswer
  <1>5. DeltaNodes(page, old.m) = DeltaNodes(page, q.m)
    BY <1>2 DEF SameKey, DeltaNodes
  <1> HIDE DEF scan
  <1>6. /\ c \in CacheLoaded /\ c.valid /\ c.built /\ c.loaded /\ c.m = old.m /\ c.count = old.count
        /\ c.lexicon = old.lexicon /\ c.live = old.live
        /\ c.delta = IF old.built THEN old.delta ELSE scan
    <2>1. CASE old.built
      BY <1>2, <1>3, <2>1
    <2>2. CASE ~old.built
      <3>1. c = [old EXCEPT !.built = TRUE, !.delta = scan]
        BY <2>2
      <3> HIDE DEF c
      <3> QED BY <1>2, <1>3, <1>4, <2>2, <3>1 DEF CacheLoaded
    <2> QED BY <2>1, <2>2
  <1>7. /\ c.delta \subseteq {p \in Postings : p.node \in DeltaNodes(page, q.m)}
        /\ Covers(c, q.must \cap DeltaNodes(page, q.m))
        /\ c.delta \in SUBSET Posting
    <2>1. CASE old.built
      <3>1. Covers(old, q.must \cap DeltaNodes(page, q.m))
        BY <1>1, <1>2, <2>1 DEF QueryOk
      <3>2. old.delta \subseteq {p \in Postings : p.node \in DeltaNodes(page, old.m)}
        BY <1>2, <2>1 DEF CacheOk
      <3>3. old.delta \in SUBSET Posting
        BY <1>3 DEF CacheLoaded
      <3> HIDE DEF c, old
      <3> QED BY <1>5, <1>6, <2>1, <3>1, <3>2, <3>3 DEF Covers
    <2>2. CASE ~old.built
      <3> HIDE DEF c, old
      <3> QED BY <1>2, <1>4, <1>6, <2>2 DEF Covers
    <2> QED BY <2>1, <2>2
  <1>8. SameKey(c.m, meta) =>
          Covers(c, {k \in DeltaNodes(page, meta) \cap ghost.published : ~nodes[k].dead})
    <2>1. CASE old.built
      <3>1. SameKey(old.m, meta) =>
              Covers(old, {k \in DeltaNodes(page, meta) \cap ghost.published : ~nodes[k].dead})
        BY <1>2, <2>1 DEF CacheOk
      <3> QED BY <2>1, <3>1
    <2>2. CASE ~old.built
      <3> SUFFICES ASSUME SameKey(old.m, meta), NEW k \in DeltaNodes(page, meta) \cap ghost.published,
                          ~nodes[k].dead, k <= old.count, NEW t \in nodes[k].doc
                   PROVE  [node |-> k, term |-> t] \in scan
        BY <1>6, <2>2 DEF Covers
      <3>1. DeltaNodes(page, meta) = DeltaNodes(page, q.m)
        BY <1>2 DEF SameKey, DeltaNodes
      <3>2. old.count \in Nat /\ k \in NodeIds
        BY <1>3 DEF CacheLoaded, Inv, NodesInv
      <3>3. k \in 1..old.count
        BY <3>2, NodeShape DEF Inv, NodeIds
      <3>4. k \in old.live
        BY <1>2, <3>3 DEF CacheOk
      <3> QED BY <1>4, <3>1, <3>4
    <2> QED BY <2>1, <2>2
  <1>9. BasePostings(c, q.terms) = BasePostings(old, q.terms)
    BY <1>6 DEF BasePostings
  <1> HIDE DEF c
  <1>10. /\ delta \in SUBSET Posting
         /\ \A p \in delta : p.node \in DeltaNodes(page, q.m) \cup SegmentNodes(page, q.m)
         /\ \A k \in q.must \cap DeltaNodes(page, q.m), t \in q.terms :
              t \in nodes[k].doc => [node |-> k, term |-> t] \in delta
    <2>1. \A k \in q.must : k <= c.count
      BY <1>2, <1>3, <1>6 DEF CacheLoaded
    <2> QED BY <1>7, <2>1 DEF Covers
  <1>11. cache'[b] = c /\ \A a \in Backends : a # b => cache'[a] = cache[a]
    BY <1>0, <1>1 DEF Inv, TypeOK
  <1> HIDE DEF delta
  <1>12. /\ query' \in [Backends -> QueryState]
         /\ \A a \in Backends : a # b => query'[a] = query[a]
         /\ AnswerOk(query'[b]) /\ QueryOk(b)'
         /\ ins.pc # "idle" => ins.b # b
         /\ vac.pc = "mark" => vac.todo \cap query'[b].snap = {}
    BY <1>0, <1>1, <1>9, <1>10, ScoredIsRight
  <1>13. TypeOK'
    <2>1. cache' \in [Backends -> CacheState]
      BY <1>1, <1>6 DEF Inv, TypeOK, CacheState
    <2> QED BY <1>1, <1>12, <2>1 DEF Inv, TypeOK
  <1>14. CacheOk(b)'
    <2>1. /\ MetaOk(page, c.m) /\ c.lexicon = page[c.m.base].data /\ c.count <= Len(nodes)
          /\ \A k \in 1..c.count : nodes[k].dead \/ k \in c.live
      BY <1>2, <1>6 DEF CacheOk
    <2>2. c.delta \subseteq {p \in Postings : p.node \in DeltaNodes(page, c.m)}
      BY <1>5, <1>6, <1>7
    <2>3. Postings' = Postings
      BY <1>1 DEF Postings, NodeIds
    <2> QED BY <1>1, <1>6, <1>8, <1>11, <2>1, <2>2, <2>3 DEF CacheOk, Covers
  <1> QED BY <1>0, <1>1, <1>11, <1>12, <1>13, <1>14, QueryLeaves

(***************************************************************************)
(* Inserts and deletes.                                                    *)
(***************************************************************************)

\* What an insert leaves alone while it appends.
LEMMA InsertLeaves ==
    ASSUME Inv, NEW H, NEW it, Frame(H, it), UNCHANGED <<meta, vac, cursor, cache, query>>,
           ghost'.published = ghost.published, ghost'.twice = ghost.twice,
           ghost'.lost = ghost.lost, ghost'.since = ghost.since,
           ins'.pc = "segments" => ins.pc \in {"append", "segments"} /\ ins'.node = ins.node,
           H # 0 => meta.dir = Invalid \/ ins.node \in DeltaNodes(page', meta),
           PagesInv', NodesInv', InsInv', InsChainInv'
    PROVE  Inv'
  <1>1. TypeOK'
    BY DEF Frame
  <1>2. MetaInv'
    BY MetaFrame DEF Inv
  <1>3. CursorInv'
    BY CursorFrame DEF Inv
  <1>4. VacInv'
    BY VacFrame DEF Inv
  <1>5. OnceOk(page', ins', ghost'.twice, meta')
    <2>1. MetaOk(page, meta)
      BY DEF Inv, MetaInv
    <2>2. OnceOk(page', ins', ghost'.twice, meta)
      BY <2>1, OnceFrame DEF Inv
    <2> QED BY <2>2
  <1>6. ASSUME NEW b \in Backends PROVE CacheOk(b)' /\ QueryOk(b)'
    <2>1. CacheOk(b) /\ QueryOk(b)
      BY DEF Inv
    <2>2. CacheOk(b)'
      BY <2>1, CacheFrame DEF Inv
    <2>3. QueryOk(b)'
      BY <2>1, QueryFrame DEF Inv
    <2> QED BY <2>2, <2>3
  <1>7. StoreComplete' /\ CountsAgree'
    BY StoreFrame DEF Inv
  <1>8. QueryExact'
    BY AnswersFrame DEF Inv
  <1> QED BY <1>1, <1>2, <1>3, <1>4, <1>5, <1>6, <1>7, <1>8 DEF Inv

\* A node that is appended to the graph is in no page and in no collection.
LEMMA NewNode ==
    ASSUME Inv, NEW doc \in SUBSET Terms, TypeOK',
           nodes' = Append(nodes, [doc |-> doc, row |-> "live", dead |-> FALSE]),
           UNCHANGED <<page, vac, query, ghost>>
    PROVE  /\ Frame(0, 0) /\ PagesInv' /\ NodesInv'
           /\ Len(nodes) + 1 \in NodeIds' /\ Len(nodes) + 1 \notin NodeIds
           /\ nodes'[Len(nodes) + 1].doc = doc
           /\ Len(nodes) + 1 \notin ghost.published
           /\ \A d \in Docs : d.node # Len(nodes) + 1
  <1> DEFINE n == Len(nodes) + 1
  <1>1. Len(nodes) \in Nat /\ nodes \in Seq(Node)
    BY DEF Inv, TypeOK
  <1>2. /\ Len(nodes') = n
        /\ \A k \in NodeIds : nodes'[k] = nodes[k]
        /\ nodes'[n] = [doc |-> doc, row |-> "live", dead |-> FALSE]
    BY <1>1 DEF NodeIds
  <1>3. n \in NodeIds' /\ n \notin NodeIds /\ NodeIds' = NodeIds \cup {n}
    BY <1>1, <1>2 DEF NodeIds
  <1>4. nodes'[n].doc = doc /\ nodes'[n].dead = FALSE
    BY <1>2
  <1>5. NodesStep
    <2>1. Len(nodes) <= Len(nodes')
      BY <1>1, <1>2
    <2>2. \A k \in NodeIds : nodes'[k].doc = nodes[k].doc /\ nodes'[k].row = nodes[k].row
                             /\ nodes'[k].dead = nodes[k].dead
      BY <1>2
    <2> QED BY <2>1, <2>2 DEF NodesStep
  <1>6. Frame(0, 0)
    <2>1. Grows(page, page', 0, 0)
      BY SamePagesGrow, PagesHeads DEF Inv
    <2> QED BY <1>5, <2>1 DEF Frame, Inv
  <1>7. PagesInv'
    <2>1. Len(page') # Len(page) + 1
      BY PageShape DEF Inv
    <2> QED BY <1>6, <2>1, PagesFrame
  <1>8. NodesInv'
    <2>1. \A k \in NodeIds' : nodes'[k].dead => nodes'[k].row # "live"
      BY <1>2, <1>3, <1>4 DEF Inv, NodesInv
    <2>2. ghost.published \subseteq NodeIds'
      BY <1>3 DEF Inv, NodesInv
    <2>3. vac.pc = "mark" => vac.todo \subseteq {k \in NodeIds' : nodes'[k].row # "live"}
      BY <1>2, <1>3 DEF Inv, NodesInv
    <2> QED BY <2>1, <2>2, <2>3 DEF Inv, NodesInv
  <1>9. n \notin ghost.published
    BY <1>3 DEF Inv, NodesInv
  <1>10. \A d \in Docs : d.node # n
    BY <1>3 DEF Docs
  <1> QED BY <1>3, <1>4, <1>6, <1>7, <1>8, <1>9, <1>10

LEMMA InsertInv ==
    ASSUME Inv, NEW b \in Backends, NEW doc \in NewDocs, Insert(b, doc)
    PROVE  Inv'
  <1> DEFINE n == Len(nodes) + 1
  <1>1. /\ ins.pc = "idle" /\ ~Busy(b)
        /\ nodes' = Append(nodes, [doc |-> doc, row |-> "live", dead |-> FALSE])
        /\ ins' = [pc |-> "read", b |-> b, node |-> n, todo |-> doc]
        /\ UNCHANGED <<page, meta, vac, cursor, cache, query, ghost>>
    BY DEF Insert
  <1>2. doc \in SUBSET Terms /\ query[b].pc = "idle"
    BY <1>1, DocsAssumption DEF Busy
  <1>3. n \in Nat
    BY NodeShape DEF Inv
  <1>4. TypeOK'
    <2>1. ins' \in InsReading
      BY <1>1, <1>2, <1>3 DEF InsReading
    <2>2. nodes' \in Seq(Node)
      BY <1>1, <1>2 DEF Node, Inv, TypeOK
    <2> QED BY <1>1, <2>1, <2>2 DEF TypeOK, Inv, InsertState
  <1>5. /\ Frame(0, 0) /\ PagesInv' /\ NodesInv'
        /\ n \in NodeIds' /\ nodes'[n].doc = doc /\ n \notin ghost.published
        /\ \A d \in Docs : d.node # n
    BY <1>1, <1>2, <1>4, NewNode
  <1>6. ins'.pc = "read" /\ ins'.b = b /\ ins'.node = n /\ ins'.todo = doc
    BY <1>1
  <1>7. \A x \in Blocks : page[x].kind \in {"base", "delta"} => \A d \in page[x].data : d.node # n
    BY <1>5 DEF Inv, PagesInv
  <1>8. vac.pc \in {"delta", "write", "publish"} => \A d \in vac.docs : d.node # n
    BY <1>5 DEF Inv, VacInv
  <1>9. InsInv'
    <2> HIDE DEF n
    <2> QED BY <1>1, <1>2, <1>5, <1>6, <1>7, <1>8 DEF InsInv, Blocks
  <1>10. InsChainInv'
    BY <1>6 DEF InsChainInv, InsRunning
  <1> QED BY <1>1, <1>5, <1>6, <1>9, <1>10, InsertLeaves

LEMMA InsertWithoutTextInv ==
    ASSUME Inv, NEW b \in Backends, InsertWithoutText(b)
    PROVE  Inv'
  <1>1. /\ ins.pc = "idle"
        /\ nodes' = Append(nodes, [doc |-> {}, row |-> "live", dead |-> FALSE])
        /\ UNCHANGED <<page, meta, ins, vac, cursor, cache, query, ghost>>
    BY DEF InsertWithoutText
  <1>2. TypeOK'
    <2>1. nodes' \in Seq(Node)
      BY <1>1 DEF Node, Inv, TypeOK
    <2> QED BY <1>1, <2>1 DEF TypeOK, Inv
  <1>3. Frame(0, 0) /\ PagesInv' /\ NodesInv'
    BY <1>1, <1>2, NewNode
  <1>4. InsInv' /\ InsChainInv'
    BY <1>1 DEF InsInv, InsChainInv, InsRunning
  <1> QED BY <1>1, <1>3, <1>4, InsertLeaves

\* A row that is gone.
LEMMA RowGone ==
    ASSUME Inv, NEW k \in NodeIds, nodes' = [nodes EXCEPT ![k].row = "gone"],
           UNCHANGED <<page, meta, vac, cursor, cache, query>>,
           ins' \in InsertState, ghost' \in Ghost, ghost'.published = ghost.published
    PROVE  /\ Frame(0, 0) /\ PagesInv' /\ NodesInv'
           /\ NodeIds' = NodeIds
           /\ \A j \in NodeIds : nodes'[j].doc = nodes[j].doc
  <1>1. Len(nodes) \in Nat /\ nodes \in Seq(Node) /\ nodes[k] \in Node
    BY NodeShape DEF Inv, TypeOK
  <1>2. Len(nodes') = Len(nodes) /\ \A j \in NodeIds : j # k => nodes'[j] = nodes[j]
    BY <1>1 DEF NodeIds
  <1>3. nodes'[k] = [nodes[k] EXCEPT !.row = "gone"]
    <2>1. k \in DOMAIN nodes
      BY <1>1 DEF NodeIds
    <2> QED BY <2>1, Zenon
  <1>4. nodes'[k].doc = nodes[k].doc /\ nodes'[k].row = "gone" /\ nodes'[k].dead = nodes[k].dead
        /\ nodes'[k] \in Node
    BY <1>1, <1>3, SMTT(30) DEF Node
  <1>5. nodes' \in Seq(Node)
    BY <1>1, <1>3, <1>4 DEF NodeIds
  <1>6. TypeOK'
    BY <1>5 DEF Inv, TypeOK
  <1>7. NodeIds' = NodeIds
    BY <1>2 DEF NodeIds
  <1>8. \A j \in NodeIds : /\ nodes'[j].doc = nodes[j].doc /\ nodes'[j].dead = nodes[j].dead
                           /\ nodes'[j].row = "live" => nodes[j].row = "live"
    BY <1>2, <1>4
  <1>9. NodesStep
    BY <1>1, <1>2, <1>8 DEF NodesStep
  <1>10. Frame(0, 0)
    <2>1. Grows(page, page', 0, 0)
      BY SamePagesGrow, PagesHeads DEF Inv
    <2> QED BY <1>6, <1>9, <2>1 DEF Frame, Inv
  <1>11. PagesInv'
    <2>1. Len(page') # Len(page) + 1
      BY PageShape DEF Inv
    <2> QED BY <1>10, <2>1, PagesFrame
  <1>12. NodesInv'
    BY <1>7, <1>8 DEF Inv, NodesInv
  <1> QED BY <1>7, <1>8, <1>10, <1>11, <1>12

LEMMA InsertErrorInv ==
    ASSUME Inv, InsertError
    PROVE  Inv'
  <1>1. /\ ins.pc # "idle" /\ nodes' = [nodes EXCEPT ![ins.node].row = "gone"] /\ ins' = InsIdle
        /\ ghost' = [ghost EXCEPT !.faults = @ + 1]
        /\ UNCHANGED <<page, meta, vac, cursor, cache, query>>
    BY DEF InsertError
  <1>2. ins.node \in NodeIds
    BY <1>1 DEF Inv, InsInv
  <1>3. /\ ghost' \in Ghost /\ ghost'.published = ghost.published /\ ghost'.twice = ghost.twice
        /\ ghost'.lost = ghost.lost /\ ghost'.since = ghost.since
    BY <1>1, GhostCounts DEF Inv, TypeOK
  <1>4. ins' \in InsertState /\ ins'.pc = "idle"
    BY <1>1 DEF InsertState, InsIdle
  <1>5. Frame(0, 0) /\ PagesInv' /\ NodesInv'
    BY <1>1, <1>2, <1>3, <1>4, RowGone
  <1>6. InsInv' /\ InsChainInv'
    BY <1>4 DEF InsInv, InsChainInv, InsRunning
  <1> QED BY <1>1, <1>3, <1>4, <1>5, <1>6, InsertLeaves

LEMMA DeleteRowInv ==
    ASSUME Inv, NEW k, DeleteRow(k)
    PROVE  Inv'
  <1>1. /\ k \in NodeIds /\ nodes' = [nodes EXCEPT ![k].row = "gone"]
        /\ ghost' = [ghost EXCEPT !.deletes = @ + 1]
        /\ UNCHANGED <<page, meta, ins, vac, cursor, cache, query>>
    BY DEF DeleteRow
  <1>2. /\ ghost' \in Ghost /\ ghost'.published = ghost.published /\ ghost'.twice = ghost.twice
        /\ ghost'.compactions = ghost.compactions
        /\ ghost'.lost = ghost.lost /\ ghost'.since = ghost.since
    BY <1>1, GhostCounts DEF Inv, TypeOK
  <1>3. ins' \in InsertState
    BY <1>1 DEF Inv, TypeOK
  <1>4. Frame(0, 0) /\ PagesInv' /\ NodesInv'
    BY <1>1, <1>2, <1>3, RowGone
  <1>5. InsInv' /\ InsChainInv'
    <2>1. ins.pc # "idle" => query'[ins.b].pc = "idle"
      BY <1>1 DEF Inv, InsInv
    <2>2. Len(page') # Len(page) + 1
      BY <1>1, PageShape DEF Inv
    <2>3. ins.pc \in {"read", "append"} =>
             (vac'.pc \in {"delta", "write", "publish"} => \A d \in vac'.docs : d.node # ins.node)
      BY <1>1 DEF Inv, InsInv
    <2> QED BY <1>1, <1>2, <1>4, <2>1, <2>2, <2>3, InsFrame DEF Inv
  <1>6. ins'.pc = "segments" => ins.pc \in {"append", "segments"} /\ ins'.node = ins.node
    BY <1>1
  <1> QED BY <1>1, <1>2, <1>4, <1>5, <1>6, InsertLeaves

LEMMA AppendDeltaReadInv ==
    ASSUME Inv, AppendDeltaRead
    PROVE  Inv'
  <1> DEFINE dir == IF meta.dir = Invalid THEN InitDeltaDirectory ELSE page[meta.dir].data
             at == IF CursorHit(ins.b)
                   THEN [pages |-> cursor[ins.b].pages, tail |-> cursor[ins.b].tail]
                   ELSE CountChainPagesAndTail(meta.start)
  <1>1. /\ ins.pc = "read" /\ UNCHANGED <<nodes, page, meta, vac, cursor, cache, query, ghost>>
        /\ ins' = [pc |-> "append", b |-> ins.b, node |-> ins.node, todo |-> ins.todo,
                   start |-> meta.start, seen |-> ghost.compactions, dir |-> dir, at |-> at]
    BY DEF AppendDeltaRead
  <1>2. ins.b \in Backends /\ ins.node \in Nat /\ ins.todo \in SUBSET Terms
    BY <1>1, InsShape DEF Inv
  <1>3. MetaOk(page, meta) /\ meta.start \in Nat
    BY DEF Inv, MetaInv, TypeOK, Meta
  <1>4. dir \in Directory /\ DirectoryOk(page, dir)
        /\ (meta.start = Invalid => \A k \in Buckets : dir[k].start = Invalid)
    <2>1. CASE meta.dir = Invalid
      <3>1. dir = [k \in Buckets |-> [start |-> 0, tail |-> 0, pages |-> 0]]
        BY <2>1 DEF InitDeltaDirectory, NoBucket, Invalid
      <3> QED BY <3>1 DEF Directory, DirectoryOk, Invalid
    <2>2. CASE meta.dir # Invalid
      <3>1. dir = page[meta.dir].data /\ meta.start # Invalid
        BY <1>3, <2>2 DEF MetaOk, Invalid
      <3> QED BY <1>3, <2>2, <3>1, DeltaDocs DEF Inv
    <2> QED BY <2>1, <2>2
  <1>5. /\ at \in [pages : Nat, tail : Nat]
        /\ \/ meta.start = Invalid /\ at.tail = Invalid
           \/ OnChain(page, "delta", meta.start, at.tail)
    <2>0. cursor[ins.b] \in [gen : Nat, start : Nat, tail : Nat, pages : Nat]
      BY <1>2 DEF Inv, TypeOK
    <2>1. CASE CursorHit(ins.b)
      <3>1. at = [pages |-> cursor[ins.b].pages, tail |-> cursor[ins.b].tail]
            /\ cursor[ins.b].start = meta.start
        BY <2>1 DEF CursorHit
      <3>2. \/ cursor[ins.b].start = Invalid /\ cursor[ins.b].tail = Invalid
            \/ OnChain(page, "delta", cursor[ins.b].start, cursor[ins.b].tail)
        BY <1>2 DEF Inv, CursorInv
      <3> HIDE DEF at
      <3> QED BY <2>0, <3>1, <3>2
    <2>2. CASE ~CursorHit(ins.b)
      <3>1. at = [pages |-> Cardinality(Chain(page, meta.start)),
                  tail |-> IF meta.start = Invalid THEN Invalid ELSE TailBlk(meta.start)]
        BY <2>2 DEF CountChainPagesAndTail
      <3>2. Cardinality(Chain(page, meta.start)) \in Nat
        <4>1. Chain(page, meta.start) \in SUBSET (1..Len(page)) /\ Len(page) \in Nat
          BY PageShape DEF Chain, Inv
        <4>2. IsFiniteSet(1..Len(page))
          BY <4>1, FS_Interval
        <4>3. IsFiniteSet(Chain(page, meta.start))
          BY <4>1, <4>2, FS_Subset
        <4> QED BY <4>3, FS_CardinalityType
      <3> HIDE DEF at
      <3>3. CASE meta.start = Invalid
        BY <3>1, <3>2, <3>3 DEF Invalid
      <3>4. CASE meta.start # Invalid
        <4>1. meta.start \in Blocks /\ page[meta.start].kind = "delta"
          BY <1>3, <3>4 DEF MetaOk, Blocks
        <4>2. TailBlk(meta.start) \in Chain(page, meta.start) /\ TailBlk(meta.start) \in Nat
          BY <4>1, TailIsLast, PageShape DEF Inv, TypeOK
        <4>3. at.tail = TailBlk(meta.start) /\ at \in [pages : Nat, tail : Nat]
          BY <3>1, <3>2, <3>4, <4>2
        <4> QED BY <4>1, <4>2, <4>3 DEF OnChain, Blocks
      <3> QED BY <3>3, <3>4
    <2> QED BY <2>1, <2>2
  <1> HIDE DEF dir, at
  <1>6. ins' \in InsAppending
    <2>1. ghost.compactions \in Nat
      BY DEF Inv, TypeOK, Ghost
    <2> QED BY <1>1, <1>2, <1>3, <1>4, <1>5, <2>1 DEF InsAppending
  <1>7. TypeOK'
    BY <1>1, <1>6 DEF Inv, TypeOK, InsertState
  <1>8. Frame(0, 0) /\ PagesInv'
    BY <1>1, <1>7, SameStep
  <1>9. NodesInv'
    BY <1>1 DEF Inv, NodesInv, NodeIds
  <1>10. /\ ins'.pc = "append" /\ ins'.b = ins.b /\ ins'.node = ins.node /\ ins'.todo = ins.todo
         /\ ins'.start = meta.start /\ ins'.seen = ghost.compactions /\ ins'.dir = dir /\ ins'.at = at
    BY <1>1
  <1>11. InsInv'
    <2>1. InsInv
      BY DEF Inv
    <2> QED BY <1>1, <1>10, <2>1 DEF InsInv, NodeIds, Blocks
  <1>12. InsChainInv'
    <2>1. DeltaNodes(page, ins') = DeltaNodes(page, meta)
      BY <1>10 DEF DeltaNodes
    <2>2. Segmented(page, dir, DeltaNodes(page, meta) \cap ghost.published)
          /\ {p.node : p \in SegmentItems(page, dir)} \subseteq DeltaNodes(page, meta)
      <3>1. CASE meta.dir = Invalid
        <4>1. meta.start = Invalid
          BY <1>3, <3>1 DEF MetaOk, Invalid
        <4>2. DeltaNodes(page, meta) = {}
          BY <4>1 DEF DeltaNodes, Items, Chain
        <4>3. SegmentItems(page, dir) = {}
          BY <1>4, <4>1 DEF SegmentItems, Items, Chain
        <4> QED BY <4>2, <4>3 DEF Segmented
      <3>2. CASE meta.dir # Invalid
        <4>1. dir = page[meta.dir].data
          BY <3>2 DEF dir
        <4> QED BY <3>2, <4>1 DEF Inv, MetaInv, SegmentNodes
      <3> QED BY <3>1, <3>2
    <2>3. BaseNodes(page, meta) \cap DeltaNodes(page, meta) \subseteq ghost.twice
      BY DEF Inv, OnceOk
    <2>5. meta.start = Invalid => \A k \in Buckets : dir[k].start = Invalid
      BY <1>4
    <2>6. ghost.compactions \in Nat
      BY DEF Inv, TypeOK, Ghost
    <2> QED BY <1>1, <1>4, <1>5, <1>10, <2>1, <2>2, <2>3, <2>5, <2>6
        DEF InsChainInv, InsRunning, Segmented
  <1>13. ins'.pc # "segments"
    BY <1>10
  <1> QED BY <1>1, <1>8, <1>9, <1>11, <1>12, <1>13, InsertLeaves

LEMMA AppendDeltaTupleInv ==
    ASSUME Inv, AppendDeltaTuple
    PROVE  Inv'
  <1> DEFINE from == IF ins.at.tail # Invalid THEN ins.at.tail ELSE ins.start
             blk == AppendBlkno(from)
             it == [node |-> ins.node, terms |-> nodes[ins.node].doc]
             H == IF from = Invalid THEN 0 ELSE page[from].head
             start == IF ins.start = Invalid THEN blk ELSE ins.start
             pages == IF ins.start = Invalid THEN 1
                      ELSE IF blk # ins.at.tail THEN ins.at.pages + 1 ELSE ins.at.pages
  <1>1. /\ ins.pc = "append" /\ page' = AppendTuple(from, "delta", it)
        /\ ins' = [ins EXCEPT !.pc = "segments", !.start = start,
                              !.at = [pages |-> pages, tail |-> blk]]
        /\ UNCHANGED <<nodes, meta, vac, cursor, cache, query, ghost>>
    BY DEF AppendDeltaTuple
  <1>2. /\ ins \in InsAppending /\ InsRunning /\ page \in Seq(Page) /\ HeadsOk(page) /\ Len(page) \in Nat
    BY <1>1, InsShape, PagesHeads DEF Inv, InsRunning
  <1>3. /\ meta.start \in {Invalid, ins.start} /\ ins.seen <= ghost.compactions
        /\ DirectoryOk(page, ins.dir)
        /\ \/ /\ ins.start = Invalid /\ ins.at.tail = Invalid
              /\ \A k \in Buckets : ins.dir[k].start = Invalid
           \/ OnChain(page, "delta", ins.start, ins.at.tail)
        /\ Segmented(page, ins.dir, DeltaNodes(page, ins) \cap ghost.published)
        /\ {p.node : p \in SegmentItems(page, ins.dir)} \subseteq DeltaNodes(page, ins)
        /\ ins.seen = ghost.compactions =>
             /\ BaseNodes(page, meta) \cap DeltaNodes(page, ins) \subseteq ghost.twice
             /\ meta.start # ins.start => DeltaNodes(page, ins) \cap ghost.published = {}
    BY <1>2 DEF Inv, InsChainInv
  <1>4. /\ ins.node \in NodeIds \ ghost.published /\ query[ins.b].pc = "idle"
        /\ ins.todo = nodes[ins.node].doc
        /\ \A x \in Blocks : page[x].kind \in {"base", "delta"} => \A d \in page[x].data : d.node # ins.node
    BY <1>1 DEF Inv, InsInv
  <1>5. it \in Docs /\ it \in DocTuple /\ it.node = ins.node
    <2>1. ins.node \in Nat /\ nodes[ins.node].doc \in SUBSET Terms
      BY <1>4, NodeShape DEF Inv
    <2> QED BY <1>4, <2>1 DEF Docs, DocTuple
  <1>6. from = Invalid \/ (/\ from \in Blocks /\ page[from].kind = "delta" /\ from = ins.at.tail
                           /\ ins.start \in Blocks /\ page[ins.start].kind = "delta"
                           /\ from >= ins.start /\ page[from].head = page[ins.start].head)
    <2>1. ASSUME OnChain(page, "delta", ins.start, ins.at.tail)
          PROVE  /\ from \in Blocks /\ page[from].kind = "delta" /\ from = ins.at.tail
                 /\ ins.start \in Blocks /\ page[ins.start].kind = "delta"
                 /\ from >= ins.start /\ page[from].head = page[ins.start].head
      <3>1. /\ ins.start \in 1..Len(page) /\ page[ins.start].kind = "delta"
            /\ ins.at.tail \in 1..Len(page) /\ ins.at.tail >= ins.start
            /\ page[ins.at.tail].head = page[ins.start].head
        BY <2>1 DEF OnChain, Chain
      <3>2. ins.at.tail # Invalid
        BY <1>2, <3>1 DEF Invalid
      <3>3. /\ page[page[ins.start].head].kind = page[ins.start].kind
            /\ page[page[ins.at.tail].head].kind = page[ins.at.tail].kind
        BY <1>2, <3>1 DEF HeadsOk
      <3> QED BY <3>1, <3>2, <3>3 DEF Blocks
    <2>2. ASSUME ins.start = Invalid, ins.at.tail = Invalid PROVE from = Invalid
      BY <2>2
    <2> QED BY <1>3, <2>1, <2>2
  <1>7. from = Invalid => /\ ins.start = Invalid /\ ins.at.tail = Invalid
                          /\ \A k \in Buckets : ins.dir[k].start = Invalid
    <2>1. ASSUME OnChain(page, "delta", ins.start, ins.at.tail) PROVE from # Invalid
      BY <1>2, <2>1 DEF OnChain, Chain, Invalid
    <2> QED BY <1>3, <2>1
  <1> HIDE DEF from, it
  <1>8. /\ Grows(page, page', H, it)
        /\ blk \in 1..Len(page') /\ page'[blk].kind = "delta" /\ it \in page'[blk].data
        /\ from # Invalid => blk >= from /\ page'[blk].head = page[from].head
        /\ from = Invalid => blk = Len(page) + 1 /\ page'[blk].head = blk /\ page'[blk].data = {it}
        /\ page' \in Seq(Page)
    BY <1>1, <1>2, <1>5, <1>6, AppendTupleGrows
  <1> HIDE DEF blk
  <1>9. Len(page') \in Nat /\ blk \in Nat /\ ins.start \in Nat /\ ins.at \in [pages : Nat, tail : Nat]
    BY <1>2, <1>8 DEF InsAppending
  <1>10. start \in Nat /\ pages \in Nat
    BY <1>9
  <1> HIDE DEF start, pages
  <1>11. /\ ins' \in InsAppending /\ ins'.pc = "segments" /\ ins'.b = ins.b /\ ins'.node = ins.node
         /\ ins'.todo = ins.todo /\ ins'.start = start /\ ins'.seen = ins.seen /\ ins'.dir = ins.dir
         /\ ins'.at.tail = blk
    BY <1>1, <1>2, <1>9, <1>10 DEF InsAppending
  <1>12. TypeOK'
    BY <1>1, <1>8, <1>11 DEF Inv, TypeOK, InsertState
  <1>13. Frame(H, it)
    <2>1. NodesStep
      BY <1>1, NodeShape DEF NodesStep, Inv
    <2> QED BY <1>1, <1>5, <1>8, <1>12, <2>1 DEF Frame, Inv
  <1>14. Docs' = Docs /\ NodeIds' = NodeIds
    BY <1>1 DEF Docs, NodeIds
  <1>15. H # 0 => H \in Blocks /\ page[H].kind = "delta" /\ from # Invalid
    BY <1>2, <1>6 DEF HeadsOk, Blocks
  <1>16. PagesInv'
    <2>1. ASSUME Len(page') = Len(page) + 1, page'[Len(page) + 1].head = Len(page) + 1
          PROVE  /\ page'[Len(page) + 1].kind = "delta"
                 /\ page'[Len(page) + 1].data \subseteq Docs'
      <3>1. CASE from = Invalid
        BY <1>5, <1>8, <1>14, <3>1
      <3>2. CASE from # Invalid
        BY <1>1, <1>2, <1>6, <2>1, <3>2, AppendKeepsHead
      <3> QED BY <3>1, <3>2
    <2>2. H # 0 => it \in Docs'
      BY <1>5, <1>14
    <2> QED BY <1>13, <1>15, <2>1, <2>2, PagesFrame
  <1>17. NodesInv'
    BY <1>1, <1>14 DEF Inv, NodesInv
  <1>18. InsInv'
    <2>1. ins'.todo \subseteq nodes'[ins'.node].doc
      BY <1>1, <1>4, <1>11
    <2> QED BY <1>1, <1>4, <1>11, <1>14, <2>1 DEF InsInv
  <1>19. /\ OnChain(page', "delta", start, blk)
         /\ it \in Items(page', start)
         /\ Items(page', start) \subseteq Items(page, ins.start) \cup {it}
         /\ Items(page, ins.start) \subseteq Items(page', start)
    <2>1. CASE from = Invalid
      <3>1. start = blk /\ ins.start = Invalid
        BY <1>7, <2>1 DEF start
      <3>2. blk \in Chain(page', blk)
        BY <1>8, <1>9 DEF Chain, Invalid
      <3>3. Chain(page', blk) = {blk}
        <4>1. Len(page') <= Len(page) + 1
          BY <1>2, <1>8 DEF Grows
        <4> QED BY <1>2, <1>8, <1>9, <2>1, <3>2, <4>1 DEF Chain
      <3>4. Items(page', start) = {it}
        BY <1>8, <2>1, <3>1, <3>3 DEF Items
      <3>5. Items(page, ins.start) = {}
        BY <3>1 DEF Items, Chain
      <3> QED BY <1>8, <3>1, <3>2, <3>4, <3>5 DEF OnChain
    <2>2. CASE from # Invalid
      <3>1. start = ins.start /\ ins.start \in 1..Len(page) /\ ins.start # Invalid
        BY <1>6, <1>9, <2>2 DEF start, Blocks, Invalid
      <3>2. page'[ins.start].kind = "delta" /\ page'[ins.start].head = page[ins.start].head
            /\ ins.start \in 1..Len(page')
        BY <1>2, <1>6, <1>8, <1>9, <2>2, <3>1 DEF Grows
      <3>3. blk \in Chain(page', ins.start)
        BY <1>6, <1>8, <1>9, <2>2, <3>1, <3>2 DEF Chain, Blocks
      <3>4. it \in Items(page', ins.start)
        BY <1>8, <3>3 DEF Items
      <3>5. ins.start \in 0..Len(page)
        BY <1>2, <3>1
      <3> QED BY <1>13, <3>1, <3>2, <3>3, <3>4, <3>5, ItemsFrame DEF OnChain
    <2> QED BY <2>1, <2>2
  <1>20. DeltaNodes(page', ins') = DeltaNodes(page, ins) \cup {ins.node}
    BY <1>5, <1>11, <1>19 DEF DeltaNodes
  <1>21. BaseNodes(page', meta) = BaseNodes(page, meta) /\ ins.node \notin BaseNodes(page, meta)
    <2>1. MetaOk(page, meta)
      BY DEF Inv, MetaInv
    <2>2. meta.base \in Blocks /\ page[meta.base].kind = "base"
      BY <2>1 DEF MetaOk, Blocks
    <2> QED BY <1>4, <1>13, <2>1, <2>2, CopyFrame DEF BaseNodes
  <1>22. DirectoryOk(page', ins.dir)
    BY <1>3, <1>13, DirectoryFrame
  <1>23. {p.node : p \in SegmentItems(page', ins.dir)} \subseteq DeltaNodes(page', ins')
    <2>1. SegmentItems(page', ins.dir) \subseteq SegmentItems(page, ins.dir) \cup {it}
      BY <1>3, <1>13, DirectoryFrame DEF SegmentItems
    <2> QED BY <1>3, <1>5, <1>20, <2>1
  <1>24. \A k \in DeltaNodes(page', ins') \cap ghost.published : \A t \in nodes'[k].doc :
            [node |-> k, term |-> t] \in Items(page', ins.dir[BucketNo[t]].start)
    <2>1. DeltaNodes(page', ins') \cap ghost.published = DeltaNodes(page, ins) \cap ghost.published
      BY <1>4, <1>20
    <2>2. DeltaNodes(page, ins) \cap ghost.published \in SUBSET NodeIds
      BY DEF Inv, NodesInv
    <2> QED BY <1>3, <1>13, <2>1, <2>2, SegmentedFrame
  <1>25. InsChainInv'
    <2>1. meta.start \in {Invalid, start}
      BY <1>3 DEF start
    <2>2. ins.seen = ghost.compactions =>
            /\ BaseNodes(page', meta) \cap DeltaNodes(page', ins') \subseteq ghost.twice
            /\ meta.start # start => DeltaNodes(page', ins') \cap ghost.published = {}
      <3>1. CASE from = Invalid
        <4>1. DeltaNodes(page, ins) = {}
          BY <1>7, <3>1 DEF DeltaNodes, Items, Chain
        <4> QED BY <1>4, <1>20, <1>21, <4>1
      <3>2. CASE from # Invalid
        <4>1. start = ins.start
          BY <1>6, <1>9, <3>2, PageShape DEF start, Blocks, Invalid, Inv
        <4> QED BY <1>3, <1>4, <1>20, <1>21, <4>1
      <3> QED BY <3>1, <3>2
    <2>3. nodes'[ins'.node].doc \ ins'.todo = {}
      BY <1>1, <1>4, <1>11
    <2>4. ins'.node \in DeltaNodes(page', ins')
      BY <1>11, <1>20
    <2> QED BY <1>1, <1>3, <1>11, <1>19, <1>22, <1>23, <1>24, <2>1, <2>2, <2>3, <2>4
        DEF InsChainInv, InsRunning, Segmented
  <1>26. H # 0 => meta.dir = Invalid \/ ins.node \in DeltaNodes(page', meta)
    <2> SUFFICES ASSUME H # 0, meta.dir # Invalid PROVE ins.node \in DeltaNodes(page', meta)
      OBVIOUS
    <2>1. meta.start # Invalid
      BY PageShape DEF Inv, MetaInv, MetaOk, Invalid
    <2>2. meta.start = ins.start /\ start = ins.start
      BY <1>3, <2>1 DEF start
    <2> QED BY <1>5, <1>19, <2>2 DEF DeltaNodes
  <1> HIDE DEF H
  <1> QED BY <1>1, <1>11, <1>13, <1>16, <1>17, <1>18, <1>25, <1>26, InsertLeaves

LEMMA AppendDeltaTermSegmentInv ==
    ASSUME Inv, AppendDeltaTermSegment
    PROVE  Inv'
  <1>0. PICK t \in ins.todo :
          LET k == BucketNo[t]
              bucket == ins.dir[k]
              from == IF bucket.tail # Invalid THEN bucket.tail ELSE bucket.start
          IN /\ page' = AppendTuple(from, "term", [node |-> ins.node, term |-> t])
             /\ ins' = [ins EXCEPT !.todo = @ \ {t},
                                   !.dir[k] = BucketAfter(bucket, AppendBlkno(from))]
    BY DEF AppendDeltaTermSegment
  <1> DEFINE k == BucketNo[t]
             bucket == ins.dir[k]
             from == IF bucket.tail # Invalid THEN bucket.tail ELSE bucket.start
             it == [node |-> ins.node, term |-> t]
             blk == AppendBlkno(from)
             H == IF from = Invalid THEN 0 ELSE page[from].head
             after == BucketAfter(bucket, blk)
             dir == [ins.dir EXCEPT ![k] = after]
             start == IF bucket.start = Invalid THEN blk ELSE bucket.start
  <1>1. /\ ins.pc = "segments" /\ page' = AppendTuple(from, "term", it)
        /\ ins' = [ins EXCEPT !.todo = @ \ {t}, !.dir = dir]
        /\ UNCHANGED <<nodes, meta, vac, cursor, cache, query, ghost>>
    BY <1>0 DEF AppendDeltaTermSegment
  <1>2. /\ ins \in InsAppending /\ InsRunning /\ page \in Seq(Page) /\ HeadsOk(page) /\ Len(page) \in Nat
    BY <1>1, InsShape, PagesHeads DEF Inv, InsRunning
  <1>3. /\ meta.start \in {Invalid, ins.start} /\ ins.seen <= ghost.compactions
        /\ DirectoryOk(page, ins.dir)
        /\ OnChain(page, "delta", ins.start, ins.at.tail)
        /\ Segmented(page, ins.dir, DeltaNodes(page, ins) \cap ghost.published)
        /\ {p.node : p \in SegmentItems(page, ins.dir)} \subseteq DeltaNodes(page, ins)
        /\ ins.node \in DeltaNodes(page, ins)
        /\ \A u \in nodes[ins.node].doc \ ins.todo :
              [node |-> ins.node, term |-> u] \in Items(page, ins.dir[BucketNo[u]].start)
        /\ ins.seen = ghost.compactions =>
             /\ BaseNodes(page, meta) \cap DeltaNodes(page, ins) \subseteq ghost.twice
             /\ meta.start # ins.start => DeltaNodes(page, ins) \cap ghost.published = {}
    BY <1>1, <1>2 DEF Inv, InsChainInv
  <1>4. /\ ins.node \in NodeIds \ ghost.published /\ query[ins.b].pc = "idle"
        /\ ins.todo \subseteq nodes[ins.node].doc
    BY <1>1 DEF Inv, InsInv
  <1>5. ins.node \in Nat /\ t \in Terms /\ t \in nodes[ins.node].doc /\ k \in Buckets
    <2>1. ins.node \in Nat /\ nodes[ins.node].doc \in SUBSET Terms
      BY <1>4, NodeShape DEF Inv
    <2>2. t \in Terms /\ t \in nodes[ins.node].doc
      BY <1>4, <2>1
    <2> QED BY <2>1, <2>2, BucketAssumption
  <1>6. it \in Postings /\ it \in Posting /\ it.node = ins.node
    BY <1>4, <1>5 DEF Postings, Posting
  <1>7. ins.dir \in Directory /\ bucket \in [start : Nat, tail : Nat, pages : Nat]
    BY <1>2, <1>5 DEF InsAppending, Directory
  <1>8. \/ from = Invalid /\ bucket.start = Invalid
        \/ /\ from \in Blocks /\ page[from].kind = "term" /\ from = bucket.tail /\ from # Invalid
           /\ bucket.start \in 1..Len(page) /\ page[bucket.start].kind = "term"
           /\ bucket.start # Invalid
           /\ from >= bucket.start /\ page[from].head = page[bucket.start].head
    <2>1. ASSUME OnChain(page, "term", bucket.start, bucket.tail)
          PROVE  /\ from \in Blocks /\ page[from].kind = "term" /\ from = bucket.tail /\ from # Invalid
                 /\ bucket.start \in 1..Len(page) /\ page[bucket.start].kind = "term"
                 /\ bucket.start # Invalid
                 /\ from >= bucket.start /\ page[from].head = page[bucket.start].head
      <3>1. /\ bucket.start \in 1..Len(page) /\ page[bucket.start].kind = "term"
            /\ bucket.tail \in 1..Len(page) /\ bucket.tail >= bucket.start
            /\ page[bucket.tail].head = page[bucket.start].head
        BY <2>1 DEF OnChain, Chain
      <3>2. bucket.tail # Invalid /\ bucket.start # Invalid
        BY <1>2, <3>1 DEF Invalid
      <3>3. /\ page[page[bucket.start].head].kind = page[bucket.start].kind
            /\ page[page[bucket.tail].head].kind = page[bucket.tail].kind
        BY <1>2, <3>1 DEF HeadsOk
      <3> QED BY <3>1, <3>2, <3>3 DEF Blocks
    <2>2. ASSUME bucket.start = Invalid, bucket.tail = Invalid
          PROVE  from = Invalid /\ bucket.start = Invalid
      BY <2>2
    <2>3. \/ bucket.start = Invalid /\ bucket.tail = Invalid
          \/ OnChain(page, "term", bucket.start, bucket.tail)
      BY <1>3, <1>5 DEF DirectoryOk
    <2> QED BY <2>1, <2>2, <2>3
  <1> HIDE DEF from, it, bucket, k
  <1>9. /\ Grows(page, page', H, it)
        /\ blk \in 1..Len(page') /\ page'[blk].kind = "term" /\ it \in page'[blk].data
        /\ from # Invalid => blk >= from /\ page'[blk].head = page[from].head
        /\ from = Invalid => blk = Len(page) + 1 /\ page'[blk].head = blk /\ page'[blk].data = {it}
        /\ page' \in Seq(Page)
    BY <1>1, <1>2, <1>6, <1>8, AppendTupleGrows
  <1> HIDE DEF blk
  <1>10. Len(page') \in Nat /\ blk \in Nat
    BY <1>9
  <1>11. /\ after \in [start : Nat, tail : Nat, pages : Nat]
         /\ after.start = start /\ after.tail = blk
    BY <1>7, <1>10 DEF BucketAfter
  <1> HIDE DEF after, start
  <1>12. /\ dir \in Directory /\ dir[k] = after
         /\ \A j \in Buckets : j # k => dir[j] = ins.dir[j]
    BY <1>5, <1>7, <1>11 DEF Directory
  <1> HIDE DEF dir
  <1>13. /\ ins' \in InsAppending /\ ins'.pc = "segments" /\ ins'.b = ins.b /\ ins'.node = ins.node
         /\ ins'.todo = ins.todo \ {t} /\ ins'.start = ins.start /\ ins'.seen = ins.seen
         /\ ins'.dir = dir /\ ins'.at = ins.at
    BY <1>1, <1>2, <1>12 DEF InsAppending
  <1>14. TypeOK'
    BY <1>1, <1>9, <1>13 DEF Inv, TypeOK, InsertState
  <1>15. Frame(H, it)
    <2>1. NodesStep
      BY <1>1, NodeShape DEF NodesStep, Inv
    <2> QED BY <1>1, <1>6, <1>9, <1>14, <2>1 DEF Frame, Inv
  <1>16. Postings' = Postings /\ NodeIds' = NodeIds
    BY <1>1 DEF Postings, NodeIds
  <1>17. H # 0 => H \in Blocks /\ page[H].kind = "term" /\ from # Invalid
    BY <1>2, <1>8 DEF HeadsOk, Blocks
  <1>18. PagesInv'
    <2>1. ASSUME Len(page') = Len(page) + 1, page'[Len(page) + 1].head = Len(page) + 1
          PROVE  /\ page'[Len(page) + 1].kind = "term"
                 /\ page'[Len(page) + 1].data \subseteq Postings'
      <3>1. CASE from = Invalid
        BY <1>6, <1>9, <1>16, <3>1
      <3>2. CASE from # Invalid
        BY <1>1, <1>2, <1>8, <2>1, <3>2, AppendKeepsHead
      <3> QED BY <3>1, <3>2
    <2>2. H # 0 => it \in Postings'
      BY <1>6, <1>16
    <2> QED BY <1>15, <1>17, <2>1, <2>2, PagesFrame
  <1>19. NodesInv'
    BY <1>1, <1>16 DEF Inv, NodesInv
  <1>20. InsInv'
    <2>1. ins'.todo \subseteq nodes'[ins'.node].doc
      BY <1>1, <1>4, <1>13
    <2> QED BY <1>1, <1>4, <1>13, <1>16, <2>1 DEF InsInv
  <1>21. /\ OnChain(page', "term", start, blk)
         /\ it \in Items(page', start)
         /\ Items(page', start) \subseteq Items(page, bucket.start) \cup {it}
         /\ Items(page, bucket.start) \subseteq Items(page', start)
    <2>1. CASE from = Invalid
      <3>1. start = blk /\ bucket.start = Invalid
        BY <1>8, <2>1 DEF start
      <3>2. blk \in Chain(page', blk)
        BY <1>9, <1>10 DEF Chain, Invalid
      <3>3. Chain(page', blk) = {blk}
        <4>1. Len(page') <= Len(page) + 1
          BY <1>2, <1>9 DEF Grows
        <4> QED BY <1>2, <1>9, <1>10, <2>1, <3>2, <4>1 DEF Chain
      <3>4. Items(page', start) = {it}
        BY <1>9, <2>1, <3>1, <3>3 DEF Items
      <3>5. Items(page, bucket.start) = {}
        BY <3>1 DEF Items, Chain
      <3> QED BY <1>9, <3>1, <3>2, <3>4, <3>5 DEF OnChain
    <2>2. CASE from # Invalid
      <3>1. start = bucket.start /\ bucket.start \in 1..Len(page) /\ bucket.start # Invalid
        BY <1>8, <2>2 DEF start
      <3>2. page'[bucket.start].kind = "term" /\ page'[bucket.start].head = page[bucket.start].head
            /\ bucket.start \in 1..Len(page')
        BY <1>2, <1>8, <1>9, <1>10, <2>2, <3>1 DEF Grows
      <3>3. blk \in Chain(page', bucket.start)
        BY <1>8, <1>9, <1>10, <2>2, <3>1, <3>2 DEF Chain, Blocks
      <3>4. it \in Items(page', bucket.start)
        BY <1>9, <3>3 DEF Items
      <3>5. bucket.start \in 0..Len(page)
        BY <1>2, <3>1
      <3> QED BY <1>15, <3>1, <3>2, <3>3, <3>4, <3>5, ItemsFrame DEF OnChain
    <2> QED BY <2>1, <2>2
  <1>22. \A j \in Buckets : /\ Items(page, ins.dir[j].start) \subseteq Items(page', dir[j].start)
                            /\ Items(page', dir[j].start) \subseteq Items(page, ins.dir[j].start) \cup {it}
    <2> SUFFICES ASSUME NEW j \in Buckets
                 PROVE  /\ Items(page, ins.dir[j].start) \subseteq Items(page', dir[j].start)
                        /\ Items(page', dir[j].start) \subseteq Items(page, ins.dir[j].start) \cup {it}
      OBVIOUS
    <2>1. CASE j = k
      BY <1>11, <1>12, <1>21, <2>1 DEF bucket
    <2>2. CASE j # k
      BY <1>3, <1>12, <1>15, <2>2, DirectoryFrame, ZenonT(40)
    <2> QED BY <2>1, <2>2
  <1>23. DirectoryOk(page', dir)
    <2>1. DirectoryOk(page', ins.dir)
      BY <1>3, <1>15, DirectoryFrame
    <2> SUFFICES ASSUME NEW j \in Buckets
                 PROVE  \/ dir[j].start = Invalid /\ dir[j].tail = Invalid
                        \/ OnChain(page', "term", dir[j].start, dir[j].tail)
      BY DEF DirectoryOk
    <2>2. CASE j = k
      BY <1>11, <1>12, <1>21, <2>2
    <2>3. CASE j # k
      BY <1>12, <2>1, <2>3 DEF DirectoryOk
    <2> QED BY <2>2, <2>3
  <1>24. Items(page', ins.start) = Items(page, ins.start)
    <2>1. ins.start \in 1..Len(page) /\ page[ins.start].kind = "delta"
      BY <1>3 DEF OnChain
    <2>2. ins.start \in 0..Len(page) /\ page[page[ins.start].head].kind = "delta"
      BY <1>2, <2>1 DEF HeadsOk
    <2>3. H = 0 \/ page[ins.start].head # H
      BY <1>17, <2>2
    <2> QED BY <1>15, <2>2, <2>3, ItemsFrame
  <1>25. DeltaNodes(page', ins') = DeltaNodes(page, ins)
    BY <1>13, <1>24 DEF DeltaNodes
  <1>26. BaseNodes(page', meta) = BaseNodes(page, meta)
    BY <1>15, CopyFrame DEF Inv, MetaInv
  <1>27. {p.node : p \in SegmentItems(page', dir)} \subseteq DeltaNodes(page', ins')
    <2>1. SegmentItems(page', dir) \subseteq SegmentItems(page, ins.dir) \cup {it}
      BY <1>22 DEF SegmentItems
    <2> QED BY <1>3, <1>6, <1>25, <2>1
  <1>28. \A j \in DeltaNodes(page', ins') \cap ghost.published : \A u \in nodes'[j].doc :
            [node |-> j, term |-> u] \in Items(page', dir[BucketNo[u]].start)
    <2> SUFFICES ASSUME NEW j \in DeltaNodes(page, ins) \cap ghost.published, NEW u \in nodes[j].doc
                 PROVE  [node |-> j, term |-> u] \in Items(page', dir[BucketNo[u]].start)
      BY <1>1, <1>25
    <2>1. j \in NodeIds
      BY DEF Inv, NodesInv
    <2>2. BucketNo[u] \in Buckets
      BY <2>1, NodeShape, BucketAssumption DEF Inv
    <2> QED BY <1>3, <1>22, <2>2 DEF Segmented
  <1>29. \A u \in nodes[ins.node].doc \ (ins.todo \ {t}) :
            [node |-> ins.node, term |-> u] \in Items(page', dir[BucketNo[u]].start)
    <2> SUFFICES ASSUME NEW u \in nodes[ins.node].doc, u \notin ins.todo \ {t}
                 PROVE  [node |-> ins.node, term |-> u] \in Items(page', dir[BucketNo[u]].start)
      OBVIOUS
    <2>1. BucketNo[u] \in Buckets
      BY <1>4, NodeShape, BucketAssumption DEF Inv
    <2>2. CASE u = t
      BY <1>11, <1>12, <1>21, <2>2 DEF it, k
    <2>3. CASE u # t
      BY <1>3, <1>22, <2>1, <2>3
    <2> QED BY <2>2, <2>3
  <1>30. OnChain(page', "delta", ins.start, ins.at.tail)
    BY <1>3, <1>15, ChainFrame
  <1>31. InsChainInv'
    BY <1>1, <1>3, <1>13, <1>23, <1>25, <1>26, <1>27, <1>28, <1>29, <1>30
    DEF InsChainInv, InsRunning, Segmented
  <1>32. H # 0 => meta.dir = Invalid \/ ins.node \in DeltaNodes(page', meta)
    <2> SUFFICES ASSUME meta.dir # Invalid PROVE ins.node \in DeltaNodes(page', meta)
      OBVIOUS
    <2>1. meta.start # Invalid
      BY PageShape DEF Inv, MetaInv, MetaOk, Invalid
    <2>2. meta.start = ins.start
      BY <1>3, <2>1
    <2> QED BY <1>3, <1>24, <2>2 DEF DeltaNodes
  <1> HIDE DEF H
  <1> QED BY <1>1, <1>13, <1>15, <1>18, <1>19, <1>20, <1>31, <1>32, InsertLeaves

LEMMA AppendDeltaPublishInv ==
    ASSUME Inv, AppendDeltaPublish
    PROVE  Inv'
  <1> DEFINE n == Len(page) + 1
             chain == DeltaNodes(page, ins)
             again == IF ins.seen = ghost.compactions THEN {} ELSE chain
             cur == [gen |-> meta.gen + 1, start |-> ins.start,
                     tail |-> ins.at.tail, pages |-> ins.at.pages]
  <1>1. /\ ins.pc = "segments" /\ ins.todo = {} /\ meta' = Published(meta)
        /\ page' = Append(page, NewPage("directory", n, ins.dir))
        /\ cursor' = [cursor EXCEPT ![ins.b] = cur]
        /\ cache' = [cache EXCEPT ![ins.b] = NoCache] /\ ins' = InsIdle
        /\ ghost' = [ghost EXCEPT !.published = @ \cup {ins.node}, !.since = @ \cup {ins.node},
                                  !.twice = @ \cup again]
        /\ UNCHANGED <<nodes, vac, query>>
    BY DEF AppendDeltaPublish, InvalidateCache, DeltaNodes
  <1>2. /\ ins \in InsAppending /\ InsRunning /\ page \in Seq(Page) /\ HeadsOk(page) /\ Len(page) \in Nat
    BY <1>1, InsShape, PagesHeads DEF Inv, InsRunning
  <1>3. /\ meta.start \in {Invalid, ins.start}
        /\ DirectoryOk(page, ins.dir)
        /\ OnChain(page, "delta", ins.start, ins.at.tail)
        /\ Segmented(page, ins.dir, chain \cap ghost.published)
        /\ {p.node : p \in SegmentItems(page, ins.dir)} \subseteq chain
        /\ ins.node \in chain
        /\ \A u \in nodes[ins.node].doc :
              [node |-> ins.node, term |-> u] \in Items(page, ins.dir[BucketNo[u]].start)
        /\ ins.seen = ghost.compactions =>
             /\ BaseNodes(page, meta) \cap chain \subseteq ghost.twice
             /\ meta.start # ins.start => chain \cap ghost.published = {}
    BY <1>1, <1>2 DEF Inv, InsChainInv
  <1>4. ins.node \in NodeIds \ ghost.published /\ query[ins.b].pc = "idle" /\ ins.b \in Backends
    BY <1>1, InsShape DEF Inv, InsInv
  <1>5. /\ ins.start \in Nat /\ ins.dir \in Directory /\ ins.at.tail \in Nat /\ ins.at.pages \in Nat
        /\ ins.start \in Blocks /\ ins.start \in 0..Len(page) /\ page[ins.start].kind = "delta"
    BY <1>2, <1>3 DEF InsAppending, OnChain, Blocks
  <1>6. chain \subseteq NodeIds /\ chain \in SUBSET Nat
    <2>1. Items(page, ins.start) \subseteq Docs
      BY <1>5, ChainItems DEF Inv
    <2> QED BY <2>1, NodeShape DEF DeltaNodes, Docs, Inv
  <1>7. meta \in Meta /\ MetaOk(page, meta) /\ meta.gen \in Nat /\ meta.deltaDocs \in Nat
    BY DEF Inv, TypeOK, MetaInv, Meta
  <1>8. /\ meta' \in Meta /\ meta'.base = meta.base /\ meta'.start = ins.start /\ meta'.dir = n
        /\ meta'.deltaDocs = meta.deltaDocs + 1 /\ meta'.docCount = meta.docCount
    <2>1. DirectoryTermPages(ins.dir) \in TermPageCounts
      BY <1>5 DEF TermPageCounts
    <2>2. n \in Nat /\ meta.gen + 1 \in Nat /\ meta.deltaDocs + 1 \in Nat
      BY <1>2, <1>7
    <2> DEFINE tp == DirectoryTermPages(ins.dir)
    <2>3. meta' = [meta EXCEPT !.start = ins.start, !.dir = n, !.gen = meta.gen + 1,
                               !.deltaDocs = meta.deltaDocs + 1, !.pages = ins.at.pages,
                               !.termPages = tp]
      BY <1>1 DEF Published
    <2> HIDE DEF n, tp
    <2>4. tp \in TermPageCounts
      BY <2>1 DEF tp
    <2> QED BY <1>5, <1>7, <2>2, <2>3, <2>4 DEF Meta
  <1>9. page' \in Seq(Page) /\ Grows(page, page', 0, 0) /\ Len(page') = n
        /\ page'[n] = NewPage("directory", n, ins.dir)
    <2>1. NewPage("directory", n, ins.dir) \in Page
      BY <1>2, <1>5 DEF NewPage, Page
    <2> QED BY <1>1, <1>2, <2>1, NewChainGrows
  <1> HIDE DEF chain, again
  <1>10. ghost \in Ghost /\ again \in SUBSET Nat /\ ins.node \in Nat
    BY <1>4, <1>6, NodeShape DEF again, Inv, TypeOK
  <1>11. /\ ghost' \in Ghost /\ ghost'.published = ghost.published \cup {ins.node}
         /\ ghost'.since = ghost.since \cup {ins.node} /\ ghost'.twice = ghost.twice \cup again
         /\ ghost'.lost = ghost.lost
    BY <1>1, <1>10 DEF Ghost
  <1>12. TypeOK'
    <2>1. cur \in [gen : Nat, start : Nat, tail : Nat, pages : Nat]
      BY <1>5, <1>7
    <2> HIDE DEF cur
    <2>2. cursor' \in [Backends -> [gen : Nat, start : Nat, tail : Nat, pages : Nat]]
      BY <1>1, <2>1 DEF Inv, TypeOK
    <2>3. cache' \in [Backends -> CacheState]
      BY <1>1 DEF Inv, TypeOK, CacheState
    <2>4. ins' \in InsertState
      BY <1>1 DEF InsertState
    <2> QED BY <1>1, <1>8, <1>9, <1>11, <2>2, <2>3, <2>4 DEF Inv, TypeOK
  <1>13. Frame(0, 0)
    <2>1. NodesStep
      BY <1>1, NodeShape DEF NodesStep, Inv
    <2> QED BY <1>9, <1>12, <2>1 DEF Frame, Inv
  <1>14. /\ DirectoryOk(page', ins.dir)
         /\ \A k \in Buckets : Items(page', ins.dir[k].start) = Items(page, ins.dir[k].start)
    BY <1>3, <1>13, DirectoryFrame
  <1>15. PagesInv'
    <2>1. page'[n].kind = "directory" /\ page'[n].data = ins.dir
      BY <1>9 DEF NewPage
    <2> QED BY <1>13, <1>14, <2>1, PagesFrame
  <1>16. NodeIds' = NodeIds /\ Len(page) + 1 = n /\ n \notin 0..Len(page) /\ n # Invalid
    BY <1>1, <1>2 DEF NodeIds, Invalid
  <1>17. NodesInv'
    BY <1>1, <1>4, <1>11, <1>16 DEF Inv, NodesInv
  <1>18. ins'.pc = "idle"
    BY <1>1 DEF InsIdle
  <1>19. InsInv' /\ InsChainInv'
    BY <1>18 DEF InsInv, InsChainInv, InsRunning
  <1>20. /\ DeltaNodes(page', meta') = chain
         /\ BaseNodes(page', meta') = BaseNodes(page, meta) /\ page'[meta'.base].data = page[meta.base].data
         /\ SegmentNodes(page', meta') \subseteq chain
    <2>1. Items(page', ins.start) = Items(page, ins.start)
      BY <1>5, <1>13, ItemsFrame
    <2>2. SegmentItems(page', ins.dir) = SegmentItems(page, ins.dir)
      BY <1>14 DEF SegmentItems
    <2>3. page'[meta'.dir].data = ins.dir /\ meta'.dir # Invalid
      BY <1>8, <1>9, <1>16 DEF NewPage
    <2>4. SegmentNodes(page', meta') \subseteq chain
      BY <1>3, <2>2, <2>3 DEF SegmentNodes
    <2>5. page'[meta.base].data = page[meta.base].data
      BY <1>7, <1>13, CopyFrame
    <2> QED BY <1>8, <2>1, <2>4, <2>5 DEF DeltaNodes, BaseNodes, chain
  <1>21. MetaInv'
    <2>1. MetaOk(page', meta')
      <3>1. MetaOk(page', meta) /\ OnChain(page', "delta", ins.start, ins.at.tail)
        BY <1>3, <1>7, <1>13, CopyFrame, ChainFrame
      <3>2. n \in 1..Len(page') /\ page'[n].kind = "directory"
        BY <1>2, <1>9 DEF NewPage
      <3>3. meta'.base \in 1..Len(page') /\ page'[meta'.base].kind = "base"
        BY <1>8, <3>1 DEF MetaOk
      <3>4. meta'.start \in 1..Len(page') /\ page'[meta'.start].kind = "delta"
        BY <1>8, <3>1 DEF OnChain
      <3>5. meta'.deltaDocs > 0
        BY <1>7, <1>8
      <3> QED BY <1>8, <3>2, <3>3, <3>4, <3>5 DEF MetaOk
    <2>2. page'[meta'.dir].data = ins.dir
      BY <1>8, <1>9 DEF NewPage
    <2>3. ASSUME NEW k \in chain \cap ghost'.published, NEW t \in nodes'[k].doc
          PROVE  [node |-> k, term |-> t] \in Items(page', ins.dir[BucketNo[t]].start)
      <3>1. k \in NodeIds /\ t \in nodes[k].doc
        BY <1>1, <1>6, <2>3
      <3>2. BucketNo[t] \in Buckets
        BY <3>1, NodeShape, BucketAssumption DEF Inv
      <3>3. [node |-> k, term |-> t] \in Items(page, ins.dir[BucketNo[t]].start)
        BY <1>3, <1>11, <2>3, <3>1 DEF Segmented
      <3> QED BY <1>14, <3>2, <3>3
    <2> QED BY <1>20, <2>1, <2>2, <2>3 DEF MetaInv, Segmented
  <1>22. CursorInv'
    <2> SUFFICES ASSUME NEW b \in Backends
                 PROVE  \/ cursor'[b].start = Invalid /\ cursor'[b].tail = Invalid
                        \/ OnChain(page', "delta", cursor'[b].start, cursor'[b].tail)
      BY DEF CursorInv
    <2>1. CASE b = ins.b
      <3>1. cursor'[b].start = ins.start /\ cursor'[b].tail = ins.at.tail
        BY <1>1, <2>1 DEF Inv, TypeOK
      <3> QED BY <1>3, <1>13, <3>1, ChainFrame
    <2>2. CASE b # ins.b
      <3>1. cursor'[b] = cursor[b]
        BY <1>1, <2>2 DEF Inv, TypeOK
      <3>2. \/ cursor[b].start = Invalid /\ cursor[b].tail = Invalid
            \/ OnChain(page, "delta", cursor[b].start, cursor[b].tail)
        BY DEF Inv, CursorInv
      <3> QED BY <1>13, <3>1, <3>2, ChainFrame
    <2> QED BY <2>1, <2>2
  <1>23. VacInv'
    BY <1>1, <1>11, <1>13, VacFrame DEF Inv
  <1>24. OnceOk(page', ins', ghost'.twice, meta')
    <2>1. BaseNodes(page', meta') \cap chain \subseteq ghost'.twice
      BY <1>3, <1>11, <1>20 DEF again
    <2> QED BY <1>18, <1>20, <2>1 DEF OnceOk
  <1>25. ASSUME NEW b \in Backends PROVE CacheOk(b)' /\ QueryOk(b)'
    <2>1. CacheOk(b) /\ QueryOk(b)
      BY DEF Inv
    <2>2. CASE b = ins.b
      <3>1. cache'[b] = NoCache
        BY <1>1, <2>2 DEF Inv, TypeOK
      <3>2. CacheOk(b)'
        BY <3>1 DEF CacheOk, NoCache
      <3>3. QueryOk(b)'
        BY <1>1, <1>4, <1>11, <1>13, <1>18, <2>1, <2>2, QueryFrame DEF Inv
      <3> QED BY <3>2, <3>3
    <2>3. CASE b # ins.b
      <3>1. cache'[b] = cache[b]
        BY <1>1, <2>3 DEF Inv, TypeOK
      <3>2. CacheOk(b)'
        BY <1>8, <1>13, <1>16, <2>1, <3>1, CacheFrame DEF Inv
      <3>3. QueryOk(b)'
        BY <1>1, <1>11, <1>13, <1>18, <2>1, <3>1, QueryFrame DEF Inv
      <3> QED BY <3>2, <3>3
    <2> QED BY <2>2, <2>3
  <1>26. /\ InBase = BaseNodes(page, meta) /\ InDelta = DeltaNodes(page, meta)
         /\ InBase' = BaseNodes(page, meta) /\ InDelta' = chain
    <2>1. InBase' = BaseNodes(page', meta') /\ InDelta' = DeltaNodes(page', meta')
      BY DEF InBase, InDelta, BaseNodes, DeltaNodes
    <2> QED BY <1>20, <2>1 DEF InBase, InDelta, BaseNodes, DeltaNodes
  <1>27. InDelta = {} \/ InDelta = chain
    <2>1. CASE meta.start = Invalid
      BY <1>26, <2>1 DEF DeltaNodes, Items, Chain
    <2>2. CASE meta.start = ins.start
      BY <1>26, <2>2 DEF DeltaNodes, chain
    <2> QED BY <1>3, <2>1, <2>2
  <1>28. StoreComplete'
    <2> SUFFICES ASSUME NEW k \in ghost'.published \ ghost'.lost,
                        nodes'[k].row = "live", nodes'[k].doc # {}
                 PROVE  k \in InBase' \cup InDelta'
      BY DEF StoreComplete
    <2>1. CASE k = ins.node
      BY <1>3, <1>26, <2>1
    <2>2. CASE k # ins.node
      <3>1. k \in ghost.published \ ghost.lost
        BY <1>11, <2>2
      <3>2. k \in InBase \cup InDelta
        BY <1>1, <3>1 DEF Inv, StoreComplete
      <3> QED BY <1>26, <1>27, <3>2
    <2> QED BY <2>1, <2>2
  <1>29. CountsAgree'
    <2>1. meta'.docCount = Cardinality(page'[meta'.base].data)
      BY <1>8, <1>20 DEF Inv, CountsAgree
    <2>2. ASSUME ghost'.twice = {}
          PROVE  meta'.deltaDocs = Cardinality(InDelta' \cap ghost'.published)
      <3> DEFINE S == chain \cap ghost.published
      <3>1. ghost.twice = {} /\ ins.seen = ghost.compactions
        BY <1>3, <1>11, <2>2 DEF again
      <3>2. InDelta \cap ghost.published = S
        <4>1. CASE meta.start = ins.start
          BY <1>26, <4>1 DEF DeltaNodes, chain
        <4>2. CASE meta.start # ins.start
          <5>1. S = {}
            BY <1>3, <3>1, <4>2
          <5> QED BY <1>27, <5>1
        <4> QED BY <4>1, <4>2
      <3>3. meta.deltaDocs = Cardinality(S)
        BY <3>1, <3>2 DEF Inv, CountsAgree
      <3>4. IsFiniteSet(S)
        <4>1. S \subseteq 1..Len(nodes) /\ Len(nodes) \in Nat
          BY <1>6, NodeShape DEF NodeIds, Inv
        <4>2. IsFiniteSet(1..Len(nodes))
          BY <4>1, FS_Interval
        <4> QED BY <4>1, <4>2, FS_Subset
      <3>5. InDelta' \cap ghost'.published = S \cup {ins.node} /\ ins.node \notin S
        BY <1>3, <1>4, <1>11, <1>26
      <3> HIDE DEF S
      <3>6. Cardinality(S \cup {ins.node}) = Cardinality(S) + 1
        BY <3>4, <3>5, FS_AddElement
      <3> QED BY <1>8, <3>3, <3>5, <3>6
    <2> QED BY <2>1, <2>2 DEF CountsAgree
  <1>30. QueryExact'
    BY <1>1, <1>11, <1>13, AnswersFrame DEF Inv
  <1> QED BY <1>12, <1>15, <1>17, <1>19, <1>21, <1>22, <1>23, <1>24, <1>25, <1>28, <1>29, <1>30 DEF Inv

(***************************************************************************)
(* The results.                                                            *)
(***************************************************************************)

\* CREATE INDEX counts the documents it puts in the base.
LEMMA InitCount ==
    Cardinality({[node |-> k, terms |-> InitDocs[k]] : k \in 1..Len(InitDocs)}) = Len(InitDocs)
  <1> DEFINE n == Len(InitDocs)
             S == {[node |-> k, terms |-> InitDocs[k]] : k \in 1..n}
             f == [k \in 1..n |-> [node |-> k, terms |-> InitDocs[k]]]
  <1>1. n \in Nat
    BY DocsAssumption
  <1>2. f \in [1..n -> S]
    OBVIOUS
  <1>3. \A j, k \in 1..n : f[j] = f[k] => j = k
    <2> TAKE j, k \in 1..n
    <2>1. f[j].node = j /\ f[k].node = k
      OBVIOUS
    <2> QED BY <2>1
  <1>4. \A d \in S : \E k \in 1..n : f[k] = d
    OBVIOUS
  <1> HIDE DEF f, S
  <1>5. ExistsBijection(1..n, S)
    BY <1>2, <1>3, <1>4 DEF ExistsBijection, Bijection, Injection, IsInjective, Surjection
  <1>6. Cardinality(S) = n
    BY <1>1, <1>5, FS_CountingElements
  <1> QED BY <1>6 DEF S

LEMMA InitInv ==
    ASSUME Init
    PROVE  Inv
  <1> DEFINE n == Len(InitDocs)
             S == {[node |-> k, terms |-> InitDocs[k]] : k \in 1..n}
  <1>1. n \in Nat /\ \A k \in 1..n : InitDocs[k] \in SUBSET Terms
    BY DocsAssumption
  <1>2. nodes \in [1..n -> Node]
    BY <1>1 DEF Init, Node
  <1>3. nodes \in Seq(Node) /\ Len(nodes) = n /\ NodeIds = 1..n
    BY <1>1, <1>2 DEF NodeIds
  <1>4. \A k \in 1..n : nodes[k].doc = InitDocs[k] /\ nodes[k].dead = FALSE
    BY DEF Init
  <1>5. S \in SUBSET DocTuple /\ S \subseteq Docs
    BY <1>1, <1>3, <1>4 DEF DocTuple, Docs
  <1>6. Cardinality(S) = n
    BY InitCount
  <1>7. page = <<NewPage("base", 1, S)>>
    BY DEF Init
  <1> HIDE DEF S
  <1>8. /\ page \in Seq(Page) /\ Len(page) = 1 /\ Blocks = {1}
        /\ page[1].kind = "base" /\ page[1].head = 1 /\ page[1].data = S
    BY <1>5, <1>7 DEF NewPage, Page, Blocks
  <1>9. /\ meta.docCount = n /\ meta.base = 1 /\ meta.start = Invalid /\ meta.dir = Invalid
        /\ meta.deltaDocs = 0 /\ meta \in Meta
    <2>1. n \in DocCounts
      BY <1>5, <1>6 DEF DocCounts
    <2>2. 0 \in TermPageCounts
      BY DEF TermPageCounts
    <2>3. meta = [docCount |-> n, base |-> 1, start |-> 0, dir |-> 0, gen |-> 0, deltaDocs |-> 0,
                  pages |-> 0, termPages |-> 0, compacted |-> 0]
      BY DEF Init, Invalid
    <2> QED BY <2>1, <2>2, <2>3 DEF Meta, Invalid
  <1>10. ins.pc = "idle" /\ vac.pc = "idle" /\ ins = InsIdle /\ vac = VacIdle
    BY DEF Init, InsIdle, VacIdle
  <1>11. /\ cursor \in [Backends -> [gen : Nat, start : Nat, tail : Nat, pages : Nat]]
         /\ \A b \in Backends : cursor[b].start = Invalid /\ cursor[b].tail = Invalid
    BY DEF Init, NoCursor, Invalid
  <1>12. cache \in [Backends -> CacheState] /\ \A b \in Backends : cache[b].valid = FALSE
    BY DEF Init, NoCache, CacheState
  <1>13. query \in [Backends -> QueryState] /\ \A b \in Backends : query[b].pc = "idle"
    BY DEF Init, QueryIdle, QueryState
  <1>14. ghost \in Ghost /\ ghost.published = 1..n /\ ghost.twice = {} /\ ghost.lost = {}
    BY <1>1 DEF Init, Ghost
  <1>15. TypeOK
    BY <1>3, <1>8, <1>9, <1>10, <1>11, <1>12, <1>13, <1>14 DEF TypeOK, InsertState, VacuumState
  <1>16. NodesInv
    BY <1>3, <1>4, <1>10, <1>14 DEF NodesInv
  <1>17. PagesInv
    BY <1>5, <1>8 DEF PagesInv
  <1>18. MetaOk(page, meta) /\ MetaInv
    BY <1>8, <1>9 DEF MetaInv, MetaOk
  <1>19. InsInv /\ InsChainInv /\ CursorInv /\ VacInv
    BY <1>10, <1>11 DEF InsInv, InsChainInv, InsRunning, CursorInv, VacInv
  <1>20. DeltaNodes(page, meta) = {} /\ SegmentNodes(page, meta) = {} /\ InDelta = {}
    BY <1>9 DEF DeltaNodes, SegmentNodes, InDelta, Items, Chain
  <1>21. OnceOk(page, ins, ghost.twice, meta)
    BY <1>10, <1>20 DEF OnceOk
  <1>22. \A b \in Backends : CacheOk(b) /\ QueryOk(b)
    BY <1>12, <1>13 DEF CacheOk, QueryOk
  <1>23. StoreComplete
    <2>1. InBase = 1..n
      <3>1. InBase = {d.node : d \in S}
        BY <1>8, <1>9 DEF InBase
      <3>2. ASSUME NEW d \in S PROVE d.node \in 1..n
        BY DEF S
      <3>3. ASSUME NEW k \in 1..n PROVE \E d \in S : k = d.node
        <4>1. [node |-> k, terms |-> InitDocs[k]] \in S
          BY DEF S
        <4> QED BY <4>1
      <3> QED BY <3>1, <3>2, <3>3
    <2> QED BY <1>14, <2>1 DEF StoreComplete
  <1>24. CountsAgree
    <2>1. Cardinality({}) = 0
      BY FS_EmptySet
    <2>2. InDelta \cap ghost.published = {}
      BY <1>20
    <2> QED BY <1>6, <1>8, <1>9, <2>1, <2>2 DEF CountsAgree
  <1>25. QueryExact
    BY <1>13 DEF QueryExact, QueryComplete, QueryOnce
  <1> QED BY <1>15, <1>16, <1>17, <1>18, <1>19, <1>21, <1>22, <1>23, <1>24, <1>25 DEF Inv

LEMMA InvInductive ==
    ASSUME Inv, [Next]_vars
    PROVE  Inv'
  <1>1. CASE InsertStep
    <2>1. CASE \E b \in Backends, doc \in NewDocs : Insert(b, doc)
      BY <2>1, InsertInv
    <2>2. CASE \E b \in Backends : InsertWithoutText(b)
      BY <2>2, InsertWithoutTextInv
    <2>3. CASE AppendDeltaRead \/ AppendDeltaTuple \/ AppendDeltaTermSegment
      BY <2>3, AppendDeltaReadInv, AppendDeltaTupleInv, AppendDeltaTermSegmentInv
    <2>4. CASE AppendDeltaPublish \/ InsertError
      BY <2>4, AppendDeltaPublishInv, InsertErrorInv
    <2>5. CASE \E k \in 1..MaxNodes : DeleteRow(k)
      BY <2>5, DeleteRowInv
    <2> QED BY <1>1, <2>1, <2>2, <2>3, <2>4, <2>5 DEF InsertStep
  <1>2. CASE VacuumStep
    <2>1. CASE VacuumStart \/ VacuumMark \/ VacuumCancel
      BY <2>1, VacuumStartInv, VacuumMarkInv, VacuumCancelInv
    <2>2. CASE CompactBegin \/ CompactBase \/ CompactDelta \/ CompactWrite \/ CompactPublish
      BY <2>2, CompactBeginInv, CompactBaseInv, CompactDeltaInv, CompactWriteInv, CompactPublishInv
    <2> QED BY <1>2, <2>1, <2>2 DEF VacuumStep
  <1>3. CASE QueryStep
    <2>1. PICK b \in Readers : \/ \E terms \in Queries : QueryMeta(b, terms)
                               \/ QueryCache(b) \/ QueryLoad(b) \/ QueryDeltaFiltered(b)
                               \/ QueryDeltaCached(b) \/ QueryEnd(b)
      BY <1>3 DEF QueryStep
    <2>2. b \in Backends
      BY QueriesAssumption
    <2>3. CASE \E terms \in Queries : QueryMeta(b, terms)
      BY <2>2, <2>3, QueryMetaInv
    <2>4. CASE QueryCache(b) \/ QueryLoad(b) \/ QueryEnd(b)
      BY <2>2, <2>4, QueryCacheInv, QueryLoadInv, QueryEndInv
    <2>5. CASE QueryDeltaFiltered(b) \/ QueryDeltaCached(b)
      BY <2>2, <2>5, QueryDeltaFilteredInv, QueryDeltaCachedInv
    <2> QED BY <2>1, <2>3, <2>4, <2>5
  <1>4. CASE UNCHANGED vars
    <2>1. UNCHANGED <<nodes, page, meta, ins, vac, cursor, cache, query, ghost>>
      BY <1>4 DEF vars
    <2>2. TypeOK'
      BY <2>1 DEF Inv, TypeOK
    <2>3. Frame(0, 0) /\ PagesInv' /\ Len(page') # Len(page) + 1
      BY <2>1, <2>2, SameStep, PageShape DEF Inv
    <2>4. NodesInv'
      BY <2>1 DEF Inv, NodesInv, NodeIds
    <2>5. VacInv'
      BY <2>1, <2>3, VacFrame DEF Inv
    <2>6. ins.pc \in {"read", "append"} =>
            (vac'.pc \in {"delta", "write", "publish"} => \A d \in vac'.docs : d.node # ins.node)
      BY <2>1 DEF Inv, InsInv
    <2> QED BY <2>1, <2>3, <2>4, <2>5, <2>6, VacuumLeaves
  <1> QED BY <1>1, <1>2, <1>3, <1>4 DEF Next

\* The inductive invariant holds in every reachable state, whatever inserts,
\* errors, deletes, VACUUM, compactions and queries of any number of sessions
\* run beside each other.
THEOREM StoreInvHolds == Spec => []Inv
  <1>1. Init => Inv
    BY InitInv
  <1>2. Inv /\ [Next]_vars => Inv'
    BY InvInductive
  <1> QED BY <1>1, <1>2, PTL DEF Spec

\* Type correctness of nodes, pages, metadata, private copies and caches.
THEOREM StoreTypeCorrect == Spec => []TypeOK
  <1>1. Inv => TypeOK
    BY DEF Inv
  <1> QED BY <1>1, StoreInvHolds, PTL

\* Appends of the delta, VACUUM and PgturbohybridBm25MaybeCompact keep every
\* document in exactly one place, but for the overlaps StoreExact names.
THEOREM StoreIsExact == Spec => []StoreExact
  <1>1. Inv => StoreExact
    BY DEF Inv, StoreExact, StoreOnce, OnceOk, InBase, InDelta, BaseNodes, DeltaNodes
  <1> QED BY <1>1, StoreInvHolds, PTL

\* The counts of the metadata, the term segments and the backend-local cursor
\* agree with the chains they summarise.
THEOREM BookkeepingIsRight == Spec => []BookkeepingAgrees
  <1>1. ASSUME Inv PROVE SegmentsAgree
    <2> SUFFICES ASSUME meta.dir # Invalid
                 PROVE  DocScan(meta, InDelta \cap ghost.published)
                          = TermSegments(meta, Terms, InDelta \cap ghost.published)
      BY DEF SegmentsAgree
    <2> DEFINE live == InDelta \cap ghost.published
               scan == DocScan(meta, live)
               found == TermSegments(meta, Terms, live)
    <2>1. /\ MetaOk(page, meta) /\ InDelta = DeltaNodes(page, meta)
          /\ Segmented(page, page[meta.dir].data, live)
      BY <1>1 DEF Inv, MetaInv, InDelta, DeltaNodes
    <2>2. /\ scan \in SUBSET Posting /\ scan \subseteq Postings
          /\ \A k \in live : \A t \in nodes[k].doc : [node |-> k, term |-> t] \in scan
      BY <1>1, <2>1, ChainAnswer
    <2>3. \A p \in scan : p.node \in live
      BY DEF DocScan
    <2>4. /\ found \in SUBSET Posting /\ found \subseteq Postings
          /\ \A p \in found : p.node \in live
          /\ \A k \in live, t \in Terms :
                [node |-> k, term |-> t] \in Items(page, page[meta.dir].data[BucketNo[t]].start)
                  => [node |-> k, term |-> t] \in found
      <3> HIDE DEF live
      <3> QED BY <1>1, <2>1, SegmentAnswer
    <2> HIDE DEF scan, found, live
    <2>5. \A p \in Postings : p = [node |-> p.node, term |-> p.term] /\ p.term \in nodes[p.node].doc
                              /\ p.term \in Terms
      BY DEF Postings
    <2>6. ASSUME NEW p \in scan PROVE p \in found
      <3>1. p \in Postings /\ p.node \in live
        BY <2>2, <2>3
      <3>2. [node |-> p.node, term |-> p.term]
              \in Items(page, page[meta.dir].data[BucketNo[p.term]].start)
        BY <2>1, <2>5, <3>1 DEF Segmented
      <3>3. [node |-> p.node, term |-> p.term] \in found
        BY <2>4, <2>5, <3>1, <3>2
      <3> QED BY <2>5, <3>1, <3>3
    <2>7. ASSUME NEW p \in found PROVE p \in scan
      <3>1. p \in Postings /\ p.node \in live
        BY <2>4
      <3>2. [node |-> p.node, term |-> p.term] \in scan
        BY <2>2, <2>5, <3>1
      <3> QED BY <2>5, <3>1, <3>2
    <2>8. scan = found
      BY <2>6, <2>7
    <2> QED BY <2>8 DEF scan, found, live
  <1>2. ASSUME Inv PROVE CursorSound
    BY <1>2 DEF Inv, InsChainInv, InsRunning, CursorSound, OnChain
  <1>3. Inv => BookkeepingAgrees
    BY <1>1, <1>2 DEF Inv, BookkeepingAgrees
  <1> QED BY <1>3, StoreInvHolds, PTL

\* PgturbohybridBm25TopK, reading under no lock and through whatever its
\* backend has cached, finds every document it must and counts each lexeme of
\* it once.
THEOREM QueriesAreExact == Spec => []QueryExact
  <1>1. Inv => QueryExact
    BY DEF Inv
  <1> QED BY <1>1, StoreInvHolds, PTL

=============================================================================

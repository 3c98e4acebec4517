-------------------------- MODULE Bm25BuildProofs --------------------------
(***************************************************************************)
(* Proofs about the collector of the BM25 build: for any table, any budget *)
(* and any sizes, terms are held in memory only within the budget, no      *)
(* array holds more than was allocated for it, and the build gives up only *)
(* when spilling cannot help.                                              *)
(***************************************************************************)
EXTENDS Bm25Build, OrderLemmas, SequenceTheorems

(***************************************************************************)
(* Numbers and sequences.                                                  *)
(***************************************************************************)

\* Doubling a capacity that is not 0 reaches what is needed.
LEMMA GrowCapacityFits ==
    ASSUME NEW cap \in Nat \ {0}, NEW needed \in Nat
    PROVE  GrowCapacity(cap, needed) \in Nat \ {0} /\ GrowCapacity(cap, needed) >= needed
  <1> DEFINE Def(f) == [i \in 0..needed |->
                          IF i = 0 THEN cap
                          ELSE LET c == f[i - 1] IN IF c >= needed THEN c ELSE 2 * c]
             after == CHOOSE f : f = Def(f)
             U == [i \in 0..needed |-> {c \in Nat \ {0} : c >= needed \/ c > i}]
             step == [c \in Nat |-> IF c >= needed THEN c ELSE 2 * c]
             F == [i \in 1..needed |-> step]
  <1>0. step \in [Nat -> Nat] /\ \A c \in Nat : step[c] = IF c >= needed THEN c ELSE 2 * c
    OBVIOUS
  <1>1. F \in [1..needed -> [Nat -> Nat]]
        /\ \A i \in 1..needed, c \in Nat : F[i][c] = IF c >= needed THEN c ELSE 2 * c
    <2> HIDE DEF step
    <2>1. F \in [1..needed -> [Nat -> Nat]] /\ \A i \in 1..needed : F[i] = step
      BY <1>0
    <2> QED BY <2>1, <1>0
  <1>2. PICK h \in [0..needed -> Nat] :
               h[0] = cap /\ \A i \in 1..needed : h[i] = F[i][h[i - 1]]
    <2>1. cap \in Nat /\ needed \in Nat /\ F \in [1..needed -> [Nat -> Nat]]
      BY <1>1
    <2> HIDE DEF F
    <2>2. PICK S : S = Nat
      OBVIOUS
    <2>3. PICK first \in S : first = cap
      BY <2>1, <2>2
    <2>4. PICK m \in Nat : m = needed
      OBVIOUS
    <2>5. F \in [1..m -> [S -> S]]
      BY <2>1, <2>2, <2>4
    <2>6. \E h \in [0..m -> S] : h[0] = first /\ \A i \in 1..m : h[i] = F[i][h[i - 1]]
      BY ONLY <2>5, StepByStep
    <2> QED BY ONLY <2>2, <2>3, <2>4, <2>6
  <1> HIDE DEF F
  <1>3. \A i \in 1..needed : h[i] = IF h[i - 1] >= needed THEN h[i - 1] ELSE 2 * h[i - 1]
    <2> TAKE i \in 1..needed
    <2>1. i - 1 \in 0..needed
      OBVIOUS
    <2>2. h[i - 1] \in Nat /\ h[i] = F[i][h[i - 1]]
      BY <1>2, <2>1
    <2> QED BY <1>1, <2>2
  <1>4. h = Def(h)
    <2>1. \A i \in 0..needed : h[i] = IF i = 0 THEN cap
                                       ELSE IF h[i - 1] >= needed THEN h[i - 1] ELSE 2 * h[i - 1]
      BY <1>2, <1>3
    <2> QED BY <2>1
  <1>5. after = Def(after)
    <2> HIDE DEF Def
    <2> QED BY <1>4
  <1>6. /\ after[0] = cap
        /\ \A i \in 1..needed :
             after[i] = IF after[i - 1] >= needed THEN after[i - 1] ELSE 2 * after[i - 1]
    <2>1. \A i \in 0..needed : after[i] = Def(after)[i]
      <3> HIDE DEF Def, after
      <3> QED BY <1>5
    <2> HIDE DEF after
    <2> QED BY <2>1
  <1>7. GrowCapacity(cap, needed) = after[needed]
    BY DEF GrowCapacity
  <1> HIDE DEF Def, after
  <1>8. \A i \in 0..needed : U[i] = {c \in Nat \ {0} : c >= needed \/ c > i}
    OBVIOUS
  <1>9. after[0] \in U[0]
    BY <1>6
  <1>10. \A i \in 1..needed : after[i - 1] \in U[i - 1] => after[i] \in U[i]
    <2> TAKE i \in 1..needed
    <2> HAVE after[i - 1] \in U[i - 1]
    <2>1. i - 1 \in 0..needed /\ i \in 0..needed
      OBVIOUS
    <2> HIDE DEF U
    <2>2. after[i - 1] \in Nat \ {0} /\ (after[i - 1] >= needed \/ after[i - 1] > i - 1)
      BY <1>8, <2>1
    <2>3. after[i] = IF after[i - 1] >= needed THEN after[i - 1] ELSE 2 * after[i - 1]
      BY <1>6
    <2>4. after[i] \in Nat \ {0} /\ (after[i] >= needed \/ after[i] > i)
      BY ONLY i \in 1..needed, needed \in Nat, <2>2, <2>3
    <2> QED BY <1>8, <2>1, <2>4
  <1> HIDE DEF U
  <1>11. \A i \in 0..needed : after[i] \in U[i]
    BY <1>9, <1>10, PlacesStay
  <1>12. needed \in 0..needed
    OBVIOUS
  <1> QED BY <1>7, <1>8, <1>11, <1>12

(***************************************************************************)
(* The collector's helpers.                                                *)
(***************************************************************************)

LEMMA Numbers ==
    /\ {DocSize, TermSize, TidSize, NodeCount} \subseteq Nat
    /\ {DocCap, TermCap, BytesCap} \subseteq Nat \ {0}
    /\ \A t \in Terms : TermLen[t] \in Nat
    /\ Budgets \subseteq Nat
  BY SizeAssumption, TermAssumption

LEMMA Fields ==
    DOMAIN EmptyCollector = {"docs", "docCapacity", "terms", "termCapacity", "bytesUsed",
                             "bytesCapacity", "runs", "total", "totalDocLen", "failed"}
  BY DEF EmptyCollector

\* What the budget counts is a sum of numbers; without terms it is the
\* documents and the tid map.
LEMMA UsedIsASum ==
    ASSUME NEW c, Collector(c)
    PROVE  /\ Used(c) \in Nat
           /\ c.terms = <<>> /\ c.bytesUsed = 0 =>
                Used(c) = c.docCapacity * DocSize + NodeCount * TidSize
  <1>1. c.docCapacity \in Nat /\ c.bytesUsed \in Nat /\ Len(c.terms) \in Nat
    BY DEF Collector
  <1>2. \A a, b \in Nat : a * b \in Nat
    OBVIOUS
  <1>3. /\ c.docCapacity * DocSize \in Nat /\ Len(c.terms) * TermSize \in Nat
        /\ NodeCount * TidSize \in Nat
    BY <1>1, <1>2, Numbers
  <1>4. c.terms = <<>> => Len(c.terms) * TermSize = 0
    <2> HAVE c.terms = <<>>
    <2>1. Len(c.terms) = 0 /\ TermSize \in Nat
      BY Numbers
    <2> QED BY ONLY <2>1
  <1> QED BY <1>1, <1>3, <1>4, SMTT(30) DEF Used

\* What a collector is between two steps of the scan.
Sound(c) == Collector(c) /\ RightlyFailed(c) /\ (~c.failed => ArenaClean(c))

\* PgturbohybridSpillTermRun empties the terms and, with them, the arena.
LEMMA SpillEmpties ==
    ASSUME NEW c, Collector(c), c.terms # <<>>
    PROVE  LET d == SpillTermRun(c)
           IN /\ Collector(d) /\ d.terms = <<>> /\ d.bytesUsed = 0
              /\ d.docs = c.docs /\ d.docCapacity = c.docCapacity /\ d.failed = c.failed
              /\ d.termCapacity = c.termCapacity /\ d.bytesCapacity = c.bytesCapacity
  <1> DEFINE d == SpillTermRun(c)
  <1>1. d = [c EXCEPT !.runs = Append(@, SortTermRun(c.terms)), !.terms = <<>>, !.bytesUsed = 0]
    BY DEF SpillTermRun
  <1>2. /\ DOMAIN d = DOMAIN c /\ d.terms = <<>> /\ d.bytesUsed = 0
        /\ d.docs = c.docs /\ d.docCapacity = c.docCapacity /\ d.failed = c.failed
        /\ d.termCapacity = c.termCapacity /\ d.bytesCapacity = c.bytesCapacity
    BY <1>1, Fields DEF Collector
  <1> HIDE DEF d
  <1>3. Len(d.terms) = 0 /\ d.terms \in Seq(TermTuple)
    BY <1>2
  <1>4. Collector(d)
    BY <1>2, <1>3 DEF Collector
  <1> QED BY <1>2, <1>4 DEF d

\* PgturbohybridCheckBudget leaves a collector whose terms fit, or none, or
\* one that failed because the documents alone do not fit.
LEMMA CheckedFits ==
    ASSUME NEW c, opt.budget \in Nat, Sound(c)
    PROVE  LET d == CheckBudget(c)
           IN /\ Sound(d) /\ (~d.failed => Fitting(d))
              /\ d.docs = c.docs /\ d.docCapacity = c.docCapacity
              /\ d.termCapacity = c.termCapacity /\ d.bytesCapacity = c.bytesCapacity
              /\ d.terms = c.terms \/ d.terms = <<>>
              /\ d.bytesUsed = c.bytesUsed \/ d.bytesUsed = 0
  <1> DEFINE d == CheckBudget(c)
  <1>1. Used(c) \in Nat
    BY UsedIsASum DEF Sound
  <1>2. CASE Used(c) <= opt.budget \/ c.failed
    <2>1. d = c
      BY <1>2 DEF CheckBudget
    <2> QED BY <1>2, <2>1 DEF Fitting
  <1>3. CASE ~(Used(c) <= opt.budget \/ c.failed) /\ c.terms # <<>>
    <2>1. d = SpillTermRun(c)
      BY <1>3 DEF CheckBudget
    <2>2. /\ Collector(d) /\ d.terms = <<>> /\ d.bytesUsed = 0
          /\ d.docs = c.docs /\ d.docCapacity = c.docCapacity /\ d.failed = c.failed
          /\ d.termCapacity = c.termCapacity /\ d.bytesCapacity = c.bytesCapacity
      BY <1>3, <2>1, SpillEmpties DEF Sound
    <2> QED BY <1>3, <2>2 DEF Sound, RightlyFailed, ArenaClean, Fitting
  <1>4. CASE ~(Used(c) <= opt.budget \/ c.failed) /\ c.terms = <<>>
    <2>1. d = [c EXCEPT !.failed = TRUE]
      BY <1>4 DEF CheckBudget
    <2>2. /\ DOMAIN d = DOMAIN c /\ d.failed = TRUE
          /\ d.docs = c.docs /\ d.docCapacity = c.docCapacity
          /\ d.terms = c.terms /\ d.bytesUsed = c.bytesUsed
          /\ d.termCapacity = c.termCapacity /\ d.bytesCapacity = c.bytesCapacity
      BY <2>1, Fields DEF Sound, Collector
    <2> HIDE DEF d
    <2>3. Collector(d)
      BY <2>2 DEF Sound, Collector
    <2>4. c.bytesUsed = 0 /\ Used(c) = c.docCapacity * DocSize + NodeCount * TidSize
      BY <1>4, UsedIsASum DEF Sound, ArenaClean
    <2>5. RightlyFailed(d)
      <3>1. Used(d) = d.docCapacity * DocSize + NodeCount * TidSize /\ Used(d) = Used(c)
        BY <2>2, <2>4 DEF Used
      <3> QED BY <1>1, <1>4, <3>1 DEF RightlyFailed
    <2> QED BY <2>2, <2>3, <2>5 DEF Sound, d
  <1> QED BY <1>2, <1>3, <1>4

\* PgturbohybridEnsureDocCapacity makes room for one more document.
LEMMA DocsHaveRoom ==
    ASSUME NEW c, opt.budget \in Nat, Sound(c), ~c.failed, Fitting(c)
    PROVE  LET d == EnsureDocCapacity(c)
           IN /\ Sound(d) /\ (~d.failed => Fitting(d))
              /\ d.docs = c.docs /\ Len(d.docs) < d.docCapacity
  <1> DEFINE d == EnsureDocCapacity(c)
             cap == IF c.docCapacity = 0 THEN DocCap ELSE c.docCapacity
             grown == GrowCapacity(cap, Len(c.docs) + 1)
             g == [c EXCEPT !.docCapacity = grown]
  <1>1. c.docCapacity \in Nat /\ Len(c.docs) \in Nat
    BY DEF Sound, Collector
  <1>2. CASE Len(c.docs) < c.docCapacity
    <2>1. d = c
      BY <1>2 DEF EnsureDocCapacity
    <2> QED BY <1>2, <2>1
  <1>3. CASE ~(Len(c.docs) < c.docCapacity)
    <2>1. d = CheckBudget(g)
      BY <1>3 DEF EnsureDocCapacity
    <2>2. cap \in Nat \ {0} /\ Len(c.docs) + 1 \in Nat
      BY <1>1, Numbers
    <2>3. grown \in Nat \ {0} /\ grown >= Len(c.docs) + 1
      <3> HIDE DEF cap
      <3> QED BY <2>2, GrowCapacityFits
    <2> HIDE DEF grown
    <2>4. /\ DOMAIN g = DOMAIN c /\ g.docCapacity = grown
          /\ g.docs = c.docs /\ g.terms = c.terms /\ g.termCapacity = c.termCapacity
          /\ g.bytesUsed = c.bytesUsed /\ g.bytesCapacity = c.bytesCapacity /\ g.failed = c.failed
      BY Fields DEF Sound, Collector
    <2> HIDE DEF g, d
    <2>5. Collector(g)
      BY <1>1, <2>3, <2>4 DEF Sound, Collector
    <2>6. Sound(g)
      BY <2>4, <2>5 DEF Sound, RightlyFailed, ArenaClean
    <2>7. /\ Sound(d) /\ (~d.failed => Fitting(d))
          /\ d.docs = g.docs /\ d.docCapacity = g.docCapacity
      BY <2>1, <2>6, CheckedFits
    <2>8. Len(d.docs) < d.docCapacity
      BY <1>1, <2>3, <2>4, <2>7
    <2> QED BY <2>4, <2>7, <2>8 DEF d
  <1> QED BY <1>2, <1>3

\* PgturbohybridEnsureTermCapacity makes room for one more term.
LEMMA TermsHaveRoom ==
    ASSUME NEW c, opt.budget \in Nat, Sound(c)
    PROVE  LET d == EnsureTermCapacity(c)
           IN Sound(d) /\ Len(d.terms) < d.termCapacity
  <1> DEFINE d == EnsureTermCapacity(c)
             cap == IF c.termCapacity = 0 THEN TermCap ELSE c.termCapacity
             grown == GrowCapacity(cap, Len(c.terms) + 1)
             g == [c EXCEPT !.termCapacity = grown]
  <1>1. c.termCapacity \in Nat /\ Len(c.terms) \in Nat
    BY DEF Sound, Collector
  <1>2. CASE Len(c.terms) < c.termCapacity
    <2>1. d = c
      BY <1>2 DEF EnsureTermCapacity
    <2> QED BY <1>2, <2>1
  <1>3. CASE ~(Len(c.terms) < c.termCapacity)
    <2>1. d = CheckBudget(g)
      BY <1>3 DEF EnsureTermCapacity
    <2>2. cap \in Nat \ {0} /\ Len(c.terms) + 1 \in Nat
      BY <1>1, Numbers
    <2>3. grown \in Nat \ {0} /\ grown >= Len(c.terms) + 1
      <3> HIDE DEF cap
      <3> QED BY <2>2, GrowCapacityFits
    <2> HIDE DEF grown
    <2>4. /\ DOMAIN g = DOMAIN c /\ g.termCapacity = grown
          /\ g.docs = c.docs /\ g.terms = c.terms /\ g.docCapacity = c.docCapacity
          /\ g.bytesUsed = c.bytesUsed /\ g.bytesCapacity = c.bytesCapacity /\ g.failed = c.failed
      BY Fields DEF Sound, Collector
    <2> HIDE DEF g, d
    <2>5. Collector(g)
      BY <1>1, <2>3, <2>4 DEF Sound, Collector
    <2>6. Sound(g)
      BY <2>4, <2>5 DEF Sound, RightlyFailed, ArenaClean
    <2>7. /\ Sound(d) /\ d.termCapacity = g.termCapacity
          /\ d.terms = g.terms \/ d.terms = <<>>
      BY <2>1, <2>6, CheckedFits
    <2>8. Len(d.terms) < d.termCapacity
      <3>1. Len(<<>>) = 0
        OBVIOUS
      <3> QED BY <1>1, <2>3, <2>4, <2>7, <3>1
    <2> QED BY <2>7, <2>8 DEF d
  <1> QED BY <1>2, <1>3

\* PgturbohybridAppendTermBytes leaves the bytes of the term in the arena, also
\* when growing it has just emptied it; the term itself has still its place.
LEMMA BytesHaveRoom ==
    ASSUME NEW c, NEW len \in Nat, opt.budget \in Nat, Sound(c), Len(c.terms) < c.termCapacity
    PROVE  LET d == AppendTermBytes(c, len)
           IN Collector(d) /\ RightlyFailed(d) /\ Len(d.terms) < d.termCapacity
  <1> DEFINE d == AppendTermBytes(c, len)
             cap == IF c.bytesCapacity = 0 THEN BytesCap ELSE c.bytesCapacity
             new == GrowCapacity(cap, c.bytesUsed + len)
             g == [c EXCEPT !.bytesCapacity = new]
             grown == IF c.bytesUsed + len <= c.bytesCapacity THEN c ELSE CheckBudget(g)
  <1>1. c.bytesCapacity \in Nat /\ c.bytesUsed \in Nat /\ Len(c.terms) \in Nat
        /\ c.termCapacity \in Nat
    BY DEF Sound, Collector
  <1>2. /\ Sound(grown) /\ Len(grown.terms) < grown.termCapacity
        /\ grown.bytesUsed + len <= grown.bytesCapacity
    <2>1. CASE c.bytesUsed + len <= c.bytesCapacity
      BY <2>1
    <2>2. CASE ~(c.bytesUsed + len <= c.bytesCapacity)
      <3>1. grown = CheckBudget(g)
        BY <2>2
      <3>2. cap \in Nat \ {0} /\ c.bytesUsed + len \in Nat
        <4>1. BytesCap \in Nat \ {0}
          BY Numbers
        <4> QED BY ONLY <1>1, <4>1, len \in Nat
      <3>3. new \in Nat \ {0} /\ new >= c.bytesUsed + len
        <4> HIDE DEF cap
        <4> QED BY <3>2, GrowCapacityFits
      <3> HIDE DEF new
      <3>4. /\ DOMAIN g = DOMAIN c /\ g.bytesCapacity = new
            /\ g.docs = c.docs /\ g.terms = c.terms /\ g.docCapacity = c.docCapacity
            /\ g.bytesUsed = c.bytesUsed /\ g.termCapacity = c.termCapacity /\ g.failed = c.failed
        BY Fields DEF Sound, Collector
      <3> HIDE DEF g, grown
      <3>5. Collector(g)
        BY <1>1, <3>3, <3>4 DEF Sound, Collector
      <3>6. Sound(g)
        BY <3>4, <3>5 DEF Sound, RightlyFailed, ArenaClean
      <3>7. /\ Sound(grown) /\ grown.termCapacity = g.termCapacity
            /\ grown.bytesCapacity = g.bytesCapacity
            /\ grown.terms = g.terms \/ grown.terms = <<>>
            /\ grown.bytesUsed = g.bytesUsed \/ grown.bytesUsed = 0
        BY <3>1, <3>6, CheckedFits
      <3>8. Len(grown.terms) < grown.termCapacity
        <4>1. Len(<<>>) = 0
          OBVIOUS
        <4> QED BY <1>1, <3>4, <3>7, <4>1
      <3>9. grown.bytesUsed + len <= grown.bytesCapacity
        BY <1>1, <3>3, <3>4, <3>7
      <3> QED BY <3>7, <3>8, <3>9
    <2> QED BY <2>1, <2>2
  <1>3. d = [grown EXCEPT !.bytesUsed = @ + len]
    BY DEF AppendTermBytes
  <1> HIDE DEF grown
  <1>4. /\ DOMAIN d = DOMAIN grown /\ d.bytesUsed = grown.bytesUsed + len
        /\ d.docs = grown.docs /\ d.terms = grown.terms /\ d.docCapacity = grown.docCapacity
        /\ d.bytesCapacity = grown.bytesCapacity /\ d.termCapacity = grown.termCapacity
        /\ d.failed = grown.failed
    BY <1>2, <1>3, Fields DEF Sound, Collector
  <1> HIDE DEF d
  <1>5. Collector(d)
    <2>1. Collector(grown)
      BY <1>2 DEF Sound
    <2>2. grown.bytesUsed + len \in Nat
      BY <2>1 DEF Collector
    <2> QED BY ONLY <1>2, <1>4, <2>1, <2>2, SMTT(30) DEF Collector
  <1>6. RightlyFailed(d)
    BY <1>2, <1>4 DEF Sound, RightlyFailed
  <1> QED BY <1>2, <1>4, <1>5, <1>6 DEF d

LEMMA RowsAreTyped ==
    ASSUME CollectorInv, NEW i \in DOMAIN rows
    PROVE  /\ DOMAIN rows = 1..Len(rows) /\ Len(rows) \in Nat
           /\ rows[i].nodes \subseteq Nat /\ rows[i].lex \in Seq([t : Terms, tf : Nat])
  <1> DEFINE Row == [nodes : SUBSET (0..NodeCount - 1), lex : Seq([t : Terms, tf : Nat])]
  <1>1. rows \in Seq(Row)
    BY HeapsAssumption DEF CollectorInv
  <1>2. DOMAIN rows = 1..Len(rows) /\ Len(rows) \in Nat /\ rows[i] \in Row
    <2> HIDE DEF Row
    <2> QED BY <1>1
  <1>3. 0..NodeCount - 1 \subseteq Nat
    OBVIOUS
  <1> QED BY <1>2, <1>3

\* One lexeme: PgturbohybridAppendBuildTerm.
LEMMA TermIsAdded ==
    ASSUME NEW c, NEW node \in Nat, NEW l \in [t : Terms, tf : Nat],
           opt.budget \in Nat, Sound(c), ~c.failed, Fitting(c)
    PROVE  LET d == AppendBuildTerm(c, node, l) IN Sound(d) /\ (~d.failed => Fitting(d))
  <1> DEFINE d == AppendBuildTerm(c, node, l)
             ready == EnsureTermCapacity(c)
             room == AppendTermBytes(ready, TermLen[l.t])
             x == [t |-> l.t, node |-> node, tf |-> Tf(l)]
             more == [room EXCEPT !.terms = Append(@, x), !.total = @ + 1]
  <1>1. TermLen[l.t] \in Nat /\ x \in TermTuple
    BY Numbers DEF TermTuple, Tf
  <1>2. CASE TermLen[l.t] = 0
    BY <1>2 DEF AppendBuildTerm
  <1>3. CASE TermLen[l.t] # 0
    <2>1. d = CheckBudget(more)
      BY <1>3 DEF AppendBuildTerm
    <2>2. Sound(ready) /\ Len(ready.terms) < ready.termCapacity
      BY TermsHaveRoom
    <2> HIDE DEF ready, x
    <2>3. Collector(room) /\ RightlyFailed(room) /\ Len(room.terms) < room.termCapacity
      BY <1>1, <2>2, BytesHaveRoom
    <2> HIDE DEF room
    <2>4. /\ DOMAIN more = DOMAIN room /\ more.terms = Append(room.terms, x)
          /\ more.docs = room.docs /\ more.docCapacity = room.docCapacity
          /\ more.termCapacity = room.termCapacity /\ more.bytesUsed = room.bytesUsed
          /\ more.bytesCapacity = room.bytesCapacity /\ more.failed = room.failed
      BY <2>3, Fields DEF Collector
    <2> HIDE DEF more, d
    <2>5. room.terms \in Seq(TermTuple) /\ room.termCapacity \in Nat
      BY <2>3 DEF Collector
    <2>6. /\ more.terms \in Seq(TermTuple) /\ more.terms # <<>>
          /\ Len(more.terms) <= more.termCapacity
      <3>1. Len(room.terms) \in Nat /\ Len(Append(room.terms, x)) = Len(room.terms) + 1
            /\ Append(room.terms, x) \in Seq(TermTuple)
        BY <1>1, <2>5
      <3>2. more.terms \in Seq(TermTuple) /\ Len(more.terms) = Len(room.terms) + 1
        BY <2>4, <3>1, Zenon
      <3>3. Len(more.terms) # Len(<<>>)
        BY ONLY <3>1, <3>2
      <3>4. Len(more.terms) <= more.termCapacity
        BY ONLY <2>3, <2>4, <2>5, <3>1, <3>2
      <3> QED BY <3>2, <3>3, <3>4, Zenon
    <2>7. Collector(more)
      BY <2>3, <2>4, <2>6 DEF Collector
    <2>8. Sound(more)
      BY <2>3, <2>4, <2>6, <2>7 DEF Sound, RightlyFailed, ArenaClean
    <2>9. Sound(d) /\ (~d.failed => Fitting(d))
      BY <2>1, <2>8, CheckedFits
    <2> QED BY <2>9 DEF d
  <1> QED BY <1>2, <1>3

\* One document: PgturbohybridAppendBuildDoc.
LEMMA DocIsAdded ==
    ASSUME NEW c, CollectorInv, NEW i \in DOMAIN rows, NEW node \in Nat,
           Sound(c), ~c.failed, Fitting(c)
    PROVE  LET d == AppendBuildDoc(c, node, i, rows[i].lex) IN Sound(d) /\ (~d.failed => Fitting(d))
  <1> DEFINE d == AppendBuildDoc(c, node, i, rows[i].lex)
             room == EnsureDocCapacity(c)
             len == DocLen(rows[i].lex)
             x == [node |-> node, tid |-> i, docLen |-> len]
  <1>1. /\ Sound(room) /\ (~room.failed => Fitting(room))
        /\ Len(room.docs) < room.docCapacity
    BY DocsHaveRoom DEF CollectorInv
  <1>2. x \in DocTuple
    <2>1. i \in Nat
      BY RowsAreTyped
    <2>2. len \in {DocLen(rows[j].lex) : j \in DOMAIN rows}
      OBVIOUS
    <2> HIDE DEF len
    <2> QED BY <2>1, <2>2 DEF DocTuple
  <1>3. d = [room EXCEPT !.docs = Append(@, x), !.totalDocLen = @ + len]
    BY DEF AppendBuildDoc
  <1> HIDE DEF room, x, len
  <1>4. /\ DOMAIN d = DOMAIN room /\ d.docs = Append(room.docs, x)
        /\ d.terms = room.terms /\ d.docCapacity = room.docCapacity
        /\ d.termCapacity = room.termCapacity /\ d.bytesUsed = room.bytesUsed
        /\ d.bytesCapacity = room.bytesCapacity /\ d.failed = room.failed
    BY <1>1, <1>3, Fields DEF Sound, Collector
  <1> HIDE DEF d
  <1>5. room.docs \in Seq(DocTuple) /\ room.docCapacity \in Nat
    BY <1>1 DEF Sound, Collector
  <1>6. d.docs \in Seq(DocTuple) /\ Len(d.docs) <= d.docCapacity
    <2>1. Len(room.docs) \in Nat /\ Len(Append(room.docs, x)) = Len(room.docs) + 1
          /\ Append(room.docs, x) \in Seq(DocTuple)
      BY <1>2, <1>5
    <2> QED BY <1>1, <1>4, <1>5, <2>1
  <1>7. Collector(d)
    BY <1>1, <1>4, <1>6 DEF Sound, Collector
  <1>8. Sound(d)
    BY <1>1, <1>4, <1>7 DEF Sound, RightlyFailed, ArenaClean
  <1>9. ~d.failed => Fitting(d)
    <2> HAVE ~d.failed
    <2>1. Used(d) = Used(room)
      BY <1>4 DEF Used
    <2> QED BY <1>1, <1>4, <2>1 DEF Fitting
  <1> QED BY <1>8, <1>9 DEF d

(***************************************************************************)
(* The steps of the build.                                                 *)
(***************************************************************************)

LEMMA ScanSound ==
    ASSUME CollectorInv, pc = "scan", ~col.failed
    PROVE  Sound(col) /\ Fitting(col) /\ opt.budget \in Nat
  BY DEF CollectorInv, Sound

LEMMA InitCollector ==
    ASSUME Init
    PROVE  CollectorInv
  <1>1. rows \in Heaps /\ opt.budget \in Nat
    BY Numbers DEF Init
  <1>2. Sound(EmptyCollector)
    <2>1. Len(<<>>) = 0 /\ <<>> \in Seq(DocTuple) /\ <<>> \in Seq(TermTuple)
      OBVIOUS
    <2> QED BY <2>1 DEF Sound, Collector, RightlyFailed, ArenaClean, EmptyCollector
  <1>3. Sound(col) /\ (~col.failed => Fitting(col))
    BY <1>1, <1>2, CheckedFits DEF Init
  <1>4. AtInv
    BY DEF Init, AtInv
  <1> QED BY <1>1, <1>3, <1>4 DEF CollectorInv, Sound, Collector

\* A step of the scan that leaves a sound collector and a valid position.
LEMMA ScanGoesOn ==
    ASSUME CollectorInv, UNCHANGED <<rows, opt>>,
           Sound(col)', (~col.failed => Fitting(col))', AtInv'
    PROVE  CollectorInv'
  BY DEF CollectorInv, Sound, Collector

\* A step that ends the scan or comes after it and keeps the documents.
LEMMA ScanIsOver ==
    ASSUME CollectorInv, UNCHANGED <<rows, opt>>, pc' # "scan",
           DOMAIN col' = DOMAIN col, col'.failed = col.failed, col'.docCapacity = col.docCapacity
    PROVE  CollectorInv'
  BY DEF CollectorInv, RightlyFailed

LEMMA StepKeepsCollector ==
    ASSUME CollectorInv, [Next]_vars
    PROVE  CollectorInv'
  <1>1. CASE Fail
    BY <1>1, ScanIsOver DEF Fail
  <1>2. CASE SkipRow
    <2>1. /\ pc = "scan" /\ ~col.failed /\ at.lex = 0 /\ col' = col /\ at' = [at EXCEPT !.row = @ + 1]
          /\ UNCHANGED <<rows, opt>>
      BY <1>2 DEF SkipRow
    <2>2. Sound(col)' /\ Fitting(col)'
      BY <2>1, ScanSound DEF Sound, Collector, RightlyFailed, ArenaClean, Fitting, Used, TermTuple,
                             DocTuple
    <2>3. AtInv'
      BY <2>1 DEF CollectorInv, AtInv
    <2> QED BY <2>1, <2>2, <2>3, ScanGoesOn
  <1>3. CASE BuildCallback
    <2>1. PICK node \in rows[at.row].nodes :
            /\ col' = AppendBuildDoc(col, node, at.row, rows[at.row].lex)
            /\ at' = [at EXCEPT !.lex = 1, !.node = node]
      BY <1>3 DEF BuildCallback
    <2>2. /\ pc = "scan" /\ ~col.failed /\ at.row <= Len(rows) /\ rows[at.row].lex # <<>>
          /\ UNCHANGED <<rows, opt>>
      BY <1>3 DEF BuildCallback
    <2>3. rows \in Seq([nodes : SUBSET (0..NodeCount - 1), lex : Seq([t : Terms, tf : Nat])]) /\ AtInv
      BY <2>2, HeapsAssumption DEF CollectorInv
    <2>4. at.row \in DOMAIN rows
      BY <2>2, <2>3 DEF AtInv
    <2>5. node \in Nat /\ rows[at.row].lex \in Seq([t : Terms, tf : Nat])
      BY <2>4, RowsAreTyped
    <2>6. Sound(col') /\ (~col'.failed => Fitting(col'))
      BY <2>1, <2>2, <2>4, <2>5, ScanSound, DocIsAdded
    <2>7. Sound(col)' /\ (~col.failed => Fitting(col))'
      BY <2>2, <2>6 DEF Sound, Collector, RightlyFailed, ArenaClean, Fitting, Used, TermTuple,
                        DocTuple
    <2>8. AtInv'
      <3> DEFINE lex == rows[at.row].lex
      <3>1. Len(lex) \in Nat /\ Len(lex) >= 1
        <4>1. \E S : lex \in Seq(S)
          BY <2>5
        <4>2. lex # <<>>
          BY <2>2
        <4> HIDE DEF lex
        <4> QED BY <4>1, <4>2
      <3>2. /\ at' \in [row : Nat \ {0}, lex : Nat, node : Nat]
            /\ at'.row = at.row /\ at'.lex = 1 /\ at.row <= Len(rows)
        BY <2>1, <2>2, <2>3, <2>5 DEF AtInv
      <3> QED BY <2>2, <3>1, <3>2 DEF AtInv
    <2> QED BY <2>2, <2>7, <2>8, ScanGoesOn
  <1>4. CASE CollectTerm
    <2>1. /\ pc = "scan" /\ ~col.failed /\ at.lex > 0
          /\ col' = AppendBuildTerm(col, at.node, rows[at.row].lex[at.lex])
          /\ at' = IF at.lex < Len(rows[at.row].lex) THEN [at EXCEPT !.lex = @ + 1]
                   ELSE [row |-> at.row + 1, lex |-> 0, node |-> 0]
          /\ UNCHANGED <<rows, opt>>
      BY <1>4 DEF CollectTerm
    <2>2. rows \in Seq([nodes : SUBSET (0..NodeCount - 1), lex : Seq([t : Terms, tf : Nat])]) /\ AtInv
      BY <2>1, HeapsAssumption DEF CollectorInv
    <2>3. at.row \in DOMAIN rows
      BY <2>1, <2>2 DEF AtInv
    <2>4. rows[at.row].lex \in Seq([t : Terms, tf : Nat])
      BY <2>3, RowsAreTyped
    <2>5. /\ at \in [row : Nat \ {0}, lex : Nat, node : Nat] /\ at.row \in Nat /\ at.lex \in Nat
          /\ at.node \in Nat /\ at.lex <= Len(rows[at.row].lex)
      BY <2>1, <2>2 DEF AtInv
    <2>6. rows[at.row].lex[at.lex] \in [t : Terms, tf : Nat] /\ at.node \in Nat
      <3> DEFINE Lexeme == [t : Terms, tf : Nat]
                 lex == rows[at.row].lex
      <3>1. lex \in Seq(Lexeme) /\ at.lex \in 1..Len(lex)
        BY <2>1, <2>4, <2>5
      <3> HIDE DEF Lexeme, lex
      <3>2. lex[at.lex] \in Lexeme
        BY <3>1
      <3> QED BY <3>2, <2>5 DEF Lexeme, lex
    <2>7. Sound(col') /\ (~col'.failed => Fitting(col'))
      BY <2>1, <2>6, ScanSound, TermIsAdded
    <2>8. Sound(col)' /\ (~col.failed => Fitting(col))'
      BY <2>1, <2>7 DEF Sound, Collector, RightlyFailed, ArenaClean, Fitting, Used, TermTuple,
                        DocTuple
    <2>9. AtInv'
      <3>1. Len(rows[at.row].lex) \in Nat
        BY <2>4
      <3>2. CASE at.lex < Len(rows[at.row].lex)
        <4>1. at' = [at EXCEPT !.lex = @ + 1]
          BY <2>1, <3>2
        <4>2. /\ at' \in [row : Nat \ {0}, lex : Nat, node : Nat]
              /\ at'.row = at.row /\ at'.lex = at.lex + 1
          BY <4>1, <2>5
        <4>3. at.row <= Len(rows) /\ at.lex + 1 <= Len(rows[at.row].lex)
          BY <2>1, <2>2, <2>5, <3>1, <3>2 DEF AtInv
        <4> QED BY <2>1, <4>2, <4>3 DEF AtInv
      <3>3. CASE ~(at.lex < Len(rows[at.row].lex))
        BY <2>1, <2>5, <3>3 DEF AtInv
      <3> QED BY <3>2, <3>3
    <2> QED BY <2>1, <2>8, <2>9, ScanGoesOn
  <1>5. CASE ScanEnd
    <2>1. /\ pc = "scan" /\ pc' # "scan" /\ UNCHANGED <<rows, opt>>
          /\ col' = IF col.runs # <<>> THEN SpillTermRun(col)
                    ELSE [col EXCEPT !.terms = SortTermRun(@)]
      BY <1>5 DEF ScanEnd
    <2>2. /\ DOMAIN col' = DOMAIN col /\ col'.failed = col.failed
          /\ col'.docCapacity = col.docCapacity
      <3>1. Collector(col)
        BY <2>1 DEF CollectorInv
      <3>2. CASE col.runs = <<>>
        BY <2>1, <3>1, <3>2, Fields DEF Collector
      <3>3. CASE col.runs # <<>> /\ col.terms = <<>>
        BY <2>1, <3>3 DEF SpillTermRun
      <3>4. CASE col.runs # <<>> /\ col.terms # <<>>
        BY <2>1, <3>1, <3>4, SpillEmpties DEF Collector
      <3> QED BY <3>2, <3>3, <3>4
    <2> QED BY <2>1, <2>2, ScanIsOver
  <1>6. CASE WriteDocStats
    BY <1>6, ScanIsOver DEF WriteDocStats
  <1>7. CASE WriteTerm
    <2>1. pc' = "terms" /\ UNCHANGED <<rows, opt>> /\ \E n : col' = [col EXCEPT !.terms = n]
      BY <1>7 DEF WriteTerm
    <2>2. /\ DOMAIN col' = DOMAIN col /\ col'.failed = col.failed
          /\ col'.docCapacity = col.docCapacity
      BY <2>1, Fields DEF CollectorInv
    <2> QED BY <2>1, <2>2, ScanIsOver
  <1>8. CASE OpenRuns
    BY <1>8, ScanIsOver DEF OpenRuns
  <1>9. CASE MergeTermBegin
    BY <1>9, ScanIsOver DEF MergeTermBegin
  <1>10. CASE MergeTuple
    BY <1>10, ScanIsOver DEF MergeTuple
  <1>11. CASE MergeTermEnd
    BY <1>11, ScanIsOver DEF MergeTermEnd
  <1>12. CASE WriteMeta
    BY <1>12, ScanIsOver DEF WriteMeta
  <1>13. CASE UNCHANGED vars
    BY <1>13 DEF vars, CollectorInv, Collector, RightlyFailed, ArenaClean, Fitting, Used, AtInv,
                 TermTuple, DocTuple
  <1> QED BY <1>1, <1>2, <1>3, <1>4, <1>5, <1>6, <1>7, <1>8, <1>9, <1>10, <1>11, <1>12, <1>13
          DEF Next

\* The collector of a build, through growth, spilling and failure.
THEOREM CollectorInvHolds == Spec => []CollectorInv
  <1>1. Init => CollectorInv
    BY InitCollector
  <1>2. CollectorInv /\ [Next]_vars => CollectorInv'
    BY StepKeepsCollector
  <1> QED BY <1>1, <1>2, PTL DEF Spec

\* For every table, budget and size, terms are held in memory only within the
\* budget (PgturbohybridCheckBudget), no array of the collector holds more than
\* it was allocated for, and the build fails only when spilling cannot help.
THEOREM BuildKeepsBudget == Spec => []WithinBudget
  <1>1. CollectorInv => WithinBudget
    BY DEF CollectorInv, Collector, Fitting, RightlyFailed, WithinBudget
  <1> QED BY <1>1, CollectorInvHolds, PTL

(***************************************************************************)
(* Sequences of sequences.                                                 *)
(***************************************************************************)

\* Values that are computed the same way are the same.
Alike(n, f, g) ==
    /\ n \in Nat /\ f[0] = g[0]
    /\ \A i \in 1..n : f[i - 1] = g[i - 1] => f[i] = g[i]

LEMMA SameSteps ==
    ASSUME NEW n, NEW f, NEW g, Alike(n, f, g)
    PROVE  \A i \in 0..n : f[i] = g[i]
  <1>0. /\ n \in Nat /\ f[0] = g[0]
        /\ \A i \in 1..n : f[i - 1] = g[i - 1] => f[i] = g[i]
    BY DEF Alike
  <1> DEFINE U == [i \in 0..n |-> {g[i]}]
  <1>1. \A i \in 0..n : U[i] = {g[i]}
    OBVIOUS
  <1>2. \A i \in 1..n : i - 1 \in 0..n /\ i \in 0..n
    BY <1>0
  <1>3. 0 \in 0..n
    BY <1>0
  <1> HIDE DEF U
  <1>4. f[0] \in U[0]
    BY <1>0, <1>1, <1>3
  <1>5. \A i \in 1..n : f[i - 1] \in U[i - 1] => f[i] \in U[i]
    BY <1>0, <1>1, <1>2
  <1>6. \A i \in 0..n : f[i] \in U[i]
    BY <1>0, <1>4, <1>5, PlacesStay
  <1> QED BY <1>1, <1>6

\* Concatenation, as an operator of its own for the provers.
Join(a, b) == a \o b
Sequences2(T, a, b) == a \in Seq(T) /\ b \in Seq(T)

LEMMA JoinFacts ==
    ASSUME NEW T, NEW a, NEW b, Sequences2(T, a, b)
    PROVE  /\ Join(a, b) \in Seq(T) /\ Len(Join(a, b)) = Len(a) + Len(b)
           /\ \A k \in 1..Len(a) : Join(a, b)[k] = a[k]
           /\ \A k \in 1..Len(b) : Join(a, b)[Len(a) + k] = b[k]
  <1>0. a \in Seq(T) /\ b \in Seq(T)
    BY DEF Sequences2
  <1>1. a \o b \in Seq(T) /\ Len(a \o b) = Len(a) + Len(b)
    BY <1>0, ConcatProperties
  <1>2. \A k \in 1..Len(a) + Len(b) : (a \o b)[k] = IF k <= Len(a) THEN a[k] ELSE b[k - Len(a)]
    BY <1>0, ConcatProperties
  <1>3. PICK c : c = a \o b
    OBVIOUS
  <1>4. \A k \in 1..Len(a) + Len(b) : c[k] = IF k <= Len(a) THEN a[k] ELSE b[k - Len(a)]
    BY <1>2, <1>3, Zenon
  <1>5. Len(a) \in Nat /\ Len(b) \in Nat
    BY <1>0
  <1>6. \A k \in 1..Len(a) : c[k] = a[k]
    BY ONLY <1>4, <1>5
  <1>7. \A k \in 1..Len(b) : c[Len(a) + k] = b[k]
    BY ONLY <1>4, <1>5
  <1> QED BY <1>1, <1>3, <1>6, <1>7, Zenon DEF Join

LEMMA SameSeq ==
    ASSUME NEW T, NEW a \in Seq(T), NEW b \in Seq(T), Len(a) = Len(b), \A k \in 1..Len(a) : a[k] = b[k]
    PROVE  a = b
  OBVIOUS

Appended(T, a, b, x) == a \in Seq(T) /\ b \in Seq(T) /\ x \in T

LEMMA JoinEnd ==
    ASSUME NEW T, NEW a, NEW b, NEW x, Appended(T, a, b, x)
    PROVE  Join(a, Append(b, x)) = Append(Join(a, b), x)
  <1>0. a \in Seq(T) /\ b \in Seq(T) /\ x \in T
    BY DEF Appended
  <1>1. ASSUME NEW c \in Seq(T) PROVE Join(a, Append(c, x)) = Append(Join(a, c), x)
    <2> DEFINE l == Join(a, Append(c, x))
               r == Join(a, c)
    <2>1. /\ Append(c, x) \in Seq(T) /\ Len(Append(c, x)) = Len(c) + 1
          /\ \A k \in 1..Len(c) : Append(c, x)[k] = c[k]
          /\ Append(c, x)[Len(c) + 1] = x /\ Len(c) \in Nat /\ Len(a) \in Nat
      BY <1>0
    <2>2. PICK d \in Seq(T) : d = Append(c, x)
      BY <2>1
    <2>3. /\ l \in Seq(T) /\ Len(l) = Len(a) + Len(d) /\ \A k \in 1..Len(a) : l[k] = a[k]
          /\ \A k \in 1..Len(d) : l[Len(a) + k] = d[k]
      <3>2. /\ Join(a, d) \in Seq(T) /\ Len(Join(a, d)) = Len(a) + Len(d)
            /\ \A k \in 1..Len(a) : Join(a, d)[k] = a[k]
            /\ \A k \in 1..Len(d) : Join(a, d)[Len(a) + k] = d[k]
        <4>1. Sequences2(T, a, d)
          BY <1>0 DEF Sequences2
        <4> QED BY ONLY <4>1, JoinFacts
      <3>3. l = Join(a, d)
        BY <2>2
      <3> QED BY ONLY <3>2, <3>3, Zenon
    <2>4. /\ r \in Seq(T) /\ Len(r) = Len(a) + Len(c) /\ \A k \in 1..Len(a) : r[k] = a[k]
          /\ \A k \in 1..Len(c) : r[Len(a) + k] = c[k]
      <3>1. Sequences2(T, a, c)
        BY <1>0 DEF Sequences2
      <3> QED BY ONLY <3>1, JoinFacts DEF r
    <2> HIDE DEF l, r
    <2>5. /\ Append(r, x) \in Seq(T) /\ Len(Append(r, x)) = Len(l)
      BY <1>0, <2>1, <2>2, <2>3, <2>4
    <2>6. ASSUME NEW k \in 1..Len(l) PROVE l[k] = Append(r, x)[k]
      <3>0. Len(l) = Len(a) + Len(c) + 1 /\ Len(r) = Len(a) + Len(c) /\ Len(d) = Len(c) + 1
        BY <2>1, <2>2, <2>3, <2>4
      <3>1. CASE k \in 1..Len(a)
        BY <2>1, <2>3, <2>4, <3>0, <3>1
      <3>2. CASE k \notin 1..Len(a) /\ k <= Len(a) + Len(c)
        <4>1. k - Len(a) \in 1..Len(c) /\ k - Len(a) \in 1..Len(d) /\ Len(a) + (k - Len(a)) = k
          BY <2>1, <3>0, <3>2
        <4>2. l[k] = d[k - Len(a)] /\ r[k] = c[k - Len(a)] /\ d[k - Len(a)] = c[k - Len(a)]
          BY <2>1, <2>2, <2>3, <2>4, <4>1
        <4>3. Append(r, x)[k] = r[k]
          BY <2>1, <2>4, <3>0, <3>2
        <4> QED BY <4>2, <4>3
      <3>3. CASE k = Len(a) + Len(c) + 1
        <4>1. Len(c) + 1 \in 1..Len(d) /\ Len(a) + (Len(c) + 1) = k
          BY <2>1, <3>0, <3>3
        <4>2. l[k] = d[Len(c) + 1] /\ d[Len(c) + 1] = x
          BY <2>1, <2>2, <2>3, <4>1
        <4>3. Append(r, x)[k] = x
          BY <1>0, <2>4, <3>0, <3>3
        <4> QED BY <4>2, <4>3
      <3> QED BY <2>1, <3>0, <3>1, <3>2, <3>3
    <2>7. l = Append(r, x)
      BY <2>3, <2>5, <2>6, SameSeq
    <2> QED BY <2>7 DEF l, r
  <1> QED BY ONLY <1>0, <1>1

LEMMA JoinOne ==
    ASSUME NEW T, NEW a, NEW x, Appended(T, a, a, x)
    PROVE  Join(a, <<x>>) = Append(a, x) /\ Join(a, <<>>) = a /\ Join(<<>>, a) = a
  <1>0. a \in Seq(T) /\ x \in T
    BY DEF Appended
  <1>2. Join(a, <<>>) = a /\ Join(<<>>, a) = a
    BY <1>0, ConcatEmptySeq DEF Join
  <1>3. Join(a, <<x>>) = Append(a, x)
    <2>1. <<>> \in Seq(T) /\ Append(<<>>, x) = <<x>>
      BY <1>0
    <2>2. PICK e \in Seq(T) : e = <<>>
      BY <2>1
    <2>3. Join(a, Append(e, x)) = Append(Join(a, e), x)
      <3>1. Appended(T, a, e, x)
        BY <1>0 DEF Appended
      <3> QED BY ONLY <3>1, JoinEnd
    <2> QED BY <1>2, <2>1, <2>2, <2>3
  <1> QED BY <1>2, <1>3

\* Sequences of sequences.
Lists(T) == Seq(Seq(T))

LEMMA ListsFacts ==
    ASSUME NEW T, NEW ss \in Lists(T)
    PROVE  /\ Len(ss) \in Nat /\ \A i \in 1..Len(ss) : ss[i] \in Seq(T)
           /\ DOMAIN ss = 1..Len(ss) /\ (ss = <<>> <=> Len(ss) = 0)
  BY DEF Lists

LEMMA ListsAre ==
    ASSUME NEW T, NEW n \in Nat, NEW ss, DOMAIN ss = 1..n, ss = [i \in 1..n |-> ss[i]],
           \A i \in 1..n : ss[i] \in Seq(T)
    PROVE  ss \in Lists(T) /\ Len(ss) = n
  BY DEF Lists

LEMMA ListsAppend ==
    ASSUME NEW T, NEW ss \in Lists(T), NEW s \in Seq(T)
    PROVE  /\ Append(ss, s) \in Lists(T) /\ Len(Append(ss, s)) = Len(ss) + 1
           /\ Append(ss, s)[Len(ss) + 1] = s /\ \A i \in 1..Len(ss) : Append(ss, s)[i] = ss[i]
  BY DEF Lists

LEMMA ListsExtend ==
    ASSUME NEW T, NEW ss \in Lists(T), ss # <<>>, NEW x \in T
    PROVE  LET n == Len(ss)
               tt == [ss EXCEPT ![n] = Append(@, x)]
           IN  /\ tt \in Lists(T) /\ Len(tt) = n /\ tt[n] = Append(ss[n], x) /\ ss[n] \in Seq(T)
               /\ \A i \in 1..n - 1 : tt[i] = ss[i]
  BY DEF Lists

\* The stages of a concatenation.
Joins(ss, f) ==
    /\ f[0] = <<>> /\ \A i \in 1..Len(ss) : f[i] = Join(f[i - 1], ss[i])
    /\ Flat(ss) = f[Len(ss)]

LEMMA FlatJoins ==
    ASSUME NEW T, NEW ss \in Lists(T)
    PROVE  /\ \E f \in [0..Len(ss) -> Seq(T)] : Joins(ss, f)
           /\ Flat(ss) \in Seq(T)
  <1> DEFINE n == Len(ss)
             Def(f) == [i \in 0..n |-> IF i = 0 THEN <<>> ELSE Join(f[i - 1], ss[i])]
             flat == CHOOSE f : f = Def(f)
             join(i) == [x \in Seq(T) |-> Join(x, ss[i])]
             F == [i \in 1..n |-> join(i)]
  <1>1. n \in Nat /\ \A i \in 1..n : ss[i] \in Seq(T)
    BY ListsFacts
  <1>2. \A i \in 1..n : join(i) \in [Seq(T) -> Seq(T)]
    <2> TAKE i \in 1..n
    <2>1. ASSUME NEW x \in Seq(T) PROVE Join(x, ss[i]) \in Seq(T)
      <3>1. Sequences2(T, x, ss[i])
        BY <1>1 DEF Sequences2
      <3> QED BY ONLY <3>1, JoinFacts
    <2> QED BY <2>1
  <1>3. F \in [1..n -> [Seq(T) -> Seq(T)]]
    BY <1>2
  <1>4. \A i \in 1..n : \A x \in Seq(T) : F[i][x] = Join(x, ss[i])
    OBVIOUS
  <1>5. <<>> \in Seq(T)
    OBVIOUS
  <1> HIDE DEF F, n
  <1>6. PICK h \in [0..n -> Seq(T)] : h[0] = <<>> /\ \A i \in 1..n : h[i] = F[i][h[i - 1]]
    <2>2. PICK S : S = Seq(T)
      OBVIOUS
    <2>3. PICK first \in S : first = <<>>
      BY <1>5, <2>2
    <2>4. PICK m \in Nat : m = n
      BY <1>1
    <2>5. F \in [1..m -> [S -> S]]
      BY <1>3, <2>2, <2>4
    <2>6. \E h \in [0..m -> S] : h[0] = first /\ \A i \in 1..m : h[i] = F[i][h[i - 1]]
      BY ONLY <2>5, StepByStep
    <2> QED BY ONLY <2>2, <2>3, <2>4, <2>6
  <1>7. \A i \in 1..n : h[i] = Join(h[i - 1], ss[i])
    <2> TAKE i \in 1..n
    <2>1. i - 1 \in 0..n
      BY <1>1
    <2>2. h[i - 1] \in Seq(T) /\ h[i] = F[i][h[i - 1]]
      BY <1>6, <2>1
    <2> QED BY <1>4, <2>2
  <1>8. h = Def(h)
    <2>1. \A i \in 0..n : h[i] = IF i = 0 THEN <<>> ELSE Join(h[i - 1], ss[i])
      BY <1>1, <1>6, <1>7
    <2> QED BY <1>6, <2>1
  <1>9. flat = Def(flat)
    <2> HIDE DEF Def
    <2> QED BY <1>8
  <1>10. flat[0] = <<>> /\ \A i \in 1..n : flat[i] = Join(flat[i - 1], ss[i])
    <2>1. \A i \in 0..n : flat[i] = Def(flat)[i]
      <3> HIDE DEF Def, flat
      <3> QED BY <1>9
    <2> HIDE DEF flat
    <2> QED BY <1>1, <2>1
  <1>11. Flat(ss) = flat[n]
    BY DEF Flat, Join, n
  <1> HIDE DEF flat, Def
  <1>12. \A i \in 0..n : flat[i] = h[i]
    <2>1. \A i \in 1..n : flat[i - 1] = h[i - 1] => flat[i] = h[i]
      BY <1>7, <1>10
    <2>2. flat[0] = h[0]
      BY <1>6, <1>10
    <2>3. PICK m, a, b : m = n /\ a = flat /\ b = h
      OBVIOUS
    <2>4. Alike(m, a, b)
      BY <1>1, <2>1, <2>2, <2>3 DEF Alike
    <2>5. \A i \in 0..m : a[i] = b[i]
      BY ONLY <2>4, SameSteps
    <2> QED BY ONLY <2>3, <2>5
  <1>13. Flat(ss) = h[n] /\ h[n] \in Seq(T)
    BY <1>1, <1>6, <1>11, <1>12
  <1>14. Joins(ss, h)
    BY <1>6, <1>7, <1>13 DEF Joins, n
  <1> QED BY <1>6, <1>13, <1>14 DEF n

LEMMA FlatEmpty == Flat(<<>>) = <<>>
  <1>1. <<>> \in Lists({}) /\ Len(<<>>) = 0
    BY DEF Lists
  <1>2. PICK f : Joins(<<>>, f)
    BY <1>1, FlatJoins
  <1> QED BY <1>2 DEF Joins

\* One more sequence, or one more element of the last.
LEMMA FlatAppend ==
    ASSUME NEW T, NEW ss \in Lists(T), NEW s \in Seq(T)
    PROVE  Append(ss, s) \in Lists(T) /\ Flat(Append(ss, s)) = Join(Flat(ss), s)
  <1> DEFINE tt == Append(ss, s)
             n == Len(ss)
  <1>1. tt \in Lists(T) /\ Len(tt) = n + 1 /\ n \in Nat /\ tt[n + 1] = s
        /\ \A i \in 1..n : tt[i] = ss[i]
    BY ListsAppend, ListsFacts
  <1> HIDE DEF tt, n
  <1>2. PICK f \in [0..Len(ss) -> Seq(T)] : Joins(ss, f)
    BY FlatJoins
  <1>3. PICK g \in [0..Len(tt) -> Seq(T)] : Joins(tt, g)
    BY <1>1, FlatJoins
  <1>4. f[n] = g[n]
    <2>1. \A i \in 1..n : ss[i] = tt[i]
      BY <1>1
    <2>2. n \in Nat /\ n <= Len(ss) /\ n <= Len(tt) /\ Len(ss) \in Nat /\ Len(tt) \in Nat
      BY <1>1 DEF n
    <2>3. \A i \in 0..n : f[i] = g[i]
      <3>1. f[0] = g[0]
        BY <1>2, <1>3 DEF Joins
      <3>2. \A i \in 1..n : f[i - 1] = g[i - 1] => f[i] = g[i]
        BY <1>2, <1>3, <2>1, <2>2 DEF Joins
      <3>3. n \in Nat
        BY <2>2
      <3>4. Alike(n, f, g)
        BY <3>1, <3>2, <3>3 DEF Alike
      <3> QED BY ONLY <3>4, SameSteps
    <2> QED BY <1>1, <2>3
  <1>5. Flat(tt) = Join(g[n], s)
    <2>1. n + 1 \in 1..Len(tt) /\ (n + 1) - 1 = n
      BY <1>1
    <2>2. g[n + 1] = Join(g[(n + 1) - 1], tt[n + 1]) /\ Flat(tt) = g[n + 1]
      BY <1>1, <1>3, <2>1 DEF Joins
    <2> QED BY <1>1, <2>1, <2>2
  <1> QED BY <1>1, <1>2, <1>4, <1>5 DEF Joins, tt, n

LEMMA FlatExtend ==
    ASSUME NEW T, NEW ss \in Lists(T), ss # <<>>, NEW x \in T
    PROVE  LET tt == [ss EXCEPT ![Len(ss)] = Append(@, x)]
           IN  tt \in Lists(T) /\ Flat(tt) = Append(Flat(ss), x)
  <1> DEFINE n == Len(ss)
             tt == [ss EXCEPT ![n] = Append(@, x)]
  <1>0. n \in Nat /\ n >= 1
    BY ListsFacts
  <1>1. tt \in Lists(T) /\ Len(tt) = n /\ tt[n] = Append(ss[n], x) /\ ss[n] \in Seq(T)
        /\ \A i \in 1..n - 1 : tt[i] = ss[i]
    BY ListsExtend
  <1> HIDE DEF tt, n
  <1>2. PICK f \in [0..Len(ss) -> Seq(T)] : Joins(ss, f)
    BY FlatJoins
  <1>3. PICK g \in [0..Len(tt) -> Seq(T)] : Joins(tt, g)
    BY <1>1, FlatJoins
  <1>4. f[n - 1] = g[n - 1]
    <2>1. \A i \in 1..n - 1 : ss[i] = tt[i]
      BY <1>1
    <2>2. n - 1 \in Nat /\ n - 1 <= Len(ss) /\ n - 1 <= Len(tt) /\ Len(ss) \in Nat /\ Len(tt) \in Nat
      BY <1>0, <1>1 DEF n
    <2>3. \A i \in 0..n - 1 : f[i] = g[i]
      <3> DEFINE m == n - 1
      <3>1. f[0] = g[0]
        BY <1>2, <1>3 DEF Joins
      <3>2. \A i \in 1..m : f[i - 1] = g[i - 1] => f[i] = g[i]
        BY <1>2, <1>3, <2>1, <2>2 DEF Joins
      <3>3. m \in Nat
        BY <2>2
      <3> HIDE DEF m
      <3>4. \A i \in 0..m : f[i] = g[i]
        <4>1. Alike(m, f, g)
          BY <3>1, <3>2, <3>3 DEF Alike
        <4> QED BY ONLY <4>1, SameSteps
      <3> QED BY <3>4 DEF m
    <2> QED BY <2>2, <2>3
  <1>5. /\ Flat(tt) = Join(g[n - 1], Append(ss[n], x))
        /\ Flat(ss) = Join(f[n - 1], ss[n])
    <2>1. n \in 1..Len(tt) /\ n \in 1..Len(ss)
      BY <1>0, <1>1 DEF n
    <2> QED BY <1>1, <1>2, <1>3, <2>1, Zenon DEF Joins, n
  <1>6. f[n - 1] \in Seq(T)
    BY <1>0, <1>2 DEF n
  <1>7. Join(f[n - 1], Append(ss[n], x)) = Append(Join(f[n - 1], ss[n]), x)
    <2>1. PICK a \in Seq(T), b \in Seq(T) : a = f[n - 1] /\ b = ss[n]
      BY <1>1, <1>6
    <2>2. Join(a, Append(b, x)) = Append(Join(a, b), x)
      <3>1. Appended(T, a, b, x)
        BY DEF Appended
      <3> QED BY ONLY <3>1, JoinEnd
    <2> QED BY ONLY <2>1, <2>2, Zenon
  <1> QED BY <1>1, <1>4, <1>5, <1>7 DEF tt, n

\* Filling adds one element at the end.
LEMMA FillFacts ==
    ASSUME NEW T, NEW p \in Lists(T), NEW x \in T, NEW k
    PROVE  /\ Fill(p, x, k) \in Lists(T) /\ Fill(p, x, k) # <<>>
           /\ Flat(Fill(p, x, k)) = Append(Flat(p), x)
  <1>1. CASE p = <<>> \/ Len(p[Len(p)]) = k
    <2>1. <<x>> \in Seq(T)
      OBVIOUS
    <2>2. Fill(p, x, k) = Append(p, <<x>>)
      BY <1>1 DEF Fill
    <2>3. Flat(p) \in Seq(T)
      BY FlatJoins
    <2>4. Join(Flat(p), <<x>>) = Append(Flat(p), x)
      <3>1. Appended(T, Flat(p), Flat(p), x)
        BY <2>3 DEF Appended
      <3> QED BY ONLY <3>1, JoinOne
    <2>5. Append(p, <<x>>) \in Lists(T) /\ Flat(Append(p, <<x>>)) = Join(Flat(p), <<x>>)
      BY ONLY p \in Lists(T), <2>1, FlatAppend, Zenon
    <2>6. Append(p, <<x>>) # <<>>
      <3>1. PICK s \in Seq(T) : s = <<x>>
        BY <2>1
      <3>2. Append(p, s) \in Lists(T) /\ Len(Append(p, s)) = Len(p) + 1 /\ Len(p) \in Nat
        BY ONLY p \in Lists(T), s \in Seq(T), ListsAppend, ListsFacts
      <3>3. PICK q \in Lists(T) : q = Append(p, s)
        BY <3>2
      <3>4. q = <<>> <=> Len(q) = 0
        BY ONLY q \in Lists(T), ListsFacts
      <3> QED BY <3>1, <3>2, <3>3, <3>4
    <2> QED BY <2>2, <2>4, <2>5, <2>6
  <1>2. CASE ~(p = <<>> \/ Len(p[Len(p)]) = k)
    <2>1. Fill(p, x, k) = [p EXCEPT ![Len(p)] = Append(@, x)]
      BY <1>2 DEF Fill
    <2>2. Fill(p, x, k) \in Lists(T) /\ Flat(Fill(p, x, k)) = Append(Flat(p), x)
      BY <1>2, <2>1, FlatExtend
    <2>3. Fill(p, x, k) # <<>>
      BY <1>2, <2>1, <2>2, ListsFacts, ListsExtend
    <2> QED BY <2>2, <2>3
  <1> QED BY <1>1, <1>2

\* Where the elements of the pieces are.
StandInFlat(ss, f) ==
    /\ \A i \in 1..Len(ss) : Len(f[i]) = Len(f[i - 1]) + Len(ss[i])
    /\ \A i \in 1..Len(ss) : \A k \in 1..Len(ss[i]) :
          Len(f[i - 1]) + k <= Len(Flat(ss)) /\ Flat(ss)[Len(f[i - 1]) + k] = ss[i][k]

JoinsOf(T, ss, f) == ss \in Lists(T) /\ f \in [0..Len(ss) -> Seq(T)] /\ Joins(ss, f)

LEMMA JoinsPlaces ==
    ASSUME NEW T, NEW ss, NEW f, JoinsOf(T, ss, f)
    PROVE  StandInFlat(ss, f)
  <1> DEFINE n == Len(ss)
  <1>0. ss \in Lists(T) /\ f \in [0..Len(ss) -> Seq(T)] /\ Joins(ss, f)
    BY DEF JoinsOf
  <1>1. n \in Nat /\ \A i \in 1..n : ss[i] \in Seq(T)
    BY <1>0, ListsFacts
  <1>2. \A i \in 0..n : f[i] \in Seq(T)
    BY <1>0 DEF n
  <1>3. f[0] = <<>> /\ (\A i \in 1..n : f[i] = Join(f[i - 1], ss[i])) /\ Flat(ss) = f[n]
    BY <1>0 DEF Joins
  <1> HIDE DEF n
  <1>4. \A i \in 1..n : f[i - 1] \in Seq(T) /\ f[i] \in Seq(T)
    BY <1>1, <1>2
  <1>5. \A i \in 1..n : /\ Len(f[i]) = Len(f[i - 1]) + Len(ss[i])
                        /\ \A k \in 1..Len(f[i - 1]) : f[i][k] = f[i - 1][k]
                        /\ \A k \in 1..Len(ss[i]) : f[i][Len(f[i - 1]) + k] = ss[i][k]
    <2> TAKE i \in 1..n
    <2>1. f[i - 1] \in Seq(T) /\ ss[i] \in Seq(T) /\ f[i] = Join(f[i - 1], ss[i])
      BY <1>1, <1>3, <1>4
    <2>2. PICK a \in Seq(T), b \in Seq(T), c \in Seq(T) : a = f[i - 1] /\ b = ss[i] /\ c = f[i]
      BY <2>1, <1>4
    <2>3. c = Join(a, b)
      BY <2>1, <2>2
    <2>4. /\ Len(c) = Len(a) + Len(b) /\ \A k \in 1..Len(a) : c[k] = a[k]
          /\ \A k \in 1..Len(b) : c[Len(a) + k] = b[k]
      <3>1. Sequences2(T, a, b)
        BY DEF Sequences2
      <3>2. /\ Len(Join(a, b)) = Len(a) + Len(b)
            /\ \A k \in 1..Len(a) : Join(a, b)[k] = a[k]
            /\ \A k \in 1..Len(b) : Join(a, b)[Len(a) + k] = b[k]
        BY ONLY <3>1, JoinFacts
      <3> QED BY ONLY <2>3, <3>2, Zenon
    <2> QED BY ONLY <2>2, <2>4, Zenon
  <1>6. ASSUME NEW i \in 0..n
        PROVE  \A k \in 1..Len(f[i]) : k <= Len(f[n]) /\ f[n][k] = f[i][k]
    <2> DEFINE U == [j \in 0..n - i |-> {s \in Seq(T) : Len(f[i]) <= Len(s) /\ \A k \in 1..Len(f[i]) : s[k] = f[i][k]}]
               g == [j \in 0..n - i |-> f[i + j]]
    <2>1. n - i \in Nat /\ \A j \in 0..n - i : i + j \in 0..n
      BY <1>1
    <2>2. \A j \in 0..n - i : U[j] = {s \in Seq(T) : Len(f[i]) <= Len(s) /\ \A k \in 1..Len(f[i]) : s[k] = f[i][k]}
      OBVIOUS
    <2>3. \A j \in 0..n - i : g[j] = f[i + j]
      OBVIOUS
    <2> HIDE DEF U, g
    <2>4. f[i] \in Seq(T) /\ Len(f[i]) \in Nat
      BY <1>2
    <2>5. g[0] \in U[0]
      <3>1. 0 \in 0..n - i /\ i + 0 = i
        BY ONLY <1>1, <2>1, i \in 0..n
      <3>2. g[0] = f[i]
        BY ONLY <2>3, <3>1
      <3>3. PICK m \in Nat : m = Len(f[i])
        BY <2>4
      <3>4. m <= m
        OBVIOUS
      <3> QED BY ONLY <2>2, <2>4, <3>1, <3>2, <3>3, <3>4, Zenon
    <2>6. ASSUME NEW j \in 1..n - i, g[j - 1] \in U[j - 1]
          PROVE  g[j] \in U[j]
      <3>1. /\ i + j \in 1..n /\ (i + j) - 1 = i + (j - 1) /\ j \in 0..n - i /\ j - 1 \in 0..n - i
        BY <1>1, <2>1
      <3>2. g[j] = f[i + j] /\ g[j - 1] = f[(i + j) - 1]
        BY <2>3, <3>1
      <3>3. /\ f[(i + j) - 1] \in Seq(T) /\ f[i + j] \in Seq(T) /\ ss[i + j] \in Seq(T)
            /\ Len(f[i + j]) = Len(f[(i + j) - 1]) + Len(ss[i + j])
            /\ \A k \in 1..Len(f[(i + j) - 1]) : f[i + j][k] = f[(i + j) - 1][k]
        BY <1>1, <1>4, <1>5, <3>1
      <3>4. /\ Len(f[i]) <= Len(f[(i + j) - 1])
            /\ \A k \in 1..Len(f[i]) : f[(i + j) - 1][k] = f[i][k]
        BY <2>2, <2>6, <3>1, <3>2
      <3> DEFINE a == f[(i + j) - 1]
                 b == f[i + j]
                 m == Len(f[i])
                 s == ss[i + j]
      <3>5. /\ a \in Seq(T) /\ b \in Seq(T) /\ s \in Seq(T) /\ m \in Nat /\ Len(b) = Len(a) + Len(s)
            /\ (\A k \in 1..Len(a) : b[k] = a[k]) /\ m <= Len(a) /\ \A k \in 1..m : a[k] = f[i][k]
        BY <2>4, <3>3, <3>4
      <3> HIDE DEF a, b, m, s
      <3>6. m <= Len(b) /\ \A k \in 1..m : b[k] = f[i][k]
        BY <3>5
      <3>7. b \in U[j]
        BY <2>2, <3>1, <3>5, <3>6 DEF m
      <3> QED BY <3>2, <3>7 DEF b
    <2>7. \A j \in 0..n - i : g[j] \in U[j]
      BY <2>1, <2>5, <2>6, PlacesStay
    <2>8. n - i \in 0..n - i /\ i + (n - i) = n
      BY <1>1, <2>1
    <2>9. f[n] \in U[n - i]
      BY <2>3, <2>7, <2>8
    <2>10. Len(f[i]) <= Len(f[n]) /\ \A k \in 1..Len(f[i]) : f[n][k] = f[i][k]
      BY <2>2, <2>8, <2>9
    <2>11. Len(f[n]) \in Nat
      BY <1>1, <1>2
    <2> QED BY <2>4, <2>10, <2>11
  <1>7. ASSUME NEW i \in 1..n, NEW k \in 1..Len(ss[i])
        PROVE  Len(f[i - 1]) + k <= Len(Flat(ss)) /\ Flat(ss)[Len(f[i - 1]) + k] = ss[i][k]
    <2>1. f[i - 1] \in Seq(T) /\ ss[i] \in Seq(T)
      BY ONLY <1>1, <1>4, i \in 1..n, Zenon
    <2>2. Len(f[i - 1]) \in Nat /\ Len(ss[i]) \in Nat
      BY ONLY <2>1
    <2>3. PICK a, b, c \in Nat : a = Len(f[i - 1]) /\ b = Len(ss[i]) /\ c = Len(f[i])
      BY ONLY <1>4, <2>2, i \in 1..n
    <2>4. c = a + b /\ f[i][a + k] = ss[i][k]
      BY ONLY <1>5, <2>3, i \in 1..n, k \in 1..Len(ss[i]), Zenon
    <2>5. a + k \in 1..c /\ i \in 0..n
      <3>1. k \in 1..b
        BY ONLY <2>3, k \in 1..Len(ss[i]), Zenon
      <3>2. c = a + b
        BY <2>4
      <3> QED BY ONLY <3>1, <3>2, a \in Nat, b \in Nat, i \in 1..n, <1>1
    <2>6. a + k <= Len(f[n]) /\ f[n][a + k] = f[i][a + k]
      BY ONLY <1>6, <2>3, <2>5, Zenon
    <2> QED BY ONLY <1>3, <2>3, <2>4, <2>6, Zenon
  <1> QED BY <1>5, <1>7 DEF n, StandInFlat

(***************************************************************************)
(* Varints.                                                                *)
(***************************************************************************)

LEMMA DivSmall ==
    ASSUME NEW m \in Nat, NEW x \in Nat, x < m
    PROVE  x % m = x /\ x \div m = 0
  OBVIOUS

LEMMA DivSteps ==
    ASSUME NEW b \in Nat, b > 1, NEW v \in Nat
    PROVE  /\ v \div b \in Nat /\ v % b \in Nat /\ v % b < b
           /\ (v % b) + b * (v \div b) = v
           /\ v > 0 => v \div b < v
  <1>1. v \div b \in Nat /\ v % b \in Nat /\ v % b < b
    OBVIOUS
  <1>2. (v % b) + b * (v \div b) = v
    OBVIOUS
  <1>3. PICK q \in Nat, r \in Nat : q = v \div b /\ r = v % b
    BY <1>1
  <1>4. v > 0 => q < v
    <2>1. r + b * q = v
      BY <1>2, <1>3
    <2>2. b * q >= 2 * q
      OBVIOUS
    <2> QED BY <2>1, <2>2
  <1> QED BY <1>1, <1>2, <1>3, <1>4

LEMMA RestFacts ==
    ASSUME NEW v \in Nat
    PROVE  /\ Rest(v) \in [0..v -> Nat] /\ Rest(v)[0] = v
           /\ \A i \in 1..v : Rest(v)[i] = Rest(v)[i - 1] \div VarBase
  <1> DEFINE Def(f) == [i \in 0..v |-> IF i = 0 THEN v ELSE f[i - 1] \div VarBase]
             rest == CHOOSE f : f = Def(f)
             F == [i \in 1..v |-> [x \in Nat |-> x \div VarBase]]
  <1>1. \A x \in Nat : x \div VarBase \in Nat
    BY DivSteps, SizeAssumption
  <1>2. F \in [1..v -> [Nat -> Nat]]
    BY <1>1
  <1>3. \A i \in 1..v : \A x \in Nat : F[i][x] = x \div VarBase
    OBVIOUS
  <1> HIDE DEF F
  <1>4. PICK h \in [0..v -> Nat] : h[0] = v /\ \A i \in 1..v : h[i] = F[i][h[i - 1]]
    <2>1. PICK S : S = Nat
      OBVIOUS
    <2>2. PICK first \in S : first = v
      BY <2>1
    <2>3. F \in [1..v -> [S -> S]]
      BY <1>2, <2>1
    <2>4. \E h \in [0..v -> S] : h[0] = first /\ \A i \in 1..v : h[i] = F[i][h[i - 1]]
      BY ONLY <2>3, v \in Nat, StepByStep
    <2> QED BY ONLY <2>1, <2>2, <2>4
  <1>5. h = Def(h)
    <2>1. \A i \in 1..v : i - 1 \in 0..v
      OBVIOUS
    <2>2. \A i \in 1..v : h[i] = h[i - 1] \div VarBase
      BY <1>3, <1>4, <2>1
    <2>3. \A i \in 0..v : h[i] = IF i = 0 THEN v ELSE h[i - 1] \div VarBase
      BY <1>4, <2>2
    <2> QED BY <1>4, <2>3
  <1>6. rest = Def(rest)
    <2> HIDE DEF Def
    <2> QED BY <1>5
  <1> HIDE DEF rest
  <1>7. rest[0] = v /\ \A i \in 1..v : rest[i] = rest[i - 1] \div VarBase
    <2>1. \A i \in 0..v : rest[i] = Def(rest)[i]
      <3> HIDE DEF Def
      <3> QED BY <1>6
    <2> QED BY <2>1
  <1>8. \A i \in 0..v : rest[i] \in Nat
    <2>1. \A i \in 1..v : rest[i - 1] \in Nat => rest[i] \in Nat
      BY <1>1, <1>7
    <2>2. PICK f : f = rest
      OBVIOUS
    <2>3. f[0] \in Nat /\ \A i \in 1..v : f[i - 1] \in Nat => f[i] \in Nat
      BY <1>7, <2>1, <2>2
    <2>4. \A i \in 0..v : f[i] \in Nat
      BY ONLY <2>3, v \in Nat, StepsStay
    <2> QED BY <2>2, <2>4
  <1>9. Rest(v) = rest
    BY DEF Rest, rest
  <1> QED BY <1>6, <1>7, <1>8, <1>9

LEMMA RestSmall ==
    ASSUME NEW v \in Nat
    PROVE  \A i \in 0..v : Rest(v)[i] <= v - i
  <1> DEFINE U == [i \in 0..v |-> 0..v - i]
  <1>1. \A i \in 0..v : U[i] = 0..v - i
    OBVIOUS
  <1> HIDE DEF U
  <1>2. PICK f \in [0..v -> Nat] : f = Rest(v)
    BY RestFacts
  <1>3. f[0] = v /\ \A i \in 1..v : f[i] = f[i - 1] \div VarBase
    BY <1>2, RestFacts
  <1>4. f[0] \in U[0]
    BY <1>1, <1>3
  <1>5. ASSUME NEW i \in 1..v, f[i - 1] \in U[i - 1] PROVE f[i] \in U[i]
    <2>1. i - 1 \in 0..v /\ i \in 0..v /\ f[i - 1] \in Nat /\ f[i - 1] <= v - (i - 1)
      BY <1>1, <1>5
    <2>2. PICK x \in Nat : x = f[i - 1]
      BY <2>1
    <2>3. x \div VarBase \in Nat /\ (x > 0 => x \div VarBase < x)
      BY DivSteps, SizeAssumption
    <2>4. PICK y \in Nat : y = x \div VarBase
      BY <2>3
    <2>5. f[i] = y /\ x <= v - (i - 1) /\ (x > 0 => y < x)
      BY <1>3, <2>1, <2>2, <2>3, <2>4
    <2>6. x = 0 => y = 0
      BY <2>4, SizeAssumption
    <2>7. y \in 0..v - i
      BY <2>5, <2>6
    <2> QED BY <1>1, <2>1, <2>5, <2>7
  <1>6. \A i \in 0..v : f[i] \in U[i]
    BY ONLY <1>4, <1>5, v \in Nat, PlacesStay
  <1> QED BY <1>1, <1>2, <1>6

LEMMA MinIs ==
    ASSUME NEW S \in SUBSET Nat, NEW x \in S, \A y \in S : x <= y
    PROVE  MinOf(S) = x
  <1>1. \A z \in S : (\A y \in S : z <= y) => z = x
    OBVIOUS
  <1> QED BY <1>1 DEF MinOf

LEMMA MinFacts ==
    ASSUME NEW S \in SUBSET Nat, S # {}
    PROVE  MinOf(S) \in S /\ \A y \in S : MinOf(S) <= y
  <1>1. \E x \in S : \A y \in S : x <= y
    BY LeastExists
  <1> QED BY <1>1 DEF MinOf

LEMMA DigitsFacts ==
    ASSUME NEW v \in Nat
    PROVE  Digits(v) \in 1..v + 1 /\ Rest(v)[Digits(v) - 1] < VarBase
  <1> DEFINE S == {i \in 1..v + 1 : Rest(v)[i - 1] < VarBase}
  <1>1. v + 1 \in S
    <2>1. Rest(v)[v] <= 0 /\ Rest(v)[v] \in Nat
      BY RestSmall, RestFacts
    <2>2. (v + 1) - 1 = v /\ v + 1 \in 1..v + 1
      OBVIOUS
    <2> QED BY <2>1, <2>2, SizeAssumption
  <1>2. S \in SUBSET Nat
    OBVIOUS
  <1>3. Digits(v) \in S
    <2> HIDE DEF S
    <2>1. MinOf(S) \in S
      BY <1>1, <1>2, MinFacts
    <2> QED BY <2>1 DEF Digits, S
  <1> QED BY <1>3

\* PutVarint writes pairs of a digit and whether more follow.
Digit == Nat \X BOOLEAN

LEMMA PutVarintFacts ==
    ASSUME NEW v \in Nat
    PROVE  /\ PutVarint(v) \in Seq(Digit) /\ Len(PutVarint(v)) = Digits(v)
           /\ \A k \in 1..Digits(v) : /\ PutVarint(v)[k][1] = Rest(v)[k - 1] % VarBase
                                      /\ PutVarint(v)[k][2] = (k < Digits(v))
  <1>1. Digits(v) \in 1..v + 1
    BY DigitsFacts
  <1>2. PICK d \in Nat : d = Digits(v) /\ d >= 1
    BY <1>1
  <1>3. ASSUME NEW k \in 1..d
        PROVE  Rest(v)[k - 1] % VarBase \in Nat /\ (k < d) \in BOOLEAN
    <2>1. k - 1 \in 0..v
      BY <1>1, <1>2
    <2>2. PICK x \in Nat : x = Rest(v)[k - 1]
      BY <2>1, RestFacts
    <2>3. x % VarBase \in Nat
      BY DivSteps, SizeAssumption
    <2> QED BY <2>2, <2>3
  <1>4. PutVarint(v) = [k \in 1..d |-> <<Rest(v)[k - 1] % VarBase, k < d>>]
    BY <1>2 DEF PutVarint
  <1>5. \A k \in 1..d : <<Rest(v)[k - 1] % VarBase, k < d>> \in Digit
    BY <1>3 DEF Digit
  <1>6. PutVarint(v) \in Seq(Digit) /\ Len(PutVarint(v)) = d
    BY <1>4, <1>5
  <1>7. \A k \in 1..d : PutVarint(v)[k] = <<Rest(v)[k - 1] % VarBase, k < d>>
    BY <1>4
  <1> QED BY <1>2, <1>6, <1>7

\* The digits of v stand in p from place i on.
HoldsVarint(p, i, v) ==
    /\ v \in Nat /\ i \in Nat \ {0} /\ Len(p) \in Nat /\ i + Digits(v) - 1 <= Len(p)
    /\ \A k \in 1..Digits(v) : p[(i - 1) + k] = PutVarint(v)[k]

LEMMA VarintReadsBack ==
    ASSUME NEW p, NEW i, NEW v, HoldsVarint(p, i, v)
    PROVE  GetVarint(p, i).value = v /\ GetVarint(p, i).next = i + Digits(v)
  <1> DEFINE End == MinOf({j \in i..Len(p) : ~p[j][2]})
             Def(f) == [j \in i..End + 1 |-> IF j > End THEN 0 ELSE p[j][1] + VarBase * f[j + 1]]
             value == CHOOSE f : f = Def(f)
  <1>1. PICK d \in Nat, n \in Nat : /\ d = Digits(v) /\ n = Len(p) /\ d >= 1 /\ d <= v + 1
    <2>1. v \in Nat /\ Len(p) \in Nat
      BY DEF HoldsVarint
    <2>2. Digits(v) \in 1..v + 1
      BY <2>1, DigitsFacts
    <2>3. PICK x, y : x = Digits(v) /\ y = Len(p)
      OBVIOUS
    <2>4. x \in Nat /\ y \in Nat /\ x >= 1 /\ x <= v + 1
      BY ONLY <2>1, <2>2, <2>3
    <2> QED BY ONLY <2>3, <2>4
  <1>2. v \in Nat /\ i \in Nat /\ i >= 1 /\ i + d - 1 <= n
    BY <1>1 DEF HoldsVarint
  <1>3. ASSUME NEW j \in i..i + d - 1
        PROVE  /\ p[j][1] = Rest(v)[j - i] % VarBase
               /\ p[j][2] = (j < i + d - 1)
               /\ j - i \in 0..v
    <2>1. PICK k \in 1..d : k = j - i + 1 /\ (i - 1) + k = j /\ k - 1 = j - i
      BY <1>1, <1>2
    <2>2. p[j] = PutVarint(v)[k]
      BY <1>1, <2>1 DEF HoldsVarint
    <2>3. PutVarint(v)[k][1] = Rest(v)[k - 1] % VarBase /\ PutVarint(v)[k][2] = (k < d)
      BY <1>1, <1>2, PutVarintFacts
    <2>4. (k < d) = (j < i + d - 1)
      BY <1>1, <1>2, <2>1
    <2>5. j - i \in 0..v
      BY <1>1, <1>2
    <2> QED BY <2>1, <2>2, <2>3, <2>4, <2>5
  <1>4. End = i + d - 1
    <2> DEFINE S == {j \in i..n : ~p[j][2]}
               e == i + d - 1
    <2>1. e \in i..n /\ S \in SUBSET Nat
      BY <1>1, <1>2
    <2>2. p[e][2] = (e < i + d - 1)
      BY <1>1, <1>2, <1>3
    <2>3. ~p[e][2]
      <3>1. (e < i + d - 1) = FALSE
        BY <1>1, <1>2
      <3> QED BY ONLY <2>2, <3>1
    <2>4. ASSUME NEW j \in S PROVE e <= j
      <3>1. j \in i..n /\ ~p[j][2]
        OBVIOUS
      <3>2. CASE j < e
        <4>1. j \in i..i + d - 1 /\ j < i + d - 1
          BY <1>1, <1>2, <3>1, <3>2
        <4>2. p[j][2] = (j < i + d - 1)
          BY <1>3, <4>1
        <4> QED BY <3>1, <4>1, <4>2
      <3> QED BY <1>1, <1>2, <3>1, <3>2
    <2>5. e \in S
      BY <2>1, <2>3
    <2> HIDE DEF S, e
    <2>6. MinOf(S) = e
      BY <2>1, <2>4, <2>5, MinIs
    <2>7. End = MinOf(S)
      BY <1>1 DEF S
    <2> QED BY <2>6, <2>7 DEF e
  <1> HIDE DEF End
  <1>5. PICK e \in Nat : e = End /\ e = i + d - 1
    BY <1>1, <1>2, <1>4
  <1>14. i \in Nat /\ d \in Nat /\ e \in Nat /\ i >= 1 /\ d >= 1 /\ e = i + d - 1
    BY <1>1, <1>2, <1>5
  <1> DEFINE w == [j \in i..e + 1 |-> IF j > e THEN 0 ELSE Rest(v)[j - i]]
  <1>6. \A j \in i..e + 1 : w[j] = IF j > e THEN 0 ELSE p[j][1] + VarBase * w[j + 1]
    <2> SUFFICES ASSUME NEW j \in i..e + 1
                 PROVE  w[j] = IF j > e THEN 0 ELSE p[j][1] + VarBase * w[j + 1]
      OBVIOUS
    <2>1. CASE j > e
      BY <2>1
    <2>2. CASE j = e
      <3>1. j \in i..i + d - 1 /\ j - i = d - 1 /\ j + 1 \in i..e + 1 /\ j + 1 > e
        BY <1>1, <1>2, <1>5, <2>2
      <3>2. Rest(v)[j - i] < VarBase /\ p[j][1] = Rest(v)[j - i] % VarBase /\ j - i \in 0..v
        BY <1>1, <1>2, <1>3, <3>1, DigitsFacts
      <3>3. PICK x \in Nat : x = Rest(v)[j - i]
        BY <1>2, <3>2, RestFacts
      <3>4. x % VarBase = x
        BY <3>2, <3>3, DivSmall, SizeAssumption
      <3>5. w[j] = x /\ w[j + 1] = 0 /\ ~(j > e)
        BY <2>2, <3>1, <3>3
      <3>6. x + VarBase * 0 = x
        BY SizeAssumption
      <3>7. p[j][1] + VarBase * w[j + 1] = x
        BY <3>2, <3>3, <3>4, <3>5, <3>6
      <3> QED BY ONLY <3>5, <3>7
    <2>3. CASE j < e
      <3>1. /\ j \in i..i + d - 1 /\ j + 1 \in i..e + 1 /\ ~(j > e) /\ ~(j + 1 > e)
            /\ (j + 1) - i \in 1..v /\ ((j + 1) - i) - 1 = j - i
        BY <1>1, <1>2, <1>5, <2>3
      <3>2. p[j][1] = Rest(v)[j - i] % VarBase /\ j - i \in 0..v
        BY <1>3, <3>1
      <3>3. Rest(v)[(j + 1) - i] = Rest(v)[j - i] \div VarBase
        <4>1. PICK m \in 1..v : m = (j + 1) - i /\ m - 1 = j - i
          BY <3>1
        <4>2. Rest(v)[m] = Rest(v)[m - 1] \div VarBase
          BY <1>2, RestFacts
        <4> QED BY <4>1, <4>2
      <3>4. PICK x \in Nat : x = Rest(v)[j - i]
        BY <1>2, <3>2, RestFacts
      <3>5. (x % VarBase) + VarBase * (x \div VarBase) = x
        BY DivSteps, SizeAssumption
      <3>6. w[j] = x /\ w[j + 1] = x \div VarBase
        BY <2>3, <3>1, <3>3, <3>4
      <3> QED BY <3>1, <3>2, <3>4, <3>5, <3>6
    <2> QED BY <1>5, <2>1, <2>2, <2>3, <1>2
  <1>7. w = Def(w)
    BY <1>5, <1>6
  <1>8. value = Def(value)
    <2> HIDE DEF Def, w
    <2> QED BY <1>7
  <1> HIDE DEF value
  <1>9. \A j \in i..e + 1 : value[j] = IF j > e THEN 0 ELSE p[j][1] + VarBase * value[j + 1]
    <2>1. PICK f : f = value
      OBVIOUS
    <2>2. f = Def(f)
      BY <1>8, <2>1
    <2>3. \A j \in i..e + 1 : Def(f)[j] = IF j > e THEN 0 ELSE p[j][1] + VarBase * f[j + 1]
      BY <1>5
    <2> HIDE DEF Def
    <2> QED BY <2>1, <2>2, <2>3
  <1>10. \A j \in i..e + 1 : value[j] = w[j]
    <2> DEFINE g == [m \in 0..d |-> value[(e + 1) - m]]
               h == [m \in 0..d |-> w[(e + 1) - m]]
    <2>1. \A m \in 0..d : (e + 1) - m \in i..e + 1 /\ (m > 0 => ((e + 1) - m) + 1 = (e + 1) - (m - 1))
      BY ONLY <1>14
    <2>2. g[0] = value[e + 1] /\ h[0] = w[e + 1] /\ e + 1 \in i..e + 1 /\ e + 1 > e
      BY <1>1, <1>2, <1>5
    <2>3. \A m \in 0..d : g[m] = value[(e + 1) - m] /\ h[m] = w[(e + 1) - m]
      OBVIOUS
    <2> HIDE DEF g, h, w
    <2>4. ASSUME NEW m \in 1..d, g[m - 1] = h[m - 1] PROVE g[m] = h[m]
      <3>1. m - 1 \in 0..d /\ m \in 0..d
        BY <1>1
      <3>2. PICK j \in i..e + 1 : j = (e + 1) - m /\ j + 1 = (e + 1) - (m - 1)
        BY <2>1, <3>1
      <3>3. g[m] = value[j] /\ h[m] = w[j] /\ g[m - 1] = value[j + 1] /\ h[m - 1] = w[j + 1]
        BY <2>3, <3>1, <3>2
      <3>4. value[j] = IF j > e THEN 0 ELSE p[j][1] + VarBase * value[j + 1]
        BY <1>9
      <3>5. w[j] = IF j > e THEN 0 ELSE p[j][1] + VarBase * w[j + 1]
        BY <1>6
      <3> QED BY ONLY <2>4, <3>3, <3>4, <3>5, Zenon
    <2>5. PICK a, b : a = g /\ b = h
      OBVIOUS
    <2>6. a[0] = b[0]
      BY <1>6, <1>9, <2>2, <2>5
    <2>7. \A m \in 1..d : a[m - 1] = b[m - 1] => a[m] = b[m]
      BY <2>4, <2>5
    <2>8. Alike(d, a, b)
      BY <2>6, <2>7 DEF Alike
    <2>9. \A m \in 0..d : a[m] = b[m]
      BY ONLY <2>8, SameSteps
    <2> SUFFICES ASSUME NEW j \in i..e + 1 PROVE value[j] = w[j]
      OBVIOUS
    <2>10. PICK m \in 0..d : m = (e + 1) - j /\ (e + 1) - m = j
      <3>1. (e + 1) - j \in 0..d /\ (e + 1) - ((e + 1) - j) = j
        BY ONLY <1>14, j \in i..e + 1
      <3> QED BY ONLY <3>1
    <2> QED BY <2>3, <2>5, <2>9, <2>10
  <1>11. value[i] = v
    <2>1. i \in i..e + 1 /\ ~(i > e) /\ i - i = 0
      BY <1>1, <1>2, <1>5
    <2>2. Rest(v)[0] = v
      BY <1>2, RestFacts
    <2> QED BY <1>10, <2>1, <2>2
  <1>12. GetVarint(p, i) = [value |-> value[i], next |-> End + 1]
    BY DEF GetVarint, End, value
  <1>13. End + 1 = i + Digits(v)
    BY <1>1, <1>2, <1>5
  <1> QED BY <1>11, <1>12, <1>13

(***************************************************************************)
(* Chunks of postings.                                                     *)
(***************************************************************************)

(***************************************************************************)
(* Chunks of postings.                                                     *)
(***************************************************************************)
Posting == [node : Nat, tf : Nat]

\* Postings in node order.
Ascending(s) ==
    /\ s \in Seq(Posting) /\ s # <<>>
    /\ \A i \in 2..Len(s) : s[i - 1].node <= s[i].node

LEMMA AscendingFacts ==
    ASSUME NEW s, Ascending(s)
    PROVE  /\ Len(s) \in Nat /\ Len(s) >= 1 /\ DOMAIN s = 1..Len(s)
           /\ \A i \in 1..Len(s) : /\ s[i] = [node |-> s[i].node, tf |-> s[i].tf]
                                   /\ s[i].node \in Nat /\ s[i].tf \in Nat
                                   /\ Prev(s, i) \in Nat /\ Prev(s, i) <= s[i].node
           /\ s = [i \in 1..Len(s) |-> s[i]]
  <1>1. s \in Seq(Posting) /\ s # <<>>
    BY DEF Ascending
  <1>2. Len(s) \in Nat /\ Len(s) >= 1 /\ DOMAIN s = 1..Len(s) /\ s = [i \in 1..Len(s) |-> s[i]]
    BY <1>1
  <1>3. \A i \in 1..Len(s) : s[i] \in Posting
    BY <1>1
  <1>4. \A i \in 1..Len(s) : /\ s[i] = [node |-> s[i].node, tf |-> s[i].tf]
                             /\ s[i].node \in Nat /\ s[i].tf \in Nat
    BY <1>3 DEF Posting
  <1>5. ASSUME NEW i \in 1..Len(s) PROVE Prev(s, i) \in Nat /\ Prev(s, i) <= s[i].node
    <2>1. CASE i = 1
      <3>1. Prev(s, i) = s[i].node
        BY <2>1 DEF Prev
      <3>2. PICK x \in Nat : x = s[i].node
        BY <1>4
      <3> QED BY <3>1, <3>2
    <2>2. CASE i # 1
      <3>1. i \in 2..Len(s) /\ i - 1 \in 1..Len(s)
        BY <1>2, <2>2
      <3>2. s[i - 1].node <= s[i].node
        BY <3>1 DEF Ascending
      <3> QED BY <1>4, <2>2, <3>1, <3>2 DEF Prev
    <2> QED BY <2>1, <2>2
  <1> QED BY <1>2, <1>4, <1>5

\* A tuple that holds the postings s, wherever it links to.
HoldsPostings(t, s) ==
    t.count = Len(s) /\ t.encoding = Encoding(s) /\ t.payload = Payload(s) /\ t.first = s[1].node

LEMMA Uint16Fits ==
    ASSUME NEW x \in Nat, x <= Max16
    PROVE  Uint16(x) = x
  <1>1. Max16 + 1 \in Nat /\ x < Max16 + 1
    BY SizeAssumption
  <1> QED BY <1>1, DivSmall DEF Uint16

\* The offsets of a chunk that uses them, and its deltas.
LEMMA OffsetFits ==
    ASSUME NEW s, Ascending(s), UseOffset16(s), NEW i \in 1..Len(s)
    PROVE  /\ Uint16(s[i].node - s[1].node) \in Nat
           /\ s[1].node + Uint16(s[i].node - s[1].node) = s[i].node
  <1>1. s[i].node >= s[1].node /\ s[i].node - s[1].node <= Max16
    BY DEF UseOffset16, CanUseOffset16
  <1>2. s[i].node \in Nat /\ s[1].node \in Nat
    <2>1. \A k \in 1..Len(s) : s[k].node \in Nat
      BY AscendingFacts
    <2>2. PICK n \in Nat : n = Len(s) /\ n >= 1
      BY AscendingFacts
    <2>3. 1 \in 1..Len(s)
      BY ONLY <2>2
    <2> QED BY ONLY <2>1, <2>3, i \in 1..Len(s)
  <1>3. PICK x \in Nat : x = s[i].node - s[1].node /\ x <= Max16
    BY <1>1, <1>2
  <1>4. Uint16(x) = x
    BY <1>3, Uint16Fits
  <1> QED BY <1>2, <1>3, <1>4

LEMMA DeltaFits ==
    ASSUME NEW s, Ascending(s), UseDelta16(s), NEW i \in 1..Len(s)
    PROVE  /\ Uint16(s[i].node - Prev(s, i)) \in Nat
           /\ Prev(s, i) + Uint16(s[i].node - Prev(s, i)) = s[i].node
  <1>1. s[i].node >= Prev(s, i) /\ s[i].node - Prev(s, i) <= Max16
    BY DEF UseDelta16, CanUseDelta16
  <1>2. s[i].node \in Nat /\ Prev(s, i) \in Nat
    BY AscendingFacts
  <1>3. PICK x \in Nat : x = s[i].node - Prev(s, i) /\ x <= Max16
    BY <1>1, <1>2
  <1>4. Uint16(x) = x
    BY <1>3, Uint16Fits
  <1> QED BY <1>2, <1>3, <1>4

\* Two columns, one after the other or interleaved.
LEMMA Interleaved ==
    ASSUME NEW n \in Nat, NEW a, NEW b, NEW i \in 1..n
    PROVE  LET p == [k \in 1..2 * n |-> LET j == (k + 1) \div 2 IN IF k % 2 = 0 THEN b[j] ELSE a[j]]
           IN  p[2 * i - 1] = a[i] /\ p[2 * i] = b[i]
  <1>1. /\ 2 * i - 1 \in 1..2 * n /\ 2 * i \in 1..2 * n
        /\ (2 * i - 1) % 2 # 0 /\ (2 * i) % 2 = 0
        /\ ((2 * i - 1) + 1) \div 2 = i /\ (2 * i + 1) \div 2 = i
    OBVIOUS
  <1> QED BY <1>1

LEMMA EncodingIs ==
    ASSUME NEW s
    PROVE  /\ UseOffset16(s) => Encoding(s) \in {"offset16", "offset16_soa"}
           /\ ~UseOffset16(s) /\ UseDelta16(s) => Encoding(s) = "delta16"
           /\ ~UseOffset16(s) /\ ~UseDelta16(s) => Encoding(s) = "varint"
  BY DEF Encoding

LEMMA OffsetsReadBack ==
    ASSUME NEW s, NEW t, Ascending(s), HoldsPostings(t, s), UseOffset16(s)
    PROVE  Decode(t) = s
  <1> DEFINE a == [i \in 1..Len(s) |-> Uint16(s[i].node - s[1].node)]
             b == [i \in 1..Len(s) |-> s[i].tf]
             place(i) == IF t.encoding = "offset16_soa" THEN i ELSE 2 * i - 1
             other(i) == IF t.encoding = "offset16_soa" THEN t.count + i ELSE 2 * i
  <1>1. PICK n \in Nat : n = Len(s)
    BY AscendingFacts
  <1>2. /\ t.count = n /\ t.first = s[1].node /\ t.payload = Payload(s)
        /\ t.encoding = Encoding(s)
    BY <1>1 DEF HoldsPostings
  <1>3. \A i \in 1..n : a[i] \in Nat /\ s[1].node + a[i] = s[i].node /\ b[i] = s[i].tf /\ b[i] \in Nat
    BY <1>1, OffsetFits, AscendingFacts
  <1>4. \A i \in 1..n : Payload(s)[place(i)] = a[i] /\ Payload(s)[other(i)] = b[i]
    <2>1. CASE Encoding(s) = "offset16_soa"
      <3>1. Payload(s) = Join(a, b)
        BY <2>1 DEF Payload, Join
      <3>2. a \in Seq(Nat) /\ b \in Seq(Nat) /\ Len(a) = n /\ Len(b) = n
        BY <1>1, <1>3
      <3> HIDE DEF a, b
      <3>3. PICK c, d : c = a /\ d = b
        OBVIOUS
      <3>4. Sequences2(Nat, c, d)
        BY <3>2, <3>3 DEF Sequences2
      <3>5. /\ \A k \in 1..Len(c) : Join(c, d)[k] = c[k]
            /\ \A k \in 1..Len(d) : Join(c, d)[Len(c) + k] = d[k]
        BY ONLY <3>4, JoinFacts
      <3>6. \A i \in 1..n : place(i) = i /\ other(i) = n + i
        BY <1>2, <2>1
      <3>7. \A i \in 1..n : Payload(s)[i] = a[i] /\ Payload(s)[n + i] = b[i]
        BY ONLY <3>1, <3>2, <3>3, <3>5
      <3> HIDE DEF place, other
      <3> QED BY ONLY <3>6, <3>7
    <2>2. CASE Encoding(s) = "offset16"
      <3>1. Payload(s) = [k \in 1..2 * n |-> LET j == (k + 1) \div 2 IN IF k % 2 = 0 THEN b[j] ELSE a[j]]
        <4>1. Payload(s) = [k \in 1..2 * n |->
                 IF k % 2 = 0 THEN s[(k + 1) \div 2].tf ELSE Uint16(s[(k + 1) \div 2].node - s[1].node)]
          BY <1>1, <2>2 DEF Payload
        <4>2. \A k \in 1..2 * n : (k + 1) \div 2 \in 1..n
          OBVIOUS
        <4> QED BY <1>1, <4>1, <4>2
      <3> HIDE DEF a, b
      <3>2. \A i \in 1..n : Payload(s)[2 * i - 1] = a[i] /\ Payload(s)[2 * i] = b[i]
        BY <3>1, Interleaved
      <3>3. \A i \in 1..n : place(i) = 2 * i - 1 /\ other(i) = 2 * i
        BY <1>2, <2>2
      <3> QED BY <3>2, <3>3
    <2> QED BY <2>1, <2>2, EncodingIs
  <1>5. Decode(t) = DecodeOffsets(t)
    BY <1>2, EncodingIs DEF Decode
  <1>6. DecodeOffsets(t) = [i \in 1..n |-> [node |-> s[1].node + Payload(s)[place(i)],
                                             tf |-> Payload(s)[other(i)]]]
    BY <1>2 DEF DecodeOffsets
  <1> HIDE DEF a, b, place, other
  <1>7. \A i \in 1..n : [node |-> s[1].node + Payload(s)[place(i)], tf |-> Payload(s)[other(i)]] = s[i]
    <2> SUFFICES ASSUME NEW i \in 1..n
                 PROVE  [node |-> s[1].node + Payload(s)[place(i)], tf |-> Payload(s)[other(i)]] = s[i]
      OBVIOUS
    <2>1. s[1].node + Payload(s)[place(i)] = s[i].node /\ Payload(s)[other(i)] = s[i].tf
      BY <1>3, <1>4
    <2>2. s[i] = [node |-> s[i].node, tf |-> s[i].tf]
      BY <1>1, AscendingFacts
    <2> QED BY <2>1, <2>2
  <1>8. s = [i \in 1..n |-> s[i]]
    BY <1>1, AscendingFacts
  <1> QED BY <1>5, <1>6, <1>7, <1>8

LEMMA DeltasReadBack ==
    ASSUME NEW s, NEW t, Ascending(s), HoldsPostings(t, s), ~UseOffset16(s), UseDelta16(s)
    PROVE  Decode(t) = s
  <1> DEFINE a == [i \in 1..Len(s) |-> Uint16(s[i].node - Prev(s, i))]
             b == [i \in 1..Len(s) |-> s[i].tf]
             Def(f) == [i \in 0..t.count |-> IF i = 0 THEN t.first ELSE f[i - 1] + t.payload[2 * i - 1]]
             node == CHOOSE f : f = Def(f)
  <1>1. PICK n \in Nat : n = Len(s) /\ n >= 1
    BY AscendingFacts
  <1>2. /\ t.count = n /\ t.first = s[1].node /\ t.payload = Payload(s)
        /\ t.encoding = "delta16" /\ Encoding(s) = "delta16"
    BY <1>1, EncodingIs DEF HoldsPostings
  <1>3. \A i \in 1..n : a[i] \in Nat /\ Prev(s, i) + a[i] = s[i].node /\ b[i] = s[i].tf
    BY <1>1, DeltaFits
  <1>4. \A i \in 1..n : Payload(s)[2 * i - 1] = a[i] /\ Payload(s)[2 * i] = b[i]
    <2>1. Payload(s) = [k \in 1..2 * n |-> LET j == (k + 1) \div 2 IN IF k % 2 = 0 THEN b[j] ELSE a[j]]
      <3>1. Payload(s) = [k \in 1..2 * n |->
               IF k % 2 = 0 THEN s[(k + 1) \div 2].tf
               ELSE Uint16(s[(k + 1) \div 2].node - Prev(s, (k + 1) \div 2))]
        BY <1>1, <1>2 DEF Payload
      <3>2. \A k \in 1..2 * n : (k + 1) \div 2 \in 1..n
        OBVIOUS
      <3> QED BY <1>1, <3>1, <3>2
    <2> HIDE DEF a, b
    <2>2. \A i \in 1..n : Payload(s)[2 * i - 1] = a[i] /\ Payload(s)[2 * i] = b[i]
      BY ONLY <2>1, n \in Nat, Interleaved
    <2> QED BY <2>2
  <1>5. Decode(t) = [i \in 1..t.count |-> [node |-> node[i], tf |-> t.payload[2 * i]]]
    BY <1>2 DEF Decode, DecodeDelta16, node
  <1> HIDE DEF a, b
  <1> DEFINE w == [i \in 0..n |-> IF i = 0 THEN s[1].node ELSE s[i].node]
  <1>6. ASSUME NEW i \in 1..n PROVE w[i] = w[i - 1] + t.payload[2 * i - 1]
    <2>1. w[i] = s[i].node /\ w[i - 1] = Prev(s, i)
      BY <1>1 DEF Prev
    <2> QED BY <1>2, <1>3, <1>4, <2>1
  <1>7. w = Def(w)
    <2>1. \A i \in 0..n : w[i] = IF i = 0 THEN t.first ELSE w[i - 1] + t.payload[2 * i - 1]
      <3>1. w[0] = s[1].node
        OBVIOUS
      <3>2. \A i \in 0..n : i = 0 \/ i \in 1..n
        OBVIOUS
      <3> HIDE DEF w
      <3> QED BY <1>2, <1>6, <3>1, <3>2
    <2>2. w = [i \in 0..n |-> w[i]]
      OBVIOUS
    <2> HIDE DEF w
    <2> QED BY <1>2, <2>1, <2>2
  <1>8. node = Def(node)
    <2> HIDE DEF Def, w
    <2> QED BY <1>7
  <1> HIDE DEF node
  <1>9. \A i \in 0..n : node[i] = IF i = 0 THEN s[1].node ELSE node[i - 1] + t.payload[2 * i - 1]
    <2>1. PICK f : f = node
      OBVIOUS
    <2>2. f = Def(f)
      BY <1>8, <2>1
    <2>3. \A i \in 0..n : Def(f)[i] = IF i = 0 THEN s[1].node ELSE f[i - 1] + t.payload[2 * i - 1]
      BY <1>2
    <2> HIDE DEF Def
    <2> QED BY <2>1, <2>2, <2>3
  <1>10. \A i \in 0..n : node[i] = w[i]
    <2>1. PICK f, g : f = node /\ g = w
      OBVIOUS
    <2>2. f[0] = g[0]
      BY <1>9, <2>1
    <2>3. \A i \in 1..n : f[i] = f[i - 1] + t.payload[2 * i - 1] /\ g[i] = g[i - 1] + t.payload[2 * i - 1]
      <3>1. \A i \in 1..n : i \in 0..n /\ i # 0
        OBVIOUS
      <3> HIDE DEF w
      <3> QED BY <1>6, <1>9, <2>1, <3>1
    <2>4. Alike(n, f, g)
      BY ONLY <2>2, <2>3, n \in Nat DEF Alike
    <2>5. \A i \in 0..n : f[i] = g[i]
      BY ONLY <2>4, SameSteps
    <2> QED BY <2>1, <2>5
  <1>11. \A i \in 1..n : [node |-> node[i], tf |-> t.payload[2 * i]] = s[i]
    <2> SUFFICES ASSUME NEW i \in 1..n PROVE [node |-> node[i], tf |-> t.payload[2 * i]] = s[i]
      OBVIOUS
    <2>1. node[i] = s[i].node
      BY <1>10
    <2>2. t.payload[2 * i] = s[i].tf
      BY <1>2, <1>3, <1>4
    <2>3. s[i] = [node |-> s[i].node, tf |-> s[i].tf]
      BY <1>1, AscendingFacts
    <2> QED BY <2>1, <2>2, <2>3
  <1>12. s = [i \in 1..n |-> s[i]]
    BY <1>1, AscendingFacts
  <1> QED BY <1>2, <1>5, <1>11, <1>12

\* What a posting of a chunk in varints is written as.
Delta(s, i) == s[i].node - Prev(s, i)
Pair(s, i) == Join(PutVarint(Delta(s, i)), PutVarint(s[i].tf))
Pairs(s) == [i \in 1..Len(s) |-> Pair(s, i)]

LEMMA PairFacts ==
    ASSUME NEW s, Ascending(s), NEW i \in 1..Len(s)
    PROVE  /\ Delta(s, i) \in Nat /\ s[i].tf \in Nat
           /\ Pair(s, i) \in Seq(Digit)
           /\ Len(Pair(s, i)) = Digits(Delta(s, i)) + Digits(s[i].tf)
           /\ \A k \in 1..Digits(Delta(s, i)) : Pair(s, i)[k] = PutVarint(Delta(s, i))[k]
           /\ \A k \in 1..Digits(s[i].tf) :
                 Pair(s, i)[Digits(Delta(s, i)) + k] = PutVarint(s[i].tf)[k]
           /\ Digits(Delta(s, i)) \in Nat /\ Digits(s[i].tf) \in Nat
  <1>1. s[i].node \in Nat /\ Prev(s, i) \in Nat /\ Prev(s, i) <= s[i].node /\ s[i].tf \in Nat
    BY AscendingFacts
  <1>2. PICK d \in Nat, f \in Nat : d = Delta(s, i) /\ f = s[i].tf
    <2>1. s[i].node - Prev(s, i) \in Nat
      BY ONLY <1>1
    <2> QED BY <1>1, <2>1 DEF Delta
  <1>3. PICK a, b : a = PutVarint(d) /\ b = PutVarint(f)
    OBVIOUS
  <1>4. /\ a \in Seq(Digit) /\ Len(a) = Digits(d) /\ b \in Seq(Digit) /\ Len(b) = Digits(f)
    BY <1>3, PutVarintFacts
  <1>5. Sequences2(Digit, a, b)
    BY <1>4 DEF Sequences2
  <1>6. /\ Join(a, b) \in Seq(Digit) /\ Len(Join(a, b)) = Len(a) + Len(b)
        /\ \A k \in 1..Len(a) : Join(a, b)[k] = a[k]
        /\ \A k \in 1..Len(b) : Join(a, b)[Len(a) + k] = b[k]
    BY ONLY <1>5, JoinFacts
  <1>7. Digits(d) \in Nat /\ Digits(f) \in Nat
    <2>1. Digits(d) \in 1..d + 1 /\ Digits(f) \in 1..f + 1
      BY DigitsFacts
    <2> QED BY ONLY <2>1, d \in Nat, f \in Nat
  <1>8. Pair(s, i) = Join(a, b)
    BY <1>2, <1>3 DEF Pair
  <1>9. /\ Pair(s, i) \in Seq(Digit) /\ Len(Pair(s, i)) = Digits(d) + Digits(f)
        /\ \A k \in 1..Digits(d) : Pair(s, i)[k] = PutVarint(d)[k]
        /\ \A k \in 1..Digits(f) : Pair(s, i)[Digits(d) + k] = PutVarint(f)[k]
    BY ONLY <1>3, <1>4, <1>6, <1>8, Zenon
  <1> QED BY ONLY <1>1, <1>2, <1>7, <1>9, Zenon

LEMMA PairsFacts ==
    ASSUME NEW s, Ascending(s)
    PROVE  /\ Pairs(s) \in Lists(Digit) /\ Len(Pairs(s)) = Len(s)
           /\ \A i \in 1..Len(s) : Pairs(s)[i] = Pair(s, i)
           /\ EncodeDeltas(s) = Flat(Pairs(s))
  <1>1. PICK n \in Nat : n = Len(s)
    BY AscendingFacts
  <1>2. DOMAIN Pairs(s) = 1..n /\ \A i \in 1..n : Pairs(s)[i] = Pair(s, i)
    BY <1>1 DEF Pairs
  <1>3. \A i \in 1..n : Pair(s, i) \in Seq(Digit)
    BY <1>1, PairFacts
  <1>4. Pairs(s) = [i \in 1..n |-> Pairs(s)[i]]
    BY <1>1 DEF Pairs
  <1>5. PICK ss : ss = Pairs(s)
    OBVIOUS
  <1>6. DOMAIN ss = 1..n /\ ss = [i \in 1..n |-> ss[i]] /\ \A i \in 1..n : ss[i] \in Seq(Digit)
    BY <1>2, <1>3, <1>4, <1>5
  <1>7. ss \in Lists(Digit) /\ Len(ss) = n
    BY ONLY <1>6, n \in Nat, ListsAre
  <1>8. EncodeDeltas(s) = Flat(Pairs(s))
    BY DEF EncodeDeltas, Pairs, Pair, Join, Delta
  <1> QED BY <1>1, <1>2, <1>5, <1>7, <1>8

\* Where the varints of posting i stand, if those before it take q bytes.
LEMMA PairStands ==
    ASSUME NEW s, Ascending(s), NEW p, NEW q \in Nat, NEW i \in 1..Len(s), Len(p) \in Nat,
           \A k \in 1..Len(Pair(s, i)) : q + k <= Len(p) /\ p[q + k] = Pair(s, i)[k]
    PROVE  /\ HoldsVarint(p, q + 1, Delta(s, i))
           /\ HoldsVarint(p, q + 1 + Digits(Delta(s, i)), s[i].tf)
  <1>1. PICK d \in Nat, f \in Nat, a \in Nat, b \in Nat :
          d = Delta(s, i) /\ f = s[i].tf /\ a = Digits(d) /\ b = Digits(f)
    BY PairFacts
  <1>2. a >= 1 /\ b >= 1
    <2>1. Digits(d) \in 1..d + 1 /\ Digits(f) \in 1..f + 1
      BY DigitsFacts
    <2>2. a \in 1..d + 1 /\ b \in 1..f + 1
      BY ONLY <1>1, <2>1
    <2> QED BY ONLY <2>2, d \in Nat, f \in Nat
  <1>3. PICK r : r = Pair(s, i)
    OBVIOUS
  <1>4. /\ Len(r) = a + b /\ \A k \in 1..a : r[k] = PutVarint(d)[k]
        /\ \A k \in 1..b : r[a + k] = PutVarint(f)[k]
    <2>1. /\ Len(Pair(s, i)) = Digits(Delta(s, i)) + Digits(s[i].tf)
          /\ \A k \in 1..Digits(Delta(s, i)) : Pair(s, i)[k] = PutVarint(Delta(s, i))[k]
          /\ \A k \in 1..Digits(s[i].tf) :
                 Pair(s, i)[Digits(Delta(s, i)) + k] = PutVarint(s[i].tf)[k]
      BY PairFacts
    <2> QED BY ONLY <1>1, <1>3, <2>1, Zenon
  <1>5. \A k \in 1..a + b : q + k <= Len(p) /\ p[q + k] = r[k]
    BY <1>3, <1>4
  <1>6. q + (a + b) <= Len(p)
    <2>1. a + b \in 1..a + b
      BY <1>2
    <2> QED BY ONLY <1>5, <2>1
  <1>7. HoldsVarint(p, q + 1, d)
    <2>1. q + 1 \in Nat \ {0} /\ (q + 1) + a - 1 <= Len(p)
      BY <1>2, <1>6
    <2>2. \A k \in 1..a : ((q + 1) - 1) + k = q + k /\ k \in 1..a + b
      OBVIOUS
    <2>3. \A k \in 1..a : p[((q + 1) - 1) + k] = PutVarint(d)[k]
      BY <1>4, <1>5, <2>2
    <2> QED BY <1>1, <2>1, <2>3 DEF HoldsVarint
  <1>8. HoldsVarint(p, q + 1 + a, f)
    <2>1. q + 1 + a \in Nat \ {0} /\ (q + 1 + a) + b - 1 <= Len(p)
      BY <1>2, <1>6
    <2>2. \A k \in 1..b : ((q + 1 + a) - 1) + k = q + (a + k) /\ a + k \in 1..a + b
      OBVIOUS
    <2>3. \A k \in 1..b : p[((q + 1 + a) - 1) + k] = PutVarint(f)[k]
      BY <1>4, <1>5, <2>2
    <2> QED BY <1>1, <2>1, <2>3 DEF HoldsVarint
  <1> QED BY <1>1, <1>7, <1>8

LEMMA VarintsReadBack ==
    ASSUME NEW s, NEW t, Ascending(s), HoldsPostings(t, s), ~UseOffset16(s), ~UseDelta16(s)
    PROVE  Decode(t) = s
  <1> DEFINE Def(g) == [i \in 0..t.count |->
               IF i = 0 THEN [next |-> 1, node |-> t.first, tf |-> 0]
               ELSE LET r == g[i - 1]
                        d == GetVarint(t.payload, r.next)
                        f == GetVarint(t.payload, d.next)
                    IN [next |-> f.next, node |-> r.node + d.value, tf |-> f.value]]
             read == CHOOSE g : g = Def(g)
  <1>1. PICK n \in Nat : n = Len(s) /\ n >= 1
    BY AscendingFacts
  <1>2. PICK p : p = Flat(Pairs(s))
    OBVIOUS
  <1>3. /\ t.count = n /\ t.first = s[1].node /\ t.encoding = "varint" /\ t.payload = p
    <2>1. Encoding(s) = "varint" /\ t.count = n /\ t.first = s[1].node /\ t.encoding = Encoding(s)
          /\ t.payload = Payload(s)
      BY <1>1, EncodingIs DEF HoldsPostings
    <2>2. Payload(s) = EncodeDeltas(s)
      BY <2>1 DEF Payload
    <2> QED BY <1>2, <2>1, <2>2, PairsFacts
  <1>4. Decode(t) = [i \in 1..n |-> [node |-> read[i].node, tf |-> read[i].tf]]
    BY <1>3 DEF Decode, DecodeVarint, read
  <1>5. PICK f \in [0..n -> Seq(Digit)] : Joins(Pairs(s), f)
    <2>1. PICK ss \in Lists(Digit) : ss = Pairs(s) /\ Len(ss) = n
      BY <1>1, PairsFacts
    <2>2. \E f \in [0..Len(ss) -> Seq(Digit)] : Joins(ss, f)
      BY ONLY ss \in Lists(Digit), FlatJoins
    <2> QED BY <2>1, <2>2
  <1>6. /\ \A i \in 1..n : Len(f[i]) = Len(f[i - 1]) + Len(Pair(s, i))
        /\ \A i \in 1..n : \A k \in 1..Len(Pair(s, i)) :
              Len(f[i - 1]) + k <= Len(p) /\ p[Len(f[i - 1]) + k] = Pair(s, i)[k]
        /\ f[0] = <<>> /\ p \in Seq(Digit)
    <2>1. PICK ss \in Lists(Digit) : ss = Pairs(s) /\ Len(ss) = n
      BY <1>1, PairsFacts
    <2>2. f \in [0..Len(ss) -> Seq(Digit)] /\ Joins(ss, f) /\ p = Flat(ss)
      BY <1>2, <1>5, <2>1
    <2>3. PICK g \in [0..Len(ss) -> Seq(Digit)] : g = f /\ Joins(ss, g)
      BY <2>2
    <2>4. /\ \A i \in 1..Len(ss) : Len(g[i]) = Len(g[i - 1]) + Len(ss[i])
          /\ \A i \in 1..Len(ss) : \A k \in 1..Len(ss[i]) :
                 Len(g[i - 1]) + k <= Len(Flat(ss)) /\ Flat(ss)[Len(g[i - 1]) + k] = ss[i][k]
      <3>1. JoinsOf(Digit, ss, g)
        BY <2>3 DEF JoinsOf
      <3>2. StandInFlat(ss, g)
        BY ONLY <3>1, JoinsPlaces
      <3> QED BY ONLY <3>2 DEF StandInFlat
    <2>5. Flat(ss) \in Seq(Digit)
      BY ONLY ss \in Lists(Digit), FlatJoins
    <2>6. \A i \in 1..n : ss[i] = Pair(s, i)
      BY <1>1, <2>1, PairsFacts
    <2>7. f[0] = <<>>
      BY <2>2 DEF Joins
    <2>8. \A i \in 1..n : Len(f[i]) = Len(f[i - 1]) + Len(Pair(s, i))
      <3> TAKE i \in 1..n
      <3>1. i \in 1..Len(ss)
        BY <2>1
      <3>2. Len(g[i]) = Len(g[i - 1]) + Len(ss[i])
        BY ONLY <2>4, <3>1
      <3>3. ss[i] = Pair(s, i)
        BY ONLY <2>6, i \in 1..n
      <3> QED BY ONLY <2>3, <3>2, <3>3, Zenon
    <2>9. \A i \in 1..n : \A k \in 1..Len(Pair(s, i)) :
              Len(f[i - 1]) + k <= Len(p) /\ p[Len(f[i - 1]) + k] = Pair(s, i)[k]
      <3> TAKE i \in 1..n
      <3>1. i \in 1..Len(ss)
        BY <2>1
      <3>2. \A k \in 1..Len(ss[i]) :
                 Len(g[i - 1]) + k <= Len(Flat(ss)) /\ Flat(ss)[Len(g[i - 1]) + k] = ss[i][k]
        BY ONLY <2>4, <3>1
      <3>3. ss[i] = Pair(s, i)
        BY ONLY <2>6, i \in 1..n
      <3> QED BY ONLY <2>2, <2>3, <3>2, <3>3, Zenon
    <2>10. p \in Seq(Digit)
      BY ONLY <2>2, <2>5, Zenon
    <2> QED BY ONLY <2>7, <2>8, <2>9, <2>10, Zenon
  <1>7. PICK z \in [0..n -> Nat] : \A i \in 0..n : z[i] = Len(f[i])
    <2>1. \A i \in 0..n : Len(f[i]) \in Nat
      <3> SUFFICES ASSUME NEW i \in 0..n PROVE Len(f[i]) \in Nat
        OBVIOUS
      <3>1. f[i] \in Seq(Digit)
        BY <1>5
      <3> QED BY ONLY <3>1
    <2>2. [i \in 0..n |-> Len(f[i])] \in [0..n -> Nat]
      BY <2>1
    <2> QED BY <2>2
  <1>8. ASSUME NEW i \in 1..n
        PROVE  LET d == GetVarint(p, z[i - 1] + 1)
                   e == GetVarint(p, d.next)
               IN  d.value = Delta(s, i) /\ e.value = s[i].tf /\ e.next = z[i] + 1
    <2>1. i - 1 \in 0..n /\ i \in 0..n
      OBVIOUS
    <2>2. PICK q \in Nat : q = z[i - 1] /\ q = Len(f[i - 1])
      BY <1>7, <2>1
    <2>3. PICK d, e : d = GetVarint(p, q + 1) /\ e = GetVarint(p, d.next)
      OBVIOUS
    <2>4. PICK a, b, x, y : a \in Nat /\ b \in Nat /\
            x = Delta(s, i) /\ y = s[i].tf /\ a = Digits(x) /\ b = Digits(y)
      BY <1>1, PairFacts
    <2>5. HoldsVarint(p, q + 1, x) /\ HoldsVarint(p, q + 1 + a, y)
      <3>1. Len(p) \in Nat
        BY <1>6
      <3>2. \A k \in 1..Len(Pair(s, i)) : q + k <= Len(p) /\ p[q + k] = Pair(s, i)[k]
        BY <1>6, <2>2
      <3>3. i \in 1..Len(s)
        BY <1>1
      <3>4. /\ HoldsVarint(p, q + 1, Delta(s, i))
            /\ HoldsVarint(p, q + 1 + Digits(Delta(s, i)), s[i].tf)
        BY ONLY Ascending(s), q \in Nat, <3>1, <3>2, <3>3, PairStands
      <3> QED BY <2>4, <3>4
    <2>6. d.value = x /\ d.next = (q + 1) + a
      BY <2>3, <2>4, <2>5, VarintReadsBack
    <2>7. e.value = y /\ e.next = (q + 1 + a) + b
      BY <2>3, <2>4, <2>5, <2>6, VarintReadsBack
    <2>8. z[i] = q + (a + b)
      <3>1. Len(f[i]) = q + Len(Pair(s, i))
        BY <1>6, <2>2
      <3>2. Len(Pair(s, i)) = a + b
        BY <1>1, <2>4, PairFacts
      <3> QED BY <1>7, <2>1, <3>1, <3>2
    <2>9. e.next = z[i] + 1
      <3>1. a \in Nat /\ b \in Nat
        BY <2>4
      <3> QED BY ONLY <2>7, <2>8, <3>1, q \in Nat
    <2> QED BY <2>2, <2>3, <2>4, <2>6, <2>7, <2>9
  <1> DEFINE w == [i \in 0..n |->
               IF i = 0 THEN [next |-> 1, node |-> s[1].node, tf |-> 0]
               ELSE [next |-> z[i] + 1, node |-> s[i].node, tf |-> s[i].tf]]
             Next3(r) == LET d == GetVarint(p, r.next)
                             e == GetVarint(p, d.next)
                         IN [next |-> e.next, node |-> r.node + d.value, tf |-> e.value]
  <1>9. ASSUME NEW i \in 1..n PROVE w[i] = Next3(w[i - 1])
    <2>1. w[i - 1].next = z[i - 1] + 1 /\ w[i - 1].node = Prev(s, i)
      <3>1. CASE i = 1
        <4>1. z[0] = 0
          BY <1>6, <1>7
        <4>2. i - 1 = 0
          BY <3>1
        <4>3. w[0] = [next |-> 1, node |-> s[1].node, tf |-> 0]
          OBVIOUS
        <4> HIDE DEF w
        <4> QED BY <3>1, <4>1, <4>2, <4>3 DEF Prev
      <3>2. CASE i # 1
        <4>1. i - 1 \in 0..n /\ i - 1 # 0
          BY <3>2
        <4>2. w[i - 1] = [next |-> z[i - 1] + 1, node |-> s[i - 1].node, tf |-> s[i - 1].tf]
          BY <4>1
        <4> HIDE DEF w
        <4> QED BY <3>2, <4>2 DEF Prev
      <3> QED BY <3>1, <3>2
    <2>2. w[i] = [next |-> z[i] + 1, node |-> s[i].node, tf |-> s[i].tf]
      OBVIOUS
    <2>3. Prev(s, i) + Delta(s, i) = s[i].node
      <3>1. i \in 1..Len(s)
        BY <1>1
      <3>2. s[i].node \in Nat /\ Prev(s, i) \in Nat
        BY <3>1, AscendingFacts
      <3>3. \A a, b \in Nat : a + (b - a) = b
        OBVIOUS
      <3> QED BY ONLY <3>2, <3>3 DEF Delta
    <2> HIDE DEF w
    <2> QED BY <1>8, <2>1, <2>2, <2>3
  <1>10. w[0] = [next |-> 1, node |-> s[1].node, tf |-> 0] /\ w = [i \in 0..n |-> w[i]]
    OBVIOUS
  <1>11. \A g : Def(g) = [i \in 0..n |-> IF i = 0 THEN [next |-> 1, node |-> s[1].node, tf |-> 0]
                                         ELSE Next3(g[i - 1])]
    BY <1>3
  <1>12. \A i \in 0..n : i = 0 \/ i \in 1..n
    OBVIOUS
  <1> HIDE DEF w, Next3
  <1>13. w = Def(w)
    <2>1. \A i \in 0..n : w[i] = IF i = 0 THEN [next |-> 1, node |-> s[1].node, tf |-> 0]
                                 ELSE Next3(w[i - 1])
      BY <1>9, <1>10, <1>12
    <2> HIDE DEF Def
    <2>2. PICK g : g = w
      OBVIOUS
    <2> QED BY <1>10, <1>11, <2>1, <2>2
  <1> HIDE DEF Def
  <1>14. read = Def(read)
    BY <1>13
  <1> HIDE DEF read
  <1>15. PICK g : g = read
    OBVIOUS
  <1>16. \A i \in 0..n : g[i] = IF i = 0 THEN [next |-> 1, node |-> s[1].node, tf |-> 0]
                                 ELSE Next3(g[i - 1])
    <2>1. g = [i \in 0..n |-> IF i = 0 THEN [next |-> 1, node |-> s[1].node, tf |-> 0]
                              ELSE Next3(g[i - 1])]
      BY <1>11, <1>14, <1>15
    <2> QED BY ONLY <2>1
  <1>17. \A i \in 0..n : g[i] = w[i]
    <2>1. PICK h : h = w
      OBVIOUS
    <2>2. g[0] = h[0]
      BY <1>10, <1>16, <2>1
    <2>3. ASSUME NEW i \in 1..n, g[i - 1] = h[i - 1] PROVE g[i] = h[i]
      <3>1. i \in 0..n /\ i # 0
        OBVIOUS
      <3> QED BY <1>9, <1>16, <2>1, <2>3, <3>1
    <2>4. Alike(n, g, h)
      BY <2>2, <2>3 DEF Alike
    <2>5. \A i \in 0..n : g[i] = h[i]
      BY ONLY <2>4, SameSteps
    <2> QED BY <2>1, <2>5
  <1>18. \A i \in 1..n : [node |-> read[i].node, tf |-> read[i].tf] = s[i]
    <2> SUFFICES ASSUME NEW i \in 1..n PROVE [node |-> read[i].node, tf |-> read[i].tf] = s[i]
      OBVIOUS
    <2>1. w[i] = [next |-> z[i] + 1, node |-> s[i].node, tf |-> s[i].tf]
      BY DEF w
    <2>2. read[i] = w[i]
      BY <1>12, <1>15, <1>17
    <2>3. s[i] = [node |-> s[i].node, tf |-> s[i].tf]
      BY <1>1, AscendingFacts
    <2> QED BY <2>1, <2>2, <2>3
  <1>19. s = [i \in 1..n |-> s[i]]
    BY <1>1, AscendingFacts
  <1> QED BY <1>4, <1>18, <1>19

LEMMA TuplesReadBack ==
    ASSUME NEW s, NEW t, Ascending(s), HoldsPostings(t, s)
    PROVE  Decode(t) = s
  BY OffsetsReadBack, DeltasReadBack, VarintsReadBack

\* A chunk of postings in node order is decoded as it was encoded, in each of the
\* four forms and whatever the widths of a uint16 and of a varint digit
\* (PgturbohybridWritePostingsChunk, PgturbohybridBm25DecodePostingsTuple).
THEOREM DecodeInvertsEncode ==
    ASSUME NEW s, Ascending(s)
    PROVE  Decode(PostingsTuple(s)) = s
  <1>1. HoldsPostings(PostingsTuple(s), s)
    BY DEF HoldsPostings, PostingsTuple
  <1> QED BY <1>1, TuplesReadBack

(***************************************************************************)
(* Pages and lists of linked tuples.                                       *)
(***************************************************************************)

LEMMA IndexInduction ==
    ASSUME NEW n \in Nat, NEW G, 0 \in G, \A i \in 1..n : i - 1 \in G => i \in G
    PROVE  \A i \in 0..n : i \in G
  <1> DEFINE f == [i \in 0..n |-> i]
  <1>1. f[0] \in G /\ \A i \in 1..n : f[i - 1] \in G => f[i] \in G
    OBVIOUS
  <1>2. \A i \in 0..n : f[i] = i
    OBVIOUS
  <1> HIDE DEF f
  <1>3. \A i \in 0..n : f[i] \in G
    BY ONLY <1>1, n \in Nat, StepsStay
  <1> QED BY <1>2, <1>3

(***************************************************************************)
(* Pages and the addresses of their tuples.                                *)
(***************************************************************************)
Addr == Nat \X Nat
TupleAt(p, a) == p[a[1]][a[2]]
ValidAddr(p, a) == a \in Addr /\ a[1] \in 1..Len(p) /\ a[2] \in 1..Len(p[a[1]])
IsPages(T, p) == p \in Lists(T) /\ \A i \in 1..Len(p) : Len(p[i]) \in 1..PerPage
Linkable(T) == \A x \in T, a \in Addr : [x EXCEPT !.next = a] \in T
Rank(a) == (a[1] - 1) * PerPage + a[2]

LEMMA RankFacts ==
    ASSUME NEW a \in Addr, a[1] >= 1
    PROVE  /\ Rank(a) \in Nat /\ Rank(a) >= a[2]
           /\ a[2] <= PerPage => Rank(a) <= a[1] * PerPage
           /\ \A b \in Addr : b[1] >= 1 /\ b[1] < a[1] /\ b[2] <= PerPage /\ a[2] >= 1 => Rank(b) < Rank(a)
  <1>1. PICK k \in Nat : k = PerPage /\ k >= 1
    BY SizeAssumption
  <1>2. PICK x \in Nat, y \in Nat : x = a[1] /\ y = a[2] /\ x >= 1
    BY DEF Addr
  <1>3. (x - 1) * k \in Nat /\ (x - 1) * k + k = x * k
    BY <1>2
  <1>4. Rank(a) = (x - 1) * k + y
    BY <1>1, <1>2 DEF Rank
  <1>5. ASSUME NEW b \in Addr, b[1] >= 1, b[1] < a[1], b[2] <= PerPage, a[2] >= 1 PROVE Rank(b) < Rank(a)
    <2>1. PICK u \in Nat, v \in Nat : u = b[1] /\ v = b[2]
      BY DEF Addr
    <2>2. Rank(b) = (u - 1) * k + v
      BY <1>1, <2>1 DEF Rank
    <2>3. u >= 1 /\ u <= x - 1 /\ v <= k /\ y >= 1
      BY <1>1, <1>2, <1>5, <2>1
    <2>4. (u - 1) * k + k = u * k /\ u * k <= (x - 1) * k
      BY <2>3
    <2>5. PICK c \in Int, d \in Int : c = (u - 1) * k /\ d = (x - 1) * k /\ c + k <= d
      <3>1. (u - 1) * k \in Int /\ (x - 1) * k \in Int /\ u * k \in Int
        OBVIOUS
      <3> QED BY <2>4, <3>1
    <2>6. c + v < d + y
      BY <2>3, <2>5
    <2> QED BY <1>4, <2>2, <2>5, <2>6
  <1>6. PICK c \in Nat : c = (x - 1) * k
    BY <1>3
  <1>7. /\ Rank(a) \in Nat /\ Rank(a) >= a[2]
        /\ a[2] <= PerPage => Rank(a) <= a[1] * PerPage
    BY <1>1, <1>2, <1>3, <1>4, <1>6
  <1> QED BY <1>5, <1>7

LEMMA PagesFacts ==
    ASSUME NEW T, NEW p, IsPages(T, p)
    PROVE  /\ p \in Lists(T) /\ Len(p) \in Nat /\ (p = <<>> <=> Len(p) = 0)
           /\ \A i \in 1..Len(p) : p[i] \in Seq(T) /\ Len(p[i]) \in 1..PerPage
  BY ListsFacts DEF IsPages

ExtendOf(T, ss, x, tt) ==
    ss \in Lists(T) /\ ss # <<>> /\ x \in T /\ tt = [ss EXCEPT ![Len(ss)] = Append(@, x)]

LEMMA ListsExtended ==
    ASSUME NEW T, NEW ss, NEW x, NEW tt, ExtendOf(T, ss, x, tt)
    PROVE  /\ tt \in Lists(T) /\ Len(tt) = Len(ss) /\ tt[Len(ss)] = Append(ss[Len(ss)], x)
           /\ ss[Len(ss)] \in Seq(T) /\ \A i \in 1..Len(ss) - 1 : tt[i] = ss[i]
  BY DEF ExtendOf, Lists

ReplaceOf(T, ss, i, j, y, tt) ==
    /\ ss \in Lists(T) /\ i \in 1..Len(ss) /\ j \in 1..Len(ss[i]) /\ y \in T
    /\ tt = [ss EXCEPT ![i] = [@ EXCEPT ![j] = y]]

LEMMA ListsReplaced ==
    ASSUME NEW T, NEW ss, NEW i, NEW j, NEW y, NEW tt, ReplaceOf(T, ss, i, j, y, tt)
    PROVE  /\ tt \in Lists(T) /\ Len(tt) = Len(ss)
           /\ \A k \in 1..Len(ss) : Len(tt[k]) = Len(ss[k])
           /\ tt[i][j] = y
           /\ \A k \in 1..Len(ss) : \A l \in 1..Len(ss[k]) : <<k, l>> # <<i, j>> => tt[k][l] = ss[k][l]
  BY DEF ReplaceOf, Lists

LEMMA AddItemFacts ==
    ASSUME NEW T, NEW p, IsPages(T, p), NEW x \in T
    PROVE  /\ IsPages(T, AddItem(p, x))
           /\ ValidAddr(AddItem(p, x), LastAddr(AddItem(p, x)))
           /\ TupleAt(AddItem(p, x), LastAddr(AddItem(p, x))) = x
           /\ \A b : ValidAddr(p, b) =>
                /\ ValidAddr(AddItem(p, x), b) /\ TupleAt(AddItem(p, x), b) = TupleAt(p, b)
                /\ Rank(b) < Rank(LastAddr(AddItem(p, x)))
  <1> DEFINE q == AddItem(p, x)
             n == Len(p)
             a == LastAddr(q)
  <1>1. /\ p \in Lists(T) /\ n \in Nat /\ (p = <<>> <=> n = 0)
        /\ \A i \in 1..n : p[i] \in Seq(T) /\ Len(p[i]) \in 1..PerPage
    BY PagesFacts
  <1>2. PICK k \in Nat : k = PerPage /\ k >= 1
    BY SizeAssumption
  <1>3. CASE p = <<>> \/ Len(p[n]) = PerPage
    <2>1. q = Append(p, <<x>>)
      BY <1>3 DEF AddItem, Fill
    <2>2. PICK s \in Seq(T) : s = <<x>> /\ Len(s) = 1 /\ s[1] = x
      <3>1. <<x>> \in Seq(T) /\ Len(<<x>>) = 1 /\ <<x>>[1] = x
        BY ONLY x \in T
      <3> QED BY ONLY <3>1
    <2>3. q = Append(p, s)
      BY <2>1, <2>2
    <2> HIDE DEF q, n
    <2>4. /\ q \in Lists(T) /\ Len(q) = n + 1 /\ q[n + 1] = s /\ \A i \in 1..n : q[i] = p[i]
      <3>1. p \in Lists(T)
        BY <1>1
      <3> QED BY ONLY <3>1, s \in Seq(T), <2>3, ListsAppend DEF n
    <2>5. \A i \in 1..Len(q) : Len(q[i]) \in 1..PerPage
      <3> TAKE i \in 1..Len(q)
      <3>1. i \in 1..n \/ i = n + 1
        BY <1>1, <2>4
      <3>2. CASE i \in 1..n
        <4>1. q[i] = p[i]
          BY <2>4, <3>2
        <4>2. Len(p[i]) \in 1..PerPage
          BY <1>1, <3>2
        <4> QED BY ONLY <4>1, <4>2
      <3>3. CASE i = n + 1
        <4>1. Len(q[i]) = 1
          BY ONLY <2>2, <2>4, <3>3
        <4>2. 1 \in 1..PerPage
          BY ONLY <1>2, k \in Nat
        <4> QED BY ONLY <4>1, <4>2
      <3> QED BY ONLY <3>1, <3>2, <3>3
    <2>6. IsPages(T, q)
      BY <2>4, <2>5 DEF IsPages
    <2>7. a = <<n + 1, 1>>
      BY <2>2, <2>4 DEF LastAddr
    <2>8. ValidAddr(q, a) /\ TupleAt(q, a) = x
      <3>1. a[1] = n + 1 /\ a[2] = 1 /\ a \in Addr
        BY <1>1, <2>7 DEF Addr
      <3> QED BY <1>1, <2>2, <2>4, <3>1 DEF ValidAddr, TupleAt
    <2>9. ASSUME NEW b, ValidAddr(p, b)
          PROVE  ValidAddr(q, b) /\ TupleAt(q, b) = TupleAt(p, b) /\ Rank(b) < Rank(a)
      <3>1. b \in Addr /\ b[1] \in 1..n /\ b[2] \in 1..Len(p[b[1]])
        BY <2>9 DEF ValidAddr, n
      <3>2. q[b[1]] = p[b[1]] /\ b[1] \in 1..Len(q)
        BY <1>1, <2>4, <3>1
      <3>3. ValidAddr(q, b) /\ TupleAt(q, b) = TupleAt(p, b)
        BY <3>1, <3>2 DEF ValidAddr, TupleAt
      <3>4. a \in Addr /\ a[1] = n + 1 /\ a[2] = 1
        BY <1>1, <2>7 DEF Addr
      <3>5. b[1] >= 1 /\ b[1] < a[1] /\ b[2] <= PerPage /\ a[1] >= 1
        <4>1. Len(p[b[1]]) \in 1..k
          BY <1>1, <1>2, <3>1
        <4> QED BY <1>1, <1>2, <3>1, <3>4, <4>1
      <3>6. Rank(b) < Rank(a)
        <4> HIDE DEF a
        <4> QED BY <3>1, <3>4, <3>5, RankFacts
      <3> QED BY <3>3, <3>6
    <2> QED BY <2>6, <2>8, <2>9 DEF q
  <1>4. CASE ~(p = <<>> \/ Len(p[n]) = PerPage)
    <2>1. q = [p EXCEPT ![n] = Append(@, x)]
      BY <1>4 DEF AddItem, Fill
    <2>2. n \in 1..n /\ p # <<>>
      BY <1>1, <1>4
    <2>3. /\ q \in Lists(T) /\ Len(q) = n /\ q[n] = Append(p[n], x) /\ p[n] \in Seq(T)
          /\ \A i \in 1..n - 1 : q[i] = p[i]
      <3>1. p \in Lists(T)
        BY <1>1
      <3>2. ExtendOf(T, p, x, q)
        BY <2>1, <2>2, <3>1 DEF ExtendOf, n
      <3> QED BY ONLY <3>2, ListsExtended DEF n
    <2> HIDE DEF q, n
    <2>4. PICK m \in Nat : m = Len(p[n]) /\ m >= 1 /\ m < k
      <3>1. Len(p[n]) \in 1..k /\ Len(p[n]) # k
        BY <1>1, <1>2, <1>4, <2>2
      <3> QED BY <3>1
    <2>5. Len(q[n]) = m + 1 /\ q[n][m + 1] = x /\ \A j \in 1..m : q[n][j] = p[n][j]
      BY <2>3, <2>4
    <2>6. \A i \in 1..Len(q) : Len(q[i]) \in 1..PerPage
      <3>1. \A i \in 1..Len(q) : i \in 1..n - 1 \/ i = n
        BY <1>1, <2>3
      <3>2. \A i \in 1..n - 1 : i \in 1..n
        BY <1>1
      <3> QED BY <1>1, <1>2, <2>3, <2>4, <2>5, <3>1, <3>2
    <2>7. IsPages(T, q)
      BY <2>3, <2>6 DEF IsPages
    <2>8. a = <<n, m + 1>>
      BY <2>3, <2>5 DEF LastAddr
    <2>9. a[1] = n /\ a[2] = m + 1 /\ a \in Addr
      BY <1>1, <2>8 DEF Addr
    <2> HIDE DEF a
    <2>10. ValidAddr(q, a) /\ TupleAt(q, a) = x
      BY <2>2, <2>3, <2>5, <2>9 DEF ValidAddr, TupleAt
    <2>11. ASSUME NEW b, ValidAddr(p, b)
          PROVE  ValidAddr(q, b) /\ TupleAt(q, b) = TupleAt(p, b) /\ Rank(b) < Rank(a)
      <3>1. b \in Addr /\ b[1] \in 1..n /\ b[2] \in 1..Len(p[b[1]])
        BY <2>11 DEF ValidAddr, n
      <3>2. CASE b[1] = n
        <4>1. b[2] \in 1..m
          BY <2>4, <3>1, <3>2
        <4>2. ValidAddr(q, b) /\ TupleAt(q, b) = TupleAt(p, b)
          BY <2>2, <2>3, <2>5, <3>1, <3>2, <4>1 DEF ValidAddr, TupleAt
        <4>3. Rank(b) < Rank(a)
          <5>1. PICK c \in Int : c = (n - 1) * PerPage
            BY <1>1, <1>2
          <5>2. Rank(b) = c + b[2] /\ Rank(a) = c + (m + 1)
            BY <2>9, <3>2, <5>1 DEF Rank
          <5> QED BY <4>1, <5>2
        <4> QED BY <4>2, <4>3
      <3>3. CASE b[1] # n
        <4>1. b[1] \in 1..n - 1
          BY <1>1, <3>1, <3>3
        <4>2. q[b[1]] = p[b[1]] /\ b[1] \in 1..Len(q)
          BY <2>3, <3>1, <4>1
        <4>3. ValidAddr(q, b) /\ TupleAt(q, b) = TupleAt(p, b)
          BY <3>1, <4>2 DEF ValidAddr, TupleAt
        <4>4. b[1] >= 1 /\ b[1] < a[1] /\ b[2] <= PerPage /\ a[1] >= 1 /\ a[2] >= 1
          <5>1. Len(p[b[1]]) \in 1..k
            BY <1>1, <1>2, <3>1
          <5> QED BY <1>1, <1>2, <2>9, <3>1, <4>1, <5>1
        <4>5. Rank(b) < Rank(a)
          BY <2>9, <3>1, <4>4, RankFacts
        <4> QED BY <4>3, <4>5
      <3> QED BY <3>2, <3>3
    <2> QED BY <2>7, <2>10, <2>11 DEF q, a
  <1> QED BY <1>3, <1>4

LEMMA LinkFacts ==
    ASSUME NEW T, Linkable(T), NEW p, IsPages(T, p), NEW b, ValidAddr(p, b), NEW a \in Addr
    PROVE  LET q == LinkChunk(p, b, a)
           IN  /\ IsPages(T, q)
               /\ TupleAt(q, b) = [TupleAt(p, b) EXCEPT !.next = a]
               /\ \A c : ValidAddr(p, c) => ValidAddr(q, c) /\ (c # b => TupleAt(q, c) = TupleAt(p, c))
  <1> DEFINE q == LinkChunk(p, b, a)
             y == [TupleAt(p, b) EXCEPT !.next = a]
  <1>1. /\ p \in Lists(T) /\ Len(p) \in Nat
        /\ \A i \in 1..Len(p) : p[i] \in Seq(T) /\ Len(p[i]) \in 1..PerPage
    BY PagesFacts
  <1>2. PICK i, j : i = b[1] /\ j = b[2] /\ i \in 1..Len(p) /\ j \in 1..Len(p[i])
    BY DEF ValidAddr
  <1>3. TupleAt(p, b) \in T
    BY <1>1, <1>2 DEF TupleAt
  <1>4. y \in T
    BY <1>3 DEF Linkable
  <1>5. q = [p EXCEPT ![i] = [@ EXCEPT ![j] = y]]
    BY <1>2 DEF LinkChunk, TupleAt
  <1> HIDE DEF q, y
  <1>6. /\ q \in Lists(T) /\ Len(q) = Len(p)
        /\ \A k \in 1..Len(p) : Len(q[k]) = Len(p[k])
        /\ q[i][j] = y
        /\ \A k \in 1..Len(p) : \A l \in 1..Len(p[k]) : <<k, l>> # <<i, j>> => q[k][l] = p[k][l]
    <2>1. p \in Lists(T)
      BY <1>1
    <2>2. ReplaceOf(T, p, i, j, y, q)
      BY <1>2, <1>4, <1>5, <2>1 DEF ReplaceOf
    <2> QED BY ONLY <2>2, ListsReplaced
  <1>7. IsPages(T, q)
    BY <1>1, <1>6 DEF IsPages
  <1>8. TupleAt(q, b) = y
    BY <1>2, <1>6 DEF TupleAt
  <1>9. ASSUME NEW c, ValidAddr(p, c)
        PROVE  ValidAddr(q, c) /\ (c # b => TupleAt(q, c) = TupleAt(p, c))
    <2>1. c \in Addr /\ c[1] \in 1..Len(p) /\ c[2] \in 1..Len(p[c[1]]) /\ b \in Addr
      BY <1>9 DEF ValidAddr
    <2>2. ValidAddr(q, c)
      BY <1>6, <2>1 DEF ValidAddr
    <2>3. c # b => <<c[1], c[2]>> # <<i, j>>
      BY <1>2, <2>1 DEF Addr
    <2>4. c # b => q[c[1]][c[2]] = p[c[1]][c[2]]
      BY <1>6, <2>1, <2>3
    <2> QED BY <2>2, <2>4 DEF TupleAt
  <1> QED BY <1>7, <1>8, <1>9 DEF q, y

(***************************************************************************)
(* Lists of linked tuples.                                                 *)
(***************************************************************************)
Linked(x, a) == [x EXCEPT !.next = a]
Tuples(T) == \A x \in T : "next" \in DOMAIN x /\ \A a \in Addr : Linked(x, a) \in T

\* Tuples 1..n of ts stand in p at the addresses h, each linked to the next.
NextOf(h, n, k) == IF k < n THEN h[k + 1] ELSE NoAddr
Chain(p, h, ts, n) ==
    /\ \A k \in 1..n : ValidAddr(p, h[k]) /\ TupleAt(p, h[k]) = Linked(ts[k], NextOf(h, n, k))
    /\ \A k, l \in 1..n : k < l => Rank(h[k]) < Rank(h[l])

\* What stands in p stands in q.
Keeps(p, q) == \A b : ValidAddr(p, b) => ValidAddr(q, b) /\ TupleAt(q, b) = TupleAt(p, b)

\* A list of the first n tuples of ts, begun on the pages p.
Begins(p, w, ts, n, h) ==
    /\ Chain(w.pages, h, ts, n) /\ \A k \in 1..n : ~ValidAddr(p, h[k])
    /\ n = 0 => w.first = NoAddr /\ w.prev = NoAddr
    /\ n > 0 => w.first = h[1] /\ w.prev = h[n]
ListOf(T, p, w, ts, n) ==
    /\ IsPages(T, w.pages) /\ w.count = n /\ Keeps(p, w.pages)
    /\ \E h : Begins(p, w, ts, n, h)

LEMMA LinkedTwice ==
    ASSUME NEW x, NEW a, NEW b
    PROVE  Linked(Linked(x, a), b) = Linked(x, b)
  BY DEF Linked

LEMMA LinkedFields ==
    ASSUME NEW x, NEW a
    PROVE  /\ DOMAIN Linked(x, a) = DOMAIN x
           /\ \A f \in DOMAIN x : f # "next" => Linked(x, a)[f] = x[f]
           /\ "next" \in DOMAIN x => Linked(x, a).next = a
  BY DEF Linked

LEMMA ValidFacts ==
    ASSUME NEW p, NEW b, ValidAddr(p, b)
    PROVE  b \in Addr /\ b[1] >= 1 /\ b[2] >= 1 /\ b # NoAddr
  BY DEF ValidAddr, NoAddr, Addr

LEMMA RankIsNat ==
    ASSUME NEW p, NEW b, ValidAddr(p, b)
    PROVE  Rank(b) \in Nat
  BY ValidFacts, RankFacts

LEMMA AddChunkStep ==
    ASSUME NEW T, Tuples(T), NEW p, NEW w, NEW ts, NEW n \in Nat, ListOf(T, p, w, ts, n),
           ts[n + 1] \in T, Linked(ts[n + 1], NoAddr) = ts[n + 1]
    PROVE  ListOf(T, p, AddChunk(w, ts[n + 1]), ts, n + 1)
  <1> DEFINE x == ts[n + 1]
             q == AddItem(w.pages, x)
             a == LastAddr(q)
             v == AddChunk(w, x)
  <1>1. IsPages(T, w.pages) /\ w.count = n /\ Keeps(p, w.pages)
    BY DEF ListOf
  <1>2. PICK h : Begins(p, w, ts, n, h)
    BY DEF ListOf
  <1>3. /\ Chain(w.pages, h, ts, n) /\ \A k \in 1..n : ~ValidAddr(p, h[k])
        /\ n = 0 => w.first = NoAddr /\ w.prev = NoAddr
        /\ n > 0 => w.first = h[1] /\ w.prev = h[n]
    BY <1>2 DEF Begins
  <1>4. /\ \A k \in 1..n : ValidAddr(w.pages, h[k]) /\ TupleAt(w.pages, h[k]) = Linked(ts[k], NextOf(h, n, k))
        /\ \A k, l \in 1..n : k < l => Rank(h[k]) < Rank(h[l])
    BY <1>3 DEF Chain
  <1>5. /\ IsPages(T, q) /\ ValidAddr(q, a) /\ TupleAt(q, a) = x
        /\ \A b : ValidAddr(w.pages, b) =>
              ValidAddr(q, b) /\ TupleAt(q, b) = TupleAt(w.pages, b) /\ Rank(b) < Rank(a)
    BY <1>1, AddItemFacts
  <1>6. v = [pages |-> IF w.prev = NoAddr THEN q ELSE LinkChunk(q, w.prev, a),
             first |-> IF w.first = NoAddr THEN a ELSE w.first,
             prev  |-> a, count |-> n + 1]
    BY <1>1 DEF AddChunk
  <1> HIDE DEF a, q, x, v
  <1>7. ~ValidAddr(p, a)
    <2>1. SUFFICES ASSUME ValidAddr(p, a) PROVE FALSE
      OBVIOUS
    <2>2. ValidAddr(w.pages, a)
      BY <1>1, <2>1 DEF Keeps
    <2>3. Rank(a) < Rank(a) /\ Rank(a) \in Nat
      BY <1>5, <2>2, RankIsNat
    <2> QED BY <2>3
  <1>8. a \in Addr /\ a # NoAddr
    BY <1>5, ValidFacts
  <1>9. Keeps(p, q)
    BY <1>1, <1>5 DEF Keeps
  <1> DEFINE g == [k \in 1..n + 1 |-> IF k = n + 1 THEN a ELSE h[k]]
  <1>10. n + 1 \in 1..n + 1 /\ g[n + 1] = a /\ \A k \in 1..n : k \in 1..n + 1 /\ g[k] = h[k]
    OBVIOUS
  <1> HIDE DEF g
  <1>11. \A k \in 1..n + 1 : k \in 1..n \/ k = n + 1
    OBVIOUS
  <1>12. \A k \in 1..n + 1 : ~ValidAddr(p, g[k])
    BY <1>3, <1>7, <1>10, <1>11
  <1>13. \A k, l \in 1..n + 1 : k < l => Rank(g[k]) < Rank(g[l])
    <2> SUFFICES ASSUME NEW k \in 1..n + 1, NEW l \in 1..n + 1, k < l PROVE Rank(g[k]) < Rank(g[l])
      OBVIOUS
    <2>1. k \in 1..n /\ g[k] = h[k] /\ ValidAddr(w.pages, h[k])
      BY <1>4, <1>10
    <2>2. CASE l = n + 1
      BY <1>5, <1>10, <2>1, <2>2
    <2>3. CASE l \in 1..n
      BY <1>4, <1>10, <2>1, <2>3
    <2> QED BY <1>11, <2>2, <2>3
  <1>14. CASE n = 0
    <2>1. v.pages = q /\ v.first = a /\ v.prev = a /\ v.count = n + 1
      BY <1>3, <1>6, <1>14
    <2>2. Chain(q, g, ts, n + 1)
      <3>1. \A k \in 1..n + 1 : k = n + 1
        BY <1>14
      <3>2. ValidAddr(q, g[n + 1]) /\ TupleAt(q, g[n + 1]) = Linked(ts[n + 1], NoAddr)
        BY <1>5, <1>10 DEF x
      <3>3. NextOf(g, n + 1, n + 1) = NoAddr
        BY DEF NextOf
      <3> QED BY <1>13, <3>1, <3>2, <3>3 DEF Chain
    <2>3. Begins(p, v, ts, n + 1, g)
      <3>1. n + 1 > 0 /\ n + 1 # 0 /\ g[1] = a
        BY <1>10, <1>14
      <3> QED BY <1>10, <1>12, <2>1, <2>2, <3>1 DEF Begins
    <2> QED BY <1>5, <1>9, <2>1, <2>3 DEF ListOf, v, x
  <1>15. CASE n > 0
    <2>1. PICK z : z = h[n] /\ w.prev = z /\ w.first = h[1] /\ ValidAddr(w.pages, z) /\ n \in 1..n /\ 1 \in 1..n
      BY <1>3, <1>4, <1>15
    <2>2. z # NoAddr /\ h[1] # NoAddr
      BY <1>4, <2>1, ValidFacts
    <2>3. PICK r : r = LinkChunk(q, z, a)
      OBVIOUS
    <2>4. v.pages = r /\ v.first = h[1] /\ v.prev = a /\ v.count = n + 1
      BY <1>6, <2>1, <2>2, <2>3
    <2>5. ValidAddr(q, z)
      BY <1>5, <2>1
    <2>6. /\ IsPages(T, r) /\ TupleAt(r, z) = Linked(TupleAt(q, z), a)
          /\ \A c : ValidAddr(q, c) => ValidAddr(r, c) /\ (c # z => TupleAt(r, c) = TupleAt(q, c))
      <3>1. Linkable(T)
        BY DEF Tuples, Linkable, Linked
      <3> QED BY <1>5, <1>8, <2>3, <2>5, <3>1, LinkFacts DEF Linked
    <2>7. ~ValidAddr(p, z)
      BY <1>3, <2>1
    <2>8. Keeps(p, r)
      BY <1>9, <2>6, <2>7 DEF Keeps
    <2>9. Chain(r, g, ts, n + 1)
      <3>1. ASSUME NEW k \in 1..n + 1
            PROVE  ValidAddr(r, g[k]) /\ TupleAt(r, g[k]) = Linked(ts[k], NextOf(g, n + 1, k))
        <4>1. CASE k \in 1..n - 1
          <5>1. k \in 1..n /\ k + 1 \in 1..n /\ k < n /\ k < n + 1
            BY <4>1
          <5>2. g[k] = h[k] /\ NextOf(h, n, k) = h[k + 1] /\ NextOf(g, n + 1, k) = h[k + 1]
            BY <1>10, <5>1 DEF NextOf
          <5>3. ValidAddr(w.pages, h[k]) /\ TupleAt(w.pages, h[k]) = Linked(ts[k], h[k + 1])
            BY <1>4, <5>1, <5>2
          <5>4. h[k] # z
            <6>1. Rank(h[k]) < Rank(z) /\ Rank(z) \in Nat
              BY <1>4, <2>1, <5>1, RankIsNat
            <6> QED BY <6>1
          <5> QED BY <1>5, <2>6, <5>2, <5>3, <5>4
        <4>2. CASE k = n
          <5>1. g[k] = z /\ NextOf(g, n + 1, k) = a
            BY <1>10, <2>1, <4>2 DEF NextOf
          <5>2. TupleAt(w.pages, z) = Linked(ts[n], NoAddr)
            BY <1>4, <2>1 DEF NextOf
          <5>3. TupleAt(q, z) = Linked(ts[n], NoAddr)
            BY <1>5, <2>1, <5>2
          <5>4. TupleAt(r, z) = Linked(ts[n], a)
            BY <2>6, <5>3, LinkedTwice
          <5> QED BY <2>5, <2>6, <4>2, <5>1, <5>4
        <4>3. CASE k = n + 1
          <5>1. g[k] = a /\ NextOf(g, n + 1, k) = NoAddr
            BY <1>10, <4>3 DEF NextOf
          <5>2. a # z
            <6>1. Rank(z) < Rank(a) /\ Rank(z) \in Nat
              BY <1>5, <2>1, RankIsNat
            <6> QED BY <6>1
          <5>3. TupleAt(r, a) = x /\ ValidAddr(r, a)
            BY <1>5, <2>6, <5>2
          <5>4. Linked(x, NoAddr) = x
            BY DEF x
          <5> QED BY <4>3, <5>1, <5>3, <5>4 DEF x
        <4> QED BY <4>1, <4>2, <4>3
      <3> QED BY <1>13, <3>1 DEF Chain
    <2>10. Begins(p, v, ts, n + 1, g)
      <3>1. n + 1 > 0 /\ n + 1 # 0 /\ g[1] = h[1]
        BY <1>10, <2>1
      <3> QED BY <1>10, <1>12, <2>4, <2>9, <3>1 DEF Begins
    <2> QED BY <2>4, <2>6, <2>8, <2>10 DEF ListOf, v, x
  <1> QED BY <1>14, <1>15

LEMMA NewListIs ==
    ASSUME NEW T, NEW p, IsPages(T, p), NEW ts
    PROVE  ListOf(T, p, NewList(p), ts, 0)
  <1>1. Begins(p, NewList(p), ts, 0, <<>>)
    BY DEF Begins, Chain, NewList
  <1>2. Keeps(p, NewList(p).pages)
    BY DEF Keeps, NewList
  <1> QED BY <1>1, <1>2 DEF ListOf, NewList

\* All of a sequence of tuples.
Appendable(T, ts) ==
    /\ Len(ts) \in Nat
    /\ \A k \in 1..Len(ts) : ts[k] \in T /\ Linked(ts[k], NoAddr) = ts[k]

Record(w) == w = [pages |-> w.pages, first |-> w.first, prev |-> w.prev, count |-> w.count]
AnyList(T) == [pages : Lists(T), first : Addr, prev : Addr, count : Nat]

LEMMA ListOfType ==
    ASSUME NEW T, NEW p, NEW w, NEW ts, NEW n \in Nat, ListOf(T, p, w, ts, n), Record(w)
    PROVE  w \in AnyList(T)
  <1>1. w.pages \in Lists(T) /\ w.count \in Nat
    BY DEF ListOf, IsPages
  <1>2. PICK h : Begins(p, w, ts, n, h)
    BY DEF ListOf
  <1>3. w.first \in Addr /\ w.prev \in Addr
    <2>1. NoAddr \in Addr
      BY DEF NoAddr, Addr
    <2>2. CASE n = 0
      BY <1>2, <2>1, <2>2 DEF Begins
    <2>3. CASE n > 0
      <3>1. 1 \in 1..n /\ n \in 1..n
        BY <2>3
      <3>2. ValidAddr(w.pages, h[1]) /\ ValidAddr(w.pages, h[n])
        BY <1>2, <3>1 DEF Begins, Chain
      <3> QED BY <1>2, <2>3, <3>2, ValidFacts DEF Begins
    <2> QED BY <2>2, <2>3
  <1>4. PICK a, b, c, d : a = w.pages /\ b = w.first /\ c = w.prev /\ d = w.count
    OBVIOUS
  <1>5. [pages |-> a, first |-> b, prev |-> c, count |-> d] \in AnyList(T)
    <2>1. PICK L : L = Lists(T)
      OBVIOUS
    <2>2. a \in L /\ b \in Addr /\ c \in Addr /\ d \in Nat
      BY <1>1, <1>3, <1>4, <2>1
    <2> QED BY ONLY <2>1, <2>2 DEF AnyList
  <1> QED BY <1>4, <1>5 DEF Record

LEMMA AddChunksMakeList ==
    ASSUME NEW T, Tuples(T), NEW p, IsPages(T, p), NEW ts, Appendable(T, ts)
    PROVE  ListOf(T, p, AddChunks(p, ts), ts, Len(ts))
  <1> DEFINE n == Len(ts)
             Def(f) == [i \in 0..n |-> IF i = 0 THEN NewList(p) ELSE AddChunk(f[i - 1], ts[i])]
             list == CHOOSE f : f = Def(f)
             U == [i \in 0..n |-> {w \in AnyList(T) : ListOf(T, p, w, ts, i) /\ Record(w)}]
             G == [i \in 1..n |-> [w \in U[i - 1] |-> AddChunk(w, ts[i])]]
  <1>1. n \in Nat /\ \A k \in 1..n : ts[k] \in T /\ Linked(ts[k], NoAddr) = ts[k]
    BY DEF Appendable
  <1>2. AddChunks(p, ts) = list[n]
    BY DEF AddChunks
  <1> HIDE DEF n
  <1>3. \A i \in 0..n : \A w : w \in U[i] <=> w \in AnyList(T) /\ ListOf(T, p, w, ts, i) /\ Record(w)
    OBVIOUS
  <1>4. U \in [0..n -> SUBSET AnyList(T)]
    OBVIOUS
  <1> HIDE DEF U
  <1>5. NewList(p) \in U[0]
    <2>1. ListOf(T, p, NewList(p), ts, 0)
      BY NewListIs
    <2>2. Record(NewList(p))
      BY DEF Record, NewList
    <2>3. NewList(p) \in AnyList(T)
      BY <2>1, <2>2, ListOfType
    <2>4. 0 \in 0..n
      BY <1>1
    <2> QED BY <1>3, <2>1, <2>2, <2>3, <2>4
  <1>6. ASSUME NEW i \in 1..n, NEW w \in U[i - 1] PROVE AddChunk(w, ts[i]) \in U[i]
    <2>1. PICK j \in Nat : j = i - 1 /\ j + 1 = i /\ j \in 0..n /\ i \in 0..n
      BY <1>1
    <2>2. ListOf(T, p, w, ts, j)
      BY <1>3, <2>1
    <2>3. ts[j + 1] \in T /\ Linked(ts[j + 1], NoAddr) = ts[j + 1]
      BY <1>1, <2>1
    <2>4. ListOf(T, p, AddChunk(w, ts[j + 1]), ts, j + 1)
      BY ONLY Tuples(T), j \in Nat, <2>2, <2>3, AddChunkStep
    <2>5. Record(AddChunk(w, ts[j + 1]))
      BY DEF Record, AddChunk
    <2>6. AddChunk(w, ts[j + 1]) \in AnyList(T)
      BY <2>4, <2>5, ListOfType
    <2> QED BY <1>3, <2>1, <2>4, <2>5, <2>6
  <1>7. \A i \in 1..n : G[i] \in [U[i - 1] -> U[i]]
    BY <1>6
  <1>8. \A i \in 1..n : \A w \in U[i - 1] : G[i][w] = AddChunk(w, ts[i])
    OBVIOUS
  <1> HIDE DEF G
  <1>9. PICK h : Staged(n, U, NewList(p), G, h)
    <2>1. Stages(AnyList(T), n, U, NewList(p), G)
      BY <1>1, <1>4, <1>5, <1>7 DEF Stages
    <2> QED BY ONLY <2>1, StagesExist
  <1>10. /\ h = [i \in 0..n |-> h[i]] /\ h[0] = NewList(p)
         /\ \A i \in 1..n : h[i] = G[i][h[i - 1]]
         /\ \A i \in 0..n : h[i] \in U[i]
    BY <1>9 DEF Staged
  <1>11. \A i \in 1..n : h[i] = AddChunk(h[i - 1], ts[i])
    <2> TAKE i \in 1..n
    <2>1. i - 1 \in 0..n
      BY <1>1
    <2> QED BY <1>8, <1>10, <2>1
  <1>12. \A f : Def(f) = [i \in 0..n |-> IF i = 0 THEN NewList(p) ELSE AddChunk(f[i - 1], ts[i])]
    OBVIOUS
  <1>13. \A i \in 0..n : i = 0 \/ i \in 1..n
    BY <1>1
  <1>14. h = Def(h)
    <2>1. \A i \in 0..n : h[i] = IF i = 0 THEN NewList(p) ELSE AddChunk(h[i - 1], ts[i])
      BY <1>10, <1>11, <1>13
    <2> HIDE DEF Def
    <2> QED BY <1>10, <1>12, <2>1
  <1>15. list = Def(list)
    <2> HIDE DEF Def
    <2> QED BY <1>14
  <1> HIDE DEF list, Def
  <1>16. PICK f : f = list
    OBVIOUS
  <1>17. f[0] = NewList(p) /\ \A i \in 1..n : f[i] = AddChunk(f[i - 1], ts[i])
    <2>1. f = [i \in 0..n |-> IF i = 0 THEN NewList(p) ELSE AddChunk(f[i - 1], ts[i])]
      BY <1>12, <1>15, <1>16
    <2>2. \A i \in 0..n : f[i] = IF i = 0 THEN NewList(p) ELSE AddChunk(f[i - 1], ts[i])
      BY ONLY <2>1
    <2> QED BY <1>1, <2>2
  <1>18. f[n] = h[n]
    <2>1. PICK m \in Nat : m = n
      BY <1>1
    <2>2. Alike(m, f, h)
      BY <1>10, <1>11, <1>17, <2>1 DEF Alike
    <2>3. \A i \in 0..m : f[i] = h[i]
      BY ONLY <2>2, SameSteps
    <2> QED BY <2>1, <2>3
  <1>19. n \in 0..n
    BY <1>1
  <1>20. ListOf(T, p, h[n], ts, n)
    BY <1>3, <1>10, <1>19
  <1> QED BY <1>2, <1>16, <1>18, <1>20 DEF n

(***************************************************************************)
(* Reading a list.                                                         *)
(***************************************************************************)
LEMMA RanksCount ==
    ASSUME NEW T, NEW p, IsPages(T, p), NEW h, NEW ts, NEW n \in Nat, Chain(p, h, ts, n)
    PROVE  n <= Len(p) * PerPage
  <1>1. CASE n = 0
    <2>1. Len(p) * PerPage \in Nat
      BY PagesFacts, SizeAssumption
    <2> QED BY <1>1, <2>1
  <1>2. CASE n > 0
    <2> DEFINE G == {0} \cup {i \in 1..n : i <= Rank(h[i])}
    <2>1. \A i \in 1..n : ValidAddr(p, h[i]) /\ Rank(h[i]) \in Nat /\ Rank(h[i]) >= 1
      <3> SUFFICES ASSUME NEW i \in 1..n
                   PROVE  ValidAddr(p, h[i]) /\ Rank(h[i]) \in Nat /\ Rank(h[i]) >= 1
        OBVIOUS
      <3>1. ValidAddr(p, h[i])
        BY DEF Chain
      <3>2. h[i] \in Addr /\ h[i][1] >= 1 /\ h[i][2] >= 1
        BY <3>1, ValidFacts
      <3>3. Rank(h[i]) \in Nat /\ Rank(h[i]) >= h[i][2] /\ h[i][2] \in Nat
        BY <3>2, RankFacts DEF Addr
      <3> QED BY <3>1, <3>2, <3>3
    <2>2. ASSUME NEW i \in 1..n, i - 1 \in G PROVE i \in G
      <3>1. CASE i = 1
        BY <2>1, <3>1
      <3>2. CASE i # 1
        <4>1. i - 1 \in 1..n /\ i - 1 <= Rank(h[i - 1]) /\ i - 1 < i
          BY <2>2, <3>2
        <4>2. Rank(h[i - 1]) < Rank(h[i])
          BY <4>1 DEF Chain
        <4> QED BY <2>1, <4>1, <4>2
      <3> QED BY <3>1, <3>2
    <2>3. 0 \in G
      OBVIOUS
    <2> HIDE DEF G
    <2>4. \A i \in 0..n : i \in G
      BY ONLY <2>2, <2>3, n \in Nat, IndexInduction
    <2>5. n \in 1..n
      BY <1>2
    <2>6. n <= Rank(h[n])
      BY <2>4, <2>5 DEF G
    <2>7. PICK z : z = h[n] /\ ValidAddr(p, z)
      BY <2>1, <2>5
    <2>8. z \in Addr /\ z[1] \in 1..Len(p) /\ z[2] \in 1..Len(p[z[1]])
      BY <2>7 DEF ValidAddr
    <2>9. z[1] >= 1 /\ z[2] <= PerPage
      <3>1. Len(p[z[1]]) \in 1..PerPage
        BY <2>8, PagesFacts
      <3>2. PICK k \in Nat : k = PerPage
        BY SizeAssumption
      <3> QED BY <2>8, <3>1, <3>2
    <2>10. Rank(z) <= z[1] * PerPage
      BY <2>8, <2>9, RankFacts
    <2>11. PICK a \in Nat, b \in Nat, k \in Nat : a = z[1] /\ b = Len(p) /\ k = PerPage
      <3>1. z[1] \in Nat /\ Len(p) \in Nat /\ PerPage \in Nat
        <4>1. z[1] \in Nat
          BY ONLY <2>8 DEF Addr
        <4>2. Len(p) \in Nat
          BY PagesFacts
        <4> QED BY <4>1, <4>2, SizeAssumption
      <3> QED BY ONLY <3>1
    <2>12. a * k <= b * k
      <3>1. a <= b
        BY <2>8, <2>11
      <3> QED BY <3>1
    <2>13. a * k \in Nat /\ b * k \in Nat
      OBVIOUS
    <2>14. Rank(z) \in Nat
      BY <2>7, RankIsNat
    <2> QED BY <2>6, <2>7, <2>10, <2>11, <2>12, <2>13, <2>14
  <1> QED BY <1>1, <1>2

\* Where a list of m tuples begins.
FirstOf(h, m) == IF m = 0 THEN NoAddr ELSE h[1]
Read(h, ts, m) == [k \in 1..m |-> Linked(ts[k], NextOf(h, m, k))]

LEMMA ReadListReads ==
    ASSUME NEW T, Tuples(T), NEW p, IsPages(T, p), NEW h, NEW ts, NEW m \in Nat,
           Chain(p, h, ts, m), \A k \in 1..m : ts[k] \in T
    PROVE  ReadList(p, FirstOf(h, m)) = Read(h, ts, m)
  <1> DEFINE start == FirstOf(h, m)
             N == Len(p) * PerPage
             Step(a) == IF a = NoAddr THEN a ELSE p[a[1]][a[2]].next
             Def(f) == [i \in 0..N |-> IF i = 0 THEN start
                                       ELSE LET a == f[i - 1] IN IF a = NoAddr THEN a ELSE p[a[1]][a[2]].next]
             addr == CHOOSE f : f = Def(f)
             ends == {i \in 0..N : addr[i] = NoAddr}
  <1>1. PICK n \in Nat : n = N /\ m <= n
    <2>1. N \in Nat
      BY PagesFacts, SizeAssumption
    <2>2. m <= N
      BY RanksCount
    <2> QED BY <2>1, <2>2
  <1>2. ReadList(p, start) =
          [i \in 1..(IF ends = {} THEN N ELSE MinOf(ends)) |-> p[addr[i - 1][1]][addr[i - 1][2]]]
    BY DEF ReadList
  <1>3. \A f : Def(f) = [i \in 0..n |-> IF i = 0 THEN start ELSE Step(f[i - 1])]
    BY <1>1
  <1> HIDE DEF start, N, Def
  <1> DEFINE w == [i \in 0..n |-> IF i < m THEN h[i + 1] ELSE NoAddr]
  <1>4. \A i \in 0..n : w[i] = IF i < m THEN h[i + 1] ELSE NoAddr
    OBVIOUS
  <1>5. w = [i \in 0..n |-> w[i]] /\ 0 \in 0..n
    OBVIOUS
  <1> HIDE DEF w
  <1>6. w[0] = start
    BY <1>4, <1>5 DEF start, FirstOf
  <1>7. ASSUME NEW k \in 1..m
        PROVE  /\ ValidAddr(p, h[k]) /\ h[k] # NoAddr
               /\ p[h[k][1]][h[k][2]] = Linked(ts[k], NextOf(h, m, k))
               /\ p[h[k][1]][h[k][2]].next = NextOf(h, m, k)
    <2>1. ValidAddr(p, h[k]) /\ TupleAt(p, h[k]) = Linked(ts[k], NextOf(h, m, k))
      BY DEF Chain
    <2>2. h[k] # NoAddr
      BY <2>1, ValidFacts
    <2>3. "next" \in DOMAIN ts[k]
      BY DEF Tuples
    <2>4. Linked(ts[k], NextOf(h, m, k)).next = NextOf(h, m, k)
      BY <2>3, LinkedFields
    <2> QED BY <2>1, <2>2, <2>4 DEF TupleAt
  <1>8. ASSUME NEW i \in 1..n PROVE w[i] = Step(w[i - 1])
    <2>1. i \in 0..n /\ i - 1 \in 0..n /\ (i - 1) + 1 = i
      OBVIOUS
    <2>2. CASE i - 1 < m
      <3>1. i \in 1..m
        BY <2>2
      <3>2. w[i - 1] = h[i]
        BY <1>4, <2>1, <2>2
      <3>3. Step(h[i]) = NextOf(h, m, i)
        BY <1>7, <3>1
      <3>4. w[i] = NextOf(h, m, i)
        BY <1>4, <2>1 DEF NextOf
      <3> HIDE DEF Step
      <3> QED BY <3>2, <3>3, <3>4
    <2>3. CASE ~(i - 1 < m)
      <3>1. ~(i < m)
        BY <2>3
      <3> QED BY <1>4, <2>1, <2>3, <3>1
    <2> QED BY <2>2, <2>3
  <1> HIDE DEF Step
  <1>9. \A i \in 0..n : i = 0 \/ i \in 1..n
    OBVIOUS
  <1>10. w = Def(w)
    <2>1. \A i \in 0..n : w[i] = IF i = 0 THEN start ELSE Step(w[i - 1])
      BY <1>6, <1>8, <1>9
    <2>2. w = [i \in 0..n |-> IF i = 0 THEN start ELSE Step(w[i - 1])]
      BY ONLY <1>5, <2>1
    <2> QED BY ONLY <1>3, <2>2
  <1>11. addr = Def(addr)
    BY <1>10
  <1> HIDE DEF addr
  <1>12. PICK f : f = addr
    OBVIOUS
  <1>13. f[0] = start /\ \A i \in 1..n : f[i] = Step(f[i - 1])
    <2>1. f = [i \in 0..n |-> IF i = 0 THEN start ELSE Step(f[i - 1])]
      BY <1>3, <1>11, <1>12
    <2>2. \A i \in 0..n : f[i] = IF i = 0 THEN start ELSE Step(f[i - 1])
      BY ONLY <2>1
    <2>3. \A i \in 1..n : i \in 0..n /\ i # 0
      OBVIOUS
    <2> QED BY <1>5, <2>2, <2>3
  <1>14. \A i \in 0..n : f[i] = w[i]
    <2>1. PICK g : g = w
      OBVIOUS
    <2>2. Alike(n, f, g)
      BY <1>6, <1>8, <1>13, <2>1 DEF Alike
    <2>3. \A i \in 0..n : f[i] = g[i]
      BY ONLY <2>2, SameSteps
    <2> QED BY <2>1, <2>3
  <1>15. \A i \in 0..n : addr[i] = IF i < m THEN h[i + 1] ELSE NoAddr
    BY <1>4, <1>12, <1>14
  <1>16. ends # {} /\ MinOf(ends) = m
    <2>1. m \in ends
      BY <1>1, <1>15
    <2>2. ASSUME NEW i \in ends PROVE m <= i
      <3>1. i \in 0..n /\ addr[i] = NoAddr
        BY <1>1
      <3>2. CASE i < m
        <4>1. i + 1 \in 1..m
          BY <3>1, <3>2
        <4> QED BY <1>7, <1>15, <3>1, <3>2, <4>1
      <3> QED BY <3>1, <3>2
    <2>3. ends \in SUBSET Nat
      BY <1>1
    <2> HIDE DEF ends
    <2> QED BY <2>1, <2>2, <2>3, MinIs
  <1>17. ReadList(p, start) = [i \in 1..m |-> p[addr[i - 1][1]][addr[i - 1][2]]]
    <2> HIDE DEF ends
    <2> QED BY <1>2, <1>16
  <1>18. \A i \in 1..m : p[addr[i - 1][1]][addr[i - 1][2]] = Linked(ts[i], NextOf(h, m, i))
    <2> SUFFICES ASSUME NEW i \in 1..m
                 PROVE  p[addr[i - 1][1]][addr[i - 1][2]] = Linked(ts[i], NextOf(h, m, i))
      OBVIOUS
    <2>1. i - 1 \in 0..n /\ i - 1 < m /\ (i - 1) + 1 = i
      BY <1>1
    <2>2. addr[i - 1] = h[i]
      BY <1>15, <2>1
    <2> QED BY <1>7, <2>2
  <1>19. Read(h, ts, m) = [i \in 1..m |-> p[addr[i - 1][1]][addr[i - 1][2]]]
    BY <1>18 DEF Read
  <1> QED BY <1>17, <1>19 DEF start

\* A list whose tuples have been written reads back as these tuples, linked.
ReadsTuples(ts, rs, m) ==
    \E h : rs = Read(h, ts, m)

LEMMA ListReads ==
    ASSUME NEW T, Tuples(T), NEW p, NEW w, NEW ts, NEW n \in Nat, ListOf(T, p, w, ts, n),
           \A k \in 1..n : ts[k] \in T
    PROVE  ReadsTuples(ts, ReadList(w.pages, w.first), n)
  <1>1. PICK h : Begins(p, w, ts, n, h)
    BY DEF ListOf
  <1>2. Chain(w.pages, h, ts, n) /\ IsPages(T, w.pages)
    BY <1>1 DEF Begins, ListOf
  <1>3. w.first = FirstOf(h, n)
    <2>1. n = 0 \/ n > 0
      OBVIOUS
    <2> QED BY <1>1, <2>1 DEF Begins, FirstOf
  <1>4. ReadList(w.pages, FirstOf(h, n)) = Read(h, ts, n)
    BY <1>2, ReadListReads
  <1> QED BY <1>3, <1>4 DEF ReadsTuples

(***************************************************************************)
(* Postings in pieces.                                                     *)
(***************************************************************************)

\* Pieces of the first i elements of s.
Cuts(T, s, k, p, i) ==
    /\ p \in Lists(T) /\ Len(Flat(p)) = i /\ \A j \in 1..i : Flat(p)[j] = s[j]
    /\ \A j \in 1..Len(p) : p[j] # <<>> /\ Len(p[j]) <= k

LEMMA FilledPieces ==
    ASSUME NEW T, NEW k \in Nat \ {0}, NEW p \in Lists(T), NEW x \in T,
           \A j \in 1..Len(p) : p[j] # <<>> /\ Len(p[j]) <= k
    PROVE  \A j \in 1..Len(Fill(p, x, k)) : Fill(p, x, k)[j] # <<>> /\ Len(Fill(p, x, k)[j]) <= k
  <1>1. Len(p) \in Nat /\ \A j \in 1..Len(p) : p[j] \in Seq(T)
    BY ListsFacts
  <1>2. <<x>> \in Seq(T) /\ Len(<<x>>) = 1 /\ <<x>> # <<>>
    OBVIOUS
  <1>3. CASE p = <<>> \/ Len(p[Len(p)]) = k
    <2>1. PICK q : q = Append(p, <<x>>)
      OBVIOUS
    <2>2. /\ q \in Lists(T) /\ Len(q) = Len(p) + 1 /\ q[Len(p) + 1] = <<x>>
          /\ \A i \in 1..Len(p) : q[i] = p[i]
      <3>1. PICK y \in Seq(T) : y = <<x>>
        BY <1>2
      <3>2. /\ Append(p, y) \in Lists(T) /\ Len(Append(p, y)) = Len(p) + 1
            /\ Append(p, y)[Len(p) + 1] = y /\ \A i \in 1..Len(p) : Append(p, y)[i] = p[i]
        BY ONLY y \in Seq(T), p \in Lists(T), ListsAppend
      <3> QED BY ONLY <2>1, <3>1, <3>2, Zenon
    <2>3. Fill(p, x, k) = q
      BY <1>3, <2>1 DEF Fill
    <2>4. \A j \in 1..Len(q) : j \in 1..Len(p) \/ j = Len(p) + 1
      BY ONLY <1>1, <2>2
    <2>5. \A j \in 1..Len(q) : q[j] # <<>> /\ Len(q[j]) <= k
      <3> TAKE j \in 1..Len(q)
      <3>1. PICK y : y = <<x>>
        OBVIOUS
      <3>2. y # <<>> /\ Len(y) <= k
        BY <1>2, <3>1
      <3> QED BY ONLY <2>2, <2>4, <3>1, <3>2, j \in 1..Len(q), Zenon,
                 \A i \in 1..Len(p) : p[i] # <<>> /\ Len(p[i]) <= k
    <2> QED BY <2>3, <2>5
  <1>4. CASE ~(p = <<>> \/ Len(p[Len(p)]) = k)
    <2>1. PICK q : q = [p EXCEPT ![Len(p)] = Append(@, x)]
      OBVIOUS
    <2>2. ExtendOf(T, p, x, q)
      BY ONLY p \in Lists(T), x \in T, <1>4, <2>1 DEF ExtendOf
    <2>3. /\ q \in Lists(T) /\ Len(q) = Len(p) /\ q[Len(p)] = Append(p[Len(p)], x)
          /\ p[Len(p)] \in Seq(T) /\ \A i \in 1..Len(p) - 1 : q[i] = p[i]
      BY ONLY <2>2, ListsExtended
    <2>4. Fill(p, x, k) = q
      BY ONLY <1>4, <2>1 DEF Fill
    <2>5. PICK n \in Nat : n = Len(p) /\ n >= 1
      <3>1. p = <<>> <=> Len(p) = 0
        BY ListsFacts
      <3> QED BY <1>1, <1>4, <3>1
    <2>6. q[n] # <<>> /\ Len(q[n]) <= k
      <3>1. PICK a \in Seq(T) : a = p[n] /\ Len(a) <= k /\ Len(a) # k
        <4>1. n \in 1..Len(p)
          BY <2>5
        <4> QED BY <1>1, <1>4, <2>5, <4>1
      <3>2. Append(a, x) # <<>> /\ Len(Append(a, x)) <= k
        BY ONLY a \in Seq(T), x \in T, k \in Nat \ {0}, <3>1
      <3> QED BY ONLY <2>3, <2>5, <3>1, <3>2
    <2>7. \A j \in 1..n : j \in 1..n - 1 \/ j = n
      BY <2>5
    <2>8. \A j \in 1..n : q[j] # <<>> /\ Len(q[j]) <= k
      <3> TAKE j \in 1..n
      <3> QED BY ONLY <2>3, <2>5, <2>6, <2>7, j \in 1..n, Zenon,
                 \A i \in 1..Len(p) : p[i] # <<>> /\ Len(p[i]) <= k
    <2> QED BY ONLY <2>3, <2>4, <2>5, <2>8
  <1> QED BY <1>3, <1>4

LEMMA CutStep ==
    ASSUME NEW T, NEW s \in Seq(T), NEW k \in Nat \ {0}, NEW i \in 1..Len(s), NEW p,
           Cuts(T, s, k, p, i - 1)
    PROVE  Cuts(T, s, k, Fill(p, s[i], k), i)
  <1>1. PICK x \in T : x = s[i]
    OBVIOUS
  <1>2. /\ p \in Lists(T) /\ Len(Flat(p)) = i - 1 /\ \A j \in 1..i - 1 : Flat(p)[j] = s[j]
        /\ \A j \in 1..Len(p) : p[j] # <<>> /\ Len(p[j]) <= k
    BY DEF Cuts
  <1>3. PICK q : q = Fill(p, x, k)
    OBVIOUS
  <1>4. q \in Lists(T) /\ Flat(q) = Append(Flat(p), x)
    BY ONLY <1>2, <1>3, x \in T, FillFacts
  <1>5. \A j \in 1..Len(q) : q[j] # <<>> /\ Len(q[j]) <= k
    BY ONLY <1>2, <1>3, x \in T, k \in Nat \ {0}, FilledPieces
  <1>6. PICK a : a = Flat(p) /\ a \in Seq(T)
    BY ONLY <1>2, FlatJoins
  <1>7. Len(Append(a, x)) = i /\ \A j \in 1..i : Append(a, x)[j] = s[j]
    BY <1>1, <1>2, <1>6
  <1>8. Len(Flat(q)) = i /\ \A j \in 1..i : Flat(q)[j] = s[j]
    BY ONLY <1>4, <1>6, <1>7
  <1>9. Cuts(T, s, k, q, i)
    BY ONLY <1>4, <1>5, <1>8 DEF Cuts
  <1> QED BY ONLY <1>1, <1>3, <1>9

\* The pieces of a sequence are not empty, none is longer than k, and one after
\* the other they are the sequence.
LEMMA PiecesFacts ==
    ASSUME NEW T, NEW s \in Seq(T), NEW k \in Nat \ {0}
    PROVE  /\ Pieces(s, k) \in Lists(T) /\ Flat(Pieces(s, k)) = s
           /\ \A j \in 1..Len(Pieces(s, k)) : Pieces(s, k)[j] # <<>> /\ Len(Pieces(s, k)[j]) <= k
  <1> DEFINE n == Len(s)
             Def(f) == [i \in 0..n |-> IF i = 0 THEN <<>> ELSE Fill(f[i - 1], s[i], k)]
             cut == CHOOSE f : f = Def(f)
             U == [i \in 0..n |-> {p \in Lists(T) : Cuts(T, s, k, p, i)}]
             G == [i \in 1..n |-> [p \in U[i - 1] |-> Fill(p, s[i], k)]]
  <1>1. n \in Nat
    OBVIOUS
  <1>2. Pieces(s, k) = cut[n]
    BY DEF Pieces
  <1>3. \A i \in 0..n : \A p : p \in U[i] <=> Cuts(T, s, k, p, i)
    BY DEF Cuts
  <1>4. U \in [0..n -> SUBSET Lists(T)]
    OBVIOUS
  <1>5. Cuts(T, s, k, <<>>, 0)
    <2>1. <<>> \in Lists(T) /\ Len(<<>>) = 0
      BY DEF Lists
    <2> QED BY ONLY <2>1, FlatEmpty DEF Cuts
  <1>6. ASSUME NEW i \in 1..n, NEW p, Cuts(T, s, k, p, i - 1) PROVE Cuts(T, s, k, Fill(p, s[i], k), i)
    BY <1>6, CutStep
  <1> HIDE DEF n, U
  <1>7. \A i \in 0..n : i = 0 \/ i \in 1..n
    BY <1>1
  <1>8. \A i \in 1..n : i - 1 \in 0..n /\ i \in 0..n
    BY <1>1
  <1>9. <<>> \in U[0]
    <2>1. 0 \in 0..n
      BY <1>1
    <2> QED BY ONLY <1>3, <1>5, <2>1
  <1>10. \A i \in 1..n : G[i] \in [U[i - 1] -> U[i]]
    <2> SUFFICES ASSUME NEW i \in 1..n, NEW p \in U[i - 1] PROVE Fill(p, s[i], k) \in U[i]
      OBVIOUS
    <2> QED BY ONLY i \in 1..n, p \in U[i - 1], <1>3, <1>6, <1>8
  <1>11. \A i \in 1..n : \A p \in U[i - 1] : G[i][p] = Fill(p, s[i], k)
    OBVIOUS
  <1> HIDE DEF G
  <1>12. PICK h : Staged(n, U, <<>>, G, h)
    <2>1. Stages(Lists(T), n, U, <<>>, G)
      BY ONLY <1>1, <1>4, <1>9, <1>10 DEF Stages
    <2> QED BY ONLY <2>1, StagesExist
  <1>13. /\ h = [i \in 0..n |-> h[i]] /\ h[0] = <<>>
         /\ \A i \in 1..n : h[i] = G[i][h[i - 1]]
         /\ \A i \in 0..n : h[i] \in U[i]
    BY ONLY <1>12 DEF Staged
  <1>14. \A i \in 1..n : h[i] = Fill(h[i - 1], s[i], k)
    BY ONLY <1>8, <1>11, <1>13
  <1>15. \A f : Def(f) = [i \in 0..n |-> IF i = 0 THEN <<>> ELSE Fill(f[i - 1], s[i], k)]
    OBVIOUS
  <1>16. h = Def(h)
    <2>1. \A i \in 0..n : h[i] = IF i = 0 THEN <<>> ELSE Fill(h[i - 1], s[i], k)
      BY ONLY <1>7, <1>13, <1>14
    <2> HIDE DEF Def
    <2> QED BY ONLY <1>13, <1>15, <2>1
  <1>17. cut = Def(cut)
    <2> HIDE DEF Def
    <2> QED BY <1>16
  <1> HIDE DEF cut, Def
  <1>18. PICK f : f = cut
    OBVIOUS
  <1>19. f[0] = <<>> /\ \A i \in 1..n : f[i] = Fill(f[i - 1], s[i], k)
    <2>1. f = [i \in 0..n |-> IF i = 0 THEN <<>> ELSE Fill(f[i - 1], s[i], k)]
      BY ONLY <1>15, <1>17, <1>18
    <2>2. \A i \in 0..n : f[i] = IF i = 0 THEN <<>> ELSE Fill(f[i - 1], s[i], k)
      BY ONLY <2>1
    <2>3. 0 \in 0..n /\ \A i \in 1..n : i \in 0..n /\ i # 0
      BY <1>1
    <2> QED BY ONLY <2>2, <2>3
  <1>20. Alike(n, f, h)
    BY ONLY <1>1, <1>13, <1>14, <1>19 DEF Alike
  <1>21. f[n] = h[n] /\ n \in 0..n
    <2>1. \A i \in 0..n : f[i] = h[i]
      BY ONLY <1>20, SameSteps
    <2>2. n \in 0..n
      BY <1>1
    <2> QED BY ONLY <2>1, <2>2
  <1>22. PICK p : p = Pieces(s, k) /\ Cuts(T, s, k, p, n)
    BY ONLY <1>2, <1>3, <1>13, <1>18, <1>21
  <1>23. p \in Lists(T) /\ \A j \in 1..Len(p) : p[j] # <<>> /\ Len(p[j]) <= k
    BY ONLY <1>22 DEF Cuts
  <1>24. PICK a \in Seq(T) : a = Flat(p)
    BY ONLY <1>23, FlatJoins
  <1>25. Len(a) = Len(s) /\ \A j \in 1..Len(s) : a[j] = s[j]
    BY ONLY <1>22, <1>24 DEF Cuts, n
  <1>26. a = s
    BY ONLY <1>25, a \in Seq(T), s \in Seq(T), SameSeq
  <1> QED BY ONLY <1>22, <1>23, <1>24, <1>26

LEMMA PiecesAscend ==
    ASSUME NEW s, Ascending(s), NEW k \in Nat \ {0}, NEW i \in 1..Len(Pieces(s, k))
    PROVE  Ascending(Pieces(s, k)[i])
  <1>1. s \in Seq(Posting) /\ \A j \in 2..Len(s) : s[j - 1].node <= s[j].node
    BY DEF Ascending
  <1>2. PICK c : c = Pieces(s, k)
    OBVIOUS
  <1>3. c \in Lists(Posting) /\ Flat(c) = s /\ \A j \in 1..Len(c) : c[j] # <<>>
    BY ONLY <1>1, <1>2, k \in Nat \ {0}, PiecesFacts
  <1>4. PICK f \in [0..Len(c) -> Seq(Posting)] : Joins(c, f)
    BY ONLY <1>3, FlatJoins
  <1>5. StandInFlat(c, f)
    <2>1. JoinsOf(Posting, c, f)
      BY <1>3, <1>4 DEF JoinsOf
    <2> QED BY ONLY <2>1, JoinsPlaces
  <1>6. Len(c) \in Nat /\ c[i] \in Seq(Posting)
    BY <1>2, <1>3, ListsFacts
  <1>7. PICK a \in Seq(Posting) : a = c[i] /\ a # <<>>
    BY <1>2, <1>3, <1>6
  <1>8. PICK q \in Nat : q = Len(f[i - 1])
    <2>1. f[i - 1] \in Seq(Posting)
      <3>1. i \in 1..Len(c)
        BY <1>2
      <3>2. i - 1 \in 0..Len(c)
        BY ONLY <1>6, <3>1
      <3> QED BY <1>4, <3>2
    <2> QED BY ONLY <2>1
  <1>9. \A j \in 1..Len(a) : q + j <= Len(s) /\ s[q + j] = a[j]
    <2>1. i \in 1..Len(c)
      BY <1>2
    <2> QED BY ONLY <1>3, <1>5, <1>7, <1>8, <2>1 DEF StandInFlat
  <1>10. \A j \in 2..Len(a) : a[j - 1].node <= a[j].node
    <2> TAKE j \in 2..Len(a)
    <2>1. j \in 1..Len(a) /\ j - 1 \in 1..Len(a) /\ q + (j - 1) = (q + j) - 1 /\ q + j >= 2
      BY <1>7, <1>8
    <2>2. s[q + j] = a[j] /\ s[(q + j) - 1] = a[j - 1] /\ q + j <= Len(s)
      <3>1. s[q + (j - 1)] = a[j - 1]
        BY ONLY <1>9, <2>1
      <3> QED BY ONLY <1>9, <2>1, <3>1
    <2>3. Len(s) \in Nat
      BY ONLY <1>1
    <2>4. q + j \in 2..Len(s)
      BY ONLY <2>1, <2>2, <2>3, q \in Nat, j \in 2..Len(a)
    <2> QED BY ONLY <1>1, <2>2, <2>4
  <1>11. Ascending(a)
    BY <1>7, <1>10 DEF Ascending
  <1> QED BY ONLY <1>2, <1>7, <1>11

\* What pages of postings hold: the tuples of chunks in node order.
Chunk == {s \in Seq(Posting) : Ascending(s)}
ChunkTuples == {Linked(PostingsTuple(s), a) : s \in Chunk, a \in Addr}
PostingsPages(p) == IsPages(ChunkTuples, p)

LEMMA ChunkTupleFacts ==
    ASSUME NEW s, Ascending(s)
    PROVE  /\ PostingsTuple(s) \in ChunkTuples
           /\ Linked(PostingsTuple(s), NoAddr) = PostingsTuple(s)
           /\ \A a : Decode(Linked(PostingsTuple(s), a)) = s
  <1>1. s \in Chunk
    BY DEF Chunk, Ascending
  <1>2. NoAddr \in Addr
    BY DEF NoAddr, Addr
  <1>3. Linked(PostingsTuple(s), NoAddr) = PostingsTuple(s)
    <2>1. PICK b, c, d, e, f, g, h, i :
            PostingsTuple(s) = [count |-> b, encoding |-> c, payload |-> d, first |-> e, last |-> f,
                                next |-> NoAddr, maxTf |-> g, norms |-> h, maxNorm |-> i]
      BY Zenon DEF PostingsTuple
    <2> QED BY ONLY <2>1 DEF Linked
  <1>4. ASSUME NEW a PROVE Decode(Linked(PostingsTuple(s), a)) = s
    <2>1. HoldsPostings(PostingsTuple(s), s)
      BY DEF HoldsPostings, PostingsTuple
    <2>2. {"count", "encoding", "payload", "first"} \subseteq DOMAIN PostingsTuple(s)
      BY DEF PostingsTuple
    <2>3. PICK t : t = Linked(PostingsTuple(s), a)
      OBVIOUS
    <2>4. /\ t.count = PostingsTuple(s).count /\ t.encoding = PostingsTuple(s).encoding
          /\ t.payload = PostingsTuple(s).payload /\ t.first = PostingsTuple(s).first
      BY <2>2, <2>3, LinkedFields
    <2>5. HoldsPostings(t, s)
      BY <2>1, <2>4 DEF HoldsPostings
    <2> QED BY <2>3, <2>5, TuplesReadBack
  <1>5. PostingsTuple(s) \in ChunkTuples
    BY <1>1, <1>2, <1>3 DEF ChunkTuples
  <1> QED BY <1>3, <1>4, <1>5

LEMMA ChunkTuplesLink == Tuples(ChunkTuples)
  <1> SUFFICES ASSUME NEW x \in ChunkTuples
               PROVE  "next" \in DOMAIN x /\ \A a \in Addr : Linked(x, a) \in ChunkTuples
    BY DEF Tuples
  <1>1. PICK s \in Chunk, b \in Addr : x = Linked(PostingsTuple(s), b)
    BY DEF ChunkTuples
  <1>2. "next" \in DOMAIN PostingsTuple(s)
    BY DEF PostingsTuple
  <1>3. "next" \in DOMAIN x
    BY <1>1, <1>2, LinkedFields
  <1>4. \A a \in Addr : Linked(x, a) = Linked(PostingsTuple(s), a)
    BY <1>1, LinkedTwice
  <1> QED BY <1>3, <1>4 DEF ChunkTuples

\* A list that begins at first on pages p is read as the postings s.
ReadsAs(p, first, s) ==
    LET ts == ReadList(p, first) IN Flat([i \in 1..Len(ts) |-> Decode(ts[i])]) = s

LEMMA KeptChain ==
    ASSUME NEW p, NEW q, Keeps(p, q), NEW h, NEW ts, NEW n, Chain(p, h, ts, n)
    PROVE  Chain(q, h, ts, n)
  BY DEF Keeps, Chain

LEMMA TuplesOfPieces ==
    ASSUME NEW s, Ascending(s)
    PROVE  /\ Appendable(ChunkTuples, PostingsTuples(s))
           /\ Len(PostingsTuples(s)) = Len(Pieces(s, MaxPerChunk))
           /\ \A i \in 1..Len(PostingsTuples(s)) :
                PostingsTuples(s)[i] = PostingsTuple(Pieces(s, MaxPerChunk)[i])
  <1>1. PICK c : c = Pieces(s, MaxPerChunk)
    OBVIOUS
  <1>2. MaxPerChunk \in Nat \ {0}
    BY SizeAssumption
  <1>3. c \in Lists(Posting) /\ \A i \in 1..Len(c) : Ascending(c[i])
    <2>1. s \in Seq(Posting)
      BY DEF Ascending
    <2> QED BY <1>1, <1>2, <2>1, PiecesFacts, PiecesAscend
  <1>4. PICK n \in Nat : n = Len(c)
    BY ONLY <1>3, ListsFacts
  <1>5. PostingsTuples(s) = [i \in 1..n |-> PostingsTuple(c[i])]
    BY <1>1, <1>4 DEF PostingsTuples
  <1>6. \A i \in 1..n : PostingsTuple(c[i]) \in ChunkTuples
                        /\ Linked(PostingsTuple(c[i]), NoAddr) = PostingsTuple(c[i])
    BY <1>3, <1>4, ChunkTupleFacts
  <1>7. PICK ts \in Seq(ChunkTuples) : ts = PostingsTuples(s) /\ Len(ts) = n /\
                                       \A i \in 1..n : ts[i] = PostingsTuple(c[i])
    BY ONLY <1>5, <1>6, n \in Nat
  <1> QED BY ONLY <1>1, <1>4, <1>6, <1>7, n \in Nat DEF Appendable

\* A term written with PgturbohybridWritePostings is read back as it was,
\* however many chunks and pages it takes and in whatever encodings, on these
\* pages and on what later terms make of them; what stood before stays.
THEOREM WrittenPostingsReadBack ==
    ASSUME NEW p, PostingsPages(p), NEW s, Ascending(s)
    PROVE  LET w == WritePostings(p, s)
           IN  /\ PostingsPages(w.pages) /\ Keeps(p, w.pages)
               /\ \A q : PostingsPages(q) /\ Keeps(w.pages, q) => ReadsAs(q, w.first, s)
  <1>1. PICK w, ts, c : w = WritePostings(p, s) /\ ts = PostingsTuples(s) /\ c = Pieces(s, MaxPerChunk)
    OBVIOUS
  <1>2. /\ Appendable(ChunkTuples, ts) /\ Len(ts) = Len(c)
        /\ \A i \in 1..Len(ts) : ts[i] = PostingsTuple(c[i])
    BY <1>1, TuplesOfPieces
  <1>3. PICK n \in Nat : n = Len(ts) /\ n = Len(c)
    BY <1>2 DEF Appendable
  <1>4. ListOf(ChunkTuples, p, w, ts, n)
    BY <1>1, <1>2, <1>3, ChunkTuplesLink, AddChunksMakeList DEF WritePostings, PostingsPages
  <1>5. PostingsPages(w.pages) /\ Keeps(p, w.pages)
    BY <1>4 DEF ListOf, PostingsPages
  <1>6. ASSUME NEW q, PostingsPages(q), Keeps(w.pages, q)
        PROVE  ReadsAs(q, w.first, s)
    <2>1. PICK h : Begins(p, w, ts, n, h)
      BY <1>4 DEF ListOf
    <2>2. Chain(q, h, ts, n)
      BY <1>6, <2>1, KeptChain DEF Begins
    <2>3. w.first = FirstOf(h, n)
      <3>1. n = 0 \/ n > 0
        OBVIOUS
      <3> QED BY <2>1, <3>1 DEF Begins, FirstOf
    <2>4. \A k \in 1..n : ts[k] \in ChunkTuples
      BY <1>2, <1>3 DEF Appendable
    <2>5. ReadList(q, FirstOf(h, n)) = Read(h, ts, n)
      BY <1>6, <2>2, <2>4, ChunkTuplesLink, ReadListReads DEF PostingsPages
    <2>6. s \in Seq(Posting) /\ MaxPerChunk \in Nat \ {0}
      BY SizeAssumption DEF Ascending
    <2>7. /\ c \in Lists(Posting) /\ Flat(c) = s
          /\ \A k \in 1..n : Ascending(c[k])
      BY <1>1, <1>3, <2>6, PiecesFacts, PiecesAscend
    <2>8. \A k \in 1..n : Decode(Linked(ts[k], NextOf(h, n, k))) = c[k]
      BY <1>2, <1>3, <2>7, ChunkTupleFacts
    <2>9. PICK rs : rs = Read(h, ts, n)
      OBVIOUS
    <2>10. Len(rs) = n /\ \A k \in 1..n : rs[k] = Linked(ts[k], NextOf(h, n, k))
      BY ONLY <2>9, n \in Nat DEF Read
    <2>11. [k \in 1..Len(rs) |-> Decode(rs[k])] = c
      <3>1. \A k \in 1..n : Decode(rs[k]) = c[k]
        BY ONLY <2>8, <2>10
      <3>2. c = [k \in 1..n |-> c[k]]
        BY ONLY <1>3, <2>7 DEF Lists
      <3> QED BY ONLY <2>10, <3>1, <3>2
    <2> QED BY ONLY <2>3, <2>5, <2>7, <2>9, <2>11 DEF ReadsAs
  <1> QED BY ONLY <1>1, <1>5, <1>6
=============================================================================

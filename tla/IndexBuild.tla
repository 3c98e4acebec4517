----------------------------- MODULE IndexBuild -----------------------------
(***************************************************************************)
(* What CREATE INDEX promises, whoever does the work: it either fails and  *)
(* leaves no index, or it writes, in one step as far as anybody can see,   *)
(* an index of exactly the rows one scan of the table returned, whose      *)
(* graph is the one the sequential algorithm builds from that scan.  How   *)
(* many workers took part and in which order they ran cannot be seen.      *)
(***************************************************************************)
EXTENDS BuildGraph

CONSTANTS Rows,          \* the heap TIDs, positive integers
          Indexable,     \* the rows whose vector is neither null nor rejected
          MaxWorkers     \* the largest worker request

VARIABLES heap,          \* the committed rows of the table
          base,          \* the rows committed when the build began
          outcome,       \* "building", "done" or "error"
          index          \* <<>>, or <<the index written>>

NoIndex == <<>>

\* The index a scan that returned ns may lead to.
IsIndexOf(ix, ns) ==
    \/ Segments <= 1 /\ Len(ns) >= 2
       /\ \E w \in 1 .. MaxWorkers : ix = WriteIndex(ns, BatchedEdges(ns, w))
    \/ ix = WriteIndex(ns, BuildEdges(ns))

\* A scan returns each row once, in TID order from any starting point.
IsScan(ns) ==
    /\ IsInjective(ns)
    /\ \E k \in 0 .. Len(ns) :
          LET t == SubSeq(ns, k + 1, Len(ns)) \o SubSeq(ns, 1, k)
          IN  \A i \in 1 .. Len(t) - 1 : t[i] < t[i + 1]

Init == /\ heap \in SUBSET Rows /\ base = heap
        /\ outcome = "building" /\ index = NoIndex

InsertRow == /\ outcome = "building"
             /\ \E r \in Rows \ heap : heap' = heap \cup {r}
             /\ UNCHANGED <<base, outcome, index>>

Succeed == /\ outcome = "building" /\ outcome' = "done"
           /\ LET ix == index'[1]
              IN  /\ index' = <<ix>> /\ IsIndexOf(ix, ix.nodes)
                  /\ IsScan(ix.nodes)
                  /\ base \cap Indexable \subseteq Range(ix.nodes)
                  /\ Range(ix.nodes) \subseteq heap \cap Indexable
           /\ UNCHANGED <<heap, base>>

Fail == /\ outcome = "building" /\ outcome' = "error"
        /\ UNCHANGED <<heap, base, index>>

Next == InsertRow \/ Succeed \/ Fail
Spec == Init /\ [][Next]_<<heap, base, outcome, index>>
=============================================================================

---- MODULE MCBm25Store ----
(* The BM25 store with one document built in, and small bounds. *)
EXTENDS Bm25Store

CONSTANTS b1, b2

BucketNoDef == [t \in Terms |-> 1]
InitDocsDef == <<{1}>>
NewDocsDef == {{1, 2}}
QueriesDef == {{1, 2}}
====

---------------------------- MODULE MCGraphIndex ----------------------------
(* Small instances of GraphIndex. *)
EXTENDS GraphIndex, TLC

CONSTANTS t1, t2, t3, t4, b1, b2

FlatLevel == [k \in 0..(MaxNodes - 1) |-> 0]
StepLevel == [k \in 0..(MaxNodes - 1) |-> IF k = 2 THEN 1 ELSE 0]
TwoRows == <<t1, t2>>
ThreeRows == <<t1, t2, t3>>

\* Backends are interchangeable; used by safety runs only.
BackendSymmetry == Permutations(Backends)

=============================================================================
